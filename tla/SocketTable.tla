---------------------------- MODULE SocketTable ----------------------------
(***************************************************************************)
(* The socket table of Hashmap.c, and the manager loop that walks over it  *)
(* while the handlers of the sockets remove, insert and rename sockets.    *)
(*                                                                         *)
(* The table is two arrays of pointers, to the Socket structures and to    *)
(* their ids.  A pointer to an id is written as the socket that owns it;   *)
(* key holds what the ids say.  An id is changed in place.                 *)
(***************************************************************************)
EXTENDS Integers, FiniteSets

CONSTANTS
    SocketRef,              \* where a Socket structure can be in memory
    Port, Dst, NoDst,       \* NoDst: empty ip and EMPTY_PORT
    Null,
    HASH_MAP_DEFAULT_SIZE,
    MaxRequests             \* bound: requests of programs and peers

Key == [port : Port, dst : Dst \union {NoDst}]
Bound(p) == [port |-> p, dst |-> NoDst]

Row == 0 .. HASH_MAP_DEFAULT_SIZE - 1

ASSUME TableAssumption ==
    /\ HASH_MAP_DEFAULT_SIZE \in Nat \ {0}
    /\ Null \notin SocketRef /\ Null \notin Key
    /\ NoDst \notin Dst
    /\ MaxRequests \in Nat

VARIABLES
    map,        \* struct HashMap_t
    key,        \* key[s]: what the id of s says, Null when s is not allocated
    syn_sent,   \* the sockets in state SYN_SENT
    current,    \* the socket sock_id of the loop belongs to; Null outside
    running,    \* managerLoop has not returned
    inserted,   \* the result of the last insertSocket
    visited,    \* history: the sockets this turn of the loop has reached
    requests    \* how many requests were made

vars == <<map, key, syn_sent, current, running, inserted, visited, requests>>

HashMap == [ table : [Row -> SocketRef \union {Null}],
             socket_id : [Row -> SocketRef \union {Null}],
             number_of_sockets : Int,
             iterator_index : Int ]

createHashMap ==
    [ table |-> [i \in Row |-> Null], socket_id |-> [i \in Row |-> Null],
      number_of_sockets |-> 0, iterator_index |-> 0 ]

LeastOf(S) == CHOOSE n \in S : \A m \in S : n <= m

----------------------------------------------------------------------------
(* Hashmap.c.  ids is the contents of all ids at the time of the call.     *)

hasKey(h, ids, k) == \E i \in Row : h.socket_id[i] # Null /\ ids[h.socket_id[i]] = k

\* Both arrays change together, and the counter with them.
SetRow(h, i, s, count) ==
    [ table |-> [h.table EXCEPT ![i] = s], socket_id |-> [h.socket_id EXCEPT ![i] = s],
      number_of_sockets |-> count, iterator_index |-> h.iterator_index ]

FreeRows(h) == {i \in Row : h.table[i] = Null}

CanInsert_AnyKey(h, ids, s) ==
    h.number_of_sockets # HASH_MAP_DEFAULT_SIZE /\ FreeRows(h) # {}

CanInsert(h, ids, s) ==
    /\ h.number_of_sockets # HASH_MAP_DEFAULT_SIZE
    /\ ~hasKey(h, ids, ids[s])
    /\ FreeRows(h) # {}

insertSocket(h, ids, s) ==
    IF CanInsert(h, ids, s)
    THEN LET j == LeastOf(FreeRows(h)) IN
         SetRow(h, j, s, h.number_of_sockets + 1)
    ELSE h

RowsOf(h, ids, k) == {i \in Row : h.table[i] # Null /\ ids[h.table[i]] = k}

getSocket(h, ids, k) ==
    IF h.number_of_sockets = 0 \/ ~hasKey(h, ids, k) \/ RowsOf(h, ids, k) = {}
    THEN Null
    ELSE h.table[LeastOf(RowsOf(h, ids, k))]

hashmapRemove_CountKept(h, ids, k) ==
    IF RowsOf(h, ids, k) = {} THEN h
    ELSE LET i == LeastOf(RowsOf(h, ids, k)) IN
         SetRow(h, i, Null, h.number_of_sockets)

hashmapRemove(h, ids, k) ==
    IF RowsOf(h, ids, k) = {} THEN h
    ELSE LET i == LeastOf(RowsOf(h, ids, k)) IN
         SetRow(h, i, Null, h.number_of_sockets - 1)

RowsFrom(h, n) == {i \in Row : n <= i /\ h.socket_id[i] # Null}

\* The position of the iterator after hashMapGetFirst and hashMapGetNext, and
\* the id it then points to (Null at the end of the table).
hashMapGetFirst(h) ==
    IF RowsFrom(h, 0) = {} THEN h ELSE [h EXCEPT !.iterator_index = LeastOf(RowsFrom(h, 0))]
FirstId(h) ==
    IF RowsFrom(h, 0) = {} THEN Null ELSE h.socket_id[LeastOf(RowsFrom(h, 0))]

AfterIterator_SkipsOne(h) == h.iterator_index + 2
AfterIterator_Stays(h) == h.iterator_index
AfterIterator(h) == h.iterator_index + 1

hashMapGetNext(h) ==
    IF h.iterator_index >= HASH_MAP_DEFAULT_SIZE THEN h
    ELSE [h EXCEPT !.iterator_index =
            IF RowsFrom(h, AfterIterator(h)) = {} THEN AfterIterator(h)
            ELSE LeastOf(RowsFrom(h, AfterIterator(h)))]
NextId(h) ==
    IF h.iterator_index >= HASH_MAP_DEFAULT_SIZE \/ RowsFrom(h, AfterIterator(h)) = {}
    THEN Null
    ELSE h.socket_id[LeastOf(RowsFrom(h, AfterIterator(h)))]

----------------------------------------------------------------------------

Init ==
    /\ map = createHashMap
    /\ key = [s \in SocketRef |-> Null]
    /\ syn_sent = {}
    /\ current = Null
    /\ running = TRUE
    /\ inserted = FALSE
    /\ visited = {}
    /\ requests = 0

(* Between two turns: the bind fifo and the in-packet fifo.                *)

BetweenTurns == running /\ current = Null

Request == requests < MaxRequests /\ requests' = requests + 1

\* A new socket at s with key k is offered to insertSocket and destroyed when
\* that refuses it.
Offer(s, k) ==
    LET ids == [key EXCEPT ![s] = k] IN
    /\ key[s] = Null
    /\ map' = insertSocket(map, ids, s)
    /\ inserted' = CanInsert(map, ids, s)
    /\ key' = IF CanInsert(map, ids, s) THEN ids ELSE key

handle_bind_request_AlsoWhileConnecting(s, p) ==
    /\ BetweenTurns /\ Request
    /\ getSocket(map, key, Bound(p)) = Null
    /\ Offer(s, Bound(p))
    /\ running' = inserted'
    /\ UNCHANGED <<syn_sent, current, visited>>

\* handle_bind_request on a free port.  insertSocket refuses when the table is
\* full, and then managerLoop returns.  While a socket of the port is in
\* SYN_SENT its end fifos have the names the new socket needs, so that
\* create_bound_socket fails (LeaveLoop).
handle_bind_request(s, p) ==
    /\ BetweenTurns /\ Request
    /\ getSocket(map, key, Bound(p)) = Null
    /\ ~\E t \in syn_sent : key[t].port = p
    /\ Offer(s, Bound(p))
    /\ running' = inserted'
    /\ UNCHANGED <<syn_sent, current, visited>>

\* handle_packet_listen: the connection of a listener on p with a client at d.
handle_packet_listen(s, p, d) ==
    /\ BetweenTurns /\ Request
    /\ getSocket(map, key, Bound(p)) # Null
    /\ Offer(s, [port |-> p, dst |-> d])
    /\ UNCHANGED <<syn_sent, current, running, visited>>

\* An answer, or a reset, ends SYN_SENT.
LeaveSynSent(s) ==
    /\ BetweenTurns
    /\ s \in syn_sent
    /\ syn_sent' = syn_sent \ {s}
    /\ UNCHANGED <<map, key, current, running, inserted, visited, requests>>

\* managerLoop returns for any other reason.
LeaveLoop ==
    /\ BetweenTurns
    /\ running' = FALSE
    /\ UNCHANGED <<map, key, syn_sent, current, inserted, visited, requests>>

\* destroyNetworkManager calls hashDestroy, which frees every socket.
hashDestroy ==
    /\ ~running
    /\ map' = createHashMap
    /\ key' = [s \in SocketRef |->
                    IF \E i \in Row : map.table[i] = s THEN Null ELSE key[s]]
    /\ syn_sent' = {}
    /\ UNCHANGED <<current, running, inserted, visited, requests>>

(* A turn: HASH_MAP_FOREACH.                                               *)

StartTurn ==
    /\ BetweenTurns
    /\ FirstId(map) # Null
    /\ map' = hashMapGetFirst(map)
    /\ current' = FirstId(map)
    /\ visited' = {FirstId(map)}
    /\ UNCHANGED <<key, syn_sent, running, inserted, requests>>

\* The body returned 0: on to the next socket, or out of the loop.
Advance ==
    /\ map' = hashMapGetNext(map)
    /\ current' = NextId(map)
    /\ visited' = IF NextId(map) = Null THEN visited ELSE visited \union {NextId(map)}

LeaveAlone ==
    /\ current # Null
    /\ Advance
    /\ UNCHANGED <<key, syn_sent, running, inserted, requests>>

\* The body returned BREAK_ITERATION.
BreakIteration ==
    /\ current' = Null
    /\ UNCHANGED visited

\* check_and_handle_connect_request: the bound socket leaves the table and
\* comes back under its new key.
ConnectSocket(d) ==
    LET k == [key[current] EXCEPT !.dst = d]
        ids == [key EXCEPT ![current] = k]
        removed == hashmapRemove(map, key, key[current])
    IN /\ current # Null /\ key[current].dst = NoDst
       /\ getSocket(map, key, k) = Null
       /\ map' = insertSocket(removed, ids, current)
       /\ inserted' = CanInsert(removed, ids, current)
       /\ key' = IF CanInsert(removed, ids, current)
                 THEN ids ELSE [key EXCEPT ![current] = Null]
       /\ syn_sent' = IF CanInsert(removed, ids, current)
                      THEN syn_sent \union {current} ELSE syn_sent
       /\ BreakIteration
       /\ UNCHANGED <<running, requests>>

\* check_and_handle_close_command on a socket in SYN_SENT changes its id in
\* place.  The table is not told.
CloseSynSent ==
    /\ current \in syn_sent
    /\ key' = [key EXCEPT ![current].dst = NoDst]
    /\ syn_sent' = syn_sent \ {current}
    /\ Advance
    /\ UNCHANGED <<running, inserted, requests>>

RemoveSocket_ForgetsRow ==
    /\ current # Null /\ current \notin syn_sent
    /\ key' = [key EXCEPT ![current] = Null]
    /\ BreakIteration
    /\ UNCHANGED <<map, syn_sent, running, inserted, requests>>

\* check_and_handle_closed_socket with remove_and_destroy_socket.
RemoveSocket ==
    /\ current # Null /\ current \notin syn_sent
    /\ map' = hashmapRemove(map, key, key[current])
    /\ key' = [key EXCEPT ![current] = Null]
    /\ BreakIteration
    /\ UNCHANGED <<syn_sent, running, inserted, requests>>

LoopStep ==
    \/ StartTurn \/ LeaveAlone \/ CloseSynSent \/ RemoveSocket
    \/ \E d \in Dst : ConnectSocket(d)

Next ==
    \/ LoopStep
    \/ LeaveLoop \/ hashDestroy
    \/ \E s \in SocketRef :
        \/ LeaveSynSent(s)
        \/ \E p \in Port :
            \/ handle_bind_request(s, p)
            \/ \E d \in Dst : handle_packet_listen(s, p, d)

Spec == Init /\ [][Next]_vars

\* managerLoop never pauses between two turns or two sockets, and main
\* destroys the manager when it returns.
FairSpec == Spec /\ WF_vars(LoopStep) /\ WF_vars(hashDestroy)

----------------------------------------------------------------------------
(* Properties.                                                             *)

InTable == {map.table[i] : i \in Row} \ {Null}

TypeOK ==
    /\ map \in HashMap
    /\ key \in [SocketRef -> Key \union {Null}]
    /\ syn_sent \subseteq SocketRef
    /\ current \in SocketRef \union {Null}
    /\ running \in BOOLEAN
    /\ inserted \in BOOLEAN
    /\ visited \subseteq SocketRef
    /\ requests \in 0 .. MaxRequests

UsedRows(h) == {i \in Row : h.table[i] # Null}

Consistent(h) ==
    /\ h.table = h.socket_id
    /\ h.number_of_sockets = Cardinality(UsedRows(h))
    /\ \A i, j \in UsedRows(h) : h.table[i] = h.table[j] => i = j

\* The two arrays and the counter tell the same story after every sequence of
\* insertions, removals and changes of keys: a row has a socket and its own id
\* or neither, number_of_sockets counts the rows in use (insertSocket trusts
\* it), and no socket is in two rows.
TableConsistent == Consistent(map)

\* No two rows have the same key, although the key of a socket is changed
\* under the table's feet when a SocketConnect is closed.
KeysDistinct == \A i, j \in UsedRows(map) :
    key[map.table[i]] = key[map.table[j]] => i = j

\* Every socket that is allocated is in the table and the other way round: no
\* handler leaks a socket, and no row points to freed memory.
NoLeak == InTable = {s \in SocketRef : key[s] # Null}

\* The body of the loop finds by its key the socket the loop is at, so that
\* what it does happens to the right socket, and removal removes that one.
LoopFindsItsSocket ==
    current # Null => /\ running
                      /\ map.socket_id[map.iterator_index] = current
                      /\ getSocket(map, key, key[current]) = current

\* Half-way through a turn, the sockets reached are those in the rows up to
\* the iterator, whatever the handlers did to the table so far.
VisitedUpToIterator ==
    current # Null => /\ map.iterator_index \in Row
                      /\ visited = {map.table[i] : i \in 0 .. map.iterator_index} \ {Null}

\* A turn leaves out a socket only when it was broken off by a handler that
\* connected or removed one.
TurnLeavesNobodyOut ==
    [][ current # Null /\ current' = Null /\ map'.table = map.table /\ key' = key
            => InTable \subseteq visited ]_vars

\* The inductive invariant of SocketTableProofs.
Pending == /\ \A s \in syn_sent : key[s] # Null
           /\ \A s \in syn_sent : \A t \in InTable : key[t] # Bound(key[s].port)
           /\ \A s, t \in syn_sent : s # t => key[s].port # key[t].port

Inv == /\ TypeOK
       /\ TableConsistent
       /\ KeysDistinct
       /\ NoLeak
       /\ Pending
       /\ LoopFindsItsSocket
       /\ VisitedUpToIterator

\* The table implements a bounded map.
Map == INSTANCE SocketMap WITH
    keyOf <- key, MaxSockets <- HASH_MAP_DEFAULT_SIZE

ImplementsSocketMap == Map!Init /\ [][Map!Next]_(Map!vars)

\* Whoever is in the table gets its turn, although every connect and every
\* removal breaks the turn off and the next one starts from the first row:
\* with finitely many requests the breaks end.
EverySocketIsServed == \A s \in SocketRef :
    s \in InTable ~> current = s \/ s \notin InTable
=============================================================================
