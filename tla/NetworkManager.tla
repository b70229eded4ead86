--------------------------- MODULE NetworkManager ---------------------------
(***************************************************************************)
(* The life of sockets: applications that bind, listen, connect, accept    *)
(* and close through the fifos of a manager, and managers that keep a      *)
(* table of sockets and exchange segments.  No user data: DataTransfer     *)
(* models the established connection.                                      *)
(*                                                                         *)
(* A call of the library that blocks until the manager answers and cannot  *)
(* be observed in between is one action; SocketConnect, SocketAccept and   *)
(* SocketClose are split where the program can be overtaken.  One action   *)
(* of a manager is one check of handle_socket_in_network for one socket,   *)
(* or one segment, in any order; timers may fire at any time.              *)
(***************************************************************************)
EXTENDS TcpSocket

CONSTANTS
    Ip, Port, NoAddr,       \* NoAddr: empty ip and EMPTY_PORT
    App,                    \* programs that use the library
    Home,                   \* Home[a]: the address a binds
    Target,                 \* Target[a]: the address a connects to, or NoAddr
    Backlog,                \* Backlog[a]: the queueLimit a listens with
    HASH_MAP_DEFAULT_SIZE,
    Granted,                \* REQUEST_GRANTED_FIFO, the answer to a connect
    Free,                   \* a row of the table without a socket
    ConnectIsn, AcceptIsn,  \* initial sequence numbers drawn by rand()
    ReuseClosed,            \* whether programs use an id again after closing it
    Restarts,               \* whether managers are terminated and started again
    MaxBinds,               \* MaxBinds[a], a bound: how often a binds
    MaxInFlight             \* bound: segments to a manager a timer adds to

Addr == [ip : Ip, port : Port]

\* struct SocketID: "src" is this side, "dst" the other.
Id == [src : Addr, dst : Addr \union {NoAddr}]

ASSUME NetworkAssumption ==
    /\ NoAddr \notin Addr /\ Granted \notin Addr
    /\ Home \in [App -> Addr] /\ Target \in [App -> Addr \union {NoAddr}]
    /\ Backlog \in [App -> Nat]
    /\ HASH_MAP_DEFAULT_SIZE \in Nat \ {0}
    /\ ConnectIsn \subseteq Nat \ {0} /\ AcceptIsn \subseteq Nat
    /\ ReuseClosed \in BOOLEAN /\ Restarts \in BOOLEAN
    /\ MaxBinds \in [App -> Nat] /\ MaxInFlight \in Nat \ {0}
    /\ Free \notin [id : Id, sock : Socket]

VARIABLES
    table,      \* table[m]: the sockets of manager m, by row
    net,        \* net[m]: envelopes in the in-packet fifo of m
    fifos,      \* the per-socket fifos that exist, as <<kind, id>>
    mgr,        \* mgr[m]: "running", "stopped", or "hung": never runs again
                \* (blocked or crashed) and leaves its fifos in place
    call,       \* call[a]: the library call a is in
    held,       \* held[a]: the SocketIDs a has
    binds       \* binds[a]: how often a bound a socket

vars == <<table, net, fifos, mgr, call, held, binds>>

Row == 1 .. HASH_MAP_DEFAULT_SIZE
Entry == [id : Id, sock : Socket]
Envelope == [src : Addr, dst : Addr, segment : Segment]
FifoKind == {"end_read", "end_write", "accept", "send", "recv"}

(* "connect": blocked until the manager takes the request; "connecting":   *)
(* polls for the answer (in both, msgs is the pipe it comes through);      *)
(* "accept": polls the accept fifo, msgs is the pipe; "close": blocked in  *)
(* open() of the end fifo; "stuck": blocked in open() of a fifo nobody     *)
(* will ever open.                                                         *)
CallOp == {"none", "connect", "connecting", "accept", "close", "stuck"}
Idle == [op |-> "none", id |-> NoAddr, msgs |-> <<>>]
Calling(op, id) == [op |-> op, id |-> id, msgs |-> <<>>]
Message == {Granted} \union Addr
Call == [op : CallOp, id : Id \union {NoAddr}, msgs : Seq(Message)]

Init ==
    /\ table = [m \in Ip |-> [r \in Row |-> Free]]
    /\ net = [m \in Ip |-> <<>>]
    /\ fifos = {}
    /\ mgr = [m \in Ip |-> "running"]
    /\ call = [a \in App |-> Idle]
    /\ held = [a \in App |-> {}]
    /\ binds = [a \in App |-> 0]

----------------------------------------------------------------------------
(* Ids, the table, fifos and segments.                                     *)

BoundId(addr) == [src |-> addr, dst |-> NoAddr]
BoundOnly(id) == id.dst = NoAddr

\* Hashmap.c: rows in use, the rows that match a key, and insertSocket.
Used(m) == {r \in Row : table[m][r] # Free}
RowsOf(m, id) == {r \in Row : table[m][r] # Free /\ table[m][r].id = id}
Present(m, id) == RowsOf(m, id) # {}
getSocket(m, id) == LeastOf(RowsOf(m, id))
Sockets(m) == {table[m][r] : r \in Used(m)}
AllSockets == UNION {Sockets(m) : m \in Ip}
CanInsert(m, id) == Used(m) # Row /\ ~Present(m, id)
insertSocket(t, entry) ==
    [t EXCEPT ![LeastOf({r \in Row : t[r] = Free})] = entry]

EndFifos(id) == {<<"end_read", id>>, <<"end_write", id>>}
DataFifos(id) == {<<"send", id>>, <<"recv", id>>}
AllFifos(id) == {<<kind, id>> : kind \in FifoKind}

CreateBoth_KeepsExisting(F, pair) == F \union pair

\* mkfifo of two names, which unlinks both when one of them exists.
CreateBoth(F, pair) == IF pair \intersect F = {} THEN F \union pair ELSE F \ pair
Creatable(pair) == pair \subseteq CreateBoth(fifos, pair)

\* Programs blocked in SocketClose(id) that a manager wakes go on to open the
\* other end fifo, and those in lost do so too early or too late to meet a
\* manager that opens it as well.
Closing(id) == {a \in App : call[a] = Calling("close", id)}
Wake(id, lost) == [a \in App |->
    IF a \in lost THEN Calling("stuck", NoAddr)
    ELSE IF a \in Closing(id) THEN Idle ELSE call[a]]

\* A program blocked in SocketClose stays blocked when its fifo is unlinked.
Orphan(calls) == [a \in App |->
    IF calls[a].op = "close" /\ <<"end_read", calls[a].id>> \notin fifos'
    THEN Calling("stuck", NoAddr) ELSE calls[a]]

\* send_TCP_packet: the fifo of a stopped manager does not exist.
CanSend(dst) == dst # NoAddr /\ mgr[dst.ip] # "stopped"
Send(n, id, dst, segments) ==
    IF CanSend(dst)
    THEN [n EXCEPT ![dst.ip] = @ \o [i \in DOMAIN segments |->
            [src |-> id.src, dst |-> dst, segment |-> segments[i]]]]
    ELSE n

\* What unlink_socket_fifos_server_side and what SocketClose unlinks.
RemovedFifos_AlsoEndRead(id) == AllFifos(id)
RemovedFifos(id) == AllFifos(id) \ {<<"end_read", id>>}
ClosedFifos_Both(id) == EndFifos(id)
ClosedFifos(id) == {<<"end_read", id>>}

\* managerLoop returns -1 and main destroys the manager: terminate and
\* unlink_and_clean_manager unlink every fifo of every socket in the table.
StopManager(m, F) ==
    /\ mgr' = [mgr EXCEPT ![m] = "stopped"]
    /\ table' = [table EXCEPT ![m] = [r \in Row |-> Free]]
    /\ net' = [net EXCEPT ![m] = <<>>]
    /\ fifos' = F \ UNION {AllFifos(table[m][r].id) : r \in Used(m)}

----------------------------------------------------------------------------
(* Library calls that the manager answers at once.                         *)

\* SocketBind and handle_bind_request.  A taken port is denied; when a fifo
\* cannot be made or the table is full the request is denied too, and the
\* manager stops.
SocketBind(a) ==
    LET m == Home[a].ip
        id == BoundId(Home[a])
    IN /\ call[a].op = "none" /\ mgr[m] = "running"
       /\ binds[a] < MaxBinds[a]
       /\ binds' = [binds EXCEPT ![a] = @ + 1]
       /\ \/ /\ Present(m, id)
             /\ UNCHANGED <<table, net, fifos, mgr, call, held>>
          \/ /\ CanInsert(m, id) /\ Creatable(EndFifos(id))
             /\ table' = [table EXCEPT ![m] = insertSocket(@,
                            [id |-> id, sock |-> NewSocket("CLOSED", 0, 0)])]
             /\ fifos' = CreateBoth(fifos, EndFifos(id))
             /\ held' = [held EXCEPT ![a] = @ \union {id}]
             /\ UNCHANGED <<net, mgr, call>>
          \/ /\ ~Present(m, id) /\ ~(CanInsert(m, id) /\ Creatable(EndFifos(id)))
             /\ StopManager(m, CreateBoth(fifos, EndFifos(id)))
             /\ call' = Orphan(call)
             /\ UNCHANGED held

\* SocketListen and check_and_handle_listen_request.  When the accept fifo
\* exists already the handler frees two of its strings twice and writes to a
\* closed descriptor: the manager dies, or goes on with the socket CLOSED.
\* On a socket that listens already nobody takes the request.
SocketListen(a, id) ==
    LET m == id.src.ip IN
    /\ call[a].op = "none" /\ mgr[m] = "running"
    /\ BoundOnly(id) /\ Present(m, id)
    /\ LET s == table[m][getSocket(m, id)].sock IN
       \/ /\ s.state # "LISTEN"
          /\ <<"accept", id>> \notin fifos
          /\ table' = [table EXCEPT ![m][getSocket(m, id)].sock =
                [s EXCEPT !.state = "LISTEN", !.max_connections = Backlog[a]]]
          /\ fifos' = fifos \union {<<"accept", id>>}
          /\ UNCHANGED <<call, mgr>>
       \/ /\ s.state # "LISTEN"
          /\ <<"accept", id>> \in fifos
          /\ \E outcome \in {"running", "hung"} : mgr' = [mgr EXCEPT ![m] = outcome]
          /\ table' = [table EXCEPT ![m][getSocket(m, id)].sock =
                [s EXCEPT !.state = "CLOSED", !.max_connections = Backlog[a]]]
          /\ UNCHANGED <<call, fifos>>
       \/ /\ s.state = "LISTEN"
          /\ call' = [call EXCEPT ![a] = Calling("stuck", NoAddr)]
          /\ UNCHANGED <<table, fifos, mgr>>
    /\ UNCHANGED <<net, held, binds>>

SocketDestroy(a, id) ==
    /\ call[a].op = "none"
    /\ held' = [held EXCEPT ![a] = @ \ {id}]
    /\ UNCHANGED <<table, net, fifos, mgr, call, binds>>

----------------------------------------------------------------------------
(* Connecting.                                                             *)

\* Programs whose connect fifos for the bound id exist.
Connectors(id) == {a \in App : call[a].op \in {"connect", "connecting"} /\ call[a].id = id}

SocketConnect(a, id) ==
    /\ call[a].op = "none" /\ BoundOnly(id) /\ Target[a] # NoAddr
    /\ Connectors(id) = {}
    /\ call' = [call EXCEPT ![a] = Calling("connect", id)]
    /\ UNCHANGED <<table, net, fifos, mgr, held, binds>>

\* The bound CLOSED socket whose connect fifos a has open.
ConnectRow(m, id) == {r \in RowsOf(m, id) : table[m][r].sock.state = "CLOSED"}

\* check_and_handle_connect_request.  When the connected id is taken the
\* request is dropped without an answer.
HandleConnectRequest(a) ==
    LET b == call[a].id
        m == b.src.ip
        c == [b EXCEPT !.dst = Target[a]]
    IN /\ call[a].op = "connect" /\ mgr[m] = "running"
       /\ call' = [call EXCEPT ![a].op = "connecting"]
       /\ \E r \in ConnectRow(m, b) :
          \/ Present(m, c) /\ UNCHANGED table
          \/ /\ ~Present(m, c)
             /\ \E isn \in ConnectIsn :
                table' = [table EXCEPT ![m] = insertSocket([@ EXCEPT ![r] = Free],
                    [id |-> c,
                     sock |-> [table[m][r].sock EXCEPT !.state = "SYN_SENT",
                                 !.send_seq = isn, !.recv_seq = 0]])]
       /\ UNCHANGED <<net, fifos, mgr, held, binds>>

\* The same handler finds the fifos of a dropped request still open, and
\* read_nonzero_message_until_char waits for a second request for ever.
HandleDroppedRequest(a) ==
    LET m == call[a].id.src.ip IN
    /\ call[a].op = "connecting" /\ mgr[m] = "running"
    /\ ConnectRow(m, call[a].id) # {}
    /\ mgr' = [mgr EXCEPT ![m] = "hung"]
    /\ UNCHANGED <<table, net, fifos, call, held, binds>>

ConnectReturn_IdSetFirst(a) ==
    LET b == call[a].id
        c == [b EXCEPT !.dst = Target[a]]
    IN /\ call[a].op = "connecting" /\ call[a].msgs # <<>>
       /\ Creatable(DataFifos(c))
       /\ call' = [call EXCEPT ![a] = Idle]
       /\ fifos' = (fifos \ EndFifos(c)) \union DataFifos(c)
       /\ held' = [held EXCEPT ![a] = (@ \ {b}) \union {c}]
       /\ UNCHANGED <<table, net, mgr, binds>>

\* SocketConnect reads the answer, drops the end fifos of the bound id and
\* makes the data fifos of the connected one.
ConnectReturn(a) ==
    LET b == call[a].id
        c == [b EXCEPT !.dst = Target[a]]
    IN /\ call[a].op = "connecting" /\ call[a].msgs # <<>>
       /\ call' = [call EXCEPT ![a] = Idle]
       /\ \/ /\ Creatable(DataFifos(c))
             /\ fifos' = (fifos \ EndFifos(b)) \union DataFifos(c)
             /\ held' = [held EXCEPT ![a] = (@ \ {b}) \union {c}]
          \/ /\ ~Creatable(DataFifos(c))
             /\ fifos' = (fifos \ DataFifos(c)) \union EndFifos(b)
             /\ UNCHANGED held
       /\ UNCHANGED <<table, net, mgr, binds>>

\* Reading an empty pipe and looking at the clock are two steps, so an answer
\* that comes between them is lost.
ConnectTimeout(a) ==
    /\ call[a].op = "connecting"
    /\ call' = [call EXCEPT ![a] = Idle]
    /\ UNCHANGED <<table, net, fifos, mgr, held, binds>>

----------------------------------------------------------------------------
(* Accepting.                                                              *)

SocketAccept(a, id) ==
    /\ call[a].op = "none" /\ BoundOnly(id) /\ <<"accept", id>> \in fifos
    /\ call' = [call EXCEPT ![a] = Calling("accept", id)]
    /\ UNCHANGED <<table, net, fifos, mgr, held, binds>>

\* Takes the first notification; closing the fifo drops the others.
AcceptReturn(a) ==
    /\ call[a].op = "accept" /\ call[a].msgs # <<>>
    /\ call' = [call EXCEPT ![a] = Idle]
    /\ LET c == [src |-> call[a].id.src, dst |-> Head(call[a].msgs)] IN
       /\ fifos' = CreateBoth(fifos, DataFifos(c))
       /\ held' = IF Creatable(DataFifos(c))
                  THEN [held EXCEPT ![a] = @ \union {c}] ELSE held
    /\ UNCHANGED <<table, net, mgr, binds>>

AcceptTimeout(a) ==
    /\ call[a].op = "accept"
    /\ call' = [call EXCEPT ![a] = Idle]
    /\ UNCHANGED <<table, net, fifos, mgr, held, binds>>

----------------------------------------------------------------------------
(* Closing.                                                                *)

\* open() of the two end fifos: blocks when there is one to open.  With no
\* end fifo left the call fails and changes nothing.
SocketClose(a, id) ==
    /\ call[a].op = "none" /\ EndFifos(id) \intersect fifos # {}
    /\ call' = [call EXCEPT ![a] =
            IF <<"end_read", id>> \in fifos THEN Calling("close", id)
            ELSE Calling("stuck", NoAddr)]
    /\ UNCHANGED <<table, net, fifos, mgr, held, binds>>

\* A client in SocketConnect has its end fifos under the bound id.
IdForFifo(entry) ==
    IF entry.sock.state = "SYN_SENT" THEN BoundId(entry.id.src) ELSE entry.id

\* check_and_handle_close_command, whatever the state of the socket, and the
\* rest of SocketClose, which unlinks the first end fifo.  According to
\* network.h the id must not be used any more; nothing in the code prevents it.
HandleCloseCommand(m, r) ==
    LET e == table[m][r] IN
    /\ mgr[m] = "running" /\ r \in Used(m)
    /\ <<"end_write", IdForFifo(e)>> \in fifos
    /\ \E lost \in SUBSET Closing(IdForFifo(e)) :
        /\ lost # Closing(IdForFifo(e))
        /\ call' = Wake(IdForFifo(e), lost)
        /\ held' = IF ReuseClosed THEN held
                   ELSE [a \in App |-> IF a \in Closing(IdForFifo(e)) \ lost
                                       THEN held[a] \ {IdForFifo(e)} ELSE held[a]]
    /\ table' = [table EXCEPT ![m][r] =
            [id |-> IdForFifo(e),
             sock |-> [e.sock EXCEPT !.state = "FIN_WAIT_1",
                                     !.send_seq = @ + Len(e.sock.send_window)]]]
    /\ fifos' = fifos \ ClosedFifos(IdForFifo(e))
    /\ UNCHANGED <<net, mgr, binds>>

\* check_and_handle_closed_socket, remove_and_destroy_socket.  It wakes a
\* program in SocketClose, which then opens the other end fifo before or
\* after it is unlinked.
HandleClosedSocket(m, r) ==
    LET e == table[m][r] IN
       /\ mgr[m] = "running" /\ r \in Used(m) /\ e.sock.state = "CLOSED"
       /\ table' = [table EXCEPT ![m][r] = Free]
       /\ fifos' = fifos \ RemovedFifos(e.id)
       /\ \E lost \in SUBSET Closing(e.id) : call' = Wake(e.id, lost)
       /\ UNCHANGED <<net, mgr, held, binds>>

----------------------------------------------------------------------------
(* Segments: handle_incoming_ip_packet and handle_packet.                  *)

\* The next envelope, its removal, and the socket it is for: the connection
\* if there is one, else the socket bound to the port.
First(m) == Head(net[m])
Popped(m) == [net EXCEPT ![m] = Tail(@)]
HasPacket(m) == mgr[m] = "running" /\ net[m] # <<>>
ConnectionId(env) == [src |-> env.dst, dst |-> env.src]
Receivers(m, env) ==
    IF Present(m, ConnectionId(env)) THEN {getSocket(m, ConnectionId(env))}
    ELSE IF Present(m, BoundId(env.dst)) THEN {getSocket(m, BoundId(env.dst))}
    ELSE {}

\* The port test of handle_packet, which only LISTEN is exempt from.
PortsMatch_Always(e, env) == TRUE
PortsMatch(e, env) == ~BoundOnly(e.id) /\ e.id.dst.port = env.src.port

IgnorePacket(m) ==
    /\ HasPacket(m)
    /\ \/ Receivers(m, First(m)) = {}
       \/ \E r \in Receivers(m, First(m)) :
            LET e == table[m][r] IN
            \/ e.sock.state = "LISTEN" /\ "SYN" \notin First(m).segment.flags
            \/ /\ e.sock.state # "LISTEN" /\ "RST" \notin First(m).segment.flags
               /\ \/ ~PortsMatch(e, First(m))
                  \/ e.sock.state \in {"CLOSED", "CLOSE_WAIT", "TIME_WAIT"}
    /\ net' = Popped(m)
    /\ UNCHANGED <<table, fifos, mgr, call, held, binds>>

HandleReset(m) ==
    /\ HasPacket(m) /\ "RST" \in First(m).segment.flags
    /\ \E r \in Receivers(m, First(m)) :
        /\ table[m][r].sock.state # "LISTEN"
        /\ table' = [table EXCEPT ![m][r].sock.state = "CLOSED"]
    /\ net' = Popped(m)
    /\ UNCHANGED <<fifos, mgr, call, held, binds>>

\* max_connections of a listener: when it refuses, and what a connection takes.
Refuses_Never(s) == FALSE
Refuses(s) == s.max_connections = 0
TakeBacklog_Keeps(s) == s
TakeBacklog(s) == [s EXCEPT !.max_connections = @ - 1]

\* handle_packet_listen.  Its src_ip argument is the manager's own ip, and the
\* RST of a full backlog goes to the empty ip, that is to nobody.
handle_packet_listen(m) ==
    /\ HasPacket(m) /\ "SYN" \in First(m).segment.flags
    /\ net' = Popped(m)
    /\ \E r \in Receivers(m, First(m)) :
        LET s == table[m][r].sock
            c == [src |-> First(m).dst, dst |-> [ip |-> m, port |-> First(m).src.port]]
        IN /\ s.state = "LISTEN"
           /\ \/ Refuses(s) /\ UNCHANGED <<table, fifos>>
              \/ /\ ~Refuses(s) /\ ~Creatable(EndFifos(c))
                 /\ fifos' = CreateBoth(fifos, EndFifos(c))
                 /\ UNCHANGED table
              \/ /\ ~Refuses(s) /\ Creatable(EndFifos(c))
                 /\ ~CanInsert(m, c)
                 /\ fifos' = fifos \ AllFifos(c)
                 /\ UNCHANGED table
              \/ /\ ~Refuses(s) /\ Creatable(EndFifos(c))
                 /\ CanInsert(m, c)
                 /\ fifos' = fifos \union EndFifos(c)
                 /\ \E isn \in AcceptIsn :
                    table' = [table EXCEPT ![m] = insertSocket(
                        [@ EXCEPT ![r].sock = TakeBacklog(s)],
                        [id |-> c, sock |-> NewSocket("SYN_RECEIVED", isn,
                                                First(m).segment.seq + 1)])]
    /\ call' = Orphan(call)
    /\ UNCHANGED <<mgr, held, binds>>

\* A segment for the connection in row r, in a state that looks at it.
ForConnection(m, r, states) ==
    /\ HasPacket(m) /\ "RST" \notin First(m).segment.flags
    /\ table[m][r] # Free /\ table[m][r].sock.state \in states
    /\ r \in Receivers(m, First(m))
    /\ PortsMatch(table[m][r], First(m))

\* handle_packet_syn_sent with notify_connect_client: makes the end fifos of
\* the connection and writes the answer into the fifo of SocketConnect, if
\* that still exists.
HandleSynSent(m, r) ==
    LET e == table[m][r]
        p == First(m).segment
        created == Creatable(EndFifos(e.id))
        Clients == Connectors(BoundId(e.id.src))
        notified == handle_packet_syn_sent(e.sock, p, created /\ Clients # {}).sock
        answered == handle_packet_syn_sent(e.sock, p, TRUE).sock # e.sock
    IN /\ ForConnection(m, r, {"SYN_SENT"})
       /\ net' = Popped(m)
       /\ table' = [table EXCEPT ![m][r].sock = notified]
       /\ fifos' = IF answered THEN CreateBoth(fifos, EndFifos(e.id)) ELSE fifos
       /\ \/ /\ notified.state = "ESTABLISHED"
             /\ \E a \in Clients : call' = [call EXCEPT ![a].msgs = Append(@, Granted)]
          \/ notified.state = "SYN_SENT" /\ call' = Orphan(call)
       /\ UNCHANGED <<mgr, held, binds>>

\* handle_packet_syn_received with notify_accept_client, which fails unless
\* a SocketAccept has the accept fifo open.
HandleSynReceived(m, r) ==
    LET e == table[m][r]
        b == BoundId(e.id.src)
        Servers == {a \in App : call[a].op = "accept" /\ call[a].id = b
                                /\ <<"accept", b>> \in fifos}
        t == handle_packet_syn_received(e.sock, First(m).segment, Servers # {}).sock
    IN /\ ForConnection(m, r, {"SYN_RECEIVED"})
       /\ net' = Popped(m)
       /\ table' = [table EXCEPT ![m][r].sock = t]
       /\ \/ /\ t.state = "ESTABLISHED"
             /\ \E a \in Servers :
                call' = [call EXCEPT ![a].msgs = Append(@, e.id.dst)]
          \/ t.state = "SYN_RECEIVED" /\ UNCHANGED call
       /\ UNCHANGED <<fifos, mgr, held, binds>>

\* The handlers that only change the socket and may reply.
HandleConnected(m, r) ==
    LET e == table[m][r]
        p == First(m).segment
        result == CASE e.sock.state = "ESTABLISHED" ->
                            handle_packet_established(e.sock, p, FALSE)
                    [] e.sock.state = "FIN_WAIT_1" -> handle_packet_fin_wait_1(e.sock, p)
                    [] e.sock.state = "FIN_WAIT_2" -> handle_packet_fin_wait_2(e.sock, p)
                    [] e.sock.state = "CLOSING" -> handle_packet_closing(e.sock, p)
                    [] e.sock.state = "LAST_ACK" -> handle_packet_last_ack(e.sock, p)
    IN /\ ForConnection(m, r, {"ESTABLISHED", "FIN_WAIT_1", "FIN_WAIT_2",
                               "CLOSING", "LAST_ACK"})
       /\ table' = [table EXCEPT ![m][r].sock = result.sock]
       /\ net' = Send(Popped(m), e.id, First(m).src, result.reply)
       /\ UNCHANGED <<fifos, mgr, call, held, binds>>

----------------------------------------------------------------------------
(* Timers: check_and_handle_send_window and the branches of                *)
(* check_and_handle_outgoing_status_messages.                              *)

InState(m, r, state) ==
    mgr[m] = "running" /\ table[m][r] # Free /\ table[m][r].sock.state = state

Emit(m, r, s, flags) ==
    net' = Send(net, table[m][r].id, table[m][r].id.dst,
                <<construct_packet(s, <<>>, flags)>>)

\* A segment resent after SOCKET_SEND_AGAIN_TIME; the state stays.  The
\* sequence number of a SYN is one less than that of the first byte.
Resend(m, r, state, flags, back) ==
    LET s == table[m][r].sock
        dst == table[m][r].id.dst
    IN /\ InState(m, r, state)
       /\ CanSend(dst) => Len(net[dst.ip]) < MaxInFlight
       /\ Emit(m, r, [s EXCEPT !.send_seq = @ - back], flags)
       /\ UNCHANGED <<table, fifos, mgr, call, held, binds>>

ResendSyn(m, r) == Resend(m, r, "SYN_SENT", {"SYN"}, 1)
ResendSynAck(m, r) == Resend(m, r, "SYN_RECEIVED", {"SYN", "ACK"}, 1)
SendWindow(m, r) == Resend(m, r, "ESTABLISHED", {"ACK"}, 0)
ResendFin(m, r) == Resend(m, r, "FIN_WAIT_1", {"FIN"}, 0)
ResendFinAck(m, r) == Resend(m, r, "LAST_ACK", {"FIN", "ACK"}, 0)

GiveUp_NotInClosing(m, r) ==
    /\ InState(m, r, "FIN_WAIT_1")
    /\ Emit(m, r, table[m][r].sock, {"RST"})
    /\ table' = [table EXCEPT ![m][r].sock.state = "TIME_WAIT"]
    /\ UNCHANGED <<fifos, mgr, call, held, binds>>

\* SOCKET_FIN_RST_TIME after the FIN.  FIN_WAIT_1 gives up even when there is
\* nobody to send to, CLOSING only when the RST was sent.
GiveUp(m, r) ==
    /\ \/ InState(m, r, "FIN_WAIT_1")
       \/ InState(m, r, "CLOSING") /\ CanSend(table[m][r].id.dst)
    /\ Emit(m, r, table[m][r].sock, {"RST"})
    /\ table' = [table EXCEPT ![m][r].sock.state = "TIME_WAIT"]
    /\ UNCHANGED <<fifos, mgr, call, held, binds>>

CloseWaitToLastAck(m, r) ==
    LET s == table[m][r].sock IN
    /\ InState(m, r, "CLOSE_WAIT")
    /\ table' = [table EXCEPT ![m][r].sock =
            [s EXCEPT !.state = "LAST_ACK", !.send_seq = @ + Len(s.send_window)]]
    /\ UNCHANGED <<net, fifos, mgr, call, held, binds>>

TimeWaitToClosed(m, r) ==
    /\ InState(m, r, "TIME_WAIT")
    /\ table' = [table EXCEPT ![m][r].sock.state = "CLOSED"]
    /\ UNCHANGED <<net, fifos, mgr, call, held, binds>>

----------------------------------------------------------------------------

(* Termination and start.                                                  *)

\* The sockets whose end fifo terminate_manager writes into: those of the ids
\* in the table, not the bound id a socket in SYN_SENT is closed by.
TerminatedIds(m) == {table[m][r].id : r \in Used(m)}

\* managerLoop finds the terminate fifo written and returns: terminate_manager
\* wakes the programs in SocketClose, and destroyNetworkManager unlinks what
\* belongs to the sockets in the table.  A SocketAccept times out.
TerminateManager(m) ==
    LET Closers == UNION {Closing(id) : id \in TerminatedIds(m)} IN
    /\ Restarts /\ mgr[m] = "running"
    /\ StopManager(m, fifos)
    /\ \E lost \in SUBSET Closers :
        call' = [a \in App |->
            IF a \in lost THEN Calling("stuck", NoAddr)
            ELSE IF a \in Closers \/ (call[a].op = "accept" /\ call[a].msgs = <<>>)
            THEN Idle ELSE call[a]]
    /\ UNCHANGED <<held, binds>>

\* createNetworkManager: after a manager that stopped the four fifos of the
\* address are free.
StartManager(m) ==
    /\ Restarts /\ mgr[m] = "stopped"
    /\ mgr' = [mgr EXCEPT ![m] = "running"]
    /\ UNCHANGED <<table, net, fifos, call, held, binds>>

\* After one that crashed or hangs they exist: the start fails, and its cleanup
\* unlinks them, but not the fifos of the sockets, whose table is lost.
StartAfterCrash(m) ==
    /\ Restarts /\ mgr[m] = "hung"
    /\ mgr' = [mgr EXCEPT ![m] = "stopped"]
    /\ table' = [table EXCEPT ![m] = [r \in Row |-> Free]]
    /\ net' = [net EXCEPT ![m] = <<>>]
    /\ UNCHANGED <<fifos, call, held, binds>>

----------------------------------------------------------------------------

AppStep(a) ==
    \/ SocketBind(a) \/ ConnectReturn(a) \/ ConnectTimeout(a)
    \/ AcceptReturn(a) \/ AcceptTimeout(a)
    \/ \E id \in held[a] :
        \/ SocketListen(a, id) \/ SocketConnect(a, id) \/ SocketAccept(a, id)
        \/ SocketClose(a, id) \/ SocketDestroy(a, id)

ResendStep(m, r) ==
    \/ ResendSyn(m, r) \/ ResendSynAck(m, r) \/ SendWindow(m, r)
    \/ ResendFin(m, r) \/ ResendFinAck(m, r)

StateStep(m, r) ==
    \/ HandleCloseCommand(m, r) \/ HandleClosedSocket(m, r)
    \/ GiveUp(m, r) \/ CloseWaitToLastAck(m, r) \/ TimeWaitToClosed(m, r)

PacketStep(m) ==
    \/ IgnorePacket(m) \/ HandleReset(m) \/ handle_packet_listen(m)
    \/ \E r \in Row : HandleSynSent(m, r) \/ HandleSynReceived(m, r)
                      \/ HandleConnected(m, r)

ManagerStep(m) ==
    \/ PacketStep(m)
    \/ \E r \in Row : StateStep(m, r) \/ ResendStep(m, r)

Next ==
    \/ \E a \in App : AppStep(a) \/ HandleConnectRequest(a) \/ HandleDroppedRequest(a)
    \/ \E m \in Ip :
        \/ ManagerStep(m)
        \/ TerminateManager(m) \/ StartManager(m) \/ StartAfterCrash(m)

Spec == Init /\ [][Next]_vars

(* The manager loop visits every socket again and again, and CPU time passes *)
(* while it does: a timer of a state that stays fires.  Nothing is assumed   *)
(* about programs, the delivery of segments or their being sent again.       *)
Fairness == \A m \in Ip : \A r \in Row : WF_vars(StateStep(m, r))

FairSpec == Spec /\ Fairness

----------------------------------------------------------------------------
(* Properties.                                                             *)

\* Every variable has its type, the sockets of a manager carry its ip, and no
\* listener accepts more often than its backlog allows (the test for
\* max_connections = 0 in handle_packet_listen).
TypeOK ==
    /\ table \in [Ip -> [Row -> Entry \union {Free}]]
    /\ \A m \in Ip : \A e \in Sockets(m) :
        /\ e.id.src.ip = m
        /\ e.sock.state = "LISTEN" => e.sock.max_connections >= 0
    /\ net \in [Ip -> Seq(Envelope)]
    /\ fifos \subseteq FifoKind \X Id
    /\ mgr \in [Ip -> {"running", "stopped", "hung"}]
    /\ call \in [App -> Call]
    /\ held \in [App -> SUBSET Id]
    /\ binds \in [App -> Nat]

\* No two sockets of a table have the same key, although the key of a socket
\* is changed in place when a SocketConnect is closed: until then nobody can
\* bind the port again, because the end fifos of the bound id still exist.
UniqueIds == \A m \in Ip : \A r1, r2 \in Used(m) :
    r1 # r2 => table[m][r1].id # table[m][r2].id

\* A listener has no partner, and a socket that takes part in a connection has
\* one, through every handshake, close and timeout.  So segments go to the empty
\* address only from a socket on its way out, or as the RST of a listener that
\* takes no more connections (the reply goes to the dst of the id it was found by).
ConnectedState == {"SYN_SENT", "SYN_RECEIVED", "ESTABLISHED", "CLOSE_WAIT",
                   "LAST_ACK", "CLOSING"}
StateMatchesId == \A e \in AllSockets :
    /\ e.sock.state = "LISTEN" => BoundOnly(e.id)
    /\ e.sock.state \in ConnectedState => ~BoundOnly(e.id)

\* A socket nobody has closed yet can be closed: the end fifos SocketClose opens
\* exist under the id its program has, also while a SocketConnect changes it.
OpenState == {"LISTEN", "SYN_SENT", "SYN_RECEIVED", "ESTABLISHED", "CLOSE_WAIT",
              "LAST_ACK"}
OpenIsClosable == \A e \in AllSockets :
    e.sock.state \in OpenState => EndFifos(IdForFifo(e)) \subseteq fifos

\* The fifo the manager opens without O_NONBLOCK in
\* check_and_handle_close_command exists as long as the socket is not CLOSED,
\* whatever programs do with an id they have closed; when managers start again,
\* only as long as no two programs have the same port.
EndFifosPaired == \A e \in AllSockets :
    e.sock.state # "CLOSED" => <<"end_write", IdForFifo(e)>> \in fifos

\* A listener never has more connections than SocketListen allowed ("the
\* maximum number of listenable connections"), counting those still open,
\* unless an earlier socket on the same port left some.
ConnectionsOf(addr) == {e \in AllSockets : e.id.src = addr /\ ~BoundOnly(e.id)}
BacklogBound == \A e \in AllSockets : \A a \in App :
    /\ e.sock.state = "LISTEN" /\ e.id.src = Home[a] /\ binds[a] = 1
    /\ \A o \in App \ {a} : Home[o] = Home[a] => binds[o] = 0
    =>
        e.sock.max_connections + Cardinality(ConnectionsOf(e.id.src)) <= Backlog[a]

\* Two programs never have the same port, although they may bind it one after
\* the other.  (The id of a connection they may: a program keeps it when the
\* other side has closed, and the next on that port may connect to the same
\* server.)
NoSharedSocket == \A a, o \in App : a # o =>
    \A id \in held[a] \intersect held[o] : ~BoundOnly(id)

\* When SocketConnect is about to report success, its own attempt succeeded:
\* the answer in its pipe is not one to an earlier attempt.
AnswerIsTrue == \A a \in App :
    call[a].op = "connecting" /\ call[a].msgs # <<>> =>
        \A e \in AllSockets : e.id = [call[a].id EXCEPT !.dst = Target[a]]
                                => e.sock.state # "SYN_SENT"

\* A close that the manager has taken is carried through: the socket leaves
\* the table whether the other side is silent, closes as well, or was closed
\* first, unless a program uses the id again, to close it once more or to listen.
InTable(m, id, state) == \E e \in Sockets(m) : e.id = id /\ e.sock.state = state
CloseCompletes == \A m \in Ip : \A id \in Id :
    InTable(m, id, "FIN_WAIT_1") ~>
        \/ ~Present(m, id) \/ mgr[m] # "running"
        \/ ReuseClosed /\ (Closing(id) # {} \/ InTable(m, id, "LISTEN"))

----------------------------------------------------------------------------
(* What documents and comments say and the code does not do.               *)

\* network_manager.h: the manager serves connections until it receives a stop
\* command; no request of a program makes it wait for ever.
NeverHangs == \A m \in Ip : mgr[m] # "hung"
=============================================================================
