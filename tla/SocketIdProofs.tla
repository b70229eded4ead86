---------------------------- MODULE SocketIdProofs ----------------------------
(***************************************************************************)
(* Proofs, for every number of programs, managers, ports and rows,         *)
(*                                                                         *)
(*   that the sockets of a manager, the end fifos of their ids and the     *)
(*   programs that hold the ids stay together: keys are unique although    *)
(*   the key of a connecting socket changes twice, the fifos a close needs *)
(*   exist, and an answer to a SocketConnect is never stale;               *)
(*                                                                         *)
(*   that a listener never has more connections than SocketListen allows   *)
(*   (the second half of the module), without any hypothesis.              *)
(*                                                                         *)
(* The first part needs two, and TLC shows a counterexample without each:  *)
(* connections stay on one machine (handle_packet_listen takes the ip of   *)
(* the manager for that of the client, so that a client of another machine *)
(* is given the id of a local one), and no manager is started again.       *)
(***************************************************************************)
EXTENDS NetworkManagerProofs, FiniteSetTheorems

Local == \A a \in App : Target[a] = NoAddr \/ Target[a].ip = Home[a].ip

----------------------------------------------------------------------------
(* The inductive invariant.                                                *)

\* The key under which a program finds the socket differs from row to row, and
\* so does the key under which the manager does.
UniqueIn(t) == \A m \in Ip : \A r, q \in Row :
    t[m][r] # Free /\ t[m][q] # Free /\ r # q =>
        /\ t[m][r].id # t[m][q].id
        /\ IdForFifo(t[m][r]) # IdForFifo(t[m][q])

\* The end fifos in F that a socket needs: the one the manager opens and, when
\* no program uses an id that it closed, the one SocketClose opens.
Kept(e, F) ==
    /\ e.sock.state # "CLOSED" \/ BoundOnly(e.id) => <<"end_write", IdForFifo(e)>> \in F
    /\ ~ReuseClosed /\ e.sock.state \in OpenState => <<"end_read", IdForFifo(e)>> \in F

StaysLocal(e) == e.id.dst # NoAddr => e.id.dst.ip = e.id.src.ip

RowsGood(t, F) ==
    /\ UniqueIn(t)
    /\ \A m \in Ip : \A r \in Row : t[m][r] # Free => Kept(t[m][r], F) /\ StaysLocal(t[m][r])

Connecting(a) == call[a].op \in {"connect", "connecting"}

\* At most one program connects with an id: SocketConnect makes fifos for it.
OneConnector == \A a, o \in App :
    Connecting(a) /\ Connecting(o) /\ call[a].id = call[o].id => a = o

\* A program has its answer only once its bound socket has become a connection,
\* and then the end fifos of the bound id wait for ConnectReturn to remove them.
Gone(addr) ==
    /\ \A r \in Used(addr.ip) : IdForFifo(table[addr.ip][r]) # BoundId(addr)
    /\ mgr[addr.ip] # "stopped" => <<"end_write", BoundId(addr)>> \in fifos
AnsweredIsGone == \A a \in App : Connecting(a) /\ call[a].msgs # <<>> => Gone(Home[a])

\* A program that closes its sockets properly has the id it calls with, and
\* until then the fifo its SocketClose opens.
CallIsHeld == \A a \in App :
    Connecting(a) \/ call[a].op = "close" => call[a].id \in held[a]
HeldIsOpen == \A a \in App : \A id \in held[a] :
    BoundOnly(id) /\ mgr[id.src.ip] # "stopped" => <<"end_read", id>> \in fifos
Owned == ~ReuseClosed => CallIsHeld /\ HeldIsOpen /\ NoSharedSocket

Paired ==
    /\ Typed
    /\ NetLocal(net)
    /\ RowsGood(table, fifos)
    /\ OneConnector
    /\ AnsweredIsGone
    /\ Owned

LEMMA PairedMeaning ==
    Paired => UniqueIds /\ EndFifosPaired /\ AnswerIsTrue
              /\ (~ReuseClosed => NoSharedSocket /\ OpenIsClosable)
<1>. SUFFICES ASSUME Paired
              PROVE  UniqueIds /\ EndFifosPaired /\ AnswerIsTrue
                     /\ (~ReuseClosed => NoSharedSocket /\ OpenIsClosable)
  OBVIOUS
<1>1. UniqueIds
  BY DEF Paired, RowsGood, UniqueIn, UniqueIds, Used
<1>2. \A e \in AllSockets : \E m \in Ip : \E r \in Used(m) : e = table[m][r]
  BY DEF AllSockets, Sockets
<1>3. \A e \in AllSockets : Kept(e, fifos)
  BY <1>2 DEF Paired, RowsGood, Used
<1>4. EndFifosPaired
  BY <1>3 DEF EndFifosPaired, Kept
<1>5. ASSUME ~ReuseClosed PROVE NoSharedSocket /\ OpenIsClosable
  <2>1. \A e \in AllSockets : e.sock.state \in OpenState => EndFifos(IdForFifo(e)) \subseteq fifos
    <3>1. "CLOSED" \notin OpenState
      BY DEF OpenState
    <3>. QED
      BY <1>3, <1>5, <3>1 DEF Kept, EndFifos
  <2>. QED
    BY <1>5, <2>1 DEF Paired, Owned, OpenIsClosable
<1>6. AnswerIsTrue
  <2>. SUFFICES ASSUME NEW a \in App, call[a].op = "connecting", call[a].msgs # <<>>,
                       NEW e \in AllSockets, e.id = [call[a].id EXCEPT !.dst = Target[a]],
                       e.sock.state = "SYN_SENT"
                PROVE  FALSE
    BY DEF AnswerIsTrue
  <2>1. call[a].id = BoundId(Home[a]) /\ Home[a] \in Addr
    BY NetworkAssumption DEF Paired, Typed, CallsOK, CallOK
  <2>2. e.id.src = Home[a]
    BY <2>1 DEF BoundId
  <2>3. PICK m \in Ip : \E r \in Used(m) : e = table[m][r]
    BY <1>2
  <2>4. m = Home[a].ip
    <3>1. PICK r \in Used(m) : e = table[m][r]
      BY <2>3
    <3>2. RowOK(m, e)
      BY <3>1, UsedRow DEF Paired
    <3>. QED
      BY <2>2, <3>2 DEF RowOK
  <2>5. IdForFifo(e) = call[a].id
    BY <2>1, <2>2 DEF IdForFifo
  <2>6. Gone(Home[a])
    BY DEF Paired, AnsweredIsGone, Connecting
  <2>. QED
    BY <2>1, <2>3, <2>4, <2>5, <2>6 DEF Gone
<1>. QED
  BY <1>1, <1>4, <1>5, <1>6

----------------------------------------------------------------------------
(* Rows and fifos.                                                         *)

\* The key of a socket for the fifos carries the ip of its manager.
LEMMA FifoKey ==
    ASSUME NEW m \in Ip, NEW e, RowOK(m, e)
    PROVE  /\ IdForFifo(e).src.ip = m /\ IdForFifo(e).src = e.id.src
           /\ e.sock.state = "SYN_SENT" => IdForFifo(e) = BoundId(e.id.src) /\ ~BoundOnly(e.id)
           /\ e.sock.state # "SYN_SENT" => IdForFifo(e) = e.id
           /\ ~BoundOnly(IdForFifo(e)) => IdForFifo(e) = e.id /\ e.sock.state # "SYN_SENT"
BY DEF RowOK, IdForFifo, BoundId, BoundOnly, ConnectedState

NotInUse(t, id) == \A m \in Ip : \A r \in Row : t[m][r] # Free => IdForFifo(t[m][r]) # id

\* The end fifos of an id no socket has may go.
LEMMA SpareFifos ==
    ASSUME NEW t, NEW F, RowsGood(t, F), NEW id, NotInUse(t, id),
           NEW G, F \ AllFifos(id) \subseteq G
    PROVE  RowsGood(t, G)
<1>1. \A kind, i : i # id => <<kind, i>> \notin AllFifos(id)
  BY DEF AllFifos
<1>2. \A e : IdForFifo(e) # id /\ Kept(e, F) => Kept(e, G)
  BY <1>1 DEF Kept
<1>. QED
  BY <1>2 DEF RowsGood, NotInUse

\* A row is filled, changed or freed.
LEMMA PutRowGood ==
    ASSUME NEW t, TableOK(t), NEW F, RowsGood(t, F), NEW m \in Ip, NEW r \in Row, NEW x,
           x = Free \/ (RowOK(m, x) /\ Kept(x, F) /\ StaysLocal(x)),
           x = Free \/ \A q \in Row : q # r /\ t[m][q] # Free =>
                            t[m][q].id # x.id /\ IdForFifo(t[m][q]) # IdForFifo(x)
    PROVE  RowsGood(PutRow(t, m, r, x), F)
<1>. DEFINE u == PutRow(t, m, r, x)
<1>1. /\ u[m][r] = x
      /\ \A q \in Row : q # r => u[m][q] = t[m][q]
      /\ \A n \in Ip : n # m => u[n] = t[n]
  BY PutRowOK
<1>. HIDE DEF u
<1>2. UniqueIn(u)
  BY <1>1 DEF RowsGood, UniqueIn
<1>3. \A n \in Ip : \A q \in Row : u[n][q] # Free => Kept(u[n][q], F) /\ StaysLocal(u[n][q])
  BY <1>1 DEF RowsGood
<1>. QED
  BY <1>2, <1>3 DEF RowsGood, u

\* The id of a connection that is not in the table, or only as the key of a
\* socket that is still opening, names no fifos.
LEMMA UnusedId ==
    ASSUME Typed, RowsGood(table, fifos), NEW m \in Ip, NEW c, c.src.ip = m, ~BoundOnly(c),
           ~Present(m, c) \/ \E r \in Used(m) : table[m][r].id = c /\ table[m][r].sock.state = "SYN_SENT"
    PROVE  NotInUse(table, c)
<1>. SUFFICES ASSUME NEW n \in Ip, NEW q \in Row, table[n][q] # Free,
                     IdForFifo(table[n][q]) = c
              PROVE  FALSE
  BY DEF NotInUse
<1>1. q \in Used(n) /\ RowOK(n, table[n][q])
  BY UsedRow DEF Used
<1>2. n = m /\ table[n][q].id = c /\ table[n][q].sock.state # "SYN_SENT"
  BY <1>1, FifoKey
<1>3. Present(m, c)
  BY <1>1, <1>2 DEF Present, RowsOf
<1>4. PICK r \in Used(m) : table[m][r].id = c /\ table[m][r].sock.state = "SYN_SENT"
  BY <1>3
<1>. QED
  BY <1>1, <1>2, <1>4 DEF RowsGood, UniqueIn, Used

----------------------------------------------------------------------------
(* Programs.                                                               *)

\* No program starts to connect or to close, is answered, or changes its id.
Undisturbed == \A a \in App :
    /\ call'[a].op \in {"connect", "connecting"} =>
            Connecting(a) /\ call'[a].id = call[a].id /\ call'[a].msgs = call[a].msgs
    /\ call'[a].op = "close" => call[a].op = "close" /\ call'[a].id = call[a].id

LEMMA UndisturbedCalls ==
    ASSUME Typed,
           \/ UNCHANGED call
           \/ call' = Orphan(call)
           \/ \E id, lost : call' = Wake(id, lost)
           \/ \E a \in App : call' = [call EXCEPT ![a] = Idle]
           \/ \E a \in App : call' = [call EXCEPT ![a] = Calling("stuck", NoAddr)]
           \/ \E a \in App : call' = [call EXCEPT ![a].op = "connecting"]
                             /\ call[a].op = "connect"
           \/ \E a \in App : \E d : call' = [call EXCEPT ![a].msgs = Append(@, d)]
                                /\ call[a].op = "accept"
    PROVE  Undisturbed
<1>1. DOMAIN call = App /\ \A a \in App : call[a] \in Call
  BY DEF Typed, CallsOK
<1>2. CASE \/ \E a \in App : call' = [call EXCEPT ![a].op = "connecting"]
                             /\ call[a].op = "connect"
           \/ \E a \in App : \E d : call' = [call EXCEPT ![a].msgs = Append(@, d)]
                                /\ call[a].op = "accept"
  BY SMTT(30), <1>1, <1>2 DEF Undisturbed, Connecting, Call
<1>3. CASE ~(\/ \E a \in App : call' = [call EXCEPT ![a].op = "connecting"]
                             /\ call[a].op = "connect"
             \/ \E a \in App : \E d : call' = [call EXCEPT ![a].msgs = Append(@, d)]
                                /\ call[a].op = "accept")
  <2>1. \A a \in App : call'[a] = call[a] \/ call'[a] \in {Idle, Calling("stuck", NoAddr)}
    BY <1>1, <1>3 DEF Orphan, Wake
  <2>. QED
    BY <2>1, CallTypes DEF Undisturbed, Connecting
<1>. QED
  BY <1>2, <1>3

\* The bound sockets that became connections stay gone.
GoneKept == \A addr \in Addr : Gone(addr) => Gone(addr)'

LEMMA AnsweredKept ==
    ASSUME Typed, OneConnector, AnsweredIsGone, Undisturbed, GoneKept
    PROVE  OneConnector' /\ AnsweredIsGone'
<1>1. \A a \in App : Home[a] \in Addr
  BY NetworkAssumption
<1>2. \A a \in App : Connecting(a)' => /\ Connecting(a) /\ call'[a].id = call[a].id
                                       /\ call'[a].msgs = call[a].msgs
  BY DEF Undisturbed, Connecting
<1>3. OneConnector'
  BY <1>2 DEF OneConnector
<1>4. AnsweredIsGone'
  BY <1>1, <1>2 DEF AnsweredIsGone, GoneKept
<1>. QED
  BY <1>3, <1>4

\* A held id stays open as long as its end fifo does.
OpenKept == \A addr \in Addr :
    /\ mgr'[addr.ip] # "stopped" => mgr[addr.ip] # "stopped"
    /\ mgr'[addr.ip] # "stopped" /\ <<"end_read", BoundId(addr)>> \in fifos
            => <<"end_read", BoundId(addr)>> \in fifos'

LEMMA OwnedKept ==
    ASSUME Typed, Owned, Undisturbed, OpenKept, UNCHANGED held
    PROVE  Owned'
<1>. SUFFICES ASSUME ~ReuseClosed
              PROVE  CallIsHeld' /\ HeldIsOpen' /\ NoSharedSocket'
  BY DEF Owned
<1>1. CallIsHeld'
  BY DEF Owned, CallIsHeld, Undisturbed, Connecting
<1>2. HeldIsOpen'
  <2>1. \A a \in App : Home[a] \in Addr
    BY NetworkAssumption
  <2>2. \A a \in App : \A id \in held[a] : BoundOnly(id) => id = BoundId(Home[a])
    BY DEF Typed, HeldOK
  <2>3. \A a \in App : BoundId(Home[a]).src.ip = Home[a].ip
    BY DEF BoundId
  <2>. QED
    BY <2>1, <2>2, <2>3 DEF Owned, HeldIsOpen, OpenKept
<1>3. NoSharedSocket'
  BY DEF Owned, NoSharedSocket
<1>. QED
  BY <1>1, <1>2, <1>3

\* Fifos that are no end fifos of a bound id come and go.
LEMMA BoundFifosKept ==
    ASSUME UNCHANGED mgr, \A addr \in Addr, kind \in {"end_read", "end_write"} :
                <<kind, BoundId(addr)>> \in fifos => <<kind, BoundId(addr)>> \in fifos'
    PROVE  OpenKept /\ (UNCHANGED table => GoneKept)
<1>1. OpenKept
  BY DEF OpenKept
<1>2. ASSUME UNCHANGED table PROVE GoneKept
  BY <1>2 DEF GoneKept, Gone, Used
<1>. QED
  BY <1>1, <1>2

\* When a row of a manager changes, no bound id that is gone comes back.
LEMMA GoneAfter ==
    ASSUME UNCHANGED mgr,
           \A addr \in Addr : Gone(addr) =>
                /\ \A r \in Row : table'[addr.ip][r] # Free
                                    => IdForFifo(table'[addr.ip][r]) # BoundId(addr)
                /\ <<"end_write", BoundId(addr)>> \in fifos
                        => <<"end_write", BoundId(addr)>> \in fifos'
    PROVE  GoneKept
BY DEF GoneKept, Gone, Used

\* One row changes, and its key for the fifos is no bound id that is gone.
LEMMA GoneAfterPut ==
    ASSUME Typed, UNCHANGED mgr, NEW m \in Ip, NEW r \in Row, NEW x,
           x = Free \/ RowOK(m, x), table' = PutRow(table, m, r, x),
           \/ x = Free
           \/ ~BoundOnly(IdForFifo(x))
           \/ \E q \in Used(m) : IdForFifo(x) = IdForFifo(table[m][q]),
           \A addr \in Addr : Gone(addr) /\ <<"end_write", BoundId(addr)>> \in fifos
                                => <<"end_write", BoundId(addr)>> \in fifos'
    PROVE  GoneKept
<1>1. /\ table'[m][r] = x
      /\ \A q \in Row : q # r => table'[m][q] = table[m][q]
      /\ \A n \in Ip : n # m => table'[n] = table[n]
  BY PutRowOK DEF Typed
<1>2. ASSUME NEW addr \in Addr, Gone(addr), NEW q \in Row, table'[addr.ip][q] # Free
      PROVE  IdForFifo(table'[addr.ip][q]) # BoundId(addr)
  <2>1. addr.ip \in Ip /\ BoundOnly(BoundId(addr))
    BY RecordTypes
  <2>2. CASE addr.ip = m /\ q = r
    BY <1>1, <1>2, <2>1, <2>2 DEF Gone
  <2>3. CASE ~(addr.ip = m /\ q = r)
    <3>1. table'[addr.ip][q] = table[addr.ip][q]
      BY <1>1, <2>1, <2>3
    <3>. QED
      BY <1>2, <3>1 DEF Gone, Used
  <2>. QED
    BY <2>2, <2>3
<1>. QED
  BY <1>2, GoneAfter

----------------------------------------------------------------------------
(* The actions that change one row and keep its key.                       *)

\* What the other rows of a manager differ in.
LEMMA OtherRows ==
    ASSUME Typed, RowsGood(table, fifos), NEW m \in Ip, NEW r \in Used(m),
           NEW q \in Row, q # r, table[m][q] # Free
    PROVE  /\ RowOK(m, table[m][q])
           /\ table[m][q].id # table[m][r].id
           /\ IdForFifo(table[m][q]) # IdForFifo(table[m][r])
<1>1. r \in Row /\ table[m][r] # Free /\ q \in Used(m)
  BY DEF Used
<1>. QED
  BY <1>1, UsedRow DEF RowsGood, UniqueIn

\* A segment, a timer or a reset.
LEMMA SocketStepRows ==
    ASSUME Paired, NEW m \in Ip, SocketStep(m), UNCHANGED <<fifos, mgr>>
    PROVE  RowsGood(table', fifos') /\ GoneKept /\ OpenKept
<1>1. PICK r \in Row, s \in Socket : SocketChanges(m, r, s)
  BY DEF SocketStep
<1>. DEFINE e == table[m][r]
            x == WithSock(e, s)
<1>2. /\ r \in Used(m) /\ table' = PutRow(table, m, r, x)
      /\ s.state \notin {"LISTEN", "SYN_SENT"}
      /\ s.state \in ConnectedState => ~BoundOnly(e.id)
      /\ s.state \in OpenState =>
            e.sock.state \in {"SYN_RECEIVED", "ESTABLISHED", "CLOSE_WAIT", "LAST_ACK"}
      /\ s.state # "CLOSED" => e.sock.state \notin {"CLOSED", "SYN_SENT", "LISTEN"}
  BY <1>1 DEF SocketChanges
<1>3. RowOK(m, e) /\ e.id \in Id /\ e # Free /\ Kept(e, fifos) /\ StaysLocal(e)
  BY <1>2, UsedRow DEF Paired, RowsGood
<1>4. x \in Entry /\ x.id = e.id /\ x.sock = s
  BY <1>3, RecordTypes DEF WithSock
<1>. HIDE DEF x, e
<1>5. RowOK(m, x) /\ StaysLocal(x)
  BY <1>2, <1>3, <1>4 DEF RowOK, StaysLocal
<1>6. IdForFifo(x) = x.id
  BY <1>2, <1>4, <1>5, FifoKey
<1>7. IdForFifo(x) = IdForFifo(e) \/ (e.sock.state = "SYN_SENT" /\ s.state = "CLOSED" /\ ~BoundOnly(x.id))
  BY <1>2, <1>3, <1>4, <1>6, FifoKey
<1>8. Kept(x, fifos)
  <2>1. CASE IdForFifo(x) = IdForFifo(e)
    BY <1>2, <1>3, <1>4, <2>1 DEF Kept, OpenState
  <2>2. CASE s.state = "CLOSED" /\ ~BoundOnly(x.id)
    BY <1>4, <2>2 DEF Kept, OpenState
  <2>. QED
    BY <1>7, <2>1, <2>2
<1>9. ASSUME NEW q \in Row, q # r, table[m][q] # Free
      PROVE  table[m][q].id # x.id /\ IdForFifo(table[m][q]) # IdForFifo(x)
  <2>1. /\ RowOK(m, table[m][q]) /\ table[m][q].id # e.id
        /\ IdForFifo(table[m][q]) # IdForFifo(e)
    BY <1>2, <1>9, OtherRows DEF Paired, e
  <2>. QED
    BY <1>4, <1>6, <1>7, <2>1, FifoKey
<1>10. RowsGood(table', fifos)
  BY <1>2, <1>5, <1>8, <1>9, PutRowGood DEF Paired, Typed
<1>11. ~BoundOnly(IdForFifo(x)) \/ \E q \in Used(m) : IdForFifo(x) = IdForFifo(table[m][q])
  BY <1>2, <1>6, <1>7 DEF e
<1>12. GoneKept
  BY <1>2, <1>5, <1>11, GoneAfterPut DEF Paired
<1>. QED
  BY <1>10, <1>12, BoundFifosKept

LEMMA SocketStepPaired ==
    ASSUME Paired, NEW m \in Ip, SocketStep(m), UNCHANGED <<fifos, mgr, held>>,
           Undisturbed, Typed', NetLocal(net')
    PROVE  Paired'
<1>1. RowsGood(table', fifos') /\ GoneKept /\ OpenKept
  BY SocketStepRows
<1>. QED
  BY <1>1, AnsweredKept, OwnedKept DEF Paired

\* Every partner of a socket is on the machine of its manager.
LEMMA LocalPartner ==
    ASSUME Paired, NEW m \in Ip, NEW r \in Used(m)
    PROVE  table[m][r].id.dst # NoAddr => table[m][r].id.dst.ip = m
<1>1. RowOK(m, table[m][r]) /\ StaysLocal(table[m][r])
  BY UsedRow DEF Paired, RowsGood
<1>. QED
  BY <1>1 DEF RowOK, StaysLocal

LEMMA ConnectionStepPaired ==
    ASSUME Paired, NEW m \in Ip,
           \/ HandleReset(m)
           \/ \E r \in Row : \/ HandleSynReceived(m, r) \/ HandleConnected(m, r)
                             \/ GiveUp(m, r) \/ CloseWaitToLastAck(m, r) \/ TimeWaitToClosed(m, r)
    PROVE  Paired'
<1>1. CASE HandleReset(m)
  <2>1. /\ net[m] # <<>> /\ net' = Popped(m) /\ UNCHANGED <<fifos, mgr, call, held, binds>>
    BY <1>1 DEF HandleReset, HasPacket
  <2>2. SocketStep(m) /\ Typed' /\ Undisturbed
    BY <1>1, <2>1, HandleResetEffect, ConnectionStepTyped, UndisturbedCalls DEF Paired
  <2>. QED
    BY <2>1, <2>2, PoppedNet, SocketStepPaired DEF Paired, Typed
<1>2. ASSUME NEW r \in Row, HandleSynReceived(m, r)
      PROVE  Paired'
  <2>1. /\ net[m] # <<>> /\ net' = Popped(m) /\ UNCHANGED <<fifos, mgr, held>>
        /\ \/ \E a \in App : \E d : call' = [call EXCEPT ![a].msgs = Append(@, d)]
                                /\ call[a].op = "accept"
           \/ UNCHANGED call
    BY <1>2, HandleSynReceivedCall DEF Paired
  <2>2. SocketStep(m) /\ Typed' /\ Undisturbed
    BY <1>2, <2>1, HandleSynReceivedEffect, ConnectionStepTyped, UndisturbedCalls DEF Paired
  <2>. QED
    BY <2>1, <2>2, PoppedNet, SocketStepPaired DEF Paired, Typed
<1>3. ASSUME NEW r \in Row, HandleConnected(m, r)
      PROVE  Paired'
  <2>1. UNCHANGED <<fifos, mgr, call, held, binds>>
    BY <1>3 DEF HandleConnected
  <2>2. SocketStep(m) /\ Typed' /\ Undisturbed
    BY <1>3, <2>1, HandleConnectedEffect, ConnectionStepTyped, UndisturbedCalls DEF Paired
  <2>3. /\ r \in Used(m) /\ net[m] # <<>> /\ First(m) \in Envelope
        /\ table[m][r].id = ConnectionId(First(m))
    BY <1>3, HandleConnectedEffect DEF Paired
  <2>4. PICK reply \in Seq(Segment) : net' = Send(Popped(m), table[m][r].id, First(m).src, reply)
    BY <1>3, HandleConnectedEffect DEF Paired
  <2>5. /\ NetType(Popped(m)) /\ NetLocal(Popped(m)) /\ First(m).src.ip = m
        /\ First(m).src \in Addr \union {NoAddr}
    BY <2>3, PoppedNet DEF Paired, Typed, Envelope
  <2>6. table[m][r].id \in Id /\ table[m][r].id.src.ip = m
    BY <2>3, UsedRow DEF Paired, RowOK
  <2>7. NetLocal(net')
    BY <2>4, <2>5, <2>6, SentNet
  <2>. QED
    BY <2>1, <2>2, <2>7, SocketStepPaired
<1>4. ASSUME NEW r \in Row, GiveUp(m, r) \/ CloseWaitToLastAck(m, r) \/ TimeWaitToClosed(m, r)
      PROVE  Paired'
  <2>1. SocketStep(m) /\ r \in Used(m) /\ UNCHANGED <<fifos, mgr, call, held, binds>>
    BY <1>4, TimerEffect DEF Paired
  <2>2. Typed' /\ Undisturbed
    BY <1>4, <2>1, TimerTyped, UndisturbedCalls DEF Paired
  <2>3. NetLocal(net')
    <3>1. CASE GiveUp(m, r)
      <4>1. Emit(m, r, table[m][r].sock, {"RST"}) /\ {"RST"} \in SUBSET Flag
        BY <3>1 DEF GiveUp, Flag
      <4>2. table[m][r].sock \in Socket
        BY <2>1, UsedRow DEF Paired
      <4>. QED
        BY <2>1, <4>1, <4>2, EmitNet, LocalPartner DEF Paired
    <3>2. CASE CloseWaitToLastAck(m, r) \/ TimeWaitToClosed(m, r)
      BY <3>2 DEF CloseWaitToLastAck, TimeWaitToClosed, Paired
    <3>. QED
      BY <1>4, <3>1, <3>2
  <2>. QED
    BY <2>1, <2>2, <2>3, SocketStepPaired
<1>. QED
  BY <1>1, <1>2, <1>3, <1>4

LEMMA NetStepPaired ==
    ASSUME Paired, NEW m \in Ip, IgnorePacket(m) \/ \E r \in Row : ResendStep(m, r)
    PROVE  Paired'
<1>1. \A r \in Used(m) : table[m][r].id.dst # NoAddr => table[m][r].id.dst.ip = m
  BY LocalPartner
<1>2. Typed' /\ UNCHANGED <<table, fifos, mgr, call, held, binds>> /\ NetLocal(net')
  BY <1>1, NetStepTyped DEF Paired
<1>3. Undisturbed
  BY <1>2, UndisturbedCalls DEF Paired
<1>4. GoneKept /\ OpenKept
  BY <1>2, BoundFifosKept
<1>. QED
  BY <1>2, <1>3, <1>4, AnsweredKept, OwnedKept DEF Paired

----------------------------------------------------------------------------
(* Binding and listening.                                                  *)

\* A bound id whose end fifos could be made belongs to no socket and nobody.
LEMMA FreeBoundId ==
    ASSUME Paired, NEW addr \in Addr, EndFifos(BoundId(addr)) \intersect fifos = {},
           mgr[addr.ip] # "stopped", ~Present(addr.ip, BoundId(addr))
    PROVE  /\ \A q \in Used(addr.ip) : IdForFifo(table[addr.ip][q]) # BoundId(addr)
                                       /\ table[addr.ip][q].id # BoundId(addr)
           /\ ~ReuseClosed => \A a \in App : BoundId(addr) \notin held[a]
<1>. DEFINE m == addr.ip
            b == BoundId(addr)
<1>1. m \in Ip /\ BoundOnly(b) /\ b.src.ip = m
  BY RecordTypes DEF BoundId
<1>2. <<"end_write", b>> \notin fifos /\ <<"end_read", b>> \notin fifos
  BY DEF EndFifos
<1>3. ASSUME NEW q \in Used(m), IdForFifo(table[m][q]) = b
      PROVE  FALSE
  <2>1. /\ RowOK(m, table[m][q]) /\ q \in Row /\ table[m][q] # Free
        /\ Kept(table[m][q], fifos)
    BY <1>1, UsedRow DEF Paired, RowsGood
  <2>2. table[m][q].id # b
    BY <1>3 DEF Present, RowsOf, Used
  <2>3. table[m][q].sock.state = "SYN_SENT"
    BY <1>1, <1>3, <2>1, <2>2, FifoKey
  <2>. QED
    BY <1>2, <1>3, <2>1, <2>3 DEF Kept
<1>4. \A q \in Used(m) : table[m][q].id # b
  BY DEF Present, RowsOf, Used
<1>5. ~ReuseClosed => \A a \in App : b \notin held[a]
  BY <1>1, <1>2 DEF Paired, Owned, HeldIsOpen
<1>. QED
  BY <1>3, <1>4, <1>5

\* A manager stops and takes its sockets and their fifos with it.
LEMMA StopPaired ==
    ASSUME Paired, NEW m \in Ip, NEW b \in Id, b.src.ip = m, ManagerStops(m, EndFifos(b)),
           Typed', UNCHANGED held
    PROVE  Paired'
<1>1. /\ mgr' = [mgr EXCEPT ![m] = "stopped"]
      /\ table' = [table EXCEPT ![m] = [r \in Row |-> Free]]
      /\ net' = [net EXCEPT ![m] = <<>>]
      /\ fifos' = CreateBoth(fifos, EndFifos(b)) \ UNION {AllFifos(table[m][r].id) : r \in Used(m)}
      /\ call' = Orphan(call)
  BY DEF ManagerStops, StopManager
<1>2. \A kind, id : <<kind, id>> \in fifos /\ id.src.ip # m => <<kind, id>> \in fifos'
  <2>1. \A r \in Used(m) : table[m][r].id.src.ip = m
    BY UsedRow DEF Paired, RowOK
  <2>2. \A kind, id : id.src.ip # m =>
            /\ <<kind, id>> \notin EndFifos(b)
            /\ \A r \in Used(m) : <<kind, id>> \notin AllFifos(table[m][r].id)
    BY <2>1 DEF EndFifos, AllFifos
  <2>3. fifos \ EndFifos(b) \subseteq CreateBoth(fifos, EndFifos(b))
    BY DEF CreateBoth
  <2>. QED
    BY <1>1, <2>2, <2>3
<1>3. /\ \A r \in Row : table'[m][r] = Free
      /\ \A n \in Ip : n # m => table'[n] = table[n] /\ mgr'[n] = mgr[n]
      /\ mgr'[m] = "stopped"
  BY <1>1 DEF Paired, Typed, TableOK
<1>4. RowsGood(table', fifos')
  <2>1. UniqueIn(table')
    BY <1>3 DEF Paired, RowsGood, UniqueIn
  <2>2. ASSUME NEW n \in Ip, NEW r \in Row, table'[n][r] # Free
        PROVE  Kept(table'[n][r], fifos') /\ StaysLocal(table'[n][r])
    <3>1. n # m /\ table'[n][r] = table[n][r]
      BY <1>3, <2>2
    <3>2. RowOK(n, table[n][r]) /\ Kept(table[n][r], fifos) /\ StaysLocal(table[n][r])
      BY <2>2, <3>1, UsedRow DEF Paired, RowsGood, Used
    <3>3. IdForFifo(table[n][r]).src.ip # m
      BY <3>1, <3>2, FifoKey
    <3>. QED
      BY <1>2, <3>1, <3>2, <3>3 DEF Kept
  <2>. QED
    BY <2>1, <2>2 DEF RowsGood
<1>5. NetLocal(net')
  BY <1>1 DEF Paired, Typed, NetType, NetLocal
<1>6. \A addr \in Addr : BoundId(addr).src.ip = addr.ip /\ addr.ip \in Ip
  BY RecordTypes DEF BoundId
<1>7. GoneKept
  BY <1>2, <1>3, <1>6 DEF GoneKept, Gone, Used
<1>8. OpenKept
  BY <1>2, <1>3, <1>6 DEF OpenKept
<1>9. Undisturbed
  BY <1>1, UndisturbedCalls DEF Paired
<1>. QED
  BY <1>4, <1>5, <1>7, <1>8, <1>9, AnsweredKept, OwnedKept DEF Paired

LEMMA BindPaired ==
    ASSUME Paired, NEW a \in App, SocketBind(a)
    PROVE  Paired'
<1>. DEFINE m == Home[a].ip
            b == BoundId(Home[a])
<1>1. /\ call[a].op = "none" /\ mgr[m] = "running"
      /\ m \in Ip /\ b \in Id /\ b.src.ip = m /\ BoundOnly(b)
      /\ \/ UNCHANGED <<table, net, fifos, mgr, call, held>>
         \/ /\ NewRow(m, b, NewSocket("CLOSED", 0, 0)) /\ ~Present(m, b)
            /\ EndFifos(b) \intersect fifos = {}
            /\ fifos' = fifos \union EndFifos(b)
            /\ held' = [held EXCEPT ![a] = @ \union {b}]
            /\ UNCHANGED <<net, mgr, call>>
         \/ ManagerStops(m, EndFifos(b))
  BY SocketBindEffect DEF Paired
<1>2. Typed'
  BY BindTyped DEF Paired
<1>3. CASE UNCHANGED <<table, net, fifos, mgr, call, held>>
  <2>1. Undisturbed
    BY <1>3, UndisturbedCalls DEF Paired
  <2>2. GoneKept /\ OpenKept
    BY <1>3, BoundFifosKept
  <2>. QED
    BY <1>2, <1>3, <2>1, <2>2, AnsweredKept, OwnedKept DEF Paired
<1>4. CASE /\ NewRow(m, b, NewSocket("CLOSED", 0, 0)) /\ ~Present(m, b)
           /\ EndFifos(b) \intersect fifos = {}
           /\ fifos' = fifos \union EndFifos(b)
           /\ held' = [held EXCEPT ![a] = @ \union {b}]
           /\ UNCHANGED <<net, mgr, call>>
  <2>. DEFINE x == [id |-> b, sock |-> NewSocket("CLOSED", 0, 0)]
  <2>1. PICK r \in Row : table[m][r] = Free /\ table' = PutRow(table, m, r, x)
    BY <1>4 DEF NewRow
  <2>2. x.id = b /\ x.sock.state = "CLOSED" /\ x \in Entry
    <3>1. "CLOSED" \in TCPState /\ 0 \in Int
      BY DEF TCPState
    <3>2. NewSocket("CLOSED", 0, 0) \in Socket /\ NewSocket("CLOSED", 0, 0).state = "CLOSED"
      BY <3>1, NewSocketType
    <3>. HIDE DEF b
    <3>. QED
      BY <1>1, <3>2, RecordTypes
  <2>. HIDE DEF x
  <2>3. RowOK(m, x) /\ IdForFifo(x) = b
    BY <1>1, <2>2 DEF RowOK, IdForFifo, ConnectedState
  <2>4. /\ \A q \in Used(m) : IdForFifo(table[m][q]) # b /\ table[m][q].id # b
        /\ ~ReuseClosed => \A o \in App : b \notin held[o]
    <3>1. Home[a] \in Addr /\ mgr[m] # "stopped"
      BY <1>1, NetworkAssumption
    <3>. QED
      BY <1>4, <3>1, FreeBoundId
  <2>. HIDE DEF b, m
  <2>5. fifos \ AllFifos(b) \subseteq fifos' /\ <<"end_write", b>> \in fifos'
        /\ <<"end_read", b>> \in fifos'
    BY <1>4 DEF EndFifos
  <2>6. RowsGood(table, fifos')
    <3>1. \A e : Kept(e, fifos) => Kept(e, fifos')
      BY <1>4 DEF Kept
    <3>. QED
      BY <3>1 DEF Paired, RowsGood
  <2>7. Kept(x, fifos') /\ StaysLocal(x)
    BY <1>1, <2>2, <2>3, <2>5 DEF Kept, StaysLocal, OpenState, BoundOnly
  <2>8. RowsGood(table', fifos')
    <3>1. \A q \in Row : q # r /\ table[m][q] # Free =>
                table[m][q].id # x.id /\ IdForFifo(table[m][q]) # IdForFifo(x)
      BY <2>2, <2>3, <2>4 DEF Used
    <3>2. TableOK(table)
      BY DEF Paired, Typed
    <3>. QED
      BY <1>1, <2>1, <2>3, <2>6, <2>7, <3>1, <3>2, PutRowGood
  <2>9. Undisturbed
    BY <1>4, UndisturbedCalls DEF Paired
  <2>10. GoneKept
    <3>1. ASSUME NEW addr \in Addr, Gone(addr)
          PROVE  \A q \in Row : table'[addr.ip][q] # Free
                                    => IdForFifo(table'[addr.ip][q]) # BoundId(addr)
      <4>1. addr.ip \in Ip /\ BoundId(addr).src.ip = addr.ip
        BY RecordTypes DEF BoundId
      <4>2. /\ table'[m][r] = x
            /\ \A q \in Row : q # r => table'[m][q] = table[m][q]
            /\ \A n \in Ip : n # m => table'[n] = table[n]
        BY <1>1, <2>1, <2>3, PutRowOK DEF Paired, Typed
      <4>3. b # BoundId(addr)
        <5>1. CASE b = BoundId(addr)
          <6>1. addr.ip = m
            BY <1>1, <4>1, <5>1
          <6>2. <<"end_write", b>> \in fifos
            BY <1>1, <3>1, <5>1, <6>1 DEF Gone
          <6>. QED
            BY <1>4, <6>2 DEF EndFifos
        <5>. QED
          BY <5>1
      <4>. QED
        BY <2>3, <3>1, <4>1, <4>2, <4>3 DEF Gone, Used
    <3>. QED
      BY <1>4, <3>1, GoneAfter
  <2>11. Owned'
    <3>. SUFFICES ASSUME ~ReuseClosed
                  PROVE  CallIsHeld' /\ HeldIsOpen' /\ NoSharedSocket'
      BY DEF Owned
    <3>1. \A o \in App : held'[o] = IF o = a THEN held[o] \union {b} ELSE held[o]
      BY <1>4 DEF Paired, Typed, HeldOK
    <3>2. CallIsHeld'
      BY <1>4, <3>1 DEF Paired, Owned, CallIsHeld, Connecting
    <3>3. HeldIsOpen'
      BY <1>4, <2>5, <3>1 DEF Paired, Owned, HeldIsOpen
    <3>4. ASSUME NEW p \in App, NEW o \in App, p # o, NEW id \in held'[p], id \in held'[o]
          PROVE  ~BoundOnly(id)
      <4>1. id \in held[p] /\ id \in held[o]
        BY <2>4, <3>1, <3>4
      <4>. QED
        BY <3>4, <4>1 DEF Paired, Owned, NoSharedSocket
    <3>5. NoSharedSocket'
      BY <3>4 DEF NoSharedSocket
    <3>. QED
      BY <3>2, <3>3, <3>5
  <2>12. NetLocal(net')
    BY <1>4 DEF Paired
  <2>. QED
    BY <1>2, <2>8, <2>9, <2>10, <2>11, <2>12, AnsweredKept DEF Paired
<1>5. CASE ManagerStops(m, EndFifos(b))
  <2>1. UNCHANGED held
    BY <1>5 DEF ManagerStops
  <2>. HIDE DEF m, b
  <2>. QED
    BY <1>1, <1>2, <1>5, <2>1, StopPaired
<1>. QED
  BY <1>1, <1>3, <1>4, <1>5

LEMMA ListenCallPaired ==
    ASSUME Paired, NEW a \in App, NEW id \in held[a], SocketListen(a, id)
    PROVE  Paired'
<1>. DEFINE m == id.src.ip
<1>1. /\ id \in Id /\ BoundOnly(id) /\ m \in Ip /\ mgr[m] = "running"
      /\ UNCHANGED <<net, held, binds>>
      /\ \/ \E r \in Used(m) : \E s \in Socket :
               /\ table[m][r].id = id
               /\ table' = PutRow(table, m, r, WithSock(table[m][r], s))
               /\ s.max_connections = Backlog[a] /\ UNCHANGED call
               /\ table[m][r].sock.state # "LISTEN"
               /\ \/ /\ s.state = "LISTEN" /\ <<"accept", id>> \notin fifos
                     /\ fifos' = fifos \union {<<"accept", id>>} /\ UNCHANGED mgr
                  \/ /\ s.state = "CLOSED" /\ <<"accept", id>> \in fifos
                     /\ UNCHANGED fifos
                     /\ \E outcome \in {"running", "hung"} :
                           mgr' = [mgr EXCEPT ![m] = outcome]
         \/ /\ call' = [call EXCEPT ![a] = Calling("stuck", NoAddr)]
            /\ UNCHANGED <<table, fifos, mgr>>
  BY SocketListenEffect DEF Paired
<1>2. Typed' /\ NetLocal(net')
  BY <1>1, ListenCallTyped DEF Paired
<1>3. CASE /\ call' = [call EXCEPT ![a] = Calling("stuck", NoAddr)]
           /\ UNCHANGED <<table, fifos, mgr>>
  <2>1. Undisturbed
    BY <1>3, UndisturbedCalls DEF Paired
  <2>2. GoneKept /\ OpenKept
    BY <1>3, BoundFifosKept
  <2>. QED
    BY <1>1, <1>2, <1>3, <2>1, <2>2, AnsweredKept, OwnedKept DEF Paired
<1>4. ASSUME NEW r \in Used(m), NEW s \in Socket, table[m][r].id = id,
             table' = PutRow(table, m, r, WithSock(table[m][r], s)),
             s.state \in {"LISTEN", "CLOSED"}, s.max_connections = Backlog[a],
             UNCHANGED call, fifos \subseteq fifos',
             fifos' \subseteq fifos \union {<<"accept", id>>},
             mgr' = mgr \/ \E outcome \in {"running", "hung"} : mgr' = [mgr EXCEPT ![m] = outcome]
      PROVE  Paired'
  <2>. DEFINE e == table[m][r]
              x == WithSock(e, s)
  <2>1. RowOK(m, e) /\ e.id \in Id /\ e # Free /\ Kept(e, fifos) /\ StaysLocal(e) /\ r \in Row
    BY <1>1, UsedRow DEF Paired, RowsGood
  <2>2. x \in Entry /\ x.id = id /\ x.sock = s /\ e.id = id
    BY <1>1, <1>4, RecordTypes DEF WithSock
  <2>3. Backlog[a] >= 0
    BY NetworkAssumption
  <2>. HIDE DEF x, e
  <2>4. RowOK(m, x) /\ StaysLocal(x) /\ IdForFifo(x) = id /\ IdForFifo(e) = id
    BY <1>1, <1>4, <2>1, <2>2, <2>3, FifoKey
       DEF RowOK, StaysLocal, IdForFifo, BoundOnly, ConnectedState
  <2>5. <<"end_write", id>> \in fifos'
    BY <1>1, <1>4, <2>1, <2>2, <2>4 DEF Kept
  <2>6. ~ReuseClosed => <<"end_read", id>> \in fifos'
    BY <1>1, <1>4 DEF Paired, Owned, HeldIsOpen
  <2>7. Kept(x, fifos')
    BY <2>4, <2>5, <2>6 DEF Kept
  <2>8. RowsGood(table, fifos')
    <3>1. \A y : Kept(y, fifos) => Kept(y, fifos')
      BY <1>4 DEF Kept
    <3>. QED
      BY <3>1 DEF Paired, RowsGood
  <2>9. ASSUME NEW q \in Row, q # r, table[m][q] # Free
        PROVE  table[m][q].id # x.id /\ IdForFifo(table[m][q]) # IdForFifo(x)
    <3>1. Typed /\ RowsGood(table, fifos) /\ m \in Ip
      BY <1>1 DEF Paired
    <3>. HIDE DEF m
    <3>2. table[m][q].id # table[m][r].id /\ IdForFifo(table[m][q]) # IdForFifo(table[m][r])
      BY <1>4, <2>9, <3>1, OtherRows
    <3>. QED
      BY <2>2, <2>4, <3>2 DEF e
  <2>. HIDE DEF m
  <2>10. table' = PutRow(table, m, r, x)
    BY <1>4 DEF x, e
  <2>11. RowsGood(table', fifos')
    BY <1>1, <2>1, <2>4, <2>7, <2>8, <2>9, <2>10, PutRowGood DEF Paired, Typed
  <2>12. \A n \in Ip : mgr'[n] = mgr[n] \/ (mgr'[n] \in {"running", "hung"} /\ mgr[n] = "running")
    BY <1>1, <1>4 DEF Paired, Typed
  <2>13. Undisturbed
    BY <1>4, UndisturbedCalls DEF Paired
  <2>14. \A addr \in Addr : addr.ip \in Ip
    BY RecordTypes
  <2>15. OpenKept
    BY <1>4, <2>12, <2>14 DEF OpenKept
  <2>16. GoneKept
    <3>1. /\ table'[m][r] = x
          /\ \A q \in Row : q # r => table'[m][q] = table[m][q]
          /\ \A n \in Ip : n # m => table'[n] = table[n]
      BY <1>1, <2>1, <2>4, <2>10, PutRowOK DEF Paired, Typed
    <3>2. \A n \in Ip : \A q \in Used(n)' :
            q \in Used(n) /\ IdForFifo(table'[n][q]) = IdForFifo(table[n][q])
      BY <2>1, <2>4, <3>1 DEF Used, e
    <3>. QED
      BY <1>4, <2>12, <2>14, <3>2 DEF GoneKept, Gone
  <2>. QED
    BY <1>1, <1>2, <2>11, <2>13, <2>15, <2>16, AnsweredKept, OwnedKept DEF Paired
<1>5. CASE \E r \in Used(m) : \E s \in Socket :
               /\ table[m][r].id = id
               /\ table' = PutRow(table, m, r, WithSock(table[m][r], s))
               /\ s.max_connections = Backlog[a] /\ UNCHANGED call
               /\ \/ /\ s.state = "LISTEN"
                     /\ fifos' = fifos \union {<<"accept", id>>} /\ UNCHANGED mgr
                  \/ /\ s.state = "CLOSED" /\ UNCHANGED fifos
                     /\ \E outcome \in {"running", "hung"} :
                           mgr' = [mgr EXCEPT ![m] = outcome]
  <2>1. PICK r \in Used(m), s \in Socket :
               /\ table[m][r].id = id
               /\ table' = PutRow(table, m, r, WithSock(table[m][r], s))
               /\ s.max_connections = Backlog[a] /\ UNCHANGED call
               /\ \/ /\ s.state = "LISTEN"
                     /\ fifos' = fifos \union {<<"accept", id>>} /\ UNCHANGED mgr
                  \/ /\ s.state = "CLOSED" /\ UNCHANGED fifos
                     /\ \E outcome \in {"running", "hung"} :
                           mgr' = [mgr EXCEPT ![m] = outcome]
    BY <1>5
  <2>2. /\ s.state \in {"LISTEN", "CLOSED"} /\ fifos \subseteq fifos'
        /\ fifos' \subseteq fifos \union {<<"accept", id>>}
        /\ mgr' = mgr \/ \E outcome \in {"running", "hung"} : mgr' = [mgr EXCEPT ![m] = outcome]
    BY <2>1
  <2>. QED
    BY <1>4, <2>1, <2>2
<1>. QED
  BY <1>1, <1>3, <1>5

----------------------------------------------------------------------------
(* Connecting.                                                             *)

\* The bound socket becomes the opening connection: its program still closes it
\* under the bound id.
LEMMA ConnectRequestPaired ==
    ASSUME Local, Paired, NEW a \in App, HandleConnectRequest(a)
    PROVE  Paired'
<1>. DEFINE m == Home[a].ip
            b == BoundId(Home[a])
            c == [src |-> Home[a], dst |-> Target[a]]
<1>1. /\ call[a].op = "connect" /\ call[a].id = b /\ b.src.ip = m /\ m \in Ip
      /\ c \in Id /\ ~BoundOnly(c)
      /\ mgr[m] = "running" /\ call' = [call EXCEPT ![a].op = "connecting"]
      /\ UNCHANGED <<net, fifos, mgr, held, binds>>
      /\ \E r \in Used(m) :
           /\ table[m][r].id = b /\ table[m][r].sock.state = "CLOSED"
           /\ \/ UNCHANGED table
              \/ /\ ~Present(m, c)
                 /\ \E q \in Row : \E s \in Socket :
                       /\ s.state = "SYN_SENT"
                       /\ s.recv_seq = 0
                       /\ s.send_window = table[m][r].sock.send_window
                       /\ q = r \/ table[m][q] = Free
                       /\ table' = PutRow(PutRow(table, m, r, Free), m, q,
                                          [id |-> c, sock |-> s])
  BY HandleConnectRequestEffect DEF Paired
<1>2. Typed' /\ Undisturbed /\ NetLocal(net')
  BY <1>1, ConnectRequestTyped, UndisturbedCalls DEF Paired
<1>3. c.src = Home[a] /\ c.dst = Target[a] /\ c.src.ip = m /\ b = BoundId(c.src) /\ BoundOnly(b)
  BY DEF BoundOnly, BoundId
<1>4. c.dst.ip = m
  BY <1>1, <1>3 DEF Local, BoundOnly
<1>5. ~ReuseClosed => <<"end_read", b>> \in fifos
  BY <1>1, <1>3 DEF Paired, Owned, CallIsHeld, HeldIsOpen, Connecting
<1>. HIDE DEF m, b, c
<1>6. RowsGood(table', fifos) /\ GoneKept
  <2>1. CASE UNCHANGED table
    BY <1>1, <2>1, BoundFifosKept DEF Paired
  <2>2. ASSUME NEW r \in Used(m), table[m][r].id = b, table[m][r].sock.state = "CLOSED",
               ~Present(m, c), NEW q \in Row, NEW s \in Socket, s.state = "SYN_SENT",
               q = r \/ table[m][q] = Free,
               table' = PutRow(PutRow(table, m, r, Free), m, q, [id |-> c, sock |-> s])
        PROVE  RowsGood(table', fifos) /\ GoneKept
    <3>. DEFINE e == table[m][r]
                x == [id |-> c, sock |-> s]
                t == PutRow(table, m, r, Free)
    <3>1. r \in Row /\ RowOK(m, e) /\ Kept(e, fifos) /\ e # Free
      BY <1>1, UsedRow DEF Paired, RowsGood
    <3>2. IdForFifo(e) = b
      BY <2>2 DEF IdForFifo
    <3>3. x \in Entry /\ x.id = c /\ x.sock = s
      BY <1>1, RecordTypes
    <3>. HIDE DEF x, e
    <3>4. RowOK(m, x) /\ StaysLocal(x) /\ IdForFifo(x) = b
      BY <1>1, <1>3, <1>4, <2>2, <3>3 DEF RowOK, StaysLocal, IdForFifo
    <3>5. Kept(x, fifos)
      BY <1>3, <1>5, <2>2, <3>1, <3>2, <3>4 DEF Kept, e
    <3>6. /\ TableOK(t) /\ t[m][r] = Free
          /\ \A p \in Row : p # r => t[m][p] = table[m][p]
          /\ \A n \in Ip : n # m => t[n] = table[n]
      BY <1>1, <3>1, PutRowOK DEF Paired, Typed
    <3>7. RowsGood(t, fifos)
      BY <1>1, <3>1, PutRowGood DEF Paired, Typed
    <3>8. table' = PutRow(t, m, q, x)
      BY <2>2 DEF x
    <3>. HIDE DEF t
    <3>9. ASSUME NEW p \in Row, p # q, t[m][p] # Free
          PROVE  t[m][p].id # x.id /\ IdForFifo(t[m][p]) # IdForFifo(x)
      <4>1. p # r /\ t[m][p] = table[m][p]
        BY <3>6, <3>9
      <4>2. IdForFifo(table[m][p]) # b
        BY <1>1, <3>2, <3>9, <4>1, OtherRows DEF Paired, e
      <4>3. table[m][p].id # c
        BY <2>2, <3>9, <4>1 DEF Present, RowsOf, Used
      <4>. QED
        BY <3>3, <3>4, <4>1, <4>2, <4>3
    <3>10. RowsGood(table', fifos)
      BY <1>1, <3>4, <3>5, <3>6, <3>7, <3>8, <3>9, PutRowGood
    <3>11. GoneKept
      <4>1. /\ table'[m][q] = x
            /\ \A p \in Row : p # q => table'[m][p] = t[m][p]
            /\ \A n \in Ip : n # m => table'[n] = t[n]
        BY <1>1, <3>4, <3>6, <3>8, PutRowOK
      <4>2. ASSUME NEW addr \in Addr, Gone(addr), NEW p \in Row, table'[addr.ip][p] # Free
            PROVE  IdForFifo(table'[addr.ip][p]) # BoundId(addr)
        <5>1. addr.ip \in Ip
          BY RecordTypes
        <5>2. CASE addr.ip = m /\ p = q
          BY <2>2, <3>2, <3>4, <4>1, <4>2, <5>2 DEF Gone, e
        <5>3. CASE ~(addr.ip = m /\ p = q)
          <6>1. table'[addr.ip][p] = table[addr.ip][p]
            BY <3>6, <4>1, <4>2, <5>1, <5>3
          <6>. QED
            BY <4>2, <6>1 DEF Gone, Used
        <5>. QED
          BY <5>2, <5>3
      <4>. QED
        BY <1>1, <4>2, GoneAfter
    <3>. QED
      BY <3>10, <3>11
  <2>. QED
    BY <1>1, <2>1, <2>2
<1>7. OpenKept
  BY <1>1, BoundFifosKept
<1>. QED
  BY <1>1, <1>2, <1>6, <1>7, AnsweredKept, OwnedKept DEF Paired

\* The answer: the connection gets end fifos of its own, and the bound id is
\* gone when the program hears of it.
LEMMA SynSentPaired ==
    ASSUME Paired, NEW m \in Ip, NEW r \in Row, HandleSynSent(m, r)
    PROVE  Paired'
<1>. DEFINE e == table[m][r]
            id == e.id
            b == BoundId(id.src)
<1>1. /\ mgr[m] = "running" /\ net[m] # <<>> /\ net' = Popped(m)
      /\ r \in Used(m) /\ e.sock.state = "SYN_SENT" /\ ~BoundOnly(id)
      /\ UNCHANGED <<mgr, held, binds>>
      /\ \/ /\ \E s \in Socket :
                    /\ s.state = "ESTABLISHED"
                    /\ table' = PutRow(table, m, r, WithSock(e, s))
            /\ EndFifos(id) \intersect fifos = {}
            /\ fifos' = fifos \union EndFifos(id)
            /\ \E a \in Connectors(b) :
                    call' = [call EXCEPT ![a].msgs = Append(@, Granted)]
         \/ /\ UNCHANGED table /\ call' = Orphan(call)
            /\ fifos' = fifos \/ fifos' = CreateBoth(fifos, EndFifos(id))
  BY HandleSynSentEffect DEF Paired
<1>2. RowOK(m, e) /\ id \in Id /\ e # Free /\ Kept(e, fifos) /\ StaysLocal(e) /\ id.src.ip = m
  BY <1>1, UsedRow DEF Paired, RowsGood, RowOK
<1>3. Typed' /\ NetLocal(net')
  BY <1>1, SynSentTyped, PoppedNet DEF Paired, Typed
<1>4. NotInUse(table, id)
  BY <1>1, <1>2, UnusedId DEF Paired
<1>5. IdForFifo(e) = b /\ BoundOnly(b) /\ b \in Id /\ id.src \in Addr
  BY <1>1, <1>2, FifoKey, RecordTypes
<1>. HIDE DEF e, id
<1>6. CASE /\ \E s \in Socket :
                    /\ s.state = "ESTABLISHED"
                    /\ table' = PutRow(table, m, r, WithSock(e, s))
           /\ fifos' = fifos \union EndFifos(id)
           /\ \E a \in Connectors(b) :
                    call' = [call EXCEPT ![a].msgs = Append(@, Granted)]
  <2>1. PICK s \in Socket : s.state = "ESTABLISHED" /\ table' = PutRow(table, m, r, WithSock(e, s))
    BY <1>6
  <2>. DEFINE x == WithSock(e, s)
  <2>2. x \in Entry /\ x.id = id /\ x.sock = s
    BY <1>2, RecordTypes DEF WithSock, id
  <2>. HIDE DEF x
  <2>3. RowOK(m, x) /\ StaysLocal(x) /\ IdForFifo(x) = id
    BY <1>1, <1>2, <2>1, <2>2 DEF RowOK, StaysLocal, IdForFifo, id
  <2>4. Kept(x, fifos')
    BY <1>6, <2>3 DEF Kept, EndFifos
  <2>5. RowsGood(table, fifos')
    <3>1. \A y : Kept(y, fifos) => Kept(y, fifos')
      BY <1>6 DEF Kept
    <3>. QED
      BY <3>1 DEF Paired, RowsGood
  <2>6. ASSUME NEW q \in Row, q # r, table[m][q] # Free
        PROVE  table[m][q].id # x.id /\ IdForFifo(table[m][q]) # IdForFifo(x)
    BY <1>1, <1>4, <2>2, <2>3, <2>6, OtherRows DEF Paired, NotInUse, e, id
  <2>7. RowsGood(table', fifos')
    BY <2>1, <2>3, <2>4, <2>5, <2>6, PutRowGood DEF Paired, Typed, x
  <2>8. PICK a \in App : /\ Connecting(a) /\ call[a].id = b
                         /\ call' = [call EXCEPT ![a].msgs = Append(@, Granted)]
    BY <1>6 DEF Connectors, Connecting
  <2>9. \A o \in App : /\ call'[o].op = call[o].op /\ call'[o].id = call[o].id
                       /\ o # a => call'[o] = call[o]
    <3>1. call \in [App -> Call]
      BY DEF Paired, Typed, CallsOK
    <3>. QED
      BY <2>8, <3>1 DEF Call
  <2>10. GoneKept
    BY <1>1, <1>2, <1>6, <2>1, <2>3, GoneAfterPut DEF Paired, x
  <2>11. Home[a] = id.src /\ Home[a] \in Addr
    <3>1. call[a].id = BoundId(Home[a])
      BY <2>8 DEF Paired, Typed, CallsOK, CallOK, Connecting
    <3>. QED
      BY <2>8, <3>1, NetworkAssumption DEF BoundId
  <2>12. Gone(Home[a])'
    <3>1. /\ table'[m][r] = x
          /\ \A q \in Row : q # r => table'[m][q] = table[m][q]
      BY <2>1, <2>3, PutRowOK DEF Paired, Typed, x
    <3>2. \A q \in Row : table'[m][q] # Free => IdForFifo(table'[m][q]) # b
      <4>1. IdForFifo(x) # b
        BY <1>1, <1>5, <2>3
      <4>2. \A q \in Row : q # r /\ table[m][q] # Free => IdForFifo(table[m][q]) # b
        BY <1>1, <1>5, OtherRows DEF Paired, e
      <4>. QED
        BY <3>1, <4>1, <4>2
    <3>3. <<"end_write", b>> \in fifos'
      BY <1>1, <1>2, <1>5, <1>6 DEF Kept
    <3>. QED
      BY <1>2, <2>11, <3>2, <3>3 DEF Gone, Used
  <2>13. OneConnector' /\ AnsweredIsGone'
    <3>1. \A o \in App : Connecting(o)' <=> Connecting(o)
      BY <2>9 DEF Connecting
    <3>2. OneConnector'
      BY <2>9, <3>1 DEF Paired, OneConnector
    <3>3. ASSUME NEW o \in App, Connecting(o)', call'[o].msgs # <<>>
          PROVE  Gone(Home[o])'
      <4>1. CASE o = a
        BY <2>11, <2>12, <4>1
      <4>2. CASE o # a
        <5>1. Gone(Home[o])
          BY <2>9, <3>1, <3>3, <4>2 DEF Paired, AnsweredIsGone
        <5>. QED
          BY <2>10, <5>1, NetworkAssumption DEF GoneKept
      <4>. QED
        BY <4>1, <4>2
    <3>. QED
      BY <3>2, <3>3 DEF AnsweredIsGone
  <2>14. Owned'
    <3>. SUFFICES ASSUME ~ReuseClosed
                  PROVE  CallIsHeld' /\ HeldIsOpen' /\ NoSharedSocket'
      BY DEF Owned
    <3>1. CallIsHeld'
      BY <1>1, <2>9 DEF Paired, Owned, CallIsHeld, Connecting
    <3>2. HeldIsOpen' /\ NoSharedSocket'
      BY <1>1, <1>6 DEF Paired, Owned, HeldIsOpen, NoSharedSocket
    <3>. QED
      BY <3>1, <3>2
  <2>. QED
    BY <1>3, <2>7, <2>13, <2>14 DEF Paired
<1>7. CASE /\ UNCHANGED table /\ call' = Orphan(call)
           /\ fifos' = fifos \/ fifos' = CreateBoth(fifos, EndFifos(id))
  <2>1. fifos \ EndFifos(id) \subseteq fifos'
    BY <1>7 DEF CreateBoth
  <2>2. fifos \ AllFifos(id) \subseteq fifos'
    BY <2>1 DEF AllFifos, EndFifos, FifoKind
  <2>3. RowsGood(table', fifos')
    BY <1>4, <1>7, <2>2, SpareFifos DEF Paired
  <2>4. \A addr \in Addr, kind \in {"end_read", "end_write"} :
            <<kind, BoundId(addr)>> \in fifos => <<kind, BoundId(addr)>> \in fifos'
    <3>1. \A addr \in Addr : BoundId(addr) # id
      BY <1>1, RecordTypes
    <3>. QED
      BY <2>1, <3>1 DEF EndFifos
  <2>5. GoneKept /\ OpenKept
    BY <1>1, <1>7, <2>4, BoundFifosKept
  <2>6. Undisturbed
    BY <1>7, UndisturbedCalls DEF Paired
  <2>. QED
    BY <1>1, <1>3, <2>3, <2>5, <2>6, AnsweredKept, OwnedKept DEF Paired
<1>. QED
  BY <1>1, <1>6, <1>7

----------------------------------------------------------------------------
(* Accepting.                                                              *)

\* A SYN for a listener: the new connection is not in the table, so the end
\* fifos of its id that are in the way belong to no socket.
LEMMA PacketListenPaired ==
    ASSUME Paired, NEW m \in Ip, handle_packet_listen(m)
    PROVE  Paired'
<1>. DEFINE c == SynId(m)
<1>1. /\ mgr[m] = "running" /\ net[m] # <<>>
      /\ c \in Id /\ ~BoundOnly(c) /\ c.src.ip = m /\ c.dst.ip = m
      /\ ~Present(m, c)
      /\ \/ UNCHANGED <<table, fifos>>
         \/ fifos' = fifos \ EndFifos(c) /\ UNCHANGED table
         \/ fifos' = fifos \ AllFifos(c) /\ UNCHANGED table
         \/ fifos' = fifos \union EndFifos(c) /\ Opens(m, c)
  BY ListenEffect DEF Paired
<1>2. net' = Popped(m) /\ call' = Orphan(call) /\ UNCHANGED <<mgr, held, binds>>
  BY DEF handle_packet_listen
<1>3. Typed' /\ Undisturbed /\ NetLocal(net')
  BY <1>1, <1>2, PacketListenTyped, UndisturbedCalls, PoppedNet DEF Paired, Typed
<1>. HIDE DEF c
<1>4. NotInUse(table, c)
  BY <1>1, UnusedId DEF Paired
<1>5. fifos \ AllFifos(c) \subseteq fifos'
  BY <1>1 DEF EndFifos, AllFifos, FifoKind
<1>6. \A addr \in Addr, kind \in {"end_read", "end_write"} :
            <<kind, BoundId(addr)>> \in fifos => <<kind, BoundId(addr)>> \in fifos'
  <2>1. \A addr \in Addr : BoundId(addr) # c
    BY <1>1, RecordTypes
  <2>. QED
    BY <1>5, <2>1 DEF AllFifos
<1>7. OpenKept
  BY <1>2, <1>6, BoundFifosKept
<1>8. RowsGood(table, fifos')
  BY <1>4, <1>5, SpareFifos DEF Paired
<1>9. RowsGood(table', fifos') /\ GoneKept
  <2>1. CASE UNCHANGED table
    BY <1>2, <1>6, <1>8, <2>1, BoundFifosKept
  <2>2. ASSUME fifos' = fifos \union EndFifos(c),
               NEW r \in Used(m), NEW q \in Row, NEW s \in Socket, NEW t \in Socket,
               table[m][r].sock.state = "LISTEN", table[m][q] = Free,
               s.state = "LISTEN", s.max_connections >= 0, t.state = "SYN_RECEIVED",
               table' = PutRow(PutRow(table, m, r, WithSock(table[m][r], s)),
                               m, q, [id |-> c, sock |-> t])
        PROVE  RowsGood(table', fifos') /\ GoneKept
    <3>. DEFINE e == table[m][r]
                x == WithSock(e, s)
                y == [id |-> c, sock |-> t]
                u == PutRow(table, m, r, x)
    <3>1. r \in Row /\ RowOK(m, e) /\ Kept(e, fifos') /\ StaysLocal(e) /\ e # Free /\ e.id \in Id
      BY <1>8, UsedRow DEF Paired, RowsGood
    <3>2. x \in Entry /\ x.id = e.id /\ x.sock = s
      BY <2>2, <3>1, RecordTypes DEF WithSock
    <3>3. y \in Entry /\ y.id = c /\ y.sock = t
      BY <1>1, <2>2, RecordTypes
    <3>4. e.sock.state = "LISTEN" /\ table' = PutRow(u, m, q, y)
      BY <2>2
    <3>. HIDE DEF x, y, e
    <3>5. RowOK(m, x) /\ StaysLocal(x) /\ IdForFifo(x) = IdForFifo(e) /\ Kept(x, fifos')
      BY <2>2, <3>1, <3>2, <3>4 DEF RowOK, StaysLocal, IdForFifo, Kept, ConnectedState
    <3>6. RowOK(m, y) /\ StaysLocal(y) /\ IdForFifo(y) = c /\ Kept(y, fifos')
      BY <1>1, <2>2, <3>3 DEF RowOK, StaysLocal, IdForFifo, Kept, EndFifos
    <3>7. \A p \in Row : p # r /\ table[m][p] # Free =>
                table[m][p].id # x.id /\ IdForFifo(table[m][p]) # IdForFifo(x)
      BY <2>2, <3>2, <3>5, OtherRows DEF Paired, e
    <3>8. RowsGood(u, fifos')
      BY <1>8, <3>1, <3>5, <3>7, PutRowGood DEF Paired, Typed
    <3>9. /\ TableOK(u) /\ u[m][r] = x
          /\ \A p \in Row : p # r => u[m][p] = table[m][p]
          /\ \A n \in Ip : n # m => u[n] = table[n]
      BY <3>1, <3>5, PutRowOK DEF Paired, Typed
    <3>. HIDE DEF u
    <3>10. ASSUME NEW p \in Row, u[m][p] # Free
           PROVE  u[m][p].id # c /\ IdForFifo(u[m][p]) # c
      <4>1. CASE p = r
        BY <1>1, <1>4, <3>1, <3>2, <3>5, <3>9, <4>1 DEF NotInUse, e, Present, RowsOf, Used
      <4>2. CASE p # r
        BY <1>1, <1>4, <3>9, <3>10, <4>2 DEF NotInUse, Present, RowsOf, Used
      <4>. QED
        BY <4>1, <4>2
    <3>11. RowsGood(table', fifos')
      BY <3>3, <3>4, <3>6, <3>8, <3>9, <3>10, PutRowGood
    <3>12. GoneKept
      <4>1. /\ table'[m][q] = y
            /\ \A p \in Row : p # q => table'[m][p] = u[m][p]
            /\ \A n \in Ip : n # m => table'[n] = u[n]
        BY <3>4, <3>6, <3>9, PutRowOK
      <4>2. ASSUME NEW addr \in Addr, Gone(addr), NEW p \in Row, table'[addr.ip][p] # Free
            PROVE  IdForFifo(table'[addr.ip][p]) # BoundId(addr)
        <5>1. addr.ip \in Ip /\ BoundOnly(BoundId(addr))
          BY RecordTypes
        <5>2. CASE addr.ip = m /\ p = q
          BY <1>1, <3>6, <4>1, <5>1, <5>2
        <5>3. CASE addr.ip = m /\ p # q /\ p = r
          BY <3>5, <3>9, <4>1, <4>2, <5>3 DEF Gone, e
        <5>4. CASE ~(addr.ip = m /\ p = q) /\ ~(addr.ip = m /\ p = r)
          <6>1. table'[addr.ip][p] = table[addr.ip][p]
            BY <3>9, <4>1, <4>2, <5>1, <5>4
          <6>. QED
            BY <4>2, <6>1 DEF Gone, Used
        <5>. QED
          BY <5>2, <5>3, <5>4
      <4>. QED
        BY <1>2, <1>6, <4>2, GoneAfter
    <3>. QED
      BY <3>11, <3>12
  <2>. QED
    BY <1>1, <2>1, <2>2 DEF Opens
<1>. QED
  BY <1>2, <1>3, <1>7, <1>9, AnsweredKept, OwnedKept DEF Paired

----------------------------------------------------------------------------
(* Closing.                                                                *)

\* The manager takes a close: the key becomes the id the program closed.
LEMMA CloseCommandPaired ==
    ASSUME Paired, NEW m \in Ip, NEW r \in Row, HandleCloseCommand(m, r)
    PROVE  Paired'
<1>. DEFINE e == table[m][r]
            i == IdForFifo(e)
<1>1. r \in Used(m) /\ mgr[m] = "running" /\ <<"end_write", i>> \in fifos
  BY HandleCloseCommandEffect DEF Paired
<1>2. PICK s \in Socket : s.state = "FIN_WAIT_1" /\ table' = PutRow(table, m, r, [id |-> i, sock |-> s])
  BY HandleCloseCommandEffect DEF Paired
<1>3. PICK lost \in SUBSET Closing(i) :
        /\ lost # Closing(i)
        /\ call' = Wake(i, lost)
        /\ held' = IF ReuseClosed THEN held
                   ELSE [a \in App |-> IF a \in Closing(i) \ lost
                                       THEN held[a] \ {i} ELSE held[a]]
  BY DEF HandleCloseCommand
<1>4. fifos' = fifos \ {<<"end_read", i>>} /\ UNCHANGED <<net, mgr, binds>>
  BY DEF HandleCloseCommand, ClosedFifos
<1>5. RowOK(m, e) /\ e # Free /\ Kept(e, fifos) /\ StaysLocal(e) /\ i \in Id
  BY <1>1, UsedRow DEF Paired, RowsGood
<1>6. Typed' /\ NetLocal(net') /\ Undisturbed
  BY <1>3, <1>4, CloseCommandTyped, UndisturbedCalls DEF Paired
<1>. DEFINE x == [id |-> i, sock |-> s]
<1>7. x \in Entry /\ x.id = i /\ x.sock = s
  BY <1>2, <1>5, RecordTypes
<1>8. i.src.ip = m /\ (i = e.id \/ BoundOnly(i))
  BY <1>5, FifoKey DEF BoundOnly, BoundId
<1>9. table' = PutRow(table, m, r, x)
  BY <1>2
<1>. HIDE DEF e, i, x
<1>10. RowOK(m, x) /\ StaysLocal(x) /\ IdForFifo(x) = i
  BY <1>2, <1>5, <1>7, <1>8 DEF RowOK, StaysLocal, IdForFifo, ConnectedState, BoundOnly
<1>11. Kept(x, fifos) /\ Kept(x, fifos')
  BY <1>1, <1>2, <1>4, <1>7, <1>10 DEF Kept, OpenState
<1>12. \A q \in Row : q # r /\ table[m][q] # Free =>
            table[m][q].id # i /\ IdForFifo(table[m][q]) # i
  <2>1. ASSUME NEW q \in Row, q # r, table[m][q] # Free
        PROVE  table[m][q].id # i /\ IdForFifo(table[m][q]) # i
    <3>1. /\ RowOK(m, table[m][q]) /\ table[m][q].id # e.id
          /\ IdForFifo(table[m][q]) # i
      BY <1>1, <2>1, OtherRows DEF Paired, e, i
    <3>. QED
      BY <1>8, <3>1, FifoKey
  <2>. QED
    BY <2>1
<1>13. RowsGood(table', fifos)
  BY <1>7, <1>9, <1>10, <1>11, <1>12, PutRowGood DEF Paired, Typed
<1>14. /\ table'[m][r] = x
       /\ \A q \in Row : q # r => table'[m][q] = table[m][q]
       /\ \A n \in Ip : n # m => table'[n] = table[n]
  BY <1>9, <1>10, PutRowOK DEF Paired, Typed
<1>15. RowsGood(table', fifos')
  <2>1. ASSUME NEW n \in Ip, NEW q \in Row, table'[n][q] # Free
        PROVE  Kept(table'[n][q], fifos')
    <3>1. Kept(table'[n][q], fifos)
      BY <1>13, <2>1 DEF RowsGood
    <3>2. CASE n = m /\ q = r
      BY <1>11, <1>14, <3>2
    <3>3. CASE ~(n = m /\ q = r)
      <4>1. table'[n][q] = table[n][q] /\ RowOK(n, table[n][q])
        BY <1>14, <2>1, <3>3, UsedRow DEF Paired, Used
      <4>2. IdForFifo(table[n][q]) # i
        BY <1>8, <1>12, <2>1, <3>3, <4>1, FifoKey
      <4>. QED
        BY <1>4, <3>1, <4>1, <4>2 DEF Kept
    <3>. QED
      BY <3>2, <3>3
  <2>. QED
    BY <1>13, <2>1 DEF RowsGood
<1>16. GoneKept
  <2>1. \E q \in Used(m) : IdForFifo(x) = IdForFifo(table[m][q])
    BY <1>1, <1>10 DEF i, e
  <2>2. \A addr \in Addr : <<"end_write", BoundId(addr)>> \in fifos
                                => <<"end_write", BoundId(addr)>> \in fifos'
    BY <1>4
  <2>. QED
    BY <1>4, <1>9, <1>10, <2>1, <2>2, GoneAfterPut DEF Paired
<1>17. Owned'
  <2>. SUFFICES ASSUME ~ReuseClosed
                PROVE  CallIsHeld' /\ HeldIsOpen' /\ NoSharedSocket'
    BY DEF Owned
  <2>1. \A a \in App : /\ held'[a] \subseteq held[a]
                       /\ a \in Closing(i) \ lost => held'[a] = held[a] \ {i}
                       /\ a \notin Closing(i) \ lost => held'[a] = held[a]
    BY <1>3
  <2>2. \A a \in App : a \in Closing(i) => call'[a].op \in {"none", "stuck"}
    BY <1>3, CallTypes DEF Wake
  <2>3. CallIsHeld'
    <3>1. ASSUME NEW a \in App, Connecting(a)' \/ call'[a].op = "close"
          PROVE  call'[a].id \in held'[a]
      <4>1. /\ Connecting(a) \/ call[a].op = "close"
            /\ call'[a].id = call[a].id
        BY <1>6, <3>1 DEF Undisturbed, Connecting
      <4>2. a \notin Closing(i)
        BY <2>2, <3>1 DEF Connecting
      <4>. QED
        BY <2>1, <4>1, <4>2 DEF Paired, Owned, CallIsHeld
    <3>. QED
      BY <3>1 DEF CallIsHeld
  <2>4. HeldIsOpen'
    <3>1. ASSUME NEW a \in App, NEW id \in held'[a], BoundOnly(id), mgr[id.src.ip] # "stopped"
          PROVE  <<"end_read", id>> \in fifos'
      <4>1. id \in held[a] /\ <<"end_read", id>> \in fifos
        BY <2>1, <3>1 DEF Paired, Owned, HeldIsOpen
      <4>2. CASE id = i
        <5>1. PICK o \in App : o \in Closing(i) \ lost
          BY <1>3 DEF Closing
        <5>2. i \in held[o]
          BY <5>1, CallTypes DEF Paired, Owned, CallIsHeld, Closing
        <5>3. o = a
          BY <3>1, <4>1, <4>2, <5>2 DEF Paired, Owned, NoSharedSocket
        <5>. QED
          BY <2>1, <3>1, <4>2, <5>1, <5>3
      <4>3. CASE id # i
        BY <1>4, <4>1, <4>3
      <4>. QED
        BY <4>2, <4>3
    <3>. QED
      BY <1>4, <3>1 DEF HeldIsOpen
  <2>5. NoSharedSocket'
    BY <2>1 DEF Paired, Owned, NoSharedSocket
  <2>. QED
    BY <2>3, <2>4, <2>5
<1>. QED
  BY <1>6, <1>15, <1>16, <1>17, AnsweredKept DEF Paired

\* A CLOSED socket leaves with the fifos of its key.
LEMMA ClosedSocketPaired ==
    ASSUME Paired, NEW m \in Ip, NEW r \in Row, HandleClosedSocket(m, r)
    PROVE  Paired'
<1>. DEFINE e == table[m][r]
            i == e.id
<1>1. /\ r \in Used(m) /\ mgr[m] = "running" /\ e.sock.state = "CLOSED"
      /\ table' = PutRow(table, m, r, Free)
  BY HandleClosedSocketEffect DEF Paired
<1>2. /\ fifos' = fifos \ (AllFifos(i) \ {<<"end_read", i>>})
      /\ UNCHANGED <<net, mgr, held, binds>>
      /\ \E lost : call' = Wake(i, lost)
  BY DEF HandleClosedSocket, RemovedFifos
<1>3. RowOK(m, e) /\ IdForFifo(e) = i /\ i.src.ip = m
  BY <1>1, UsedRow DEF Paired, IdForFifo, RowOK
<1>4. Typed' /\ NetLocal(net') /\ Undisturbed
  BY <1>2, ClosedSocketTyped, UndisturbedCalls DEF Paired
<1>. HIDE DEF e, i
<1>5. RowsGood(table', fifos)
  BY <1>1, PutRowGood DEF Paired, Typed
<1>6. /\ table'[m][r] = Free
      /\ \A q \in Row : q # r => table'[m][q] = table[m][q]
      /\ \A n \in Ip : n # m => table'[n] = table[n]
  BY <1>1, PutRowOK DEF Paired, Typed
<1>7. NotInUse(table', i)
  <2>1. ASSUME NEW n \in Ip, NEW q \in Row, table'[n][q] # Free
        PROVE  IdForFifo(table'[n][q]) # i
    <3>1. table'[n][q] = table[n][q] /\ RowOK(n, table[n][q]) /\ ~(n = m /\ q = r)
      BY <1>6, <2>1, UsedRow DEF Paired, Used
    <3>2. CASE n = m
      BY <1>1, <1>3, <2>1, <3>1, <3>2, OtherRows DEF Paired, e
    <3>3. CASE n # m
      BY <1>3, <3>1, <3>3, FifoKey
    <3>. QED
      BY <3>2, <3>3
  <2>. QED
    BY <2>1 DEF NotInUse
<1>8. RowsGood(table', fifos')
  BY <1>2, <1>5, <1>7, SpareFifos
<1>9. GoneKept
  <2>1. ASSUME NEW addr \in Addr, Gone(addr), <<"end_write", BoundId(addr)>> \in fifos
        PROVE  <<"end_write", BoundId(addr)>> \in fifos'
    <3>1. CASE BoundId(addr) = i
      <4>1. addr.ip = m
        BY <1>3, <3>1 DEF BoundId
      <4>. QED
        BY <1>1, <1>3, <2>1, <3>1, <4>1 DEF Gone, e
    <3>2. CASE BoundId(addr) # i
      BY <1>2, <2>1, <3>2 DEF AllFifos
    <3>. QED
      BY <3>1, <3>2
  <2>. QED
    BY <1>1, <1>2, <2>1, GoneAfterPut DEF Paired
<1>10. OpenKept
  BY <1>2 DEF OpenKept, AllFifos
<1>. QED
  BY <1>2, <1>4, <1>8, <1>9, <1>10, AnsweredKept, OwnedKept DEF Paired

----------------------------------------------------------------------------
(* Programs going on, and the theorems.                                    *)

\* SocketConnect returns: the end fifos of the bound id, which no socket has any
\* more, go, and those of the connection stay.
LEMMA ConnectReturnPaired ==
    ASSUME Paired, NEW a \in App, ConnectReturn(a)
    PROVE  Paired'
<1>. DEFINE b == BoundId(Home[a])
            c == [src |-> Home[a], dst |-> Target[a]]
<1>1. /\ call[a].op = "connecting" /\ call[a].msgs # <<>> /\ call[a].id = b
      /\ b \in Id /\ c \in Id /\ BoundOnly(b) /\ ~BoundOnly(c)
      /\ call' = [call EXCEPT ![a] = Idle]
      /\ UNCHANGED <<table, net, mgr, binds>>
      /\ \/ /\ fifos' = (fifos \ EndFifos(b)) \union DataFifos(c)
            /\ held' = [held EXCEPT ![a] = (@ \ {b}) \union {c}]
         \/ /\ fifos' = (fifos \ DataFifos(c)) \union EndFifos(b)
            /\ UNCHANGED held
  BY ConnectReturnEffect DEF Paired
<1>2. Typed' /\ Undisturbed /\ NetLocal(net')
  BY <1>1, ProgramStepTyped, UndisturbedCalls DEF Paired, ProgramStep
<1>3. Home[a] \in Addr /\ Gone(Home[a]) /\ Connecting(a) /\ b.src.ip = Home[a].ip
  BY <1>1, NetworkAssumption DEF Paired, AnsweredIsGone, Connecting, BoundId
<1>4. NotInUse(table, b)
  <2>1. ASSUME NEW n \in Ip, NEW q \in Row, table[n][q] # Free
        PROVE  IdForFifo(table[n][q]) # b
    <3>1. RowOK(n, table[n][q]) /\ q \in Used(n)
      BY <2>1, UsedRow DEF Paired, Used
    <3>. QED
      BY <1>3, <3>1, FifoKey DEF Gone
  <2>. QED
    BY <2>1 DEF NotInUse
<1>5. \A o \in App : o # a => ~(Connecting(o) /\ call[o].id = b)
  BY <1>1, <1>3 DEF Paired, OneConnector
<1>6. \A o \in App : o # a => call'[o] = call[o]
  BY <1>1 DEF Paired, Typed, CallsOK
<1>7. ~Connecting(a)' /\ call'[a].op = "none"
  BY <1>1, CallTypes DEF Connecting, Paired, Typed, CallsOK
<1>. DEFINE h == BoundId(Home[a])
<1>8. \A kind \in {"end_read", "end_write"} : \A id :
            id # b /\ <<kind, id>> \in fifos => <<kind, id>> \in fifos'
  BY <1>1 DEF EndFifos, DataFifos
<1>. HIDE DEF b, c, h
<1>9. RowsGood(table', fifos')
  <2>1. ASSUME NEW e, IdForFifo(e) # b, Kept(e, fifos)
        PROVE  Kept(e, fifos')
    BY <1>8, <2>1 DEF Kept
  <2>. QED
    BY <1>1, <1>4, <2>1 DEF Paired, RowsGood, NotInUse
<1>10. OneConnector'
  BY <1>6, <1>7 DEF Paired, OneConnector, Connecting
<1>11. AnsweredIsGone'
  <2>1. ASSUME NEW o \in App, Connecting(o)', call'[o].msgs # <<>>
        PROVE  Gone(Home[o])'
    <3>1. o # a /\ Connecting(o) /\ Gone(Home[o])
      BY <1>6, <1>7, <2>1 DEF Paired, AnsweredIsGone, Connecting
    <3>2. BoundId(Home[o]) # b
      BY <1>5, <3>1 DEF Paired, Typed, CallsOK, CallOK, Connecting
    <3>. QED
      BY <1>1, <1>8, <3>1, <3>2 DEF Gone, Used
  <2>. QED
    BY <2>1 DEF AnsweredIsGone
<1>12. Owned'
  <2>. SUFFICES ASSUME ~ReuseClosed
                PROVE  CallIsHeld' /\ HeldIsOpen' /\ NoSharedSocket'
    BY DEF Owned
  <2>1. b \in held[a]
    BY <1>1, <1>3 DEF Paired, Owned, CallIsHeld
  <2>2. \A o \in App : o # a => held'[o] = held[o] /\ b \notin held[o]
    BY <1>1, <2>1 DEF Paired, Typed, HeldOK, Owned, NoSharedSocket
  <2>3. /\ held'[a] \subseteq held[a] \union {c}
        /\ b \in held'[a] => <<"end_read", b>> \in fifos'
    BY <1>1 DEF Paired, Typed, HeldOK, EndFifos
  <2>4. CallIsHeld'
    BY <1>6, <1>7, <2>2 DEF Paired, Owned, CallIsHeld, Connecting
  <2>5. HeldIsOpen'
    <3>1. ASSUME NEW o \in App, NEW id \in held'[o], BoundOnly(id), mgr[id.src.ip] # "stopped"
          PROVE  <<"end_read", id>> \in fifos'
      <4>1. CASE id = b
        BY <2>2, <2>3, <3>1, <4>1
      <4>2. CASE id # b
        <5>1. id \in held[o]
          BY <1>1, <2>2, <2>3, <3>1
        <5>2. <<"end_read", id>> \in fifos
          BY <3>1, <5>1 DEF Paired, Owned, HeldIsOpen
        <5>. QED
          BY <1>8, <4>2, <5>2
      <4>. QED
        BY <4>1, <4>2
    <3>. QED
      BY <1>1, <3>1 DEF HeldIsOpen
  <2>6. NoSharedSocket'
    <3>1. ASSUME NEW p \in App, NEW o \in App, p # o, NEW id \in held'[p], id \in held'[o]
          PROVE  ~BoundOnly(id)
      <4>1. CASE BoundOnly(id)
        <5>1. id \in held[p] /\ id \in held[o]
          BY <1>1, <2>2, <2>3, <3>1, <4>1
        <5>. QED
          BY <3>1, <5>1 DEF Paired, Owned, NoSharedSocket
      <4>. QED
        BY <4>1
    <3>. QED
      BY <3>1 DEF NoSharedSocket
  <2>. QED
    BY <2>4, <2>5, <2>6
<1>. QED
  BY <1>2, <1>9, <1>10, <1>11, <1>12 DEF Paired

\* The other steps of programs touch data fifos and ids of connections only.
LEMMA ProgramStepPaired ==
    ASSUME Paired, NEW a \in App, ProgramStep(a)
    PROVE  Paired'
<1>1. Typed'
  BY ProgramStepTyped DEF Paired
<1>2. CASE AcceptReturn(a)
  <2>. DEFINE c == [src |-> call[a].id.src, dst |-> Head(call[a].msgs)]
  <2>1. /\ call[a].op = "accept" /\ call[a].msgs # <<>>
        /\ call' = [call EXCEPT ![a] = Idle]
        /\ fifos' = CreateBoth(fifos, DataFifos(c))
        /\ held' = IF Creatable(DataFifos(c)) THEN [held EXCEPT ![a] = @ \union {c}] ELSE held
        /\ UNCHANGED <<table, net, mgr, binds>>
    BY <1>2 DEF AcceptReturn
  <2>2. ~BoundOnly(c)
    <3>1. call[a].msgs \in Seq(Addr)
      BY <2>1 DEF Paired, Typed, CallsOK, CallOK
    <3>2. Head(call[a].msgs) \in Addr
      BY <2>1, <3>1, HeadTailProperties
    <3>. QED
      BY <3>2, NetworkAssumption DEF BoundOnly
  <2>3. fifos \ DataFifos(c) \subseteq fifos'
    BY <2>1 DEF CreateBoth
  <2>. HIDE DEF c
  <2>4. \A kind \in {"end_read", "end_write"} : \A id : <<kind, id>> \in fifos => <<kind, id>> \in fifos'
    BY <2>3 DEF DataFifos
  <2>5. RowsGood(table', fifos')
    <3>1. \A e : Kept(e, fifos) => Kept(e, fifos')
      BY <2>4 DEF Kept
    <3>. QED
      BY <2>1, <3>1 DEF Paired, RowsGood
  <2>6. Undisturbed
    BY <2>1, UndisturbedCalls DEF Paired
  <2>7. GoneKept
    BY <2>1, <2>4, BoundFifosKept
  <2>8. Owned'
    <3>. SUFFICES ASSUME ~ReuseClosed
                  PROVE  CallIsHeld' /\ HeldIsOpen' /\ NoSharedSocket'
      BY DEF Owned
    <3>1. \A o \in App : held[o] \subseteq held'[o] /\ held'[o] \subseteq held[o] \union {c}
      BY <2>1 DEF Paired, Typed, HeldOK
    <3>2. CallIsHeld'
      BY <2>6, <3>1 DEF Paired, Owned, CallIsHeld, Connecting, Undisturbed
    <3>3. HeldIsOpen'
      BY <2>1, <2>2, <2>4, <3>1 DEF Paired, Owned, HeldIsOpen
    <3>4. NoSharedSocket'
      BY <2>2, <3>1 DEF Paired, Owned, NoSharedSocket
    <3>. QED
      BY <3>2, <3>3, <3>4
  <2>. QED
    BY <1>1, <2>1, <2>5, <2>6, <2>7, <2>8, AnsweredKept DEF Paired
<1>3. CASE ConnectTimeout(a) \/ AcceptTimeout(a) \/ \E id \in held[a] : SocketAccept(a, id)
  <2>1. /\ UNCHANGED <<table, net, fifos, mgr, held, binds>>
        /\ \/ call' = [call EXCEPT ![a] = Idle]
           \/ \E id : call' = [call EXCEPT ![a] = Calling("accept", id)]
    BY <1>3 DEF ConnectTimeout, AcceptTimeout, SocketAccept
  <2>2. Undisturbed
    <3>1. \A o \in App : call'[o] = call[o] \/ call'[o].op \in {"none", "accept"}
      BY <2>1, CallTypes DEF Paired, Typed, CallsOK
    <3>. QED
      BY <3>1 DEF Undisturbed, Connecting
  <2>3. GoneKept /\ OpenKept
    BY <2>1, BoundFifosKept
  <2>. QED
    BY <1>1, <2>1, <2>2, <2>3, AnsweredKept, OwnedKept DEF Paired
<1>4. ASSUME NEW id \in held[a], SocketConnect(a, id) \/ SocketClose(a, id)
      PROVE  Paired'
  <2>1. /\ UNCHANGED <<table, net, fifos, mgr, held, binds>>
        /\ call[a].op = "none"
        /\ \/ /\ Connectors(id) = {}
              /\ call' = [call EXCEPT ![a] = Calling("connect", id)]
           \/ call' = [call EXCEPT ![a] = Calling("close", id)]
           \/ call' = [call EXCEPT ![a] = Calling("stuck", NoAddr)]
    BY <1>4 DEF SocketConnect, SocketClose
  <2>2. /\ \A o \in App : o # a => call'[o] = call[o]
        /\ call'[a].msgs = <<>>
        /\ call'[a].op \in {"connect", "close"} => call'[a].id = id
        /\ call'[a].op \in {"connect", "connecting"} => Connectors(id) = {}
        /\ call'[a].op \in {"connect", "close", "stuck"}
    BY <2>1, CallTypes DEF Paired, Typed, CallsOK
  <2>3. OneConnector'
    <3>1. \A o \in App : Connecting(o) => o \in Connectors(call[o].id)
      BY DEF Connecting, Connectors
    <3>. QED
      BY <2>2, <3>1 DEF Paired, OneConnector, Connecting
  <2>4. AnsweredIsGone'
    BY <2>1, <2>2 DEF Paired, AnsweredIsGone, Gone, Connecting, Used
  <2>5. Owned'
    BY <2>1, <2>2 DEF Paired, Owned, CallIsHeld, HeldIsOpen, NoSharedSocket, Connecting
  <2>. QED
    BY <1>1, <2>1, <2>3, <2>4, <2>5 DEF Paired
<1>5. ASSUME NEW id \in held[a], SocketDestroy(a, id)
      PROVE  Paired'
  <2>1. /\ call[a].op = "none" /\ held' = [held EXCEPT ![a] = @ \ {id}]
        /\ UNCHANGED <<table, net, fifos, mgr, call, binds>>
    BY <1>5 DEF SocketDestroy
  <2>2. \A o \in App : held'[o] \subseteq held[o] /\ (o # a => held'[o] = held[o])
    BY <2>1 DEF Paired, Typed, HeldOK
  <2>3. Undisturbed
    BY <2>1, UndisturbedCalls DEF Paired
  <2>4. GoneKept
    BY <2>1, BoundFifosKept
  <2>5. Owned'
    BY <2>1, <2>2 DEF Paired, Owned, CallIsHeld, HeldIsOpen, NoSharedSocket, Connecting
  <2>. QED
    BY <1>1, <2>1, <2>3, <2>4, <2>5, AnsweredKept DEF Paired
<1>. QED
  BY <1>2, <1>3, <1>4, <1>5, ConnectReturnPaired DEF ProgramStep

LEMMA DroppedRequestPaired ==
    ASSUME Paired, NEW a \in App, HandleDroppedRequest(a), Typed'
    PROVE  Paired'
<1>. DEFINE m == call[a].id.src.ip
<1>1. /\ mgr[m] = "running" /\ mgr' = [mgr EXCEPT ![m] = "hung"]
      /\ UNCHANGED <<table, net, fifos, call, held, binds>>
  BY DEF HandleDroppedRequest
<1>2. \A n \in Ip : mgr'[n] # "stopped" <=> mgr[n] # "stopped"
  BY <1>1 DEF Paired, Typed
<1>3. \A addr \in Addr : addr.ip \in Ip
  BY RecordTypes
<1>4. Undisturbed
  BY <1>1, UndisturbedCalls DEF Paired
<1>. HIDE DEF m
<1>5. GoneKept /\ OpenKept
  BY <1>1, <1>2, <1>3 DEF GoneKept, OpenKept, Gone, Used
<1>. QED
  BY <1>1, <1>4, <1>5, AnsweredKept, OwnedKept DEF Paired

LEMMA InitPaired == Init => Paired
<1>. SUFFICES ASSUME Init PROVE Paired
  OBVIOUS
<1>1. RowsGood(table, fifos)
  BY DEF Init, RowsGood, UniqueIn
<1>2. NetLocal(net)
  BY DEF Init, NetLocal
<1>3. OneConnector /\ AnsweredIsGone /\ Owned
  BY CallTypes DEF Init, OneConnector, AnsweredIsGone, Owned, CallIsHeld, HeldIsOpen,
                   NoSharedSocket, Connecting
<1>. QED
  BY <1>1, <1>2, <1>3, InitTyped DEF Paired

LEMMA NextPaired ==
    ASSUME Local, ~Restarts, Paired, [Next]_vars
    PROVE  Paired'
<1>1. Typed'
  BY NextTyped DEF Paired
<1>2. CASE UNCHANGED vars
  <2>1. UNCHANGED <<table, net, fifos, mgr, call, held, binds>>
    BY <1>2 DEF vars
  <2>2. Undisturbed
    BY <2>1, UndisturbedCalls DEF Paired
  <2>3. GoneKept /\ OpenKept
    BY <2>1, BoundFifosKept
  <2>. QED
    BY <1>1, <2>1, <2>2, <2>3, AnsweredKept, OwnedKept DEF Paired
<1>3. ASSUME NEW a \in App,
             \/ SocketBind(a) \/ HandleConnectRequest(a)
             \/ HandleDroppedRequest(a) \/ ProgramStep(a)
             \/ \E id \in held[a] : SocketListen(a, id)
      PROVE  Paired'
  BY <1>1, <1>3, BindPaired, ConnectRequestPaired, DroppedRequestPaired, ProgramStepPaired,
     ListenCallPaired
<1>4. ASSUME NEW m \in Ip,
             \/ IgnorePacket(m) \/ (\E r \in Row : ResendStep(m, r))
             \/ HandleReset(m)
             \/ (\E r \in Row : HandleSynReceived(m, r) \/ HandleConnected(m, r))
             \/ handle_packet_listen(m)
             \/ (\E r \in Row : \/ HandleSynSent(m, r) \/ HandleCloseCommand(m, r)
                                \/ HandleClosedSocket(m, r) \/ GiveUp(m, r)
                                \/ CloseWaitToLastAck(m, r) \/ TimeWaitToClosed(m, r))
             \/ TerminateManager(m) \/ StartManager(m) \/ StartAfterCrash(m)
      PROVE  Paired'
  <2>1. ~(TerminateManager(m) \/ StartManager(m) \/ StartAfterCrash(m))
    BY DEF TerminateManager, StartManager, StartAfterCrash
  <2>. QED
    BY <1>4, <2>1, NetStepPaired, ConnectionStepPaired, PacketListenPaired, SynSentPaired,
       CloseCommandPaired, ClosedSocketPaired
<1>. QED
  BY <1>2, <1>3, <1>4, StepCases

LEMMA AlwaysPaired ==
    ASSUME Local, ~Restarts
    PROVE  Spec => []Paired
BY InitPaired, NextPaired, PTL DEF Spec

\* No two sockets of a table have the same key, although
\* check_and_handle_connect_request and check_and_handle_close_command change
\* the key of a socket in place.
THEOREM KeysAreUnique ==
    ASSUME Local, ~Restarts
    PROVE  Spec => []UniqueIds
BY AlwaysPaired, PairedMeaning, PTL

\* The fifo that check_and_handle_close_command opens exists as long as the
\* socket is not CLOSED, even when programs use ids they have closed.
THEOREM EndFifosStayPaired ==
    ASSUME Local, ~Restarts
    PROVE  Spec => []EndFifosPaired
BY AlwaysPaired, PairedMeaning, PTL

\* When SocketConnect is about to report success, its own attempt succeeded.
THEOREM AnswersAreTrue ==
    ASSUME Local, ~Restarts
    PROVE  Spec => []AnswerIsTrue
BY AlwaysPaired, PairedMeaning, PTL

\* A bound port has one owner, when programs do not use an id again that
\* SocketClose has closed, as network.h asks.
THEOREM PortsAreNotShared ==
    ASSUME Local, ~Restarts, ~ReuseClosed
    PROVE  Spec => []NoSharedSocket
BY AlwaysPaired, PairedMeaning, PTL

\* Under the same condition a socket nobody has closed can be closed: SocketClose
\* finds both end fifos under the id its program has.
THEOREM OpenSocketsAreClosable ==
    ASSUME Local, ~Restarts, ~ReuseClosed
    PROVE  Spec => []OpenIsClosable
BY AlwaysPaired, PairedMeaning, PTL

----------------------------------------------------------------------------
(* A listener keeps to its backlog: this needs neither hypothesis.  Every  *)
(* socket of a port comes from the one that was bound: it is moved to the  *)
(* key of a connection by SocketConnect, and handle_packet_listen makes    *)
(* others.  The accept fifo, which nobody removes before that socket is    *)
(* gone, keeps max_connections from being set a second time.               *)

\* The sockets of an address in a table, and those that are connections.
RowsAt(t, addr) == {r \in Row : t[addr.ip][r] # Free /\ t[addr.ip][r].id.src = addr}
ConnectionRows(t, addr) == {r \in RowsAt(t, addr) : ~BoundOnly(t[addr.ip][r].id)}

\* The socket of a SocketBind, also while a SocketConnect has given it a partner.
IsOrigin(e) == BoundOnly(e.id) \/ e.sock.state = "SYN_SENT"

AcceptFifo(addr) == <<"accept", BoundId(addr)>>

\* An address has at most one such socket, and nothing else before it has
\* listened; when it listens, it has given away what it does not have left.
OnlyOrigin(t, F, addr, r) == \A q \in RowsAt(t, addr) :
    IsOrigin(t[addr.ip][q]) \/ AcceptFifo(addr) \notin F => q = r

WithinLimit(t, F, addr, n, r) ==
    t[addr.ip][r].sock.state = "LISTEN" =>
        /\ AcceptFifo(addr) \in F
        /\ t[addr.ip][r].sock.max_connections + Cardinality(ConnectionRows(t, addr)) <= n

Limited(t, F, addr, n) == \A r \in RowsAt(t, addr) : IsOrigin(t[addr.ip][r]) =>
    OnlyOrigin(t, F, addr, r) /\ WithinLimit(t, F, addr, n, r)

\* Nobody else has bound the address of a.
Alone(b, a) == \A o \in App \ {a} : Home[o] = Home[a] => b[o] = 0

Limits == \A a \in App : Alone(binds, a) =>
    /\ binds[a] = 0 => RowsAt(table, Home[a]) = {}
    /\ binds[a] <= 1 => Limited(table, fifos, Home[a], Backlog[a])

\* A program that has bound nothing has no id and calls nothing else.
Unborn(o) == held[o] = {} /\ call[o] = Idle
IdleUntilBind == \A o \in App : binds[o] = 0 => Unborn(o)

InLimits == Typed /\ Limits /\ IdleUntilBind

----------------------------------------------------------------------------

LEMMA ConnectionRowsFinite ==
    ASSUME NEW t, NEW addr
    PROVE  IsFiniteSet(ConnectionRows(t, addr)) /\ Cardinality(ConnectionRows(t, addr)) \in Nat
<1>1. IsFiniteSet(Row)
  BY NetworkAssumption, FS_Interval DEF Row
<1>2. ConnectionRows(t, addr) \in SUBSET Row
  BY DEF ConnectionRows, RowsAt
<1>3. IsFiniteSet(ConnectionRows(t, addr))
  BY <1>1, <1>2, FS_Subset
<1>. QED
  BY <1>3, FS_CardinalityType

\* The sockets of an address are in the table of its manager, so there are at
\* most as many connections as rows.
LEMMA InLimitsMeaning == InLimits => BacklogBound
<1>. SUFFICES ASSUME InLimits, NEW e \in AllSockets, NEW a \in App,
                     e.sock.state = "LISTEN", e.id.src = Home[a], binds[a] = 1,
                     \A o \in App \ {a} : Home[o] = Home[a] => binds[o] = 0
              PROVE  e.sock.max_connections + Cardinality(ConnectionsOf(e.id.src)) <= Backlog[a]
  BY DEF BacklogBound
<1>. DEFINE addr == Home[a]
            rows == ConnectionRows(table, addr)
            f == [r \in rows |-> table[addr.ip][r]]
<1>1. \A m \in Ip : \A r \in Used(m) : r \in Row /\ table[m][r] # Free /\ table[m][r].id.src.ip = m
                                       /\ RowOK(m, table[m][r])
  BY UsedRow DEF InLimits, RowOK
<1>2. PICK m \in Ip, r \in Row : r \in Used(m) /\ e = table[m][r]
  BY DEF AllSockets, Sockets, Used
<1>3. addr \in Addr /\ addr.ip = m /\ addr.ip \in Ip /\ Backlog[a] \in Nat
  BY <1>1, <1>2, NetworkAssumption DEF Addr
<1>4. r \in RowsAt(table, addr)
  BY <1>1, <1>2, <1>3 DEF RowsAt
<1>5. RowOK(m, e)
  BY <1>1, <1>2
<1>6. IsOrigin(e) /\ e.sock.max_connections \in Int
  BY <1>5, RecordTypes DEF RowOK, IsOrigin, Socket
<1>7. Limited(table, fifos, addr, Backlog[a])
  BY DEF InLimits, Limits, Alone
<1>8. e.sock.max_connections + Cardinality(rows) <= Backlog[a]
  BY <1>2, <1>3, <1>4, <1>6, <1>7 DEF Limited, WithinLimit
<1>9. \A d \in ConnectionsOf(addr) : \E q \in rows : table[addr.ip][q] = d
  BY <1>1, <1>3 DEF ConnectionsOf, AllSockets, Sockets, ConnectionRows, RowsAt, Used
<1>10. \A q \in rows : table[addr.ip][q] \in ConnectionsOf(addr)
  BY <1>3 DEF ConnectionsOf, AllSockets, Sockets, ConnectionRows, RowsAt, Used
<1>11. f \in Surjection(rows, ConnectionsOf(addr))
  BY <1>9, <1>10 DEF Surjection
<1>12. IsFiniteSet(rows) /\ Cardinality(rows) \in Nat
  BY ConnectionRowsFinite
<1>. HIDE DEF rows, f, addr
<1>13. IsFiniteSet(ConnectionsOf(addr)) /\ Cardinality(ConnectionsOf(addr)) <= Cardinality(rows)
  BY <1>11, <1>12, FS_Surjection
<1>14. Cardinality(ConnectionsOf(addr)) \in Nat
  BY <1>13, FS_CardinalityType
<1>15. e.id.src = addr
  BY DEF addr
<1>. QED
  BY <1>3, <1>6, <1>8, <1>12, <1>13, <1>14, <1>15

\* What a step does to the sockets of an address when it opens no connection and
\* no listener: sockets go, change their state, or get their bound key back.
Quiet(addr) ==
    /\ \A q \in RowsAt(table', addr) :
        /\ q \in RowsAt(table, addr)
        /\ IsOrigin(table'[addr.ip][q]) => IsOrigin(table[addr.ip][q])
        /\ BoundOnly(table[addr.ip][q].id) => BoundOnly(table'[addr.ip][q].id)
        /\ table'[addr.ip][q].sock.state = "LISTEN" => table'[addr.ip][q] = table[addr.ip][q]
    /\ \/ AcceptFifo(addr) \in fifos => AcceptFifo(addr) \in fifos'
       \/ \A q \in RowsAt(table', addr) : ~IsOrigin(table'[addr.ip][q])

LEMMA QuietKeepsLimit ==
    ASSUME Typed, NEW addr \in Addr, NEW n \in Nat, Quiet(addr),
           Limited(table, fifos, addr, n)
    PROVE  Limited(table', fifos', addr, n)
<1>. SUFFICES ASSUME NEW r \in RowsAt(table', addr), IsOrigin(table'[addr.ip][r])
              PROVE  OnlyOrigin(table', fifos', addr, r) /\ WithinLimit(table', fifos', addr, n, r)
  BY DEF Limited
<1>1. /\ r \in RowsAt(table, addr) /\ IsOrigin(table[addr.ip][r])
      /\ AcceptFifo(addr) \in fifos => AcceptFifo(addr) \in fifos'
  BY DEF Quiet
<1>2. OnlyOrigin(table, fifos, addr, r) /\ WithinLimit(table, fifos, addr, n, r)
  BY <1>1 DEF Limited
<1>3. OnlyOrigin(table', fifos', addr, r)
  BY <1>1, <1>2 DEF OnlyOrigin, Quiet
<1>4. ASSUME table'[addr.ip][r].sock.state = "LISTEN"
      PROVE  /\ AcceptFifo(addr) \in fifos'
             /\ table'[addr.ip][r].sock.max_connections
                    + Cardinality(ConnectionRows(table', addr)) <= n
  <2>1. table'[addr.ip][r] = table[addr.ip][r]
    BY <1>4 DEF Quiet
  <2>2. ConnectionRows(table', addr) \in SUBSET ConnectionRows(table, addr)
    BY DEF Quiet, ConnectionRows
  <2>3. /\ Cardinality(ConnectionRows(table', addr)) <= Cardinality(ConnectionRows(table, addr))
        /\ Cardinality(ConnectionRows(table', addr)) \in Nat
        /\ Cardinality(ConnectionRows(table, addr)) \in Nat
    BY <2>2, ConnectionRowsFinite, FS_Subset
  <2>4. table[addr.ip][r].sock.max_connections \in Int
    <3>1. addr.ip \in Ip /\ r \in Used(addr.ip)
      BY <1>1, RecordTypes DEF RowsAt, Used
    <3>2. table[addr.ip][r].sock \in Socket
      BY <3>1, UsedRow
    <3>. QED
      BY <3>2 DEF Socket
  <2>5. /\ AcceptFifo(addr) \in fifos
        /\ table[addr.ip][r].sock.max_connections
               + Cardinality(ConnectionRows(table, addr)) <= n
    BY <1>2, <1>4, <2>1 DEF WithinLimit
  <2>. QED
    BY <1>1, <2>1, <2>3, <2>4, <2>5
<1>. QED
  BY <1>3, <1>4 DEF WithinLimit

\* A step without a bind that is quiet for the addresses of all programs.
LEMMA QuietStep ==
    ASSUME InLimits, UNCHANGED binds,
           \A a \in App : Limited(table, fifos, Home[a], Backlog[a]) => Quiet(Home[a]),
           \A a \in App : RowsAt(table, Home[a]) = {} => RowsAt(table', Home[a]) = {}
    PROVE  Limits'
<1>. SUFFICES ASSUME NEW a \in App, Alone(binds', a)
              PROVE  /\ binds'[a] = 0 => RowsAt(table', Home[a]) = {}
                     /\ binds'[a] <= 1 => Limited(table', fifos', Home[a], Backlog[a])
  BY DEF Limits
<1>1. Home[a] \in Addr /\ Backlog[a] \in Nat
  BY NetworkAssumption
<1>2. /\ binds[a] = 0 => RowsAt(table, Home[a]) = {}
      /\ binds[a] <= 1 => Limited(table, fifos, Home[a], Backlog[a])
  BY DEF InLimits, Limits
<1>. QED
  BY <1>1, <1>2, QuietKeepsLimit DEF InLimits

\* Programs that have bound nothing stay so.
LEMMA IdleKept ==
    ASSUME InLimits, \A o \in App : binds'[o] = 0 => binds[o] = 0,
           \A o \in App : Unborn(o) /\ binds'[o] = 0 => held'[o] = {} /\ call'[o] = Idle
    PROVE  IdleUntilBind'
BY DEF InLimits, IdleUntilBind, Unborn

----------------------------------------------------------------------------
(* Steps that are quiet for every address.                                 *)

\* Neither the table nor an accept fifo changes.
LEMMA SameTableQuiet ==
    ASSUME InLimits, UNCHANGED <<table, binds>>,
           \A addr \in Addr : AcceptFifo(addr) \in fifos => AcceptFifo(addr) \in fifos'
    PROVE  Limits'
<1>1. \A addr \in Addr : Quiet(addr) /\ RowsAt(table', addr) = RowsAt(table, addr)
  BY DEF Quiet
<1>2. \A a \in App : Home[a] \in Addr
  BY NetworkAssumption
<1>. QED
  BY <1>1, <1>2, QuietStep

\* The socket in one row changes its state, and is no listener afterwards.
LEMMA PutRowQuiet ==
    ASSUME InLimits, NEW m \in Ip, NEW r \in Used(m), NEW x \in Entry,
           table' = PutRow(table, m, r, x), UNCHANGED binds,
           x.id.src = table[m][r].id.src,
           IsOrigin(x) => IsOrigin(table[m][r]),
           BoundOnly(table[m][r].id) => BoundOnly(x.id),
           x.sock.state # "LISTEN",
           \A addr \in Addr : AcceptFifo(addr) \in fifos => AcceptFifo(addr) \in fifos'
    PROVE  Limits'
<1>1. /\ r \in Row /\ table[m][r] # Free /\ x # Free
      /\ table \in [Ip -> [Row -> Entry \union {Free}]]
  BY NetworkAssumption DEF Used, InLimits, Typed, TableOK, Entry
<1>2. /\ table'[m][r] = x
      /\ \A q \in Row : q # r => table'[m][q] = table[m][q]
      /\ \A n \in Ip : n # m => table'[n] = table[n]
  BY <1>1 DEF PutRow
<1>3. ASSUME NEW addr \in Addr
      PROVE  Quiet(addr) /\ RowsAt(table', addr) \subseteq RowsAt(table, addr)
  <2>1. addr.ip \in Ip
    BY RecordTypes
  <2>2. CASE addr.ip # m
    BY <1>2, <2>1, <2>2 DEF Quiet, RowsAt
  <2>3. CASE addr.ip = m
    BY <1>1, <1>2, <2>3 DEF Quiet, RowsAt
  <2>. QED
    BY <2>2, <2>3
<1>4. \A a \in App : Home[a] \in Addr
  BY NetworkAssumption
<1>. QED
  BY <1>3, <1>4, QuietStep

\* A segment, a timer or a reset.
LEMMA SocketStepLimits ==
    ASSUME InLimits, NEW m \in Ip, SocketStep(m), UNCHANGED <<fifos, binds>>
    PROVE  Limits'
<1>1. PICK r \in Row, s \in Socket : SocketChanges(m, r, s)
  BY DEF SocketStep
<1>. DEFINE x == WithSock(table[m][r], s)
<1>2. r \in Used(m) /\ table' = PutRow(table, m, r, x) /\ s.state \notin {"LISTEN", "SYN_SENT"}
  BY <1>1 DEF SocketChanges
<1>3. table[m][r].id \in Id
  BY <1>2, UsedRow DEF InLimits
<1>4. x \in Entry /\ x.id = table[m][r].id /\ x.sock = s
  BY <1>3 DEF Entry, WithSock
<1>. HIDE DEF x
<1>5. IsOrigin(x) => IsOrigin(table[m][r])
  BY <1>2, <1>4 DEF IsOrigin
<1>. QED
  BY <1>2, <1>4, <1>5, PutRowQuiet

\* The fifos of end points and data are no accept fifos.
LEMMA OtherKinds ==
    /\ \A addr, id : AcceptFifo(addr) \notin EndFifos(id) /\ AcceptFifo(addr) \notin DataFifos(id)
    /\ \A addr, id : AcceptFifo(addr) \in AllFifos(id) => id = BoundId(addr)
    /\ \A F, P, f : f \in F /\ f \notin P => f \in CreateBoth(F, P)
BY DEF AcceptFifo, EndFifos, DataFifos, AllFifos, CreateBoth

\* SocketClose reaches the handler: a socket in SYN_SENT gets its bound key back.
LEMMA CloseCommandLimits ==
    ASSUME InLimits, NEW m \in Ip, NEW r \in Row, HandleCloseCommand(m, r)
    PROVE  Limits' /\ IdleUntilBind'
<1>. DEFINE e == table[m][r]
            i == IdForFifo(e)
<1>1. PICK s \in Socket : /\ s.state = "FIN_WAIT_1" /\ r \in Used(m)
                          /\ table' = PutRow(table, m, r, [id |-> i, sock |-> s])
  BY HandleCloseCommandEffect DEF InLimits
<1>. DEFINE x == [id |-> i, sock |-> s]
<1>2. RowOK(m, e) /\ e.id \in Id /\ i \in Id
  BY <1>1, UsedRow DEF InLimits
<1>3. x \in Entry /\ x.id = i /\ x.sock = s
  BY <1>2 DEF Entry
<1>4. i.src = e.id.src /\ (IsOrigin(x) => IsOrigin(e)) /\ (BoundOnly(e.id) => BoundOnly(i))
  <2>1. CASE e.sock.state = "SYN_SENT"
    BY <2>1 DEF IdForFifo, IsOrigin, BoundId, BoundOnly
  <2>2. CASE e.sock.state # "SYN_SENT"
    BY <1>1, <1>3, <2>2 DEF IdForFifo, IsOrigin
  <2>. QED
    BY <2>1, <2>2
<1>5. UNCHANGED binds /\ fifos' = fifos \ ClosedFifos(i)
  BY DEF HandleCloseCommand
<1>6. \A addr \in Addr : AcceptFifo(addr) \in fifos => AcceptFifo(addr) \in fifos'
  BY <1>5 DEF ClosedFifos, AcceptFifo
<1>7. \A o \in App : Unborn(o) => held'[o] = {} /\ call'[o] = Idle
  <2>1. PICK lost \in SUBSET Closing(i) :
            /\ call' = Wake(i, lost)
            /\ held' = IF ReuseClosed THEN held
                       ELSE [a \in App |-> IF a \in Closing(i) \ lost
                                           THEN held[a] \ {i} ELSE held[a]]
    BY DEF HandleCloseCommand
  <2>2. \A o \in App : Unborn(o) => o \notin Closing(i)
    BY DEF Unborn, Closing, Idle, Calling
  <2>. QED
    BY <2>1, <2>2 DEF Wake, Unborn
<1>. HIDE DEF x, e, i
<1>8. Limits'
  BY <1>1, <1>3, <1>4, <1>5, <1>6, PutRowQuiet DEF x, e
<1>. QED
  BY <1>5, <1>7, <1>8, IdleKept

\* check_and_handle_closed_socket removes the accept fifo only with the socket
\* that was bound.
LEMMA ClosedSocketLimits ==
    ASSUME InLimits, NEW m \in Ip, NEW r \in Row, HandleClosedSocket(m, r)
    PROVE  Limits' /\ IdleUntilBind'
<1>. DEFINE e == table[m][r]
<1>1. r \in Used(m) /\ table' = PutRow(table, m, r, Free)
  BY HandleClosedSocketEffect DEF InLimits
<1>2. UNCHANGED <<held, binds>> /\ fifos' = fifos \ RemovedFifos(e.id)
  BY DEF HandleClosedSocket
<1>3. /\ table'[m][r] = Free
      /\ \A q \in Row : q # r => table'[m][q] = table[m][q]
      /\ \A n \in Ip : n # m => table'[n] = table[n]
  BY <1>1, PutRowOK DEF InLimits, Typed
<1>4. e # Free /\ e.id.src.ip = m
  BY <1>1, UsedRow DEF InLimits, RowOK
<1>5. ASSUME NEW addr \in Addr
      PROVE  /\ RowsAt(table', addr) \subseteq RowsAt(table, addr) \ (IF addr.ip = m THEN {r} ELSE {})
             /\ \A q \in RowsAt(table', addr) : table'[addr.ip][q] = table[addr.ip][q]
  <2>1. addr.ip \in Ip
    BY RecordTypes
  <2>2. CASE addr.ip = m
    BY <1>3, <2>2 DEF RowsAt
  <2>3. CASE addr.ip # m
    BY <1>3, <2>1, <2>3 DEF RowsAt
  <2>. QED
    BY <2>2, <2>3
<1>6. ASSUME NEW a \in App, Limited(table, fifos, Home[a], Backlog[a])
      PROVE  Quiet(Home[a])
  <2>. DEFINE addr == Home[a]
  <2>1. addr \in Addr
    BY NetworkAssumption
  <2>2. CASE e.id # BoundId(addr)
    <3>1. AcceptFifo(addr) \in fifos => AcceptFifo(addr) \in fifos'
      BY <1>2, <2>2, OtherKinds DEF RemovedFifos
    <3>. QED
      BY <1>5, <2>1, <3>1 DEF Quiet
  <2>3. CASE e.id = BoundId(addr)
    <3>1. addr.ip = m /\ r \in RowsAt(table, addr) /\ IsOrigin(table[addr.ip][r])
      BY <1>4, <2>3 DEF BoundId, BoundOnly, RowsAt, IsOrigin
    <3>2. \A q \in RowsAt(table, addr) : IsOrigin(table[addr.ip][q]) => q = r
      BY <1>6, <3>1 DEF Limited, OnlyOrigin
    <3>3. \A q \in RowsAt(table', addr) : ~IsOrigin(table'[addr.ip][q])
      BY <1>5, <2>1, <3>1, <3>2
    <3>. QED
      BY <1>5, <2>1, <3>3 DEF Quiet
  <2>. QED
    BY <2>2, <2>3
<1>7. Limits'
  <2>1. \A a \in App : Home[a] \in Addr
    BY NetworkAssumption
  <2>. QED
    BY <1>2, <1>5, <1>6, <2>1, QuietStep
<1>8. \A o \in App : Unborn(o) => call'[o] = Idle
  <2>1. PICK lost \in SUBSET Closing(e.id) : call' = Wake(e.id, lost)
    BY DEF HandleClosedSocket
  <2>2. \A o \in App : Unborn(o) => o \notin Closing(e.id)
    BY DEF Unborn, Closing, Idle, Calling
  <2>. QED
    BY <2>1, <2>2 DEF Wake, Unborn
<1>9. IdleUntilBind'
  BY <1>2, <1>8, IdleKept DEF Unborn
<1>. QED
  BY <1>7, <1>9

\* Orphan moves programs inside SocketClose only.
LEMMA OrphanIdle ==
    ASSUME NEW o \in App, Unborn(o), call' = Orphan(call)
    PROVE  call'[o] = Idle
BY DEF Orphan, Unborn, Idle

LEMMA SynSentLimits ==
    ASSUME InLimits, NEW m \in Ip, NEW r \in Row, HandleSynSent(m, r)
    PROVE  Limits' /\ IdleUntilBind'
<1>. DEFINE e == table[m][r]
<1>1. /\ r \in Used(m) /\ e.sock.state = "SYN_SENT" /\ ~BoundOnly(e.id)
      /\ UNCHANGED <<mgr, held, binds>>
      /\ \/ /\ \E s \in Socket :
               /\ s.state = "ESTABLISHED"
               /\ table' = PutRow(table, m, r, WithSock(e, s))
            /\ EndFifos(e.id) \intersect fifos = {}
            /\ fifos' = fifos \union EndFifos(e.id)
            /\ \E a \in Connectors(BoundId(e.id.src)) :
                   call' = [call EXCEPT ![a].msgs = Append(@, Granted)]
         \/ /\ UNCHANGED table /\ call' = Orphan(call)
            /\ fifos' = fifos \/ fifos' = CreateBoth(fifos, EndFifos(e.id))
  BY HandleSynSentEffect DEF InLimits
<1>2. \A addr \in Addr : AcceptFifo(addr) \in fifos => AcceptFifo(addr) \in fifos'
  BY <1>1, OtherKinds
<1>3. Limits'
  <2>1. CASE UNCHANGED table
    BY <1>1, <1>2, <2>1, SameTableQuiet
  <2>2. ASSUME NEW s \in Socket, s.state = "ESTABLISHED",
               table' = PutRow(table, m, r, WithSock(e, s))
        PROVE  Limits'
    <3>. DEFINE x == WithSock(e, s)
    <3>1. e.id \in Id
      BY <1>1, UsedRow DEF InLimits
    <3>2. x \in Entry /\ x.id = e.id /\ x.sock = s
      BY <3>1 DEF Entry, WithSock
    <3>. HIDE DEF x
    <3>3. IsOrigin(x) => IsOrigin(e)
      BY <2>2, <3>2 DEF IsOrigin
    <3>. QED
      BY <1>1, <1>2, <2>2, <3>2, <3>3, PutRowQuiet DEF x
  <2>. QED
    BY <1>1, <2>1, <2>2
<1>4. \A o \in App : Unborn(o) => call'[o] = Idle
  <2>1. CASE call' = Orphan(call)
    BY <2>1, OrphanIdle
  <2>2. ASSUME NEW a \in Connectors(BoundId(e.id.src)),
               call' = [call EXCEPT ![a].msgs = Append(@, Granted)]
        PROVE  \A o \in App : Unborn(o) => call'[o] = Idle
    <3>1. a \in App /\ call[a].op # "none"
      BY DEF Connectors
    <3>2. \A o \in App : Unborn(o) => o # a
      BY <3>1 DEF Unborn, Idle
    <3>. QED
      BY <2>2, <3>1, <3>2 DEF Unborn, InLimits, Typed, CallsOK
  <2>. QED
    BY <1>1, <2>1, <2>2
<1>. QED
  BY <1>1, <1>3, <1>4, IdleKept DEF Unborn

\* Segments for connections, and timers.
LEMMA ConnectionStepLimits ==
    ASSUME InLimits, NEW m \in Ip,
           \/ HandleReset(m)
           \/ \E r \in Row : \/ HandleSynReceived(m, r) \/ HandleConnected(m, r)
                             \/ GiveUp(m, r) \/ CloseWaitToLastAck(m, r)
                             \/ TimeWaitToClosed(m, r)
    PROVE  Limits' /\ IdleUntilBind'
<1>1. CASE HandleReset(m)
  <2>1. SocketStep(m) /\ UNCHANGED <<fifos, call, held, binds>>
    BY <1>1, HandleResetEffect DEF InLimits, HandleReset
  <2>. QED
    BY <2>1, SocketStepLimits, IdleKept DEF Unborn
<1>2. ASSUME NEW r \in Row, HandleSynReceived(m, r)
      PROVE  Limits' /\ IdleUntilBind'
  <2>1. /\ SocketStep(m) /\ UNCHANGED <<fifos, held, binds>>
        /\ \/ \E a \in App : \E d \in Addr :
                 /\ call[a].op = "accept"
                 /\ call' = [call EXCEPT ![a].msgs = Append(@, d)]
           \/ UNCHANGED call
    BY <1>2, HandleSynReceivedEffect, HandleSynReceivedCall DEF InLimits
  <2>2. \A o \in App : Unborn(o) => call'[o] = Idle
    BY <2>1 DEF Unborn, Idle, InLimits, Typed, CallsOK
  <2>. QED
    BY <2>1, <2>2, SocketStepLimits, IdleKept DEF Unborn
<1>3. ASSUME NEW r \in Row, HandleConnected(m, r)
      PROVE  Limits' /\ IdleUntilBind'
  <2>1. SocketStep(m) /\ UNCHANGED <<fifos, call, held, binds>>
    BY <1>3, HandleConnectedEffect DEF InLimits, HandleConnected
  <2>. QED
    BY <2>1, SocketStepLimits, IdleKept DEF Unborn
<1>4. ASSUME NEW r \in Row,
             GiveUp(m, r) \/ CloseWaitToLastAck(m, r) \/ TimeWaitToClosed(m, r)
      PROVE  Limits' /\ IdleUntilBind'
  <2>1. SocketStep(m) /\ UNCHANGED <<fifos, mgr, call, held, binds>>
    BY <1>4, TimerEffect DEF InLimits
  <2>. QED
    BY <2>1, SocketStepLimits, IdleKept DEF Unborn
<1>. QED
  BY <1>1, <1>2, <1>3, <1>4

\* A step of a program between the other calls.
LEMMA ProgramStepLimits ==
    ASSUME InLimits, NEW a \in App, ProgramStep(a)
    PROVE  Limits' /\ IdleUntilBind'
<1>1. UNCHANGED <<table, binds>>
  BY DEF ProgramStep, ConnectReturn, ConnectTimeout, AcceptReturn, AcceptTimeout,
         SocketConnect, SocketAccept, SocketClose, SocketDestroy
<1>2. \A addr \in Addr : AcceptFifo(addr) \in fifos => AcceptFifo(addr) \in fifos'
  <2>1. CASE ConnectReturn(a)
    BY <2>1, OtherKinds DEF ConnectReturn
  <2>2. CASE AcceptReturn(a)
    BY <2>2, OtherKinds DEF AcceptReturn
  <2>3. CASE ConnectTimeout(a) \/ AcceptTimeout(a)
    BY <2>3 DEF ConnectTimeout, AcceptTimeout
  <2>4. CASE \E id \in held[a] : \/ SocketConnect(a, id) \/ SocketAccept(a, id)
                                 \/ SocketClose(a, id) \/ SocketDestroy(a, id)
    BY <2>4 DEF SocketConnect, SocketAccept, SocketClose, SocketDestroy
  <2>. QED
    BY <2>1, <2>2, <2>3, <2>4 DEF ProgramStep
<1>3. ~Unborn(a)
  <2>1. CASE \/ ConnectReturn(a) \/ ConnectTimeout(a) \/ AcceptReturn(a) \/ AcceptTimeout(a)
    BY <2>1 DEF ConnectReturn, ConnectTimeout, AcceptReturn, AcceptTimeout, Unborn, Idle
  <2>2. CASE held[a] # {}
    BY <2>2 DEF Unborn
  <2>. QED
    BY <2>1, <2>2 DEF ProgramStep
<1>4. \A o \in App : o # a => call'[o] = call[o] /\ held'[o] = held[o]
  <2>1. call \in [App -> Call] /\ held \in [App -> SUBSET Id]
    BY DEF InLimits, Typed, CallsOK, HeldOK
  <2>2. CASE ConnectReturn(a) \/ ConnectTimeout(a)
    BY <2>1, <2>2 DEF ConnectReturn, ConnectTimeout
  <2>3. CASE AcceptReturn(a) \/ AcceptTimeout(a)
    BY <2>1, <2>3 DEF AcceptReturn, AcceptTimeout
  <2>4. CASE \E id \in held[a] : \/ SocketConnect(a, id) \/ SocketAccept(a, id)
                                 \/ SocketClose(a, id) \/ SocketDestroy(a, id)
    BY <2>1, <2>4 DEF SocketConnect, SocketAccept, SocketClose, SocketDestroy
  <2>. QED
    BY <2>2, <2>3, <2>4 DEF ProgramStep
<1>5. IdleUntilBind'
  BY <1>1, <1>3, <1>4, IdleKept DEF Unborn
<1>. QED
  BY <1>1, <1>2, <1>5, SameTableQuiet

\* Segments nobody waits for, segments sent again, a request that hangs the
\* manager, and a manager that starts.
LEMMA OtherStepLimits ==
    ASSUME InLimits,
           \/ \E a \in App : HandleDroppedRequest(a)
           \/ \E m \in Ip : IgnorePacket(m) \/ StartManager(m) \/ \E r \in Row : ResendStep(m, r)
    PROVE  Limits' /\ IdleUntilBind'
<1>1. UNCHANGED <<table, fifos, call, held, binds>>
  BY NetStepTyped DEF InLimits, HandleDroppedRequest, StartManager
<1>. QED
  BY <1>1, SameTableQuiet, IdleKept DEF Unborn

\* A manager that ends has no socket of its address left, and takes no fifo of
\* another manager's sockets with it.
LEMMA EmptiedTable ==
    ASSUME InLimits, NEW m \in Ip, table' = [table EXCEPT ![m] = [r \in Row |-> Free]],
           NEW addr \in Addr,
           \A n \in Ip : \A p \in Port : n # m /\ AcceptFifo([ip |-> n, port |-> p]) \in fifos
                => AcceptFifo([ip |-> n, port |-> p]) \in fifos'
    PROVE  Quiet(addr) /\ RowsAt(table', addr) \subseteq RowsAt(table, addr)
<1>1. addr.ip \in Ip /\ addr.port \in Port /\ addr = [ip |-> addr.ip, port |-> addr.port]
  BY DEF Addr
<1>2. table \in [Ip -> [Row -> Entry \union {Free}]]
  BY DEF InLimits, Typed, TableOK
<1>3. CASE addr.ip = m
  BY <1>1, <1>2, <1>3 DEF RowsAt, Quiet
<1>4. CASE addr.ip # m
  <2>1. table'[addr.ip] = table[addr.ip]
    BY <1>1, <1>2, <1>4
  <2>2. AcceptFifo(addr) \in fifos => AcceptFifo(addr) \in fifos'
    BY <1>1, <1>4
  <2>. QED
    BY <2>1, <2>2 DEF Quiet, RowsAt
<1>. QED
  BY <1>3, <1>4

LEMMA StopManagerQuiet ==
    ASSUME InLimits, NEW m \in Ip, NEW F, StopManager(m, F), NEW addr \in Addr,
           \A a : AcceptFifo(a) \in fifos => AcceptFifo(a) \in F
    PROVE  Quiet(addr) /\ RowsAt(table', addr) \subseteq RowsAt(table, addr)
<1>1. /\ table' = [table EXCEPT ![m] = [r \in Row |-> Free]]
      /\ fifos' = F \ UNION {AllFifos(table[m][r].id) : r \in Used(m)}
  BY DEF StopManager
<1>2. ASSUME NEW n \in Ip, NEW p \in Port, n # m, AcceptFifo([ip |-> n, port |-> p]) \in fifos
      PROVE  AcceptFifo([ip |-> n, port |-> p]) \in fifos'
  <2>. SUFFICES ASSUME NEW r \in Used(m),
                       AcceptFifo([ip |-> n, port |-> p]) \in AllFifos(table[m][r].id)
                PROVE  FALSE
    BY <1>1, <1>2
  <2>1. table[m][r].id = BoundId([ip |-> n, port |-> p])
    BY OtherKinds
  <2>2. table[m][r].id.src.ip = m
    BY UsedRow DEF InLimits, RowOK
  <2>. QED
    BY <1>2, <2>1, <2>2 DEF BoundId
<1>. QED
  BY <1>1, <1>2, EmptiedTable

LEMMA ManagerLifeLimits ==
    ASSUME InLimits, NEW m \in Ip, TerminateManager(m) \/ StartAfterCrash(m)
    PROVE  Limits' /\ IdleUntilBind'
<1>1. \A a \in App : Home[a] \in Addr
  BY NetworkAssumption
<1>2. CASE TerminateManager(m)
  <2>. DEFINE Closers == UNION {Closing(id) : id \in TerminatedIds(m)}
  <2>1. PICK lost \in SUBSET Closers :
            call' = [a \in App |->
                IF a \in lost THEN Calling("stuck", NoAddr)
                ELSE IF a \in Closers \/ (call[a].op = "accept" /\ call[a].msgs = <<>>)
                THEN Idle ELSE call[a]]
    BY <1>2 DEF TerminateManager
  <2>2. StopManager(m, fifos) /\ UNCHANGED <<held, binds>>
    BY <1>2 DEF TerminateManager
  <2>3. \A o \in App : Unborn(o) => o \notin Closers
    <3>1. \A o, id : o \in Closing(id) => call[o].op = "close"
      BY DEF Closing, Calling
    <3>2. \A o \in Closers : call[o].op = "close"
      BY <3>1
    <3>. QED
      BY <3>2 DEF Unborn, Idle
  <2>4. \A o \in App : Unborn(o) => call'[o] = Idle
    BY <2>1, <2>3 DEF Unborn
  <2>5. \A addr \in Addr : Quiet(addr) /\ RowsAt(table', addr) \subseteq RowsAt(table, addr)
    BY <2>2, StopManagerQuiet
  <2>. QED
    BY <1>1, <2>2, <2>4, <2>5, QuietStep, IdleKept DEF Unborn
<1>3. CASE StartAfterCrash(m)
  <2>1. /\ UNCHANGED <<fifos, call, held, binds>>
        /\ table' = [table EXCEPT ![m] = [r \in Row |-> Free]]
    BY <1>3 DEF StartAfterCrash
  <2>2. \A addr \in Addr : Quiet(addr) /\ RowsAt(table', addr) \subseteq RowsAt(table, addr)
    BY <2>1, EmptiedTable
  <2>. QED
    BY <1>1, <2>1, <2>2, QuietStep, IdleKept DEF Unborn
<1>. QED
  BY <1>2, <1>3

----------------------------------------------------------------------------
(* Steps that add to the sockets of an address, or make a listener.        *)

\* SocketBind makes the first socket of its port, unless the manager stops.
LEMMA BindLimits ==
    ASSUME InLimits, NEW a \in App, SocketBind(a)
    PROVE  Limits' /\ IdleUntilBind'
<1>. DEFINE m == Home[a].ip
            b == BoundId(Home[a])
            x == [id |-> b, sock |-> NewSocket("CLOSED", 0, 0)]
<1>1. /\ m \in Ip /\ b \in Id /\ BoundOnly(b)
      /\ \/ UNCHANGED <<table, net, fifos, mgr, call, held>>
         \/ /\ NewRow(m, b, NewSocket("CLOSED", 0, 0))
            /\ fifos' = fifos \union EndFifos(b)
            /\ held' = [held EXCEPT ![a] = @ \union {b}]
            /\ UNCHANGED <<net, mgr, call>>
         \/ ManagerStops(m, EndFifos(b))
  BY SocketBindEffect DEF InLimits
<1>2. /\ binds' = [binds EXCEPT ![a] = @ + 1] /\ binds \in [App -> Nat]
      /\ held \in [App -> SUBSET Id]
  BY DEF SocketBind, InLimits, Typed, HeldOK
<1>3. /\ binds'[a] = binds[a] + 1 /\ binds[a] \in Nat
      /\ \A o \in App : o # a => binds'[o] = binds[o]
  BY <1>2
<1>4. \A o \in App : Home[o] \in Addr /\ Backlog[o] \in Nat
  BY NetworkAssumption
<1>. HIDE DEF m, b
\* Only the address of a can get a socket.
<1>5. ASSUME NEW addr \in Addr, addr # Home[a] \/ ~NewRow(m, b, NewSocket("CLOSED", 0, 0))
      PROVE  Quiet(addr) /\ RowsAt(table', addr) \subseteq RowsAt(table, addr)
  <2>1. CASE UNCHANGED <<table, net, fifos, mgr, call, held>>
    BY <2>1 DEF Quiet, RowsAt
  <2>2. CASE ManagerStops(m, EndFifos(b))
    BY <1>1, <2>2, StopManagerQuiet, OtherKinds DEF ManagerStops
  <2>3. CASE /\ NewRow(m, b, NewSocket("CLOSED", 0, 0)) /\ addr # Home[a]
             /\ fifos' = fifos \union EndFifos(b)
    <3>1. PICK q \in Row : table[m][q] = Free /\ table' = PutRow(table, m, q, x)
      BY <2>3 DEF NewRow
    <3>2. /\ table'[m][q] = x /\ x.id.src # addr
          /\ \A p \in Row : p # q => table'[m][p] = table[m][p]
          /\ \A n \in Ip : n # m => table'[n] = table[n]
      BY <1>1, <2>3, <3>1 DEF PutRow, InLimits, Typed, TableOK, b, BoundId
    <3>3. addr.ip \in Ip
      BY RecordTypes
    <3>4. CASE addr.ip = m
      BY <2>3, <3>2, <3>4 DEF Quiet, RowsAt
    <3>5. CASE addr.ip # m
      BY <2>3, <3>2, <3>3, <3>5 DEF Quiet, RowsAt
    <3>. QED
      BY <3>4, <3>5
  <2>. QED
    BY <1>1, <1>5, <2>1, <2>2, <2>3
\* The first socket of an address is alone there, and no listener.
<1>6. ASSUME NewRow(m, b, NewSocket("CLOSED", 0, 0)), RowsAt(table, Home[a]) = {}
      PROVE  Limited(table', fifos', Home[a], Backlog[a])
  <2>1. PICK q \in Row : table[m][q] = Free /\ table' = PutRow(table, m, q, x)
    BY <1>6 DEF NewRow
  <2>2. /\ table'[m][q] = x /\ x.sock.state # "LISTEN"
        /\ \A p \in Row : p # q => table'[m][p] = table[m][p]
    BY <1>1, <2>1 DEF PutRow, InLimits, Typed, TableOK, NewSocket
  <2>3. RowsAt(table', Home[a]) \subseteq {q}
    BY <1>6, <2>2 DEF RowsAt, m
  <2>. QED
    BY <2>2, <2>3 DEF Limited, OnlyOrigin, WithinLimit, m
<1>7. ASSUME NEW o \in App, Alone(binds', o)
      PROVE  /\ binds'[o] = 0 => RowsAt(table', Home[o]) = {}
             /\ binds'[o] <= 1 => Limited(table', fifos', Home[o], Backlog[o])
  <2>1. CASE o = a
    <3>1. Alone(binds, a) /\ binds'[a] # 0
      BY <1>3, <1>7, <2>1 DEF Alone
    <3>. SUFFICES ASSUME binds'[a] <= 1 PROVE Limited(table', fifos', Home[a], Backlog[a])
      BY <2>1, <3>1
    <3>2. RowsAt(table, Home[a]) = {} /\ Limited(table, fifos, Home[a], Backlog[a])
      BY <1>3, <3>1 DEF InLimits, Limits
    <3>. QED
      BY <1>4, <1>5, <1>6, <3>2, QuietKeepsLimit DEF InLimits
  <2>2. CASE o # a
    <3>1. Home[o] # Home[a]
      BY <1>3, <1>7, <2>2 DEF Alone
    <3>2. Alone(binds, o) /\ binds'[o] = binds[o]
      BY <1>3, <1>7, <2>2, <3>1 DEF Alone
    <3>3. /\ binds[o] = 0 => RowsAt(table, Home[o]) = {}
          /\ binds[o] <= 1 => Limited(table, fifos, Home[o], Backlog[o])
      BY <3>2 DEF InLimits, Limits
    <3>. QED
      BY <1>4, <1>5, <3>1, <3>2, <3>3, QuietKeepsLimit DEF InLimits
  <2>. QED
    BY <2>1, <2>2
<1>8. Limits'
  BY <1>7 DEF Limits
<1>9. \A o \in App : Unborn(o) /\ binds'[o] = 0 => held'[o] = {} /\ call'[o] = Idle
  <2>1. \A o \in App : binds'[o] = 0 => o # a
    BY <1>3
  <2>2. \A o \in App : Unborn(o) => call'[o] = Idle
    BY <1>1, OrphanIdle DEF Unborn, ManagerStops
  <2>3. \A o \in App : o # a => held'[o] = held[o]
    BY <1>1, <1>2 DEF ManagerStops
  <2>. QED
    BY <2>1, <2>2, <2>3 DEF Unborn
<1>10. \A o \in App : binds'[o] = 0 => binds[o] = 0
  BY <1>3
<1>. QED
  BY <1>8, <1>9, <1>10, IdleKept

\* Who holds the bound id of an address has bound it.
LEMMA HolderHasBound ==
    ASSUME InLimits, NEW a \in App, ~Unborn(a)
    PROVE  /\ binds[a] # 0
           /\ \A o \in App \ {a} : Alone(binds, o) => Home[o] # Home[a]
BY DEF InLimits, IdleUntilBind, Alone

\* A step that is quiet for every address but that of a, which keeps to its limit
\* for another reason, and has bound it before.
LEMMA AllButOne ==
    ASSUME InLimits, UNCHANGED binds, NEW a \in App, ~Unborn(a),
           \A addr \in Addr : addr # Home[a] =>
                Quiet(addr) /\ RowsAt(table', addr) \subseteq RowsAt(table, addr),
           Limited(table, fifos, Home[a], Backlog[a]) =>
                Limited(table', fifos', Home[a], Backlog[a])
    PROVE  Limits'
<1>1. \A o \in App : Home[o] \in Addr /\ Backlog[o] \in Nat
  BY NetworkAssumption
<1>. SUFFICES ASSUME NEW o \in App, Alone(binds', o)
              PROVE  /\ binds'[o] = 0 => RowsAt(table', Home[o]) = {}
                     /\ binds'[o] <= 1 => Limited(table', fifos', Home[o], Backlog[o])
  BY DEF Limits
<1>2. /\ binds[o] = 0 => RowsAt(table, Home[o]) = {}
      /\ binds[o] <= 1 => Limited(table, fifos, Home[o], Backlog[o])
  BY DEF InLimits, Limits
<1>3. CASE o = a
  BY <1>2, <1>3, HolderHasBound
<1>4. CASE o # a
  <2>1. Home[o] # Home[a]
    BY <1>4, HolderHasBound
  <2>. QED
    BY <1>1, <1>2, <2>1, QuietKeepsLimit DEF InLimits
<1>. QED
  BY <1>3, <1>4

\* A change of the table of one manager is quiet for addresses it does not name.
LEMMA OtherAddresses ==
    ASSUME InLimits, NEW m \in Ip, \A n \in Ip : n # m => table'[n] = table[n],
           NEW addr \in Addr,
           \A q \in Row : table'[m][q] = Free \/ table'[m][q] = table[m][q]
                                              \/ table'[m][q].id.src # addr,
           AcceptFifo(addr) \in fifos => AcceptFifo(addr) \in fifos'
    PROVE  Quiet(addr) /\ RowsAt(table', addr) \subseteq RowsAt(table, addr)
<1>1. addr.ip \in Ip
  BY RecordTypes
<1>2. CASE addr.ip = m
  BY <1>2 DEF Quiet, RowsAt
<1>3. CASE addr.ip # m
  BY <1>1, <1>3 DEF Quiet, RowsAt
<1>. QED
  BY <1>2, <1>3

\* SocketListen: the socket is the only one of its address when it becomes a
\* listener, because there is no accept fifo yet.
LEMMA ListenCallLimits ==
    ASSUME InLimits, NEW a \in App, NEW id \in held[a], SocketListen(a, id)
    PROVE  Limits' /\ IdleUntilBind'
<1>. DEFINE m == id.src.ip
            addr == Home[a]
<1>1. /\ id \in Id /\ BoundOnly(id) /\ m \in Ip
      /\ UNCHANGED <<net, held, binds>>
      /\ \/ \E r \in Used(m) : \E s \in Socket :
               /\ table[m][r].id = id
               /\ table' = PutRow(table, m, r, WithSock(table[m][r], s))
               /\ s.max_connections = Backlog[a] /\ UNCHANGED call
               /\ \/ /\ s.state = "LISTEN" /\ <<"accept", id>> \notin fifos
                     /\ fifos' = fifos \union {<<"accept", id>>} /\ UNCHANGED mgr
                  \/ /\ s.state = "CLOSED" /\ UNCHANGED fifos
         \/ /\ call' = [call EXCEPT ![a] = Calling("stuck", NoAddr)]
            /\ UNCHANGED <<table, fifos, mgr>>
  BY SocketListenEffect DEF InLimits
<1>2. id = BoundId(addr) /\ id.src = addr /\ addr.ip = m /\ addr \in Addr
  BY <1>1, NetworkAssumption DEF InLimits, Typed, HeldOK, BoundId
<1>3. ~Unborn(a)
  BY DEF Unborn
<1>4. IdleUntilBind'
  <2>1. \A o \in App : o # a => call'[o] = call[o]
    BY <1>1 DEF InLimits, Typed, CallsOK
  <2>. QED
    BY <1>1, <1>3, <2>1, IdleKept DEF Unborn
<1>5. CASE UNCHANGED <<table, fifos>>
  BY <1>1, <1>4, <1>5, SameTableQuiet
<1>6. ASSUME NEW r \in Used(m), NEW s \in Socket, table[m][r].id = id,
             table' = PutRow(table, m, r, WithSock(table[m][r], s)),
             s.max_connections = Backlog[a],
             \/ /\ s.state = "LISTEN" /\ <<"accept", id>> \notin fifos
                /\ fifos' = fifos \union {<<"accept", id>>}
             \/ s.state = "CLOSED" /\ UNCHANGED fifos
      PROVE  Limits'
  <2>. DEFINE e == table[m][r]
              x == WithSock(e, s)
  <2>1. x \in Entry /\ x.id = id /\ x.sock = s
    BY <1>1, <1>6 DEF Entry, WithSock
  <2>. HIDE DEF x
  <2>2. IsOrigin(e) /\ IsOrigin(x)
    BY <1>1, <1>6, <2>1 DEF IsOrigin
  <2>3. CASE s.state = "CLOSED" /\ UNCHANGED fifos
    BY <1>1, <1>6, <2>1, <2>2, <2>3, PutRowQuiet DEF x
  <2>4. CASE /\ s.state = "LISTEN" /\ <<"accept", id>> \notin fifos
             /\ fifos' = fifos \union {<<"accept", id>>}
    <3>1. /\ r \in Row /\ table[m][r] # Free /\ x # Free
          /\ table \in [Ip -> [Row -> Entry \union {Free}]]
      BY <1>6, <2>1, NetworkAssumption DEF Used, InLimits, Typed, TableOK, Entry
    <3>2. /\ table'[m][r] = x
          /\ \A q \in Row : q # r => table'[m][q] = table[m][q]
          /\ \A n \in Ip : n # m => table'[n] = table[n]
      BY <1>1, <1>6, <3>1 DEF PutRow, x
    <3>3. \A o \in Addr : o # addr => Quiet(o) /\ RowsAt(table', o) \subseteq RowsAt(table, o)
      BY <1>1, <1>2, <2>1, <2>4, <3>2, OtherAddresses
    <3>4. ASSUME Limited(table, fifos, addr, Backlog[a])
          PROVE  Limited(table', fifos', addr, Backlog[a])
      <4>1. r \in RowsAt(table, addr) /\ AcceptFifo(addr) \notin fifos
        BY <1>2, <1>6, <2>4, <3>1 DEF RowsAt, AcceptFifo
      <4>2. RowsAt(table, addr) \subseteq {r}
        BY <1>2, <2>2, <3>4, <4>1 DEF Limited, OnlyOrigin
      <4>3. RowsAt(table', addr) \subseteq {r}
        BY <1>2, <3>2, <4>2 DEF RowsAt
      <4>4. ConnectionRows(table', addr) = {}
        BY <1>1, <1>2, <2>1, <3>2, <4>3 DEF ConnectionRows
      <4>5. Cardinality(ConnectionRows(table', addr)) = 0
        BY <4>4, FS_EmptySet
      <4>6. AcceptFifo(addr) \in fifos'
        BY <1>2, <2>4 DEF AcceptFifo
      <4>7. Backlog[a] \in Nat
        BY NetworkAssumption
      <4>8. s.max_connections + Cardinality(ConnectionRows(table', addr)) <= Backlog[a]
        BY <1>6, <4>5, <4>7
      <4>. QED
        BY <1>2, <2>1, <3>2, <4>3, <4>6, <4>8 DEF Limited, OnlyOrigin, WithinLimit
    <3>. QED
      BY <1>1, <1>3, <3>3, <3>4, AllButOne
  <2>. QED
    BY <1>6, <2>3, <2>4
<1>. QED
  BY <1>1, <1>4, <1>5, <1>6

\* SocketConnect: the bound socket gets the key of the connection and a new row.
LEMMA ConnectRequestLimits ==
    ASSUME InLimits, NEW a \in App, HandleConnectRequest(a)
    PROVE  Limits' /\ IdleUntilBind'
<1>. DEFINE m == Home[a].ip
            addr == Home[a]
            b == BoundId(Home[a])
            c == [src |-> Home[a], dst |-> Target[a]]
<1>1. /\ call[a].op = "connect" /\ call[a].id = b /\ b.src.ip = m /\ m \in Ip
      /\ c \in Id /\ ~BoundOnly(c)
      /\ mgr[m] = "running" /\ call' = [call EXCEPT ![a].op = "connecting"]
      /\ UNCHANGED <<net, fifos, mgr, held, binds>>
      /\ \E r \in Used(m) :
           /\ table[m][r].id = b /\ table[m][r].sock.state = "CLOSED"
           /\ \/ UNCHANGED table
              \/ /\ ~Present(m, c)
                 /\ \E q \in Row : \E s \in Socket :
                       /\ s.state = "SYN_SENT"
                       /\ s.recv_seq = 0
                       /\ s.send_window = table[m][r].sock.send_window
                       /\ q = r \/ table[m][q] = Free
                       /\ table' = PutRow(PutRow(table, m, r, Free), m, q,
                                          [id |-> c, sock |-> s])
  BY HandleConnectRequestEffect DEF InLimits
<1>2. ~Unborn(a)
  BY <1>1 DEF Unborn, Idle
<1>3. IdleUntilBind'
  <2>1. \A o \in App : o # a => call'[o] = call[o]
    BY <1>1 DEF InLimits, Typed, CallsOK
  <2>. QED
    BY <1>1, <1>2, <2>1, IdleKept DEF Unborn
<1>4. CASE UNCHANGED table
  BY <1>1, <1>3, <1>4, SameTableQuiet
<1>5. ASSUME NEW r \in Used(m), NEW q \in Row, NEW s \in Socket,
             table[m][r].id = b, s.state = "SYN_SENT", q = r \/ table[m][q] = Free,
             table' = PutRow(PutRow(table, m, r, Free), m, q, [id |-> c, sock |-> s])
      PROVE  Limits'
  <2>. DEFINE x == [id |-> c, sock |-> s]
  <2>1. x.id.src = addr /\ x.sock.state = "SYN_SENT"
    BY <1>5
  <2>2. /\ table'[m][q] = x
        /\ \A p \in Row : p # q => table'[m][p] = IF p = r THEN Free ELSE table[m][p]
        /\ \A n \in Ip : n # m => table'[n] = table[n]
        /\ r \in Row /\ table[m][r] # Free
    BY ZenonT(60), <1>1, <1>5 DEF PutRow, InLimits, Typed, TableOK, Used
  <2>. HIDE DEF x
  <2>3. \A o \in Addr : o # addr => Quiet(o) /\ RowsAt(table', o) \subseteq RowsAt(table, o)
    BY <1>1, <2>1, <2>2, OtherAddresses
  <2>4. ASSUME Limited(table, fifos, addr, Backlog[a])
        PROVE  Limited(table', fifos', addr, Backlog[a])
    <3>1. r \in RowsAt(table, addr) /\ IsOrigin(table[m][r])
      BY <1>5, <2>2 DEF RowsAt, IsOrigin, BoundId, BoundOnly
    <3>2. OnlyOrigin(table, fifos, addr, r)
      BY <2>4, <3>1 DEF Limited
    <3>3. \A p \in RowsAt(table', addr) : p # q =>
              /\ p \in RowsAt(table, addr) /\ p # r /\ table'[m][p] = table[m][p]
      BY <2>2 DEF RowsAt
    <3>4. \A p \in RowsAt(table', addr) :
              IsOrigin(table'[m][p]) \/ AcceptFifo(addr) \notin fifos' => p = q
      BY <1>1, <3>2, <3>3 DEF OnlyOrigin
    <3>. QED
      BY <2>1, <2>2, <3>4 DEF Limited, OnlyOrigin, WithinLimit
  <2>. QED
    BY <1>1, <1>2, <2>3, <2>4, AllButOne
<1>. QED
  BY <1>1, <1>3, <1>4, <1>5

\* handle_packet_listen: the connection takes one of what the listener has left.
LEMMA OpensLimit ==
    ASSUME InLimits, NEW m \in Ip, NEW c \in Id, c.src.ip = m, ~BoundOnly(c),
           Opens(m, c), fifos' = fifos \union EndFifos(c),
           NEW addr \in Addr, NEW n \in Nat
    PROVE  /\ RowsAt(table, addr) = {} => RowsAt(table', addr) = {}
           /\ Limited(table, fifos, addr, n) => Limited(table', fifos', addr, n)
<1>1. PICK r \in Used(m), q \in Row, s \in Socket, t \in Socket :
        /\ table[m][r].sock.state = "LISTEN" /\ table[m][r].id = BoundId(c.src)
        /\ table[m][q] = Free
        /\ s.state = "LISTEN"
        /\ s.max_connections = table[m][r].sock.max_connections - 1
        /\ t.state = "SYN_RECEIVED"
        /\ table' = PutRow(PutRow(table, m, r, WithSock(table[m][r], s)),
                           m, q, [id |-> c, sock |-> t])
  BY DEF Opens
<1>. DEFINE e == table[m][r]
            x == WithSock(e, s)
            y == [id |-> c, sock |-> t]
<1>2. /\ r \in Row /\ e # Free /\ r # q
      /\ table \in [Ip -> [Row -> Entry \union {Free}]]
      /\ e.sock.max_connections \in Int
  <2>1. r \in Row /\ e # Free /\ e.sock \in Socket
    BY <1>1, UsedRow DEF InLimits
  <2>2. e.sock.max_connections \in Int
    BY <2>1 DEF Socket
  <2>. QED
    BY <1>1, <2>1, <2>2 DEF InLimits, Typed, TableOK
<1>3. /\ x.id = BoundId(c.src) /\ x.sock = s /\ BoundOnly(x.id)
      /\ y.id = c /\ y.sock = t /\ ~IsOrigin(y)
  BY <1>1 DEF WithSock, BoundId, BoundOnly, IsOrigin
<1>. HIDE DEF x, y
<1>4. /\ table'[m][q] = y /\ table'[m][r] = x
      /\ \A p \in Row : p # q /\ p # r => table'[m][p] = table[m][p]
      /\ \A i \in Ip : i # m => table'[i] = table[i]
  BY <1>1, <1>2 DEF PutRow, x, y
<1>5. AcceptFifo(addr) \in fifos => AcceptFifo(addr) \in fifos'
  OBVIOUS
<1>6. CASE addr # c.src
  <2>1. x.id.src # addr /\ y.id.src # addr
    BY <1>3, <1>6 DEF BoundId
  <2>2. Quiet(addr) /\ RowsAt(table', addr) \subseteq RowsAt(table, addr)
    BY <1>4, <1>5, <2>1, OtherAddresses
  <2>. QED
    BY <2>2, QuietKeepsLimit DEF InLimits
<1>7. CASE addr = c.src
  <2>1. addr.ip = m /\ r \in RowsAt(table, addr) /\ IsOrigin(e) /\ IsOrigin(x)
    BY <1>1, <1>2, <1>3, <1>7 DEF RowsAt, IsOrigin, BoundId, BoundOnly
  <2>2. ASSUME Limited(table, fifos, addr, n)
        PROVE  Limited(table', fifos', addr, n)
    <3>1. OnlyOrigin(table, fifos, addr, r) /\ WithinLimit(table, fifos, addr, n, r)
      BY <2>1, <2>2 DEF Limited
    <3>2. /\ AcceptFifo(addr) \in fifos
          /\ e.sock.max_connections + Cardinality(ConnectionRows(table, addr)) <= n
      BY <1>1, <2>1, <3>1 DEF WithinLimit
    <3>3. RowsAt(table', addr) \subseteq RowsAt(table, addr) \union {q}
      BY <1>2, <1>4, <2>1 DEF RowsAt
    <3>4. \A p \in RowsAt(table', addr) : IsOrigin(table'[m][p]) => p = r
      <4>. SUFFICES ASSUME NEW p \in RowsAt(table', addr), IsOrigin(table'[m][p]), p # r
                    PROVE  FALSE
        OBVIOUS
      <4>1. p # q
        BY <1>3, <1>4
      <4>2. p \in Row /\ p \in RowsAt(table, addr)
        BY <3>3, <4>1 DEF RowsAt
      <4>3. table'[m][p] = table[m][p]
        BY <1>4, <4>1, <4>2
      <4>. QED
        BY <2>1, <3>1, <4>2, <4>3 DEF OnlyOrigin
    <3>5. ConnectionRows(table', addr) \in SUBSET (ConnectionRows(table, addr) \union {q})
      <4>1. ASSUME NEW p \in RowsAt(table', addr), ~BoundOnly(table'[m][p].id), p # q
            PROVE  p \in RowsAt(table, addr) /\ ~BoundOnly(table[m][p].id)
        <5>1. p \in RowsAt(table, addr) /\ p \in Row
          BY <3>3, <4>1 DEF RowsAt
        <5>2. p # r
          BY <1>3, <1>4, <4>1
        <5>. QED
          BY <1>4, <4>1, <5>1, <5>2
      <4>. QED
        BY <2>1, <4>1 DEF ConnectionRows
    <3>6. /\ Cardinality(ConnectionRows(table', addr)) <= Cardinality(ConnectionRows(table, addr)) + 1
          /\ Cardinality(ConnectionRows(table', addr)) \in Nat
          /\ Cardinality(ConnectionRows(table, addr)) \in Nat
      <4>. DEFINE C == ConnectionRows(table, addr)
                  D == ConnectionRows(table', addr)
      <4>1. IsFiniteSet(C) /\ Cardinality(C) \in Nat /\ Cardinality(D) \in Nat
        BY ConnectionRowsFinite
      <4>2. /\ IsFiniteSet(C \union {q})
            /\ Cardinality(C \union {q}) = IF q \in C THEN Cardinality(C) ELSE Cardinality(C) + 1
        BY <4>1, FS_AddElement
      <4>3. D \in SUBSET (C \union {q})
        BY <3>5
      <4>. HIDE DEF C, D
      <4>4. Cardinality(D) <= Cardinality(C \union {q})
        BY <4>2, <4>3, FS_Subset
      <4>. QED
        BY <4>1, <4>2, <4>4 DEF C, D
    <3>7. s.max_connections + Cardinality(ConnectionRows(table', addr)) <= n
      BY <1>1, <1>2, <3>2, <3>6
    <3>8. WithinLimit(table', fifos', addr, n, r)
      BY <1>3, <1>4, <2>1, <3>2, <3>7 DEF WithinLimit
    <3>9. OnlyOrigin(table', fifos', addr, r)
      BY <2>1, <3>2, <3>4 DEF OnlyOrigin
    <3>. QED
      BY <2>1, <3>4, <3>8, <3>9 DEF Limited
  <2>. QED
    BY <2>1, <2>2
<1>. QED
  BY <1>6, <1>7

LEMMA PacketListenLimits ==
    ASSUME InLimits, NEW m \in Ip, handle_packet_listen(m)
    PROVE  Limits' /\ IdleUntilBind'
<1>. DEFINE c == SynId(m)
<1>1. /\ c \in Id /\ ~BoundOnly(c) /\ c.src.ip = m
      /\ \/ UNCHANGED <<table, fifos>>
         \/ fifos' = fifos \ EndFifos(c) /\ UNCHANGED table
         \/ fifos' = fifos \ AllFifos(c) /\ UNCHANGED table
         \/ fifos' = fifos \union EndFifos(c) /\ Opens(m, c)
  BY ListenEffect DEF InLimits
<1>2. UNCHANGED <<held, binds>> /\ call' = Orphan(call)
  BY DEF handle_packet_listen
<1>3. IdleUntilBind'
  BY <1>2, OrphanIdle, IdleKept DEF Unborn
<1>4. ASSUME UNCHANGED table,
             \/ fifos' = fifos
             \/ fifos' = fifos \ EndFifos(c)
             \/ fifos' = fifos \ AllFifos(c)
      PROVE  Limits'
  <2>1. \A addr \in Addr : c # BoundId(addr)
    BY <1>1 DEF BoundId, BoundOnly
  <2>2. \A addr \in Addr : AcceptFifo(addr) \in fifos => AcceptFifo(addr) \in fifos'
    BY <1>4, <2>1, OtherKinds
  <2>. QED
    BY <1>2, <1>4, <2>2, SameTableQuiet
<1>5. ASSUME fifos' = fifos \union EndFifos(c), Opens(m, c)
      PROVE  Limits'
  <2>1. \A a \in App : Home[a] \in Addr /\ Backlog[a] \in Nat
    BY NetworkAssumption
  <2>. HIDE DEF c
  <2>2. \A a \in App :
            /\ RowsAt(table, Home[a]) = {} => RowsAt(table', Home[a]) = {}
            /\ Limited(table, fifos, Home[a], Backlog[a])
                  => Limited(table', fifos', Home[a], Backlog[a])
    BY <1>1, <1>5, <2>1, OpensLimit
  <2>. QED
    BY <1>2, <2>2 DEF InLimits, Limits
<1>. QED
  BY <1>1, <1>3, <1>4, <1>5

----------------------------------------------------------------------------

LEMMA InitLimits == Init => InLimits
<1>. SUFFICES ASSUME Init PROVE InLimits
  OBVIOUS
<1>1. \A addr \in Addr : RowsAt(table, addr) = {}
  BY RecordTypes DEF Init, RowsAt
<1>2. \A a \in App : Home[a] \in Addr
  BY NetworkAssumption
<1>3. Limits
  BY <1>1, <1>2 DEF Limits, Limited
<1>4. IdleUntilBind
  BY DEF Init, IdleUntilBind, Unborn
<1>. QED
  BY <1>3, <1>4, InitTyped DEF InLimits

LEMMA NextLimits ==
    ASSUME InLimits, [Next]_vars
    PROVE  InLimits'
<1>1. Typed'
  BY NextTyped DEF InLimits
<1>2. CASE UNCHANGED vars
  <2>1. UNCHANGED <<table, fifos, call, held, binds>>
    BY <1>2 DEF vars
  <2>. QED
    BY <1>1, <2>1, SameTableQuiet, IdleKept DEF InLimits, Unborn
<1>3. ASSUME NEW a \in App,
             \/ SocketBind(a) \/ HandleConnectRequest(a)
             \/ HandleDroppedRequest(a) \/ ProgramStep(a)
             \/ \E id \in held[a] : SocketListen(a, id)
      PROVE  InLimits'
  BY <1>1, <1>3, BindLimits, ConnectRequestLimits, OtherStepLimits, ProgramStepLimits,
     ListenCallLimits DEF InLimits
<1>4. ASSUME NEW m \in Ip,
             \/ IgnorePacket(m) \/ (\E r \in Row : ResendStep(m, r))
             \/ HandleReset(m)
             \/ (\E r \in Row : HandleSynReceived(m, r) \/ HandleConnected(m, r))
             \/ handle_packet_listen(m)
             \/ (\E r \in Row : \/ HandleSynSent(m, r) \/ HandleCloseCommand(m, r)
                                \/ HandleClosedSocket(m, r) \/ GiveUp(m, r)
                                \/ CloseWaitToLastAck(m, r) \/ TimeWaitToClosed(m, r))
             \/ TerminateManager(m) \/ StartManager(m) \/ StartAfterCrash(m)
      PROVE  InLimits'
  BY <1>1, <1>4, OtherStepLimits, ConnectionStepLimits, PacketListenLimits, SynSentLimits,
     CloseCommandLimits, ClosedSocketLimits, ManagerLifeLimits DEF InLimits
<1>. QED
  BY <1>2, <1>3, <1>4, StepCases

\* A listener never has more connections, open or opening, than SocketListen
\* allowed, when it is the first socket on its port.
THEOREM ListenersKeepToTheirLimit == Spec => []BacklogBound
BY InitLimits, NextLimits, InLimitsMeaning, PTL DEF Spec
=============================================================================
