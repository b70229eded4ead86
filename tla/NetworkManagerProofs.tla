------------------------ MODULE NetworkManagerProofs ------------------------
(***************************************************************************)
(* Proofs about NetworkManager, for every number of programs, managers,    *)
(* ports and rows of the table, and for any initial sequence numbers.      *)
(***************************************************************************)
EXTENDS NetworkManager, TcpSocketTheorems

----------------------------------------------------------------------------
(* The operators of the model.                                             *)

\* What an id, an entry and an envelope consist of.
LEMMA RecordTypes ==
    /\ \A id \in Id : /\ id.src \in Addr /\ id.dst \in Addr \union {NoAddr}
                      /\ id.src.ip \in Ip /\ BoundId(id.src) \in Id
                      /\ BoundOnly(id) => id = BoundId(id.src)
    /\ \A a \in Addr : BoundOnly(BoundId(a)) /\ BoundId(a) \in Id /\ a.ip \in Ip /\ a.port \in Port
    /\ \A e \in Entry : e.id \in Id /\ e.sock \in Socket /\ e # Free
    /\ \A i \in Ip, p \in Port : [ip |-> i, port |-> p] \in Addr
    /\ \A a \in Addr, d \in Addr \union {NoAddr} : [src |-> a, dst |-> d] \in Id
    /\ \A id \in Id, s \in Socket : [id |-> id, sock |-> s] \in Entry
BY NetworkAssumption DEF Id, Addr, Entry, BoundId, BoundOnly

\* A socket whose state, or state and some numbers, are set.
LEMMA SocketUpdates ==
    ASSUME NEW s \in Socket, NEW state \in TCPState, NEW n \in Int, NEW k \in Int
    PROVE  /\ [s EXCEPT !.state = state] \in Socket
           /\ [s EXCEPT !.state = state].state = state
           /\ [s EXCEPT !.state = state, !.send_seq = n] \in Socket
           /\ [s EXCEPT !.state = state, !.send_seq = n].state = state
           /\ [s EXCEPT !.state = state, !.send_seq = n, !.recv_seq = k] \in Socket
           /\ [s EXCEPT !.state = state, !.send_seq = n, !.recv_seq = k].state = state
           /\ [s EXCEPT !.state = state, !.recv_seq = k] \in Socket
           /\ [s EXCEPT !.state = state, !.recv_seq = k].state = state
           /\ [s EXCEPT !.state = state, !.max_connections = n] \in Socket
           /\ [s EXCEPT !.state = state, !.max_connections = n].state = state
           /\ [s EXCEPT !.state = state, !.max_connections = n].max_connections = n
           /\ [s EXCEPT !.max_connections = n] \in Socket
           /\ [s EXCEPT !.max_connections = n].state = s.state
           /\ [s EXCEPT !.max_connections = n].max_connections = n
BY DEF Socket

LEMMA NewSocketType ==
    ASSUME NEW state \in TCPState, NEW n \in Int, NEW k \in Int
    PROVE  /\ NewSocket(state, n, k) \in Socket
           /\ NewSocket(state, n, k).state = state
<1>1. <<>> \in Seq(Byte) /\ [i \in Slot |-> NoByte] \in [Slot -> Byte \union {NoByte}] /\ 0 \in Int
  OBVIOUS
<1>. QED
  BY <1>1 DEF NewSocket, Socket

LEMMA SegmentTypes ==
    ASSUME NEW s \in Socket, NEW flags \in SUBSET Flag
    PROVE  <<construct_packet(s, <<>>, flags)>> \in Seq(Segment)
<1>1. <<>> \in Seq(Byte) /\ s.send_seq \in Int /\ s.recv_seq \in Int
  BY DEF Socket
<1>2. construct_packet(s, <<>>, flags) \in Segment
  BY <1>1 DEF construct_packet, Segment
<1>. QED
  BY <1>2

\* insertSocket puts the entry into some free row.
LEMMA InsertSocket ==
    ASSUME NEW t, \E r \in Row : t[r] = Free, NEW entry
    PROVE  \E r \in Row : t[r] = Free /\ insertSocket(t, entry) = [t EXCEPT ![r] = entry]
<1>. DEFINE S == {r \in Row : t[r] = Free}
<1>1. S \in SUBSET Nat /\ S # {}
  BY NetworkAssumption DEF Row
<1>2. LeastOf(S) \in S
  BY <1>1, LeastOfProperties
<1>. QED
  BY <1>2 DEF insertSocket

\* getSocket is a row with the key when there is one.
LEMMA GetSocket ==
    ASSUME NEW m, NEW id, Present(m, id)
    PROVE  getSocket(m, id) \in Used(m) /\ table[m][getSocket(m, id)].id = id
<1>1. RowsOf(m, id) \in SUBSET Nat /\ RowsOf(m, id) # {}
  BY NetworkAssumption DEF Present, RowsOf, Used, Row
<1>2. getSocket(m, id) \in RowsOf(m, id)
  BY <1>1, LeastOfProperties DEF getSocket
<1>. QED
  BY <1>2 DEF RowsOf, Used

NetType(n) == n \in [Ip -> Seq(Envelope)]

\* No segment comes from another machine.
NetLocal(n) == \A m \in Ip : \A i \in 1 .. Len(n[m]) : n[m][i].src.ip = m

LEMMA PoppedNet ==
    ASSUME NetType(net), NEW m \in Ip, net[m] # <<>>
    PROVE  /\ NetType(Popped(m))
           /\ NetLocal(net) => NetLocal(Popped(m))
           /\ First(m) \in Envelope
           /\ NetLocal(net) => First(m).src.ip = m
<1>1. /\ Head(net[m]) \in Envelope /\ Tail(net[m]) \in Seq(Envelope)
      /\ Len(Tail(net[m])) = Len(net[m]) - 1
      /\ \A i \in 1 .. Len(Tail(net[m])) : Tail(net[m])[i] = net[m][i + 1]
      /\ Head(net[m]) = net[m][1]
      /\ Len(net[m]) \in Nat /\ Len(net[m]) # 0
  BY HeadTailProperties DEF NetType
<1>2. Popped(m) = [net EXCEPT ![m] = Tail(net[m])]
  BY DEF Popped
<1>3. ASSUME NetLocal(net) PROVE NetLocal(Popped(m)) /\ First(m).src.ip = m
  <2>1. \A i \in 1 .. Len(Tail(net[m])) : i + 1 \in 1 .. Len(net[m])
    BY <1>1
  <2>2. \A i \in 1 .. Len(Tail(net[m])) : Tail(net[m])[i].src.ip = m
    BY <1>1, <1>3, <2>1 DEF NetLocal
  <2>3. 1 \in 1 .. Len(net[m])
    BY <1>1
  <2>. QED
    BY <1>1, <1>2, <1>3, <2>2, <2>3 DEF NetLocal, NetType, First
<1>. QED
  BY <1>1, <1>2, <1>3 DEF NetType, First

LEMMA SentNet ==
    ASSUME NEW n, NetType(n), NEW id \in Id, NEW dst \in Addr \union {NoAddr},
           NEW segments \in Seq(Segment)
    PROVE  /\ NetType(Send(n, id, dst, segments))
           /\ NetLocal(n) /\ (dst # NoAddr => dst.ip = id.src.ip)
                => NetLocal(Send(n, id, dst, segments))
<1>1. CASE ~CanSend(dst)
  BY <1>1 DEF Send
<1>2. CASE CanSend(dst)
  <2>. DEFINE q == [i \in DOMAIN segments |->
                        [src |-> id.src, dst |-> dst, segment |-> segments[i]]]
  <2>1. dst \in Addr /\ dst.ip \in Ip /\ id.src \in Addr /\ dst # NoAddr
    BY <1>2, RecordTypes DEF CanSend
  <2>2. DOMAIN segments = 1 .. Len(segments) /\ Len(segments) \in Nat
        /\ \A i \in 1 .. Len(segments) : segments[i] \in Segment
    OBVIOUS
  <2>3. \A i \in 1 .. Len(segments) : q[i] \in Envelope /\ q[i].src = id.src
    BY <2>1, <2>2 DEF Envelope
  <2>4. q = [i \in 1 .. Len(segments) |-> q[i]]
    BY <2>2
  <2>. HIDE DEF q
  <2>5. q \in Seq(Envelope) /\ Len(q) = Len(segments)
    BY <2>2, <2>3, <2>4
  <2>6. n[dst.ip] \in Seq(Envelope)
    BY <2>1 DEF NetType
  <2>7. /\ n[dst.ip] \o q \in Seq(Envelope)
        /\ \A i \in 1 .. Len(n[dst.ip] \o q) :
                \/ i \in 1 .. Len(n[dst.ip]) /\ (n[dst.ip] \o q)[i] = n[dst.ip][i]
                \/ i - Len(n[dst.ip]) \in 1 .. Len(q)
                   /\ (n[dst.ip] \o q)[i] = q[i - Len(n[dst.ip])]
    <3>. HIDE DEF q
    <3>. DEFINE w == n[dst.ip]
    <3>1. w \in Seq(Envelope) /\ Len(w) \in Nat /\ Len(q) \in Nat
      BY <2>5, <2>6
    <3>. HIDE DEF w
    <3>2. /\ w \o q \in Seq(Envelope)
          /\ Len(w \o q) = Len(w) + Len(q)
          /\ \A i \in 1 .. Len(w) + Len(q) :
                (w \o q)[i] = IF i <= Len(w) THEN w[i] ELSE q[i - Len(w)]
      BY <2>5, <3>1, ConcatProperties
    <3>3. \A i \in 1 .. Len(w) + Len(q) :
            /\ i <= Len(w) => i \in 1 .. Len(w)
            /\ ~(i <= Len(w)) => i - Len(w) \in 1 .. Len(q)
      BY <3>1
    <3>4. \A i \in 1 .. Len(w \o q) :
                \/ i \in 1 .. Len(w) /\ (w \o q)[i] = w[i]
                \/ i - Len(w) \in 1 .. Len(q) /\ (w \o q)[i] = q[i - Len(w)]
      BY <3>2, <3>3
    <3>. QED
      BY <3>2, <3>4 DEF w
  <2>8. Send(n, id, dst, segments) = [n EXCEPT ![dst.ip] = n[dst.ip] \o q]
    BY <1>2 DEF Send, q
  <2>9. ASSUME NetLocal(n), dst.ip = id.src.ip
        PROVE  NetLocal(Send(n, id, dst, segments))
    <3>1. ASSUME NEW i \in 1 .. Len(n[dst.ip] \o q)
          PROVE  (n[dst.ip] \o q)[i].src.ip = dst.ip
      <4>1. CASE i \in 1 .. Len(n[dst.ip]) /\ (n[dst.ip] \o q)[i] = n[dst.ip][i]
        BY <2>1, <2>9, <4>1 DEF NetLocal
      <4>2. CASE /\ i - Len(n[dst.ip]) \in 1 .. Len(q)
                 /\ (n[dst.ip] \o q)[i] = q[i - Len(n[dst.ip])]
        BY <2>3, <2>5, <2>9, <4>2
      <4>. QED
        BY <2>7, <4>1, <4>2
    <3>. QED
      BY <2>1, <2>8, <2>9, <3>1 DEF NetLocal, NetType
  <2>. QED
    BY <2>1, <2>7, <2>8, <2>9 DEF NetType
<1>. QED
  BY <1>1, <1>2

----------------------------------------------------------------------------
(* Types.                                                                  *)

\* What is known of a socket in the table of manager m: it belongs to m, a
\* listener has no partner and a connected socket has one.
RowOK(m, e) ==
    /\ e \in Entry
    /\ e.id.src.ip = m
    /\ e.sock.state = "LISTEN" => e.sock.max_connections >= 0 /\ BoundOnly(e.id)
    /\ e.sock.state \in ConnectedState => ~BoundOnly(e.id)

TableOK(t) ==
    /\ t \in [Ip -> [Row -> Entry \union {Free}]]
    /\ \A m \in Ip : \A r \in Row : t[m][r] # Free => RowOK(m, t[m][r])

\* A program has no bound id but that of its own address.
HeldOK(h) ==
    /\ h \in [App -> SUBSET Id]
    /\ \A a \in App : \A id \in h[a] : BoundOnly(id) => id = BoundId(Home[a])

\* A program calls the library with ids, and connects by its own bound one.
CallOK(a, c) ==
    /\ c \in Call
    /\ c.op \in {"connect", "connecting"} => c.id = BoundId(Home[a]) /\ Target[a] # NoAddr
    /\ c.op = "accept" => c.id \in Id /\ BoundOnly(c.id) /\ c.msgs \in Seq(Addr)
    /\ c.op = "close" => c.id \in Id /\ c.msgs = <<>>

CallsOK(c) == c \in [App -> Call] /\ \A a \in App : CallOK(a, c[a])

\* A manager that stopped has destroyed its sockets.
StoppedIsEmpty == \A m \in Ip : mgr[m] = "stopped" => Used(m) = {}

Typed ==
    /\ TableOK(table)
    /\ NetType(net)
    /\ fifos \subseteq FifoKind \X Id
    /\ mgr \in [Ip -> {"running", "stopped", "hung"}]
    /\ CallsOK(call)
    /\ HeldOK(held)
    /\ binds \in [App -> Nat]
    /\ StoppedIsEmpty

LEMMA TypedMeaning == Typed => TypeOK /\ StateMatchesId
<1>. SUFFICES ASSUME Typed PROVE TypeOK /\ StateMatchesId
  OBVIOUS
<1>1. \A m \in Ip : \A e \in Sockets(m) : RowOK(m, e)
  BY DEF Typed, TableOK, Sockets, Used
<1>2. TypeOK
  BY <1>1 DEF Typed, TypeOK, TableOK, RowOK, NetType, CallsOK, HeldOK
<1>3. StateMatchesId
  BY <1>1 DEF StateMatchesId, AllSockets, RowOK
<1>. QED
  BY <1>2, <1>3

\* A socket in a used row.
LEMMA UsedRow ==
    ASSUME Typed, NEW m \in Ip, NEW r \in Used(m)
    PROVE  /\ r \in Row /\ table[m][r] # Free
           /\ RowOK(m, table[m][r])
           /\ table[m][r].id \in Id /\ table[m][r].sock \in Socket
           /\ table[m][r].sock.state \in TCPState
           /\ IdForFifo(table[m][r]) \in Id
<1>1. r \in Row /\ table[m][r] # Free /\ RowOK(m, table[m][r])
  BY DEF Typed, TableOK, Used
<1>2. table[m][r].id \in Id /\ table[m][r].sock \in Socket
  BY <1>1, RecordTypes DEF RowOK
<1>3. table[m][r].sock.state \in TCPState
  BY <1>2 DEF Socket
<1>4. IdForFifo(table[m][r]) \in Id
  BY <1>2, RecordTypes DEF IdForFifo
<1>. QED
  BY <1>1, <1>2, <1>3, <1>4

\* One row of the table changes.
PutRow(t, m, r, x) == [t EXCEPT ![m] = [t[m] EXCEPT ![r] = x]]

LEMMA PutRowOK ==
    ASSUME NEW t, TableOK(t), NEW m \in Ip, NEW r \in Row, NEW x,
           x = Free \/ RowOK(m, x)
    PROVE  /\ TableOK(PutRow(t, m, r, x))
           /\ PutRow(t, m, r, x)[m][r] = x
           /\ \A q \in Row : q # r => PutRow(t, m, r, x)[m][q] = t[m][q]
           /\ \A n \in Ip : n # m => PutRow(t, m, r, x)[n] = t[n]
<1>1. x \in Entry \union {Free}
  BY DEF RowOK
<1>. QED
  BY <1>1 DEF TableOK, PutRow

\* The socket in a row changes and keeps its id.
WithSock(e, s) == [id |-> e.id, sock |-> s]

LEMMA SetSocket ==
    ASSUME Typed, NEW m \in Ip, NEW r \in Used(m), NEW s
    PROVE  [table EXCEPT ![m][r].sock = s] = PutRow(table, m, r, WithSock(table[m][r], s))
<1>1. table[m][r] \in Entry /\ r \in Row /\ table \in [Ip -> [Row -> Entry \union {Free}]]
  BY UsedRow DEF RowOK, Typed, TableOK
<1>2. [table[m][r] EXCEPT !.sock = s] = WithSock(table[m][r], s)
  BY <1>1 DEF Entry, WithSock
<1>. QED
  BY <1>1, <1>2 DEF PutRow

----------------------------------------------------------------------------
(* What the actions do to the table.                                       *)

\* A segment is for a socket that is in the table: that of the connection, or
\* the bound one when there is none.
LEMMA ReceiverIsUsed ==
    ASSUME NEW m, NEW env, NEW r \in Receivers(m, env)
    PROVE  /\ r \in Used(m)
           /\ \/ table[m][r].id = ConnectionId(env)
              \/ ~Present(m, ConnectionId(env)) /\ table[m][r].id = BoundId(env.dst)
BY GetSocket DEF Receivers

\* A segment or a timer changes the socket in row r, which is no listener,
\* into s: the key stays, and an opening that fails or a close is final.
SocketChanges(m, r, s) ==
    /\ r \in Used(m)
    /\ table' = PutRow(table, m, r, WithSock(table[m][r], s))
    /\ s \in Socket
    /\ s.state \notin {"LISTEN", "SYN_SENT"}
    /\ s.state \in ConnectedState => ~BoundOnly(table[m][r].id)
    /\ s.state \in OpenState =>
            table[m][r].sock.state \in {"SYN_RECEIVED", "ESTABLISHED", "CLOSE_WAIT", "LAST_ACK"}
    /\ s.state # "CLOSED" => table[m][r].sock.state \notin {"CLOSED", "SYN_SENT", "LISTEN"}

SocketStep(m) == \E r \in Row : \E s \in Socket : SocketChanges(m, r, s)

LEMMA HandleResetEffect ==
    ASSUME Typed, NEW m \in Ip, HandleReset(m)
    PROVE  SocketStep(m)
<1>1. PICK r \in Receivers(m, First(m)) :
        /\ table[m][r].sock.state # "LISTEN"
        /\ table' = [table EXCEPT ![m][r].sock.state = "CLOSED"]
  BY DEF HandleReset
<1>2. r \in Used(m)
  BY ReceiverIsUsed
<1>. DEFINE s == [table[m][r].sock EXCEPT !.state = "CLOSED"]
<1>3. table' = PutRow(table, m, r, WithSock(table[m][r], s))
  <2>1. [table[m][r] EXCEPT !.sock.state = "CLOSED"] = [table[m][r] EXCEPT !.sock = s]
    OBVIOUS
  <2>2. table' = [table EXCEPT ![m][r].sock = s]
    BY <1>1, <2>1
  <2>. HIDE DEF s
  <2>. QED
    BY ZenonT(60), <1>2, <2>2, SetSocket
<1>4. r \in Row /\ table[m][r].sock \in Socket
  BY <1>2, UsedRow
<1>5. s \in Socket /\ s.state = "CLOSED"
  BY <1>4 DEF Socket, TCPState
<1>6. "CLOSED" \notin ConnectedState /\ "CLOSED" \notin OpenState
  BY DEF ConnectedState, OpenState
<1>. HIDE DEF s
<1>. QED
  BY <1>2, <1>3, <1>4, <1>5, <1>6 DEF SocketStep, SocketChanges

\* The row of a segment that a connection looks at.
LEMMA ConnectionRow ==
    ASSUME Typed, NEW m \in Ip, NEW r \in Row, NEW states, ForConnection(m, r, states)
    PROVE  /\ r \in Used(m)
           /\ table[m][r].sock \in Socket /\ table[m][r].sock.state \in states
           /\ ~BoundOnly(table[m][r].id)
           /\ table[m][r].id = ConnectionId(First(m))
           /\ mgr[m] = "running" /\ net[m] # <<>>
           /\ First(m) \in Envelope /\ First(m).segment \in Segment
<1>1. /\ mgr[m] = "running" /\ net[m] # <<>> /\ r \in Receivers(m, First(m))
      /\ table[m][r].sock.state \in states /\ ~BoundOnly(table[m][r].id)
  BY DEF ForConnection, HasPacket, PortsMatch
<1>2. r \in Used(m) /\ table[m][r].id \in {ConnectionId(First(m)), BoundId(First(m).dst)}
  BY <1>1, ReceiverIsUsed
<1>3. table[m][r].sock \in Socket
  BY <1>2, UsedRow
<1>4. First(m) \in Envelope /\ First(m).segment \in Segment
  BY <1>1, PoppedNet DEF Typed, Envelope
<1>. QED
  BY <1>1, <1>2, <1>3, <1>4 DEF BoundId, BoundOnly

LEMMA HandleSynReceivedEffect ==
    ASSUME Typed, NEW m \in Ip, NEW r \in Row, HandleSynReceived(m, r)
    PROVE  SocketStep(m)
<1>. DEFINE b == BoundId(table[m][r].id.src)
            Servers == {a \in App : /\ call[a].op = "accept" /\ call[a].id = b
                                    /\ <<"accept", b>> \in fifos}
            t == handle_packet_syn_received(table[m][r].sock, First(m).segment, Servers # {}).sock
<1>1. /\ ForConnection(m, r, {"SYN_RECEIVED"})
      /\ table' = [table EXCEPT ![m][r].sock = t]
  BY DEF HandleSynReceived
<1>2. /\ r \in Used(m) /\ table[m][r].sock \in Socket
      /\ table[m][r].sock.state = "SYN_RECEIVED" /\ ~BoundOnly(table[m][r].id)
      /\ First(m).segment \in Segment
  BY <1>1, ConnectionRow
<1>3. t \in Socket /\ (t = table[m][r].sock \/ t.state = "ESTABLISHED")
  BY <1>2, HandshakeStates
<1>. HIDE DEF t
<1>4. table' = PutRow(table, m, r, WithSock(table[m][r], t))
  BY ZenonT(60), <1>1, <1>2, SetSocket
<1>. QED
  BY <1>2, <1>3, <1>4 DEF SocketStep, SocketChanges

LEMMA HandleConnectedEffect ==
    ASSUME Typed, NEW m \in Ip, NEW r \in Row, HandleConnected(m, r)
    PROVE  /\ SocketStep(m)
           /\ \E reply \in Seq(Segment) :
                net' = Send(Popped(m), table[m][r].id, First(m).src, reply)
           /\ r \in Used(m) /\ table[m][r].id = ConnectionId(First(m))
           /\ net[m] # <<>> /\ First(m) \in Envelope
<1>. DEFINE e == table[m][r]
            p == First(m).segment
            result == CASE e.sock.state = "ESTABLISHED" ->
                                handle_packet_established(e.sock, p, FALSE)
                        [] e.sock.state = "FIN_WAIT_1" -> handle_packet_fin_wait_1(e.sock, p)
                        [] e.sock.state = "FIN_WAIT_2" -> handle_packet_fin_wait_2(e.sock, p)
                        [] e.sock.state = "CLOSING" -> handle_packet_closing(e.sock, p)
                        [] e.sock.state = "LAST_ACK" -> handle_packet_last_ack(e.sock, p)
            old == {"ESTABLISHED", "FIN_WAIT_1", "FIN_WAIT_2", "CLOSING", "LAST_ACK"}
<1>1. /\ ForConnection(m, r, old)
      /\ table' = [table EXCEPT ![m][r].sock = result.sock]
      /\ net' = Send(Popped(m), e.id, First(m).src, result.reply)
  BY DEF HandleConnected
<1>2. /\ r \in Used(m) /\ e.sock \in Socket /\ e.sock.state \in old /\ ~BoundOnly(e.id)
      /\ p \in Segment /\ e.id = ConnectionId(First(m)) /\ net[m] # <<>>
      /\ First(m) \in Envelope
  <2>. HIDE DEF old
  <2>. QED
    BY <1>1, ConnectionRow
<1>. DEFINE Good(states) == GoodResult(result, states)
<1>3. \/ e.sock.state = "ESTABLISHED" /\ Good({"ESTABLISHED", "CLOSE_WAIT"})
      \/ /\ e.sock.state = "FIN_WAIT_1"
         /\ Good({"FIN_WAIT_1", "FIN_WAIT_2", "CLOSING", "TIME_WAIT"})
      \/ e.sock.state = "FIN_WAIT_2" /\ Good({"FIN_WAIT_2", "TIME_WAIT"})
      \/ e.sock.state = "CLOSING" /\ Good({"CLOSING", "TIME_WAIT"})
      \/ e.sock.state = "LAST_ACK" /\ Good({"LAST_ACK", "CLOSED"})
  <2>1. FALSE \in BOOLEAN
    OBVIOUS
  <2>2. CASE e.sock.state = "ESTABLISHED"
    <3>1. result = handle_packet_established(e.sock, p, FALSE)
      BY <2>2
    <3>. HIDE DEF result
    <3>. QED
      BY <1>2, <2>1, <2>2, <3>1, EstablishedStates
  <2>3. CASE e.sock.state = "FIN_WAIT_1"
    <3>1. result = handle_packet_fin_wait_1(e.sock, p)
      BY <2>3
    <3>. HIDE DEF result
    <3>. QED
      BY <1>2, <2>3, <3>1, ClosingStates
  <2>4. CASE e.sock.state = "FIN_WAIT_2"
    <3>1. result = handle_packet_fin_wait_2(e.sock, p)
      BY <2>4
    <3>. HIDE DEF result
    <3>. QED
      BY <1>2, <2>4, <3>1, ClosingStates
  <2>5. CASE e.sock.state = "CLOSING"
    <3>1. result = handle_packet_closing(e.sock, p)
      BY <2>5
    <3>. HIDE DEF result
    <3>. QED
      BY <1>2, <2>5, <3>1, ClosingStates
  <2>6. CASE e.sock.state = "LAST_ACK"
    <3>1. result = handle_packet_last_ack(e.sock, p)
      BY <2>6
    <3>. HIDE DEF result
    <3>. QED
      BY <1>2, <2>6, <3>1, ClosingStates
  <2>. QED
    BY <1>2, <2>2, <2>3, <2>4, <2>5, <2>6
<1>. HIDE DEF result
<1>4. table' = PutRow(table, m, r, WithSock(e, result.sock))
  <2>. DEFINE t == result.sock
  <2>1. table' = [table EXCEPT ![m][r].sock = t] /\ r \in Used(m)
    BY <1>1, <1>2
  <2>. HIDE DEF t
  <2>2. table' = PutRow(table, m, r, WithSock(table[m][r], t))
    BY ZenonT(60), <2>1, SetSocket
  <2>. QED
    BY <2>2 DEF t
<1>5. result.sock \in Socket
  BY <1>3 DEF GoodResult
<1>6. result.reply \in Seq(Segment)
  <2>1. {"ACK"} \in SUBSET Flag
    BY DEF Flag
  <2>2. <<construct_packet(result.sock, <<>>, {"ACK"})>> \in Seq(Segment)
    BY <1>5, <2>1, SegmentTypes
  <2>3. <<>> \in Seq(Segment)
    OBVIOUS
  <2>. QED
    BY <1>3, <2>2, <2>3 DEF GoodResult
<1>7. SocketChanges(m, r, result.sock)
  BY <1>2, <1>3, <1>4, <1>5 DEF SocketChanges, GoodResult, OpenState, ConnectedState
<1>. QED
  BY <1>1, <1>2, <1>5, <1>6, <1>7 DEF SocketStep

LEMMA TimerEffect ==
    ASSUME Typed, NEW m \in Ip, NEW r \in Row,
           GiveUp(m, r) \/ CloseWaitToLastAck(m, r) \/ TimeWaitToClosed(m, r)
    PROVE  SocketStep(m) /\ r \in Used(m) /\ UNCHANGED <<fifos, mgr, call, held, binds>>
<1>. DEFINE old == table[m][r].sock
            s == [old EXCEPT !.state = "TIME_WAIT"]
            t == [old EXCEPT !.state = "LAST_ACK",
                             !.send_seq = old.send_seq + Len(old.send_window)]
            u == [old EXCEPT !.state = "CLOSED"]
<1>1. r \in Used(m) /\ UNCHANGED <<fifos, mgr, call, held, binds>>
  BY DEF GiveUp, CloseWaitToLastAck, TimeWaitToClosed, InState, Used
<1>2. old \in Socket /\ RowOK(m, table[m][r])
  BY <1>1, UsedRow
<1>3. CASE GiveUp(m, r)
  <2>1. old.state \in {"FIN_WAIT_1", "CLOSING"}
        /\ table' = [table EXCEPT ![m][r].sock.state = "TIME_WAIT"]
    BY <1>3 DEF GiveUp, InState
  <2>2. s \in Socket /\ s.state = "TIME_WAIT"
    BY <1>2 DEF Socket, TCPState
  <2>3. [table[m][r] EXCEPT !.sock.state = "TIME_WAIT"] = [table[m][r] EXCEPT !.sock = s]
    OBVIOUS
  <2>4. table' = [table EXCEPT ![m][r].sock = s]
    BY <2>1, <2>3
  <2>. HIDE DEF s
  <2>5. table' = PutRow(table, m, r, WithSock(table[m][r], s))
    BY ZenonT(60), <1>1, <2>4, SetSocket
  <2>6. SocketChanges(m, r, s)
    BY <1>1, <2>1, <2>2, <2>5 DEF SocketChanges, OpenState, ConnectedState
  <2>. QED
    BY <1>1, <2>2, <2>6 DEF SocketStep
<1>4. CASE CloseWaitToLastAck(m, r)
  <2>1. old.state = "CLOSE_WAIT" /\ table' = [table EXCEPT ![m][r].sock = t]
    BY <1>4 DEF CloseWaitToLastAck, InState
  <2>2. old.send_seq + Len(old.send_window) \in Int
    <3>1. old.send_seq \in Int /\ old.send_window \in Seq(Byte)
      BY <1>2 DEF Socket
    <3>2. Len(old.send_window) \in Int
      BY <3>1
    <3>. HIDE DEF old
    <3>. QED
      BY <3>1, <3>2
  <2>3. t \in Socket /\ t.state = "LAST_ACK"
    BY <1>2, <2>2 DEF Socket, TCPState
  <2>4. ~BoundOnly(table[m][r].id)
    BY <1>2, <2>1 DEF RowOK, ConnectedState
  <2>. HIDE DEF t
  <2>5. table' = PutRow(table, m, r, WithSock(table[m][r], t))
    BY ZenonT(60), <1>1, <2>1, SetSocket
  <2>6. SocketChanges(m, r, t)
    BY <1>1, <2>1, <2>3, <2>4, <2>5 DEF SocketChanges, OpenState, ConnectedState
  <2>. QED
    BY <1>1, <2>3, <2>6 DEF SocketStep
<1>5. CASE TimeWaitToClosed(m, r)
  <2>1. old.state = "TIME_WAIT"
        /\ table' = [table EXCEPT ![m][r].sock.state = "CLOSED"]
    BY <1>5 DEF TimeWaitToClosed, InState
  <2>2. u \in Socket /\ u.state = "CLOSED"
    BY <1>2 DEF Socket, TCPState
  <2>3. [table[m][r] EXCEPT !.sock.state = "CLOSED"] = [table[m][r] EXCEPT !.sock = u]
    OBVIOUS
  <2>4. table' = [table EXCEPT ![m][r].sock = u]
    BY <2>1, <2>3
  <2>. HIDE DEF u
  <2>5. table' = PutRow(table, m, r, WithSock(table[m][r], u))
    BY ZenonT(60), <1>1, <2>4, SetSocket
  <2>6. SocketChanges(m, r, u)
    BY <1>1, <2>1, <2>2, <2>5 DEF SocketChanges, OpenState, ConnectedState
  <2>. QED
    BY <1>1, <2>2, <2>6 DEF SocketStep
<1>. QED
  BY <1>1, <1>3, <1>4, <1>5

\* A bound socket is created in a free row, or the port is taken, or the
\* manager stops.
ManagerStops(m, pair) ==
    /\ StopManager(m, CreateBoth(fifos, pair))
    /\ call' = Orphan(call)
    /\ UNCHANGED held

NewRow(m, id, s) == \E r \in Row :
    /\ table[m][r] = Free
    /\ table' = PutRow(table, m, r, [id |-> id, sock |-> s])

LEMMA SocketBindEffect ==
    ASSUME Typed, NEW a \in App, SocketBind(a)
    PROVE  LET m == Home[a].ip
               b == BoundId(Home[a]) IN
           /\ call[a].op = "none" /\ mgr[m] = "running"
           /\ m \in Ip /\ b \in Id /\ b.src.ip = m /\ BoundOnly(b)
           /\ binds' \in [App -> Nat]
           /\ \/ UNCHANGED <<table, net, fifos, mgr, call, held>>
              \/ /\ NewRow(m, b, NewSocket("CLOSED", 0, 0)) /\ ~Present(m, b)
                 /\ EndFifos(b) \intersect fifos = {}
                 /\ fifos' = fifos \union EndFifos(b)
                 /\ held' = [held EXCEPT ![a] = @ \union {b}]
                 /\ UNCHANGED <<net, mgr, call>>
              \/ ManagerStops(m, EndFifos(b))
<1>. DEFINE m == Home[a].ip
            b == BoundId(Home[a])
<1>1. Home[a] \in Addr
  BY NetworkAssumption
<1>2. m \in Ip /\ b \in Id /\ BoundOnly(b) /\ b.src.ip = m
  BY <1>1, RecordTypes DEF BoundId
<1>3. binds' \in [App -> Nat]
  <2>1. binds' = [binds EXCEPT ![a] = binds[a] + 1] /\ binds \in [App -> Nat]
    BY DEF SocketBind, Typed
  <2>. QED
    BY <2>1
<1>4. CASE UNCHANGED <<table, net, fifos, mgr, call, held>>
  BY <1>2, <1>3, <1>4 DEF SocketBind
<1>5. CASE /\ CanInsert(m, b) /\ Creatable(EndFifos(b))
           /\ table' = [table EXCEPT ![m] = insertSocket(@,
                            [id |-> b, sock |-> NewSocket("CLOSED", 0, 0)])]
           /\ fifos' = CreateBoth(fifos, EndFifos(b))
           /\ held' = [held EXCEPT ![a] = @ \union {b}]
           /\ UNCHANGED <<net, mgr, call>>
  <2>. DEFINE entry == [id |-> b, sock |-> NewSocket("CLOSED", 0, 0)]
  <2>1. \E r \in Row : table[m][r] = Free
    BY <1>5 DEF CanInsert, Used
  <2>2. PICK r \in Row : table[m][r] = Free
                         /\ insertSocket(table[m], entry) = [table[m] EXCEPT ![r] = entry]
    <3>. HIDE DEF m, entry
    <3>. QED
      BY <2>1, InsertSocket
  <2>3. table' = PutRow(table, m, r, entry)
    BY <1>5, <2>2 DEF PutRow
  <2>4. EndFifos(b) \intersect fifos = {} /\ fifos' = fifos \union EndFifos(b)
    <3>1. EndFifos(b) # {}
      BY DEF EndFifos
    <3>. HIDE DEF b
    <3>. QED
      BY <1>5, <3>1 DEF Creatable, CreateBoth
  <2>5. NewRow(m, b, NewSocket("CLOSED", 0, 0)) /\ ~Present(m, b)
    BY <1>5, <2>2, <2>3 DEF NewRow, CanInsert
  <2>. QED
    BY <1>2, <1>3, <1>5, <2>4, <2>5 DEF SocketBind
<1>6. CASE ManagerStops(m, EndFifos(b))
  BY <1>2, <1>3, <1>6 DEF SocketBind
<1>. QED
  BY <1>4, <1>5, <1>6 DEF SocketBind, ManagerStops

\* The socket of a bound id becomes a listener, or CLOSED when the accept fifo
\* exists already, or nobody takes the request.
LEMMA SocketListenEffect ==
    ASSUME Typed, NEW a \in App, NEW id \in held[a], SocketListen(a, id)
    PROVE  LET m == id.src.ip IN
           /\ id \in Id /\ BoundOnly(id) /\ m \in Ip /\ mgr[m] = "running"
           /\ call[a].op = "none" /\ Present(m, id)
           /\ UNCHANGED <<net, held, binds>>
           /\ \/ \E r \in Used(m) : \E s \in Socket :
                    /\ table[m][r].id = id
                    /\ table' = PutRow(table, m, r, WithSock(table[m][r], s))
                    /\ s.max_connections = Backlog[a] /\ UNCHANGED call
                    /\ table[m][r].sock.state # "LISTEN"
                    /\ \/ /\ s.state = "LISTEN" /\ <<"accept", id>> \notin fifos
                          /\ fifos' = fifos \union {<<"accept", id>>} /\ UNCHANGED mgr
                       \/ /\ s.state = "CLOSED" /\ <<"accept", id>> \in fifos
                          /\ UNCHANGED fifos
                          /\ \E outcome \in {"running", "hung"} :
                                mgr' = [mgr EXCEPT ![m] = outcome]
              \/ /\ call' = [call EXCEPT ![a] = Calling("stuck", NoAddr)]
                 /\ UNCHANGED <<table, fifos, mgr>>
<1>. DEFINE m == id.src.ip
            r == getSocket(m, id)
            old == table[m][r].sock
            s(state) == [old EXCEPT !.state = state, !.max_connections = Backlog[a]]
<1>1. id \in Id /\ BoundOnly(id) /\ m \in Ip /\ mgr[m] = "running" /\ call[a].op = "none"
      /\ Present(m, id) /\ UNCHANGED <<net, held, binds>>
  BY RecordTypes DEF SocketListen, Typed, HeldOK
<1>2. r \in Used(m) /\ table[m][r].id = id
  BY <1>1, GetSocket
<1>3. old \in Socket
  BY <1>1, <1>2, UsedRow
<1>4. Backlog[a] \in Int
  BY NetworkAssumption
<1>5. \A state \in {"LISTEN", "CLOSED"} :
        /\ s(state) \in Socket /\ s(state).state = state
        /\ s(state).max_connections = Backlog[a]
  <2>1. {"LISTEN", "CLOSED"} \subseteq TCPState
    BY DEF TCPState
  <2>. HIDE DEF old
  <2>. QED
    BY <1>3, <1>4, <2>1 DEF Socket
<1>6. CASE /\ old.state # "LISTEN" /\ <<"accept", id>> \notin fifos
           /\ table' = [table EXCEPT ![m][r].sock = s("LISTEN")]
           /\ fifos' = fifos \union {<<"accept", id>>}
           /\ UNCHANGED <<call, mgr>>
  <2>. DEFINE t == s("LISTEN")
  <2>1. t \in Socket /\ t.state = "LISTEN" /\ t.max_connections = Backlog[a]
    BY <1>5
  <2>2. table' = [table EXCEPT ![m][r].sock = t]
    BY <1>6
  <2>. HIDE DEF t, m, r
  <2>3. table' = PutRow(table, m, r, WithSock(table[m][r], t))
    BY <1>1, <1>2, <2>2, SetSocket
  <2>. QED
    BY <1>1, <1>2, <1>6, <2>1, <2>3 DEF m
<1>7. CASE /\ old.state # "LISTEN" /\ <<"accept", id>> \in fifos
           /\ \E outcome \in {"running", "hung"} : mgr' = [mgr EXCEPT ![m] = outcome]
           /\ table' = [table EXCEPT ![m][r].sock = s("CLOSED")]
           /\ UNCHANGED <<call, fifos>>
  <2>. DEFINE t == s("CLOSED")
  <2>1. t \in Socket /\ t.state = "CLOSED" /\ t.max_connections = Backlog[a]
    BY <1>5
  <2>2. table' = [table EXCEPT ![m][r].sock = t]
    BY <1>7
  <2>. HIDE DEF t, m, r
  <2>3. table' = PutRow(table, m, r, WithSock(table[m][r], t))
    BY <1>1, <1>2, <2>2, SetSocket
  <2>. QED
    BY <1>1, <1>2, <1>7, <2>1, <2>3 DEF m
<1>8. CASE /\ call' = [call EXCEPT ![a] = Calling("stuck", NoAddr)]
           /\ UNCHANGED <<table, fifos, mgr>>
  BY <1>1, <1>8
<1>. HIDE DEF s
<1>. QED
  BY <1>6, <1>7, <1>8 DEF SocketListen, s

\* The request is dropped, or the bound socket becomes the opening connection.
LEMMA HandleConnectRequestEffect ==
    ASSUME Typed, NEW a \in App, HandleConnectRequest(a)
    PROVE  LET m == Home[a].ip
               b == BoundId(Home[a])
               c == [src |-> Home[a], dst |-> Target[a]] IN
           /\ call[a].op = "connect" /\ call[a].id = b /\ b.src.ip = m /\ m \in Ip
           /\ c \in Id /\ ~BoundOnly(c)
           /\ mgr[m] = "running" /\ call' = [call EXCEPT ![a].op = "connecting"]
           /\ UNCHANGED <<net, fifos, mgr, held, binds>>
           /\ \E r \in Used(m) :
                /\ table[m][r].id = b /\ table[m][r].sock.state = "CLOSED"
                /\ \/ UNCHANGED table
                   \/ /\ ~Present(m, c)
                      /\ \E q \in Row : \E s \in Socket :
                            /\ s.state = "SYN_SENT"
                            /\ s.recv_seq = 0
                            /\ s.send_window = table[m][r].sock.send_window
                            /\ q = r \/ table[m][q] = Free
                            /\ table' = PutRow(PutRow(table, m, r, Free), m, q,
                                               [id |-> c, sock |-> s])
<1>. DEFINE b == call[a].id
            m == b.src.ip
            c == [b EXCEPT !.dst = Target[a]]
<1>1. /\ call[a].op = "connect" /\ mgr[m] = "running"
      /\ call' = [call EXCEPT ![a].op = "connecting"]
      /\ UNCHANGED <<net, fifos, mgr, held, binds>>
  BY DEF HandleConnectRequest
<1>2. b = BoundId(Home[a]) /\ Target[a] # NoAddr /\ Home[a] \in Addr /\ Target[a] \in Addr
  BY <1>1, NetworkAssumption DEF Typed, CallsOK, CallOK
<1>3. /\ m = Home[a].ip /\ m \in Ip /\ c = [src |-> Home[a], dst |-> Target[a]]
      /\ c \in Id /\ ~BoundOnly(c) /\ BoundId(Home[a]).src.ip = m
  BY <1>2, RecordTypes DEF BoundId, BoundOnly
<1>4. PICK r \in ConnectRow(m, b) :
        \/ UNCHANGED table
        \/ /\ ~Present(m, c)
           /\ \E isn \in ConnectIsn :
                 table' = [table EXCEPT ![m] = insertSocket([table[m] EXCEPT ![r] = Free],
                    [id |-> c,
                     sock |-> [table[m][r].sock EXCEPT !.state = "SYN_SENT",
                                 !.send_seq = isn, !.recv_seq = 0]])]
  BY DEF HandleConnectRequest
<1>5. r \in Used(m) /\ table[m][r].id = b /\ table[m][r].sock.state = "CLOSED"
  BY DEF ConnectRow, RowsOf, Used
<1>. DEFINE Fits(q, s) == /\ s.state = "SYN_SENT"
                          /\ s.recv_seq = 0
                          /\ s.send_window = table[m][r].sock.send_window
                          /\ q = r \/ table[m][q] = Free
                          /\ table' = PutRow(PutRow(table, m, r, Free), m, q,
                                             [id |-> c, sock |-> s])
<1>6. UNCHANGED table \/ (~Present(m, c) /\ \E q \in Row : \E s \in Socket : Fits(q, s))
  <2>1. CASE UNCHANGED table
    BY <2>1
  <2>2. CASE ~UNCHANGED table
    <3>1. PICK isn \in ConnectIsn :
          /\ ~Present(m, c)
          /\ table' = [table EXCEPT ![m] = insertSocket([table[m] EXCEPT ![r] = Free],
                      [id |-> c,
                       sock |-> [table[m][r].sock EXCEPT !.state = "SYN_SENT",
                                   !.send_seq = isn, !.recv_seq = 0]])]
      BY <1>4, <2>2
    <3>. DEFINE s == [table[m][r].sock EXCEPT !.state = "SYN_SENT",
                          !.send_seq = isn, !.recv_seq = 0]
                entry == [id |-> c, sock |-> s]
                t == [table[m] EXCEPT ![r] = Free]
    <3>2. isn \in Int /\ 0 \in Int /\ "SYN_SENT" \in TCPState
      BY NetworkAssumption DEF TCPState
    <3>3. table[m][r].sock \in Socket /\ r \in Row
      BY <1>3, <1>5, UsedRow
    <3>4. /\ s \in Socket /\ s.state = "SYN_SENT"
          /\ s.recv_seq = 0
          /\ s.send_window = table[m][r].sock.send_window
      <4>1. /\ s \in Socket /\ s.state = "SYN_SENT" /\ s.recv_seq = 0 /\ s.send_seq = isn
            /\ s.send_window = table[m][r].sock.send_window
        BY <3>2, <3>3 DEF Socket
      <4>. HIDE DEF s
      <4>. QED
        BY <3>1, <4>1
    <3>5. table \in [Ip -> [Row -> Entry \union {Free}]]
      BY DEF Typed, TableOK
    <3>6. table[m] \in [Row -> Entry \union {Free}]
      BY <1>3, <3>5
    <3>7. t[r] = Free /\ \A q \in Row : q # r => t[q] = table[m][q]
      BY <3>3, <3>6
    <3>8. PICK q \in Row : t[q] = Free /\ insertSocket(t, entry) = [t EXCEPT ![q] = entry]
      <4>. HIDE DEF t, entry
      <4>. QED
        BY <3>3, <3>7, InsertSocket
    <3>9. q = r \/ table[m][q] = Free
      BY <3>7, <3>8
    <3>10. table' = PutRow(PutRow(table, m, r, Free), m, q, entry)
      <4>1. PutRow(table, m, r, Free) = [table EXCEPT ![m] = t]
        BY DEF PutRow
      <4>2. table' = [table EXCEPT ![m] = [t EXCEPT ![q] = entry]]
        BY <3>1, <3>8
      <4>. HIDE DEF t, entry, m
      <4>3. [table EXCEPT ![m] = t][m] = t
        BY <1>3, <3>5
      <4>. QED
        BY <4>1, <4>2, <4>3, <1>3, <3>5 DEF PutRow
    <3>12. Fits(q, s)
      BY <3>4, <3>9, <3>10
    <3>. HIDE DEF s, Fits
    <3>. QED
      BY <3>1, <3>4, <3>12
  <2>. QED
    BY <2>1, <2>2
<1>. DEFINE h == Home[a]
            g == Target[a]
<1>7. /\ m = h.ip /\ b = BoundId(h) /\ c = [src |-> h, dst |-> g]
      /\ BoundId(h).src.ip = h.ip
  BY <1>2, <1>3
<1>. HIDE DEF b, m, c, Fits
<1>8. /\ call[a].op = "connect" /\ call[a].id = b /\ mgr[m] = "running" /\ m \in Ip
      /\ call' = [call EXCEPT ![a].op = "connecting"]
      /\ UNCHANGED <<net, fifos, mgr, held, binds>>
      /\ c \in Id /\ ~BoundOnly(c) /\ b.src.ip = m
  BY <1>1, <1>2, <1>3 DEF b
<1>9. r \in Used(m) /\ table[m][r].id = b /\ table[m][r].sock.state = "CLOSED"
  BY <1>5
<1>10. \A q, s : Fits(q, s) <=> /\ s.state = "SYN_SENT"
                                /\ s.recv_seq = 0
                                /\ s.send_window = table[m][r].sock.send_window
                                /\ q = r \/ table[m][q] = Free
                                /\ table' = PutRow(PutRow(table, m, r, Free), m, q,
                                             [id |-> c, sock |-> s])
  BY DEF Fits
<1>. QED
  BY <1>6, <1>7, <1>8, <1>9, <1>10

\* A close takes the bound id back when the connection is still opening.
LEMMA HandleCloseCommandEffect ==
    ASSUME Typed, NEW m \in Ip, NEW r \in Row, HandleCloseCommand(m, r)
    PROVE  /\ r \in Used(m) /\ mgr[m] = "running"
           /\ <<"end_write", IdForFifo(table[m][r])>> \in fifos
           /\ \E s \in Socket :
                /\ s.state = "FIN_WAIT_1"
                /\ table' = PutRow(table, m, r, [id |-> IdForFifo(table[m][r]), sock |-> s])
<1>. DEFINE old == table[m][r].sock
            s == [old EXCEPT !.state = "FIN_WAIT_1", !.send_seq = @ + Len(old.send_window)]
            entry == [id |-> IdForFifo(table[m][r]), sock |-> s]
<1>1. /\ r \in Used(m) /\ mgr[m] = "running"
      /\ <<"end_write", IdForFifo(table[m][r])>> \in fifos
      /\ table' = [table EXCEPT ![m][r] = entry]
  BY DEF HandleCloseCommand
<1>2. old \in Socket
  BY <1>1, UsedRow
<1>3. old.send_seq + Len(old.send_window) \in Int
  <2>1. old.send_seq \in Int /\ Len(old.send_window) \in Nat
    BY SMTT(30), <1>2 DEF Socket
  <2>. HIDE DEF old
  <2>. QED
    BY <2>1
<1>4. s \in Socket /\ s.state = "FIN_WAIT_1"
  BY <1>2, <1>3 DEF Socket, TCPState
<1>5. table' = PutRow(table, m, r, entry)
  <2>. HIDE DEF entry
  <2>. QED
    BY <1>1 DEF PutRow
<1>. HIDE DEF s
<1>. QED
  BY <1>1, <1>4, <1>5

LEMMA HandleClosedSocketEffect ==
    ASSUME Typed, NEW m \in Ip, NEW r \in Row, HandleClosedSocket(m, r)
    PROVE  /\ r \in Used(m) /\ mgr[m] = "running"
           /\ table[m][r].sock.state = "CLOSED"
           /\ table' = PutRow(table, m, r, Free)
BY DEF HandleClosedSocket, PutRow

\* A SYN that reaches a listener from the same machine asks for a connection
\* that is not in the table.
SynId(m) == [src |-> First(m).dst, dst |-> [ip |-> m, port |-> First(m).src.port]]

\* The listener takes one from its backlog, and the connection gets a free row.
Opens(m, c) == \E r \in Used(m) : \E q \in Row : \E s, t \in Socket :
    /\ table[m][r].sock.state = "LISTEN" /\ table[m][r].id = BoundId(c.src)
    /\ table[m][q] = Free
    /\ s.state = "LISTEN" /\ s.max_connections >= 0
    /\ s.max_connections = table[m][r].sock.max_connections - 1
    /\ s.send_window = table[m][r].sock.send_window
    /\ t.state = "SYN_RECEIVED" /\ t.recv_seq = First(m).segment.seq + 1
    /\ t.send_window = <<>>
    /\ table' = PutRow(PutRow(table, m, r, WithSock(table[m][r], s)),
                       m, q, [id |-> c, sock |-> t])

LEMMA ListenEffect ==
    ASSUME Typed, NEW m \in Ip, handle_packet_listen(m)
    PROVE  LET c == SynId(m) IN
           /\ mgr[m] = "running" /\ net[m] # <<>>
           /\ c \in Id /\ ~BoundOnly(c) /\ c.src.ip = m /\ c.dst.ip = m
           /\ NetLocal(net) => ~Present(m, c)
           /\ \/ UNCHANGED <<table, fifos>>
              \/ /\ EndFifos(c) \intersect fifos # {} /\ fifos' = fifos \ EndFifos(c)
                 /\ UNCHANGED table
              \/ /\ EndFifos(c) \intersect fifos = {} /\ fifos' = fifos \ AllFifos(c)
                 /\ UNCHANGED table
              \/ /\ EndFifos(c) \intersect fifos = {} /\ ~Present(m, c)
                 /\ fifos' = fifos \union EndFifos(c)
                 /\ Opens(m, c)
<1>. DEFINE c == SynId(m)
            End == EndFifos(c)
<1>1. mgr[m] = "running" /\ net[m] # <<>>
  BY DEF handle_packet_listen, HasPacket
<1>2. PICK r \in Receivers(m, First(m)) :
        /\ table[m][r].sock.state = "LISTEN"
        /\ \/ UNCHANGED <<table, fifos>>
           \/ /\ ~Refuses(table[m][r].sock) /\ ~Creatable(End)
              /\ fifos' = CreateBoth(fifos, End) /\ UNCHANGED table
           \/ /\ ~Refuses(table[m][r].sock) /\ Creatable(End)
              /\ ~CanInsert(m, c) /\ fifos' = fifos \ AllFifos(c) /\ UNCHANGED table
           \/ /\ ~Refuses(table[m][r].sock) /\ Creatable(End)
              /\ CanInsert(m, c) /\ fifos' = fifos \union End
              /\ \E isn \in AcceptIsn :
                    table' = [table EXCEPT ![m] = insertSocket(
                        [@ EXCEPT ![r].sock = TakeBacklog(table[m][r].sock)],
                        [id |-> c, sock |-> NewSocket("SYN_RECEIVED", isn,
                                                First(m).segment.seq + 1)])]
  BY DEF handle_packet_listen, SynId
<1>3. First(m) \in Envelope /\ (NetLocal(net) => First(m).src.ip = m)
  BY <1>1, PoppedNet DEF Typed
<1>4. First(m).src \in Addr /\ First(m).dst \in Addr /\ First(m).segment \in Segment
  BY <1>3 DEF Envelope
<1>5. /\ r \in Used(m)
      /\ \/ table[m][r].id = ConnectionId(First(m))
         \/ ~Present(m, ConnectionId(First(m))) /\ table[m][r].id = BoundId(First(m).dst)
  BY ReceiverIsUsed
<1>6. /\ RowOK(m, table[m][r]) /\ r \in Row /\ table[m][r].sock \in Socket
      /\ table[m][r].sock.max_connections >= 0 /\ BoundOnly(table[m][r].id)
  BY <1>2, <1>5, UsedRow DEF RowOK
<1>7. table[m][r].id = BoundId(First(m).dst) /\ ~Present(m, ConnectionId(First(m)))
  BY <1>4, <1>5, <1>6, NetworkAssumption DEF ConnectionId, BoundOnly
<1>8. First(m).dst.ip = m
  BY <1>6, <1>7 DEF RowOK, BoundId
<1>9. c \in Id /\ ~BoundOnly(c) /\ c.src = First(m).dst /\ c.src.ip = m /\ c.dst.ip = m
  <2>1. [ip |-> m, port |-> First(m).src.port] \in Addr
    BY <1>4 DEF Addr
  <2>. QED
    BY <1>4, <1>8, <2>1, RecordTypes, NetworkAssumption DEF SynId, BoundOnly
<1>10. ASSUME NetLocal(net) PROVE ~Present(m, c)
  <2>1. First(m).src = [ip |-> m, port |-> First(m).src.port]
    BY <1>3, <1>4, <1>10 DEF Addr
  <2>. QED
    BY <1>7, <2>1 DEF SynId, ConnectionId
<1>11. End # {} /\ (Creatable(End) <=> End \intersect fifos = {})
       /\ (~Creatable(End) => CreateBoth(fifos, End) = fifos \ End)
  <2>1. End # {}
    BY DEF EndFifos
  <2>. HIDE DEF c
  <2>2. Creatable(End) <=> End \intersect fifos = {}
    BY <2>1 DEF Creatable, CreateBoth
  <2>. QED
    BY <2>1, <2>2 DEF CreateBoth
<1>12. ASSUME ~Refuses(table[m][r].sock), CanInsert(m, c),
              NEW isn \in AcceptIsn,
              table' = [table EXCEPT ![m] = insertSocket(
                        [@ EXCEPT ![r].sock = TakeBacklog(table[m][r].sock)],
                        [id |-> c, sock |-> NewSocket("SYN_RECEIVED", isn,
                                                First(m).segment.seq + 1)])]
       PROVE  ~Present(m, c) /\ Opens(m, c)
  <2>. DEFINE old == table[m][r].sock
              n == old.max_connections - 1
              s == [old EXCEPT !.max_connections = n]
              new == NewSocket("SYN_RECEIVED", isn, First(m).segment.seq + 1)
              entry == [id |-> c, sock |-> new]
              x == WithSock(table[m][r], s)
              t == [table[m] EXCEPT ![r] = x]
  <2>1. /\ new \in Socket /\ new.state = "SYN_RECEIVED"
        /\ new.recv_seq = First(m).segment.seq + 1
        /\ new.send_window = <<>>
    <3>1. isn \in Int /\ First(m).segment.seq + 1 \in Int /\ "SYN_RECEIVED" \in TCPState
      BY <1>4, NetworkAssumption DEF Segment, TCPState
    <3>2. /\ new.recv_seq = First(m).segment.seq + 1 /\ new.send_seq = isn
          /\ new.send_window = <<>>
      BY DEF NewSocket
    <3>. HIDE DEF new
    <3>. QED
      BY <1>12, <3>1, <3>2, NewSocketType DEF new
  <2>2. old.max_connections \in Int /\ n \in Int /\ n >= 0
    <3>1. old.max_connections \in Int /\ old.max_connections >= 0 /\ old.max_connections # 0
      BY <1>6, <1>12 DEF Socket, Refuses
    <3>. HIDE DEF old
    <3>. QED
      BY <3>1
  <2>3. /\ s \in Socket /\ s.state = "LISTEN" /\ s.max_connections = n
        /\ s.send_window = old.send_window
    <3>. HIDE DEF n
    <3>1. old.state = "LISTEN"
      BY <1>2
    <3>. HIDE DEF old
    <3>. QED
      BY <1>6, <2>2, <3>1 DEF Socket, old
  <2>4. [table[m] EXCEPT ![r].sock = TakeBacklog(table[m][r].sock)] = t
    <3>1. TakeBacklog(old) = s
      BY DEF TakeBacklog
    <3>2. [table[m][r] EXCEPT !.sock = s] = x
      <4>1. table[m][r] \in Entry
        BY <1>6 DEF RowOK
      <4>. HIDE DEF s
      <4>. QED
        BY <4>1 DEF Entry, WithSock
    <3>. QED
      BY <3>1, <3>2
  <2>5. table \in [Ip -> [Row -> Entry \union {Free}]]
    BY DEF Typed, TableOK
  <2>6. x # Free
    <3>1. x \in Entry
      BY <1>6, <2>3, RecordTypes DEF WithSock, RowOK
    <3>. QED
      BY <3>1, RecordTypes
  <2>7. table[m] \in [Row -> Entry \union {Free}] /\ t[r] = x
        /\ \A q \in Row : q # r => t[q] = table[m][q]
    <3>1. table[m] \in [Row -> Entry \union {Free}]
      BY <2>5
    <3>. HIDE DEF x
    <3>. QED
      BY <1>6, <3>1
  <2>8. \E q \in Row : t[q] = Free
    <3>1. PICK q \in Row : table[m][q] = Free
      BY <1>12 DEF CanInsert, Used
    <3>2. q # r
      BY <3>1, <1>5 DEF Used
    <3>. QED
      BY <3>1, <3>2, <2>7
  <2>9. PICK q \in Row : t[q] = Free /\ insertSocket(t, entry) = [t EXCEPT ![q] = entry]
    <3>. HIDE DEF t, entry
    <3>. QED
      BY <2>8, InsertSocket
  <2>10. table[m][q] = Free
    BY <2>6, <2>7, <2>9
  <2>11. table' = PutRow(PutRow(table, m, r, x), m, q, entry)
    <3>1. PutRow(table, m, r, x) = [table EXCEPT ![m] = t]
      BY DEF PutRow
    <3>2. table' = [table EXCEPT ![m] = [t EXCEPT ![q] = entry]]
      <4>1. table' = [table EXCEPT ![m] =
                insertSocket([table[m] EXCEPT ![r].sock = TakeBacklog(table[m][r].sock)], entry)]
        BY <1>12
      <4>. HIDE DEF t, entry
      <4>. QED
        BY <4>1, <2>4, <2>9
    <3>. HIDE DEF t, entry
    <3>3. [table EXCEPT ![m] = t][m] = t
      BY <2>5
    <3>. QED
      BY <3>1, <3>2, <3>3, <2>5 DEF PutRow
  <2>12. ~Present(m, c)
    BY <1>12 DEF CanInsert
  <2>13. table[m][r].id = BoundId(c.src)
    BY <1>7, <1>9
  <2>. HIDE DEF s, new, c
  <2>. QED
    BY <1>2, <1>5, <2>1, <2>2, <2>3, <2>10, <2>11, <2>12, <2>13 DEF Opens
<1>. HIDE DEF c
<1>13. \/ UNCHANGED <<table, fifos>>
       \/ End \intersect fifos # {} /\ fifos' = fifos \ End /\ UNCHANGED table
       \/ End \intersect fifos = {} /\ fifos' = fifos \ AllFifos(c) /\ UNCHANGED table
       \/ /\ End \intersect fifos = {} /\ ~Present(m, c)
          /\ fifos' = fifos \union End /\ Opens(m, c)
  <2>. DEFINE Fill(isn) == table' = [table EXCEPT ![m] = insertSocket(
                        [@ EXCEPT ![r].sock = TakeBacklog(table[m][r].sock)],
                        [id |-> c, sock |-> NewSocket("SYN_RECEIVED", isn,
                                                First(m).segment.seq + 1)])]
  <2>1. \A isn \in AcceptIsn : ~Refuses(table[m][r].sock) /\ CanInsert(m, c) /\ Fill(isn)
                             => ~Present(m, c) /\ Opens(m, c)
    BY <1>12
  <2>2. \/ UNCHANGED <<table, fifos>>
        \/ ~Creatable(End) /\ fifos' = CreateBoth(fifos, End) /\ UNCHANGED table
        \/ Creatable(End) /\ fifos' = fifos \ AllFifos(c) /\ UNCHANGED table
        \/ /\ ~Refuses(table[m][r].sock) /\ Creatable(End) /\ CanInsert(m, c)
           /\ fifos' = fifos \union End
           /\ \E isn \in AcceptIsn : Fill(isn)
    BY <1>2
  <2>. HIDE DEF Fill
  <2>. QED
    BY <1>11, <2>1, <2>2
<1>14. /\ mgr[m] = "running" /\ net[m] # <<>>
       /\ c \in Id /\ ~BoundOnly(c) /\ c.src.ip = m /\ c.dst.ip = m
       /\ NetLocal(net) => ~Present(m, c)
  BY <1>1, <1>9, <1>10
<1>. QED
  BY <1>13, <1>14 DEF c

\* The answer to a SYN opens the connection and is passed on to a program that
\* still waits for it, or leaves the socket as it was.
LEMMA HandleSynSentEffect ==
    ASSUME Typed, NEW m \in Ip, NEW r \in Row, HandleSynSent(m, r)
    PROVE  LET id == table[m][r].id IN
           /\ mgr[m] = "running" /\ net[m] # <<>> /\ net' = Popped(m)
           /\ r \in Used(m) /\ table[m][r].sock.state = "SYN_SENT" /\ ~BoundOnly(id)
           /\ id = ConnectionId(First(m))
           /\ UNCHANGED <<mgr, held, binds>>
           /\ \/ /\ \E s \in Socket :
                    /\ s.state = "ESTABLISHED"
                    /\ table' = PutRow(table, m, r, WithSock(table[m][r], s))
                 /\ EndFifos(id) \intersect fifos = {}
                 /\ fifos' = fifos \union EndFifos(id)
                 /\ \E a \in Connectors(BoundId(id.src)) :
                        call' = [call EXCEPT ![a].msgs = Append(@, Granted)]
              \/ /\ UNCHANGED table /\ call' = Orphan(call)
                 /\ fifos' = fifos \/ fifos' = CreateBoth(fifos, EndFifos(id))
<1>. DEFINE e == table[m][r]
            p == First(m).segment
            created == Creatable(EndFifos(e.id))
            Clients == Connectors(BoundId(e.id.src))
            notified == handle_packet_syn_sent(e.sock, p, created /\ Clients # {}).sock
            any == handle_packet_syn_sent(e.sock, p, TRUE).sock
<1>1. /\ ForConnection(m, r, {"SYN_SENT"})
      /\ net' = Popped(m)
      /\ table' = [table EXCEPT ![m][r].sock = notified]
      /\ fifos' = IF any # e.sock THEN CreateBoth(fifos, EndFifos(e.id)) ELSE fifos
      /\ \/ /\ notified.state = "ESTABLISHED"
            /\ \E a \in Clients : call' = [call EXCEPT ![a].msgs = Append(@, Granted)]
         \/ notified.state = "SYN_SENT" /\ call' = Orphan(call)
      /\ UNCHANGED <<mgr, held, binds>>
  BY DEF HandleSynSent
<1>2. /\ r \in Used(m) /\ e.sock \in Socket /\ e.sock.state = "SYN_SENT" /\ ~BoundOnly(e.id)
      /\ p \in Segment /\ e.id = ConnectionId(First(m)) /\ net[m] # <<>> /\ mgr[m] = "running"
  <2>1. ForConnection(m, r, {"SYN_SENT"})
    BY <1>1
  <2>2. /\ r \in Used(m) /\ table[m][r].sock \in Socket
        /\ table[m][r].sock.state \in {"SYN_SENT"} /\ ~BoundOnly(table[m][r].id)
        /\ First(m).segment \in Segment /\ table[m][r].id = ConnectionId(First(m))
        /\ net[m] # <<>> /\ mgr[m] = "running"
    BY <2>1, ConnectionRow
  <2>. QED
    BY <2>2
<1>3. notified \in Socket
      /\ (notified = e.sock \/ (created /\ Clients # {} /\ notified.state = "ESTABLISHED"))
  <2>. DEFINE told == created /\ Clients # {}
  <2>1. told \in BOOLEAN
    BY DEF Creatable
  <2>. HIDE DEF told
  <2>2. LET t == handle_packet_syn_sent(e.sock, p, told).sock IN
        t \in Socket /\ (t = e.sock \/ (told /\ t.state = "ESTABLISHED"))
    BY <1>2, <2>1, HandshakeStates
  <2>. QED
    BY <2>2 DEF told
<1>4. table' = PutRow(table, m, r, WithSock(e, notified))
  <2>. HIDE DEF notified
  <2>. QED
    BY <1>1, <1>2, SetSocket
<1>5. CASE notified.state = "ESTABLISHED"
  <2>1. created /\ Clients # {} /\ any = notified
    BY <1>2, <1>3, <1>5
  <2>2. fifos' = CreateBoth(fifos, EndFifos(e.id))
    BY <1>1, <1>2, <1>5, <2>1
  <2>3. EndFifos(e.id) \intersect fifos = {} /\ fifos' = fifos \union EndFifos(e.id)
    <3>1. EndFifos(e.id) # {}
      BY DEF EndFifos
    <3>. HIDE DEF e
    <3>. QED
      BY <2>1, <2>2, <3>1 DEF Creatable, CreateBoth
  <2>4. \E a \in Clients : call' = [call EXCEPT ![a].msgs = Append(@, Granted)]
    BY <1>1, <1>5
  <2>. HIDE DEF notified, any
  <2>. QED
    BY <1>1, <1>2, <1>3, <1>4, <1>5, <2>3, <2>4
<1>6. CASE notified.state = "SYN_SENT"
  <2>1. notified = e.sock
    BY <1>3, <1>6
  <2>2. UNCHANGED table
    <3>1. table[m][r] \in Entry /\ r \in Row /\ table \in [Ip -> [Row -> Entry \union {Free}]]
      BY <1>2, UsedRow DEF RowOK, Typed, TableOK
    <3>2. WithSock(e, e.sock) = e
      BY <3>1 DEF WithSock, Entry
    <3>3. table' = PutRow(table, m, r, e)
      BY <1>4, <2>1, <3>2
    <3>. QED
      BY <3>1, <3>3 DEF PutRow
  <2>3. call' = Orphan(call)
    BY <1>1, <1>6
  <2>4. fifos' = fifos \/ fifos' = CreateBoth(fifos, EndFifos(e.id))
    BY <1>1
  <2>. HIDE DEF notified, any
  <2>. QED
    BY <1>1, <1>2, <2>2, <2>3, <2>4
<1>. HIDE DEF notified, any
<1>. QED
  BY <1>1, <1>5, <1>6

\* What becomes of the calls: an accepting program is told, or nobody is.
LEMMA HandleSynReceivedCall ==
    ASSUME Typed, NEW m \in Ip, NEW r \in Row, HandleSynReceived(m, r)
    PROVE  /\ mgr[m] = "running" /\ net[m] # <<>> /\ net' = Popped(m)
           /\ UNCHANGED <<fifos, mgr, held, binds>>
           /\ \/ \E a \in App : \E d \in Addr :
                    /\ call[a].op = "accept"
                    /\ call' = [call EXCEPT ![a].msgs = Append(@, d)]
              \/ UNCHANGED call
<1>. DEFINE d == table[m][r].id.dst
<1>1. /\ ForConnection(m, r, {"SYN_RECEIVED"}) /\ net' = Popped(m)
      /\ UNCHANGED <<fifos, mgr, held, binds>>
  BY DEF HandleSynReceived
<1>2. r \in Used(m) /\ ~BoundOnly(table[m][r].id) /\ mgr[m] = "running" /\ net[m] # <<>>
  BY <1>1, ConnectionRow
<1>3. d \in Addr
  <2>1. table[m][r].id \in Id
    BY <1>2, UsedRow
  <2>. QED
    BY <1>2, <2>1, RecordTypes DEF BoundOnly
<1>4. \/ \E a \in App : call[a].op = "accept" /\ call' = [call EXCEPT ![a].msgs = Append(@, d)]
      \/ UNCHANGED call
  BY DEF HandleSynReceived
<1>. HIDE DEF d
<1>. QED
  BY <1>1, <1>2, <1>3, <1>4

----------------------------------------------------------------------------
(* Every variable keeps its type.                                          *)

LEMMA FifoTypes ==
    /\ \A id \in Id : AllFifos(id) \subseteq FifoKind \X Id
    /\ \A id \in Id : EndFifos(id) \subseteq FifoKind \X Id
    /\ \A id \in Id : DataFifos(id) \subseteq FifoKind \X Id
    /\ \A F, P : CreateBoth(F, P) \subseteq F \union P
BY DEF AllFifos, EndFifos, DataFifos, FifoKind, CreateBoth

LEMMA CallTypes ==
    /\ Idle \in Call /\ Calling("stuck", NoAddr) \in Call
    /\ \A id \in Id : \A op \in CallOp : Calling(op, id) \in Call
    /\ Idle.op = "none" /\ Calling("stuck", NoAddr).op = "stuck"
    /\ \A id, op : Calling(op, id).op = op /\ Calling(op, id).id = id
                   /\ Calling(op, id).msgs = <<>>
BY DEF Idle, Calling, Call, CallOp, Message

\* Programs that are left alone, released or stuck call the library properly.
LEMMA ReleasedCalls ==
    ASSUME CallsOK(call), NEW c, c = [a \in App |-> c[a]],
           \A a \in App : c[a] \in {call[a], Idle, Calling("stuck", NoAddr)}
    PROVE  CallsOK(c)
<1>1. \A a \in App : CallOK(a, c[a])
  BY CallTypes DEF CallsOK, CallOK
<1>. QED
  BY <1>1 DEF CallsOK, CallOK

LEMMA OrphanCalls ==
    ASSUME CallsOK(call), call' = Orphan(call)
    PROVE  CallsOK(call')
<1>1. call' = [a \in App |-> call'[a]]
      /\ \A a \in App : call'[a] \in {call[a], Idle, Calling("stuck", NoAddr)}
  BY DEF Orphan
<1>. QED
  BY <1>1, ReleasedCalls

LEMMA WokenCalls ==
    ASSUME CallsOK(call), NEW id, NEW lost, call' = Wake(id, lost)
    PROVE  CallsOK(call')
<1>1. call' = [a \in App |-> call'[a]]
      /\ \A a \in App : call'[a] \in {call[a], Idle, Calling("stuck", NoAddr)}
  BY DEF Wake
<1>. QED
  BY <1>1, ReleasedCalls

\* One program is answered, or goes on to poll for the answer.
LEMMA AnsweredCall ==
    ASSUME CallsOK(call), NEW a \in App, NEW msg \in Message,
           call[a].op = "accept" => msg \in Addr, call[a].op # "close"
    PROVE  CallsOK([call EXCEPT ![a].msgs = Append(@, msg)])
<1>. DEFINE c == [call[a] EXCEPT !.msgs = Append(call[a].msgs, msg)]
<1>1. call[a] \in Call /\ CallOK(a, call[a])
  BY DEF CallsOK
<1>2. /\ Append(call[a].msgs, msg) \in Seq(Message)
      /\ call[a].op = "accept" => Append(call[a].msgs, msg) \in Seq(Addr)
  BY <1>1, AppendProperties DEF Call, CallOK
<1>3. c \in Call /\ c.op = call[a].op /\ c.id = call[a].id
      /\ c.msgs = Append(call[a].msgs, msg)
  BY <1>1, <1>2 DEF Call
<1>4. [call EXCEPT ![a].msgs = Append(@, msg)] = [call EXCEPT ![a] = c]
  OBVIOUS
<1>. HIDE DEF c
<1>5. CallOK(a, c)
  BY <1>1, <1>2, <1>3 DEF CallOK
<1>. QED
  BY <1>4, <1>5 DEF CallsOK, CallOK

LEMMA NewCall ==
    ASSUME CallsOK(call), NEW a \in App, NEW c, CallOK(a, c)
    PROVE  CallsOK([call EXCEPT ![a] = c])
BY DEF CallsOK, CallOK

\* A manager stops.
LEMMA StoppedTypes ==
    ASSUME Typed, NEW m \in Ip, NEW F, F \subseteq FifoKind \X Id, StopManager(m, F)
    PROVE  /\ TableOK(table') /\ NetType(net') /\ fifos' \subseteq FifoKind \X Id
           /\ mgr' \in [Ip -> {"running", "stopped", "hung"}]
           /\ StoppedIsEmpty'
<1>1. /\ mgr' = [mgr EXCEPT ![m] = "stopped"]
      /\ table' = [table EXCEPT ![m] = [r \in Row |-> Free]]
      /\ net' = [net EXCEPT ![m] = <<>>]
      /\ fifos' \subseteq F
  BY DEF StopManager
<1>2. TableOK(table')
  BY <1>1 DEF Typed, TableOK
<1>3. NetType(net')
  <2>1. <<>> \in Seq(Envelope)
    OBVIOUS
  <2>. QED
    BY <1>1, <2>1 DEF Typed, NetType
<1>4. mgr' \in [Ip -> {"running", "stopped", "hung"}] /\ fifos' \subseteq FifoKind \X Id
  BY <1>1 DEF Typed
<1>5. StoppedIsEmpty'
  BY <1>1 DEF Typed, StoppedIsEmpty, Used, TableOK
<1>. QED
  BY <1>2, <1>3, <1>4, <1>5

\* A manager that runs changes its own table only.
LEMMA StoppedStaysEmpty ==
    ASSUME Typed, NEW m \in Ip, mgr[m] = "running", mgr' = mgr,
           \A n \in Ip : n # m => table'[n] = table[n]
    PROVE  StoppedIsEmpty'
BY DEF Typed, StoppedIsEmpty, Used

LEMMA BindTyped ==
    ASSUME Typed, NEW a \in App, SocketBind(a)
    PROVE  Typed'
<1>. DEFINE m == Home[a].ip
            b == BoundId(Home[a])
<1>1. /\ call[a].op = "none" /\ mgr[m] = "running"
      /\ m \in Ip /\ b \in Id /\ b.src.ip = m /\ BoundOnly(b)
      /\ binds' \in [App -> Nat]
      /\ \/ UNCHANGED <<table, net, fifos, mgr, call, held>>
         \/ /\ NewRow(m, b, NewSocket("CLOSED", 0, 0)) /\ ~Present(m, b)
            /\ EndFifos(b) \intersect fifos = {}
            /\ fifos' = fifos \union EndFifos(b)
            /\ held' = [held EXCEPT ![a] = @ \union {b}]
            /\ UNCHANGED <<net, mgr, call>>
         \/ ManagerStops(m, EndFifos(b))
  BY SocketBindEffect
<1>2. EndFifos(b) \subseteq FifoKind \X Id
      /\ CreateBoth(fifos, EndFifos(b)) \subseteq FifoKind \X Id
  BY <1>1, FifoTypes DEF Typed
<1>3. CASE UNCHANGED <<table, net, fifos, mgr, call, held>>
  BY <1>1, <1>3 DEF Typed, StoppedIsEmpty, Used
<1>4. CASE /\ NewRow(m, b, NewSocket("CLOSED", 0, 0))
           /\ fifos' = fifos \union EndFifos(b)
           /\ held' = [held EXCEPT ![a] = @ \union {b}]
           /\ UNCHANGED <<net, mgr, call>>
  <2>. DEFINE x == [id |-> b, sock |-> NewSocket("CLOSED", 0, 0)]
  <2>1. PICK r \in Row : table' = PutRow(table, m, r, x)
    BY <1>4 DEF NewRow
  <2>2. RowOK(m, x)
    <3>1. "CLOSED" \in TCPState /\ 0 \in Int /\ "CLOSED" \notin ConnectedState
      BY DEF TCPState, ConnectedState
    <3>2. NewSocket("CLOSED", 0, 0) \in Socket /\ NewSocket("CLOSED", 0, 0).state = "CLOSED"
      BY <3>1, NewSocketType
    <3>. QED
      BY <1>1, <3>1, <3>2, RecordTypes DEF RowOK
  <2>. HIDE DEF x
  <2>3. TableOK(table') /\ \A n \in Ip : n # m => table'[n] = table[n]
    BY <1>1, <2>1, <2>2, PutRowOK DEF Typed
  <2>. HIDE DEF m
  <2>4. StoppedIsEmpty'
    BY <1>1, <1>4, <2>3, StoppedStaysEmpty
  <2>5. HeldOK(held')
    BY <1>1, <1>4 DEF Typed, HeldOK
  <2>. QED
    BY <1>1, <1>2, <1>4, <2>3, <2>4, <2>5 DEF Typed
<1>5. CASE ManagerStops(m, EndFifos(b))
  <2>1. StopManager(m, CreateBoth(fifos, EndFifos(b))) /\ call' = Orphan(call)
        /\ UNCHANGED held
    BY <1>5 DEF ManagerStops
  <2>. HIDE DEF m, b
  <2>2. CallsOK(call')
    BY <2>1, OrphanCalls DEF Typed
  <2>3. /\ TableOK(table') /\ NetType(net') /\ fifos' \subseteq FifoKind \X Id
        /\ mgr' \in [Ip -> {"running", "stopped", "hung"}] /\ StoppedIsEmpty'
    BY <1>1, <1>2, <2>1, StoppedTypes
  <2>. QED
    BY <1>1, <2>1, <2>2, <2>3 DEF Typed
<1>. QED
  BY <1>1, <1>3, <1>4, <1>5

LEMMA ListenCallTyped ==
    ASSUME Typed, NEW a \in App, NEW id \in held[a], SocketListen(a, id)
    PROVE  Typed'
<1>. DEFINE m == id.src.ip
<1>1. /\ id \in Id /\ BoundOnly(id) /\ m \in Ip /\ mgr[m] = "running"
      /\ UNCHANGED <<net, held, binds>>
      /\ \/ \E r \in Used(m) : \E s \in Socket :
               /\ table[m][r].id = id
               /\ table' = PutRow(table, m, r, WithSock(table[m][r], s))
               /\ s.max_connections = Backlog[a] /\ UNCHANGED call
               /\ table[m][r].sock.state # "LISTEN"
               /\ \/ /\ s.state = "LISTEN" /\ <<"accept", id>> \notin fifos
                     /\ fifos' = fifos \union {<<"accept", id>>} /\ UNCHANGED mgr
                  \/ /\ s.state = "CLOSED" /\ <<"accept", id>> \in fifos
                     /\ UNCHANGED fifos
                     /\ \E outcome \in {"running", "hung"} :
                           mgr' = [mgr EXCEPT ![m] = outcome]
         \/ /\ call' = [call EXCEPT ![a] = Calling("stuck", NoAddr)]
            /\ UNCHANGED <<table, fifos, mgr>>
  BY SocketListenEffect
<1>2. CASE /\ call' = [call EXCEPT ![a] = Calling("stuck", NoAddr)]
           /\ UNCHANGED <<table, fifos, mgr>>
  <2>1. CallOK(a, Calling("stuck", NoAddr))
    BY CallTypes DEF CallOK
  <2>2. CallsOK(call')
    BY <1>2, <2>1, NewCall DEF Typed
  <2>. QED
    BY <1>1, <1>2, <2>2 DEF Typed, StoppedIsEmpty, Used
<1>3. CASE \E r \in Used(m) : \E s \in Socket :
               /\ table[m][r].id = id
               /\ table' = PutRow(table, m, r, WithSock(table[m][r], s))
               /\ s.max_connections = Backlog[a] /\ UNCHANGED call
               /\ \/ /\ s.state = "LISTEN"
                     /\ fifos' = fifos \union {<<"accept", id>>} /\ UNCHANGED mgr
                  \/ /\ s.state = "CLOSED" /\ UNCHANGED fifos
                     /\ \E outcome \in {"running", "hung"} :
                           mgr' = [mgr EXCEPT ![m] = outcome]
  <2>1. PICK r \in Used(m), s \in Socket :
               /\ table[m][r].id = id
               /\ table' = PutRow(table, m, r, WithSock(table[m][r], s))
               /\ s.max_connections = Backlog[a] /\ UNCHANGED call
               /\ s.state \in {"LISTEN", "CLOSED"}
               /\ fifos' = fifos \union {<<"accept", id>>} \/ UNCHANGED fifos
               /\ \/ UNCHANGED mgr
                  \/ \E outcome \in {"running", "hung"} : mgr' = [mgr EXCEPT ![m] = outcome]
    BY <1>3
  <2>. DEFINE x == WithSock(table[m][r], s)
  <2>2. RowOK(m, x)
    <3>1. Backlog[a] >= 0
      BY NetworkAssumption
    <3>2. RowOK(m, table[m][r]) /\ table[m][r].id \in Id
      BY <1>1, UsedRow
    <3>3. x \in Entry /\ x.id = id /\ x.sock = s
      BY <1>1, <2>1, RecordTypes DEF WithSock
    <3>. HIDE DEF x
    <3>. QED
      BY <1>1, <2>1, <3>1, <3>2, <3>3 DEF RowOK, ConnectedState
  <2>. HIDE DEF x
  <2>3. r \in Row
    BY <1>1, UsedRow
  <2>4. TableOK(table') /\ \A n \in Ip : n # m => table'[n] = table[n]
    <3>1. TableOK(table) /\ m \in Ip
      BY <1>1 DEF Typed
    <3>2. table' = PutRow(table, m, r, x)
      BY <2>1 DEF x
    <3>. HIDE DEF m
    <3>. QED
      BY <2>2, <2>3, <3>1, <3>2, PutRowOK
  <2>5. fifos' \subseteq FifoKind \X Id
    <3>1. <<"accept", id>> \in FifoKind \X Id /\ fifos \subseteq FifoKind \X Id
      BY <1>1 DEF Typed, FifoKind
    <3>. QED
      BY <2>1, <3>1
  <2>. HIDE DEF m
  <2>6. mgr' \in [Ip -> {"running", "stopped", "hung"}] /\ mgr'[m] # "stopped"
        /\ \A n \in Ip : n # m => mgr'[n] = mgr[n]
    BY <1>1, <2>1 DEF Typed
  <2>7. StoppedIsEmpty'
    BY <2>4, <2>6 DEF Typed, StoppedIsEmpty, Used
  <2>. QED
    BY <1>1, <2>1, <2>4, <2>5, <2>6, <2>7 DEF Typed
<1>. QED
  BY <1>1, <1>2, <1>3

LEMMA ConnectRequestTyped ==
    ASSUME Typed, NEW a \in App, HandleConnectRequest(a)
    PROVE  Typed'
<1>. DEFINE m == Home[a].ip
            b == BoundId(Home[a])
            c == [src |-> Home[a], dst |-> Target[a]]
<1>1. /\ call[a].op = "connect" /\ call[a].id = b /\ b.src.ip = m /\ m \in Ip
      /\ c \in Id /\ ~BoundOnly(c)
      /\ mgr[m] = "running" /\ call' = [call EXCEPT ![a].op = "connecting"]
      /\ UNCHANGED <<net, fifos, mgr, held, binds>>
      /\ \E r \in Used(m) :
           /\ table[m][r].id = b /\ table[m][r].sock.state = "CLOSED"
           /\ \/ UNCHANGED table
              \/ /\ ~Present(m, c)
                 /\ \E q \in Row : \E s \in Socket :
                       /\ s.state = "SYN_SENT"
                       /\ s.recv_seq = 0
                       /\ s.send_window = table[m][r].sock.send_window
                       /\ q = r \/ table[m][q] = Free
                       /\ table' = PutRow(PutRow(table, m, r, Free), m, q,
                                          [id |-> c, sock |-> s])
  BY HandleConnectRequestEffect
<1>2. c.src.ip = m
  BY <1>1 DEF BoundId
<1>. HIDE DEF m, b, c
<1>3. TableOK(table') /\ \A n \in Ip : n # m => table'[n] = table[n]
  <2>1. CASE UNCHANGED table
    BY <2>1 DEF Typed
  <2>2. CASE \E r \in Used(m) : \E q \in Row : \E s \in Socket :
                       /\ s.state = "SYN_SENT"
                       /\ table' = PutRow(PutRow(table, m, r, Free), m, q,
                                          [id |-> c, sock |-> s])
    <3>1. PICK r \in Used(m), q \in Row, s \in Socket :
                       /\ s.state = "SYN_SENT"
                       /\ table' = PutRow(PutRow(table, m, r, Free), m, q,
                                          [id |-> c, sock |-> s])
      BY <2>2
    <3>2. RowOK(m, [id |-> c, sock |-> s])
      BY <1>1, <1>2, <3>1, RecordTypes DEF RowOK
    <3>3. r \in Row
      BY <1>1, UsedRow
    <3>. DEFINE t == PutRow(table, m, r, Free)
    <3>4. TableOK(t) /\ \A n \in Ip : n # m => t[n] = table[n]
      BY <1>1, <3>3, PutRowOK DEF Typed
    <3>5. table' = PutRow(t, m, q, [id |-> c, sock |-> s])
      BY <3>1
    <3>. HIDE DEF t
    <3>. QED
      BY <1>1, <3>2, <3>4, <3>5, PutRowOK
  <2>. QED
    BY <1>1, <2>1, <2>2
<1>4. StoppedIsEmpty'
  BY <1>1, <1>3, StoppedStaysEmpty
<1>5. CallsOK(call')
  <2>. DEFINE d == [call[a] EXCEPT !.op = "connecting"]
  <2>1. call[a] \in Call /\ CallOK(a, call[a])
    BY DEF Typed, CallsOK
  <2>2. d \in Call /\ d.op = "connecting" /\ d.id = call[a].id
    BY <2>1 DEF Call, CallOp
  <2>3. call' = [call EXCEPT ![a] = d]
    BY <1>1
  <2>. HIDE DEF d
  <2>4. CallOK(a, d)
    BY <1>1, <2>1, <2>2 DEF CallOK
  <2>. QED
    BY <2>3, <2>4, NewCall DEF Typed
<1>. QED
  BY <1>1, <1>3, <1>4, <1>5 DEF Typed

LEMMA CloseCommandTyped ==
    ASSUME Typed, NEW m \in Ip, NEW r \in Row, HandleCloseCommand(m, r)
    PROVE  Typed'
<1>. DEFINE i == IdForFifo(table[m][r])
<1>1. r \in Used(m) /\ mgr[m] = "running"
  BY HandleCloseCommandEffect
<1>2. PICK s \in Socket : s.state = "FIN_WAIT_1" /\ table' = PutRow(table, m, r, [id |-> i, sock |-> s])
  BY HandleCloseCommandEffect
<1>3. i \in Id /\ i.src.ip = m
  BY <1>1, UsedRow DEF IdForFifo, RowOK, BoundId
<1>4. \E lost : call' = Wake(i, lost)
  BY DEF HandleCloseCommand
<1>5. held' = held \/ \E lost : held' = [a \in App |-> IF a \in Closing(i) \ lost
                                                     THEN held[a] \ {i} ELSE held[a]]
  BY DEF HandleCloseCommand
<1>6. fifos' \subseteq fifos /\ UNCHANGED <<net, mgr, binds>>
  BY DEF HandleCloseCommand
<1>. HIDE DEF i
<1>7. RowOK(m, [id |-> i, sock |-> s])
  BY <1>2, <1>3, RecordTypes DEF RowOK, ConnectedState
<1>8. TableOK(table') /\ \A n \in Ip : n # m => table'[n] = table[n]
  BY <1>2, <1>7, PutRowOK DEF Typed
<1>9. StoppedIsEmpty'
  BY <1>1, <1>6, <1>8, StoppedStaysEmpty
<1>10. CallsOK(call')
  BY <1>4, WokenCalls DEF Typed
<1>11. HeldOK(held')
  BY <1>5 DEF Typed, HeldOK
<1>. QED
  BY <1>6, <1>8, <1>9, <1>10, <1>11 DEF Typed

LEMMA ClosedSocketTyped ==
    ASSUME Typed, NEW m \in Ip, NEW r \in Row, HandleClosedSocket(m, r)
    PROVE  Typed'
<1>1. mgr[m] = "running" /\ table' = PutRow(table, m, r, Free)
  BY HandleClosedSocketEffect
<1>2. /\ fifos' \subseteq fifos /\ UNCHANGED <<net, mgr, held, binds>>
      /\ \E lost : call' = Wake(table[m][r].id, lost)
  BY DEF HandleClosedSocket
<1>3. TableOK(table') /\ \A n \in Ip : n # m => table'[n] = table[n]
  BY <1>1, PutRowOK DEF Typed
<1>4. StoppedIsEmpty'
  BY <1>1, <1>2, <1>3, StoppedStaysEmpty
<1>5. CallsOK(call')
  BY <1>2, WokenCalls DEF Typed
<1>. QED
  BY <1>2, <1>3, <1>4, <1>5 DEF Typed

LEMMA PacketListenTyped ==
    ASSUME Typed, NEW m \in Ip, handle_packet_listen(m)
    PROVE  Typed'
<1>. DEFINE c == SynId(m)
<1>1. /\ mgr[m] = "running" /\ net[m] # <<>>
      /\ c \in Id /\ ~BoundOnly(c) /\ c.src.ip = m
      /\ \/ UNCHANGED <<table, fifos>>
         \/ fifos' = fifos \ EndFifos(c) /\ UNCHANGED table
         \/ fifos' = fifos \ AllFifos(c) /\ UNCHANGED table
         \/ fifos' = fifos \union EndFifos(c) /\ Opens(m, c)
  BY ListenEffect
<1>2. net' = Popped(m) /\ call' = Orphan(call) /\ UNCHANGED <<mgr, held, binds>>
  BY DEF handle_packet_listen
<1>. HIDE DEF c
<1>3. fifos' \subseteq FifoKind \X Id
  BY <1>1, FifoTypes DEF Typed
<1>4. TableOK(table') /\ \A n \in Ip : n # m => table'[n] = table[n]
  <2>1. CASE UNCHANGED table
    BY <2>1 DEF Typed
  <2>2. CASE Opens(m, c)
    <3>1. PICK r \in Used(m), q \in Row, s \in Socket, t \in Socket :
                /\ table[m][r].sock.state = "LISTEN"
                /\ s.state = "LISTEN" /\ s.max_connections >= 0
                /\ t.state = "SYN_RECEIVED"
                /\ table' = PutRow(PutRow(table, m, r, WithSock(table[m][r], s)),
                                   m, q, [id |-> c, sock |-> t])
      BY SMTT(30), <2>2 DEF Opens
    <3>. DEFINE x == WithSock(table[m][r], s)
                y == [id |-> c, sock |-> t]
                u == PutRow(table, m, r, x)
    <3>2. r \in Row /\ RowOK(m, table[m][r]) /\ table[m][r].id \in Id
      BY UsedRow
    <3>3. x \in Entry /\ x.id = table[m][r].id /\ x.sock = s
      BY <3>2, RecordTypes DEF WithSock
    <3>4. y \in Entry /\ y.id = c /\ y.sock = t
      BY <1>1, RecordTypes
    <3>. HIDE DEF x, y
    <3>5. RowOK(m, x) /\ RowOK(m, y)
      BY <1>1, <3>1, <3>2, <3>3, <3>4 DEF RowOK, ConnectedState
    <3>6. TableOK(u) /\ \A n \in Ip : n # m => u[n] = table[n]
      BY <3>2, <3>5, PutRowOK DEF Typed
    <3>7. table' = PutRow(u, m, q, y)
      BY <3>1 DEF x, y
    <3>. HIDE DEF u
    <3>. QED
      BY <3>5, <3>6, <3>7, PutRowOK
  <2>. QED
    BY <1>1, <2>1, <2>2
<1>5. StoppedIsEmpty'
  BY <1>1, <1>2, <1>4, StoppedStaysEmpty
<1>6. CallsOK(call') /\ NetType(net')
  BY <1>1, <1>2, OrphanCalls, PoppedNet DEF Typed
<1>. QED
  BY <1>2, <1>3, <1>4, <1>5, <1>6 DEF Typed

LEMMA SynSentTyped ==
    ASSUME Typed, NEW m \in Ip, NEW r \in Row, HandleSynSent(m, r)
    PROVE  Typed'
<1>. DEFINE id == table[m][r].id
<1>1. /\ mgr[m] = "running" /\ net[m] # <<>> /\ net' = Popped(m)
      /\ r \in Used(m) /\ ~BoundOnly(id)
      /\ UNCHANGED <<mgr, held, binds>>
      /\ \/ /\ \E s \in Socket :
                    /\ s.state = "ESTABLISHED"
                    /\ table' = PutRow(table, m, r, WithSock(table[m][r], s))
            /\ fifos' = fifos \union EndFifos(id)
            /\ \E a \in Connectors(BoundId(id.src)) :
                    call' = [call EXCEPT ![a].msgs = Append(@, Granted)]
         \/ /\ UNCHANGED table /\ call' = Orphan(call)
            /\ fifos' = fifos \/ fifos' = CreateBoth(fifos, EndFifos(id))
  BY HandleSynSentEffect
<1>2. RowOK(m, table[m][r]) /\ id \in Id
  BY <1>1, UsedRow
<1>3. NetType(net') /\ fifos' \subseteq FifoKind \X Id
  <2>. HIDE DEF id
  <2>. QED
    BY <1>1, <1>2, FifoTypes, PoppedNet DEF Typed
<1>4. CASE /\ \E s \in Socket :
                    /\ s.state = "ESTABLISHED"
                    /\ table' = PutRow(table, m, r, WithSock(table[m][r], s))
           /\ \E a \in Connectors(BoundId(id.src)) :
                    call' = [call EXCEPT ![a].msgs = Append(@, Granted)]
  <2>1. PICK s \in Socket : s.state = "ESTABLISHED"
                            /\ table' = PutRow(table, m, r, WithSock(table[m][r], s))
    BY <1>4
  <2>. DEFINE x == WithSock(table[m][r], s)
  <2>2. x \in Entry /\ x.id = id /\ x.sock = s
    BY <1>2, RecordTypes DEF WithSock
  <2>. HIDE DEF x
  <2>3. RowOK(m, x)
    BY <1>1, <1>2, <2>1, <2>2 DEF RowOK
  <2>4. TableOK(table') /\ \A n \in Ip : n # m => table'[n] = table[n]
    BY <2>1, <2>3, PutRowOK DEF Typed, x
  <2>5. StoppedIsEmpty'
    BY <1>1, <2>4, StoppedStaysEmpty
  <2>6. CallsOK(call')
    <3>1. PICK a \in App : /\ call[a].op \in {"connect", "connecting"}
                           /\ call' = [call EXCEPT ![a].msgs = Append(@, Granted)]
      BY <1>4 DEF Connectors
    <3>2. Granted \in Message
      BY DEF Message
    <3>. QED
      BY <3>1, <3>2, AnsweredCall DEF Typed
  <2>. QED
    BY <1>1, <1>3, <2>4, <2>5, <2>6 DEF Typed
<1>5. CASE UNCHANGED table /\ call' = Orphan(call)
  <2>1. CallsOK(call')
    BY <1>5, OrphanCalls DEF Typed
  <2>. QED
    BY <1>1, <1>3, <1>5, <2>1 DEF Typed, StoppedIsEmpty, Used
<1>. QED
  BY <1>1, <1>4, <1>5

LEMMA SocketStepTable ==
    ASSUME Typed, NEW m \in Ip, SocketStep(m), mgr[m] = "running", mgr' = mgr
    PROVE  TableOK(table') /\ StoppedIsEmpty'
<1>1. PICK r \in Row, s \in Socket : SocketChanges(m, r, s)
  BY DEF SocketStep
<1>. DEFINE x == WithSock(table[m][r], s)
<1>2. r \in Used(m) /\ table' = PutRow(table, m, r, x) /\ s.state # "LISTEN"
      /\ (s.state \in ConnectedState => ~BoundOnly(table[m][r].id))
  BY <1>1 DEF SocketChanges
<1>3. RowOK(m, table[m][r]) /\ table[m][r].id \in Id
  BY <1>2, UsedRow
<1>4. x \in Entry /\ x.id = table[m][r].id /\ x.sock = s
  BY <1>3, RecordTypes DEF WithSock
<1>. HIDE DEF x
<1>5. RowOK(m, x)
  BY <1>2, <1>3, <1>4 DEF RowOK
<1>6. TableOK(table') /\ \A n \in Ip : n # m => table'[n] = table[n]
  BY <1>2, <1>5, PutRowOK DEF Typed
<1>. QED
  BY <1>6, StoppedStaysEmpty

LEMMA ConnectionStepTyped ==
    ASSUME Typed, NEW m \in Ip,
           \/ HandleReset(m)
           \/ \E r \in Row : HandleSynReceived(m, r) \/ HandleConnected(m, r)
    PROVE  Typed'
<1>1. CASE HandleReset(m)
  <2>1. /\ mgr[m] = "running" /\ net[m] # <<>> /\ net' = Popped(m)
        /\ UNCHANGED <<fifos, mgr, call, held, binds>>
    BY <1>1 DEF HandleReset, HasPacket
  <2>2. TableOK(table') /\ StoppedIsEmpty'
    BY <1>1, <2>1, HandleResetEffect, SocketStepTable
  <2>. QED
    BY <2>1, <2>2, PoppedNet DEF Typed
<1>2. ASSUME NEW r \in Row, HandleSynReceived(m, r)
      PROVE  Typed'
  <2>1. /\ mgr[m] = "running" /\ net[m] # <<>> /\ net' = Popped(m)
        /\ UNCHANGED <<fifos, mgr, held, binds>>
        /\ \/ \E a \in App : \E d \in Addr :
                    /\ call[a].op = "accept"
                    /\ call' = [call EXCEPT ![a].msgs = Append(@, d)]
           \/ UNCHANGED call
    BY <1>2, HandleSynReceivedCall
  <2>2. TableOK(table') /\ StoppedIsEmpty'
    BY <1>2, <2>1, HandleSynReceivedEffect, SocketStepTable
  <2>3. CallsOK(call')
    BY <2>1, AnsweredCall DEF Typed, Message
  <2>. QED
    BY <2>1, <2>2, <2>3, PoppedNet DEF Typed
<1>3. ASSUME NEW r \in Row, HandleConnected(m, r)
      PROVE  Typed'
  <2>1. mgr[m] = "running" /\ UNCHANGED <<fifos, mgr, call, held, binds>>
    BY <1>3 DEF HandleConnected, ForConnection, HasPacket
  <2>2. /\ SocketStep(m) /\ r \in Used(m) /\ net[m] # <<>> /\ First(m) \in Envelope
    BY <1>3, HandleConnectedEffect
  <2>3. PICK reply \in Seq(Segment) : net' = Send(Popped(m), table[m][r].id, First(m).src, reply)
    BY <1>3, HandleConnectedEffect
  <2>4. TableOK(table') /\ StoppedIsEmpty'
    BY <2>1, <2>2, SocketStepTable
  <2>5. NetType(net')
    <3>1. NetType(Popped(m)) /\ table[m][r].id \in Id /\ First(m).src \in Addr \union {NoAddr}
      BY <2>2, PoppedNet, UsedRow DEF Typed, Envelope
    <3>. QED
      BY <2>3, <3>1, SentNet
  <2>. QED
    BY <2>1, <2>4, <2>5 DEF Typed
<1>. QED
  BY <1>1, <1>2, <1>3

\* A segment sent to the partner of the socket in row r.
LEMMA EmitNet ==
    ASSUME Typed, NEW m \in Ip, NEW r \in Used(m), NEW s \in Socket,
           NEW flags \in SUBSET Flag, Emit(m, r, s, flags)
    PROVE  /\ NetType(net')
           /\ NetLocal(net) /\ (table[m][r].id.dst # NoAddr => table[m][r].id.dst.ip = m)
                => NetLocal(net')
<1>1. <<construct_packet(s, <<>>, flags)>> \in Seq(Segment)
  BY SegmentTypes
<1>2. /\ table[m][r].id \in Id /\ table[m][r].id.dst \in Addr \union {NoAddr}
      /\ table[m][r].id.src.ip = m
  BY UsedRow, RecordTypes DEF RowOK
<1>. QED
  BY <1>1, <1>2, SentNet DEF Emit, Typed

LEMMA TimerTyped ==
    ASSUME Typed, NEW m \in Ip, NEW r \in Row,
           GiveUp(m, r) \/ CloseWaitToLastAck(m, r) \/ TimeWaitToClosed(m, r)
    PROVE  Typed'
<1>1. SocketStep(m) /\ r \in Used(m) /\ UNCHANGED <<fifos, mgr, call, held, binds>>
  BY TimerEffect
<1>2. mgr[m] = "running"
  BY DEF GiveUp, CloseWaitToLastAck, TimeWaitToClosed, InState, Used
<1>3. NetType(net')
  <2>1. CASE GiveUp(m, r)
    <3>1. Emit(m, r, table[m][r].sock, {"RST"}) /\ {"RST"} \in SUBSET Flag
      BY <2>1 DEF GiveUp, Flag
    <3>2. table[m][r].sock \in Socket
      BY <1>1, UsedRow
    <3>. QED
      BY <1>1, <3>1, <3>2, EmitNet
  <2>2. CASE CloseWaitToLastAck(m, r) \/ TimeWaitToClosed(m, r)
    BY <2>2 DEF CloseWaitToLastAck, TimeWaitToClosed, Typed
  <2>. QED
    BY <2>1, <2>2
<1>4. TableOK(table') /\ StoppedIsEmpty'
  BY <1>1, <1>2, SocketStepTable
<1>. QED
  BY <1>1, <1>3, <1>4 DEF Typed

\* Only segments are taken or sent.
LEMMA NetStepTyped ==
    ASSUME Typed, NEW m \in Ip,
           IgnorePacket(m) \/ \E r \in Row : ResendStep(m, r)
    PROVE  /\ Typed'
           /\ UNCHANGED <<table, fifos, mgr, call, held, binds>>
           /\ NetLocal(net) /\ (\A r \in Used(m) : table[m][r].id.dst # NoAddr
                                                     => table[m][r].id.dst.ip = m)
                => NetLocal(net')
<1>1. CASE IgnorePacket(m)
  <2>1. net[m] # <<>> /\ net' = Popped(m) /\ UNCHANGED <<table, fifos, mgr, call, held, binds>>
    BY <1>1 DEF IgnorePacket, HasPacket
  <2>. QED
    BY <2>1, PoppedNet DEF Typed, StoppedIsEmpty, Used
<1>2. ASSUME NEW r \in Row, ResendStep(m, r)
      PROVE  /\ Typed' /\ UNCHANGED <<table, fifos, mgr, call, held, binds>>
             /\ NetLocal(net) /\ (\A q \in Used(m) : table[m][q].id.dst # NoAddr
                                                      => table[m][q].id.dst.ip = m)
                => NetLocal(net')
  <2>1. \E state : \E back \in {0, 1} : \E flags \in SUBSET Flag :
            Resend(m, r, state, flags, back)
    BY <1>2 DEF ResendStep, ResendSyn, ResendSynAck, SendWindow, ResendFin, ResendFinAck, Flag
  <2>2. PICK back \in {0, 1}, flags \in SUBSET Flag :
            /\ r \in Used(m)
            /\ Emit(m, r, [table[m][r].sock EXCEPT !.send_seq = @ - back], flags)
            /\ UNCHANGED <<table, fifos, mgr, call, held, binds>>
    BY <2>1 DEF Resend, InState, Used
  <2>. DEFINE s == [table[m][r].sock EXCEPT !.send_seq = @ - back]
  <2>3. s \in Socket
    <3>. DEFINE old == table[m][r].sock
    <3>1. old \in Socket
      BY <2>2, UsedRow
    <3>2. old.send_seq - back \in Int
      <4>. HIDE DEF old
      <4>1. old.send_seq \in Int /\ back \in Int
        BY <3>1 DEF Socket
      <4>. QED
        BY <4>1
    <3>3. s = [old EXCEPT !.send_seq = old.send_seq - back]
      OBVIOUS
    <3>. HIDE DEF old, s
    <3>. QED
      BY <3>1, <3>2, <3>3 DEF Socket
  <2>. HIDE DEF s
  <2>4. Emit(m, r, s, flags)
    BY <2>2 DEF s
  <2>5. /\ NetType(net')
        /\ NetLocal(net) /\ (table[m][r].id.dst # NoAddr => table[m][r].id.dst.ip = m)
                => NetLocal(net')
    BY <2>2, <2>3, <2>4, EmitNet
  <2>. QED
    BY <2>2, <2>5 DEF Typed, StoppedIsEmpty, Used
<1>. QED
  BY <1>1, <1>2

\* A step of a program that touches neither the table nor the segments.
ProgramStep(a) ==
    \/ ConnectReturn(a) \/ ConnectTimeout(a) \/ AcceptReturn(a) \/ AcceptTimeout(a)
    \/ \E id \in held[a] : \/ SocketConnect(a, id) \/ SocketAccept(a, id)
                           \/ SocketClose(a, id) \/ SocketDestroy(a, id)

LEMMA ConnectReturnEffect ==
    ASSUME Typed, NEW a \in App, ConnectReturn(a)
    PROVE  LET b == BoundId(Home[a])
               c == [src |-> Home[a], dst |-> Target[a]] IN
           /\ call[a].op = "connecting" /\ call[a].msgs # <<>> /\ call[a].id = b
           /\ b \in Id /\ c \in Id /\ BoundOnly(b) /\ ~BoundOnly(c)
           /\ call' = [call EXCEPT ![a] = Idle]
           /\ UNCHANGED <<table, net, mgr, binds>>
           /\ \/ /\ fifos' = (fifos \ EndFifos(b)) \union DataFifos(c)
                 /\ held' = [held EXCEPT ![a] = (@ \ {b}) \union {c}]
              \/ /\ fifos' = (fifos \ DataFifos(c)) \union EndFifos(b)
                 /\ UNCHANGED held
<1>1. call[a].op = "connecting"
  BY DEF ConnectReturn
<1>2. call[a].id = BoundId(Home[a]) /\ Target[a] # NoAddr /\ Home[a] \in Addr /\ Target[a] \in Addr
  BY <1>1, NetworkAssumption DEF Typed, CallsOK, CallOK
<1>3. /\ [call[a].id EXCEPT !.dst = Target[a]] = [src |-> Home[a], dst |-> Target[a]]
      /\ BoundId(Home[a]) \in Id /\ [src |-> Home[a], dst |-> Target[a]] \in Id
      /\ BoundOnly(BoundId(Home[a])) /\ ~BoundOnly([src |-> Home[a], dst |-> Target[a]])
  BY <1>2, RecordTypes DEF BoundId, BoundOnly
<1>. QED
  BY <1>2, <1>3 DEF ConnectReturn

LEMMA ProgramStepTyped ==
    ASSUME Typed, NEW a \in App, ProgramStep(a)
    PROVE  Typed'
<1>1. CASE ConnectReturn(a)
  <2>. DEFINE b == BoundId(Home[a])
              c == [src |-> Home[a], dst |-> Target[a]]
  <2>1. /\ b \in Id /\ c \in Id /\ ~BoundOnly(c)
        /\ call' = [call EXCEPT ![a] = Idle]
        /\ UNCHANGED <<table, net, mgr, binds>>
        /\ \/ /\ fifos' = (fifos \ EndFifos(b)) \union DataFifos(c)
              /\ held' = [held EXCEPT ![a] = (@ \ {b}) \union {c}]
           \/ /\ fifos' = (fifos \ DataFifos(c)) \union EndFifos(b)
              /\ UNCHANGED held
    BY <1>1, ConnectReturnEffect
  <2>. HIDE DEF b, c
  <2>2. fifos' \subseteq FifoKind \X Id
    BY <2>1, FifoTypes DEF Typed
  <2>3. HeldOK(held')
    BY <2>1 DEF Typed, HeldOK
  <2>4. CallsOK(call')
    BY <2>1, NewCall, CallTypes DEF Typed, CallOK
  <2>. QED
    BY <2>1, <2>2, <2>3, <2>4 DEF Typed, StoppedIsEmpty, Used
<1>2. CASE AcceptReturn(a)
  <2>. DEFINE c == [src |-> call[a].id.src, dst |-> Head(call[a].msgs)]
  <2>1. /\ call[a].op = "accept" /\ call[a].msgs # <<>>
        /\ call' = [call EXCEPT ![a] = Idle]
        /\ fifos' = CreateBoth(fifos, DataFifos(c))
        /\ held' = IF Creatable(DataFifos(c)) THEN [held EXCEPT ![a] = @ \union {c}] ELSE held
        /\ UNCHANGED <<table, net, mgr, binds>>
    BY <1>2 DEF AcceptReturn
  <2>2. c \in Id /\ ~BoundOnly(c)
    <3>1. call[a].id \in Id /\ call[a].msgs \in Seq(Addr)
      BY <2>1 DEF Typed, CallsOK, CallOK
    <3>2. Head(call[a].msgs) \in Addr
      BY <2>1, <3>1, HeadTailProperties
    <3>. QED
      BY <3>1, <3>2, RecordTypes, NetworkAssumption DEF BoundOnly
  <2>. HIDE DEF c
  <2>3. fifos' \subseteq FifoKind \X Id
    BY <2>1, <2>2, FifoTypes DEF Typed
  <2>4. HeldOK(held')
    BY <2>1, <2>2 DEF Typed, HeldOK
  <2>5. CallsOK(call')
    BY <2>1, NewCall, CallTypes DEF Typed, CallOK
  <2>. QED
    BY <2>1, <2>3, <2>4, <2>5 DEF Typed, StoppedIsEmpty, Used
<1>3. CASE \/ ConnectTimeout(a) \/ AcceptTimeout(a)
           \/ \E id \in held[a] : \/ SocketConnect(a, id) \/ SocketAccept(a, id)
                                  \/ SocketClose(a, id) \/ SocketDestroy(a, id)
  <2>1. /\ UNCHANGED <<table, net, fifos, mgr, binds>>
        /\ held' = held \/ \E id : held' = [held EXCEPT ![a] = @ \ {id}]
        /\ \/ UNCHANGED call
           \/ call' = [call EXCEPT ![a] = Idle]
           \/ call' = [call EXCEPT ![a] = Calling("stuck", NoAddr)]
           \/ \E id \in held[a] : call' = [call EXCEPT ![a] = Calling("close", id)]
           \/ \E id \in held[a] : BoundOnly(id) /\ call' = [call EXCEPT ![a] = Calling("accept", id)]
           \/ \E id \in held[a] : /\ BoundOnly(id) /\ Target[a] # NoAddr
                                  /\ call' = [call EXCEPT ![a] = Calling("connect", id)]
    BY <1>3 DEF ConnectTimeout, AcceptTimeout, SocketConnect, SocketAccept, SocketClose,
                SocketDestroy
  <2>2. HeldOK(held')
    BY <2>1 DEF Typed, HeldOK
  <2>3. \A id \in held[a] : id \in Id /\ (BoundOnly(id) => id = BoundId(Home[a]))
    BY DEF Typed, HeldOK
  <2>4. /\ CallOK(a, Idle) /\ CallOK(a, Calling("stuck", NoAddr))
        /\ \A id \in held[a] : CallOK(a, Calling("close", id))
        /\ \A id \in held[a] : BoundOnly(id) => CallOK(a, Calling("accept", id))
        /\ \A id \in held[a] : BoundOnly(id) /\ Target[a] # NoAddr
                                => CallOK(a, Calling("connect", id))
    <3>1. {"close", "accept", "connect"} \subseteq CallOp /\ <<>> \in Seq(Addr)
      BY DEF CallOp
    <3>2. CallOK(a, Idle) /\ CallOK(a, Calling("stuck", NoAddr))
      BY CallTypes DEF CallOK
    <3>3. \A id \in held[a], op \in {"close", "accept", "connect"} :
            LET c == Calling(op, id) IN
            c \in Call /\ c.op = op /\ c.id = id /\ c.msgs = <<>> /\ c.msgs \in Seq(Addr)
      <4>. TAKE id \in held[a], op \in {"close", "accept", "connect"}
      <4>1. id \in Id /\ op \in CallOp
        BY <2>3, <3>1
      <4>2. Calling(op, id) \in Call
        BY <4>1, CallTypes
      <4>3. Calling(op, id).op = op /\ Calling(op, id).id = id /\ Calling(op, id).msgs = <<>>
        BY DEF Calling
      <4>. QED
        BY <3>1, <4>2, <4>3
    <3>4. \A id \in held[a], op \in {"close", "accept", "connect"} :
            /\ op = "close" => CallOK(a, Calling(op, id))
            /\ op = "accept" /\ BoundOnly(id) => CallOK(a, Calling(op, id))
            /\ op = "connect" /\ BoundOnly(id) /\ Target[a] # NoAddr
                    => CallOK(a, Calling(op, id))
      BY <2>3, <3>3 DEF CallOK
    <3>. QED
      BY <3>2, <3>4
  <2>5. CallsOK(call')
    BY <2>1, <2>4, NewCall DEF Typed
  <2>. QED
    BY <2>1, <2>2, <2>5 DEF Typed, StoppedIsEmpty, Used
<1>. QED
  BY <1>1, <1>2, <1>3 DEF ProgramStep

LEMMA ManagerLifeTyped ==
    ASSUME Typed, NEW m \in Ip,
           \/ TerminateManager(m) \/ StartManager(m) \/ StartAfterCrash(m)
    PROVE  Typed'
<1>1. CASE TerminateManager(m)
  <2>1. StopManager(m, fifos) /\ UNCHANGED <<held, binds>>
    BY <1>1 DEF TerminateManager
  <2>2. call' = [a \in App |-> call'[a]]
        /\ \A a \in App : call'[a] \in {call[a], Idle, Calling("stuck", NoAddr)}
    <3>. DEFINE Closers == UNION {Closing(id) : id \in TerminatedIds(m)}
    <3>1. PICK lost \in SUBSET Closers :
            call' = [a \in App |->
                IF a \in lost THEN Calling("stuck", NoAddr)
                ELSE IF a \in Closers \/ (call[a].op = "accept" /\ call[a].msgs = <<>>)
                THEN Idle ELSE call[a]]
      BY <1>1 DEF TerminateManager
    <3>. HIDE DEF Closers
    <3>. QED
      BY <3>1
  <2>3. CallsOK(call')
    BY <2>2, ReleasedCalls DEF Typed
  <2>4. /\ TableOK(table') /\ NetType(net') /\ fifos' \subseteq FifoKind \X Id
        /\ mgr' \in [Ip -> {"running", "stopped", "hung"}] /\ StoppedIsEmpty'
    BY <2>1, StoppedTypes DEF Typed
  <2>. QED
    BY <2>1, <2>3, <2>4 DEF Typed
<1>2. CASE StartManager(m)
  BY <1>2 DEF StartManager, Typed, StoppedIsEmpty, Used
<1>3. CASE StartAfterCrash(m)
  <2>1. <<>> \in Seq(Envelope)
    OBVIOUS
  <2>. QED
    BY <1>3, <2>1 DEF StartAfterCrash, Typed, TableOK, NetType, StoppedIsEmpty, Used
<1>. QED
  BY <1>1, <1>2, <1>3

LEMMA InitTyped == Init => Typed
<1>. SUFFICES ASSUME Init PROVE Typed
  OBVIOUS
<1>1. TableOK(table)
  BY DEF Init, TableOK
<1>2. NetType(net)
  <2>1. <<>> \in Seq(Envelope)
    OBVIOUS
  <2>. QED
    BY <2>1 DEF Init, NetType
<1>3. CallsOK(call)
  BY CallTypes DEF Init, CallsOK, CallOK
<1>4. HeldOK(held) /\ binds \in [App -> Nat] /\ fifos \subseteq FifoKind \X Id
      /\ mgr \in [Ip -> {"running", "stopped", "hung"}]
  BY DEF Init, HeldOK
<1>5. StoppedIsEmpty
  BY DEF Init, StoppedIsEmpty
<1>. QED
  BY <1>1, <1>2, <1>3, <1>4, <1>5 DEF Typed

\* The steps by the part of the system that takes them.
LEMMA StepCases ==
    ASSUME Next
    PROVE  \/ \E a \in App : \/ SocketBind(a) \/ HandleConnectRequest(a)
                             \/ HandleDroppedRequest(a) \/ ProgramStep(a)
                             \/ \E id \in held[a] : SocketListen(a, id)
           \/ \E m \in Ip :
                \/ IgnorePacket(m) \/ (\E r \in Row : ResendStep(m, r))
                \/ HandleReset(m)
                \/ (\E r \in Row : HandleSynReceived(m, r) \/ HandleConnected(m, r))
                \/ handle_packet_listen(m)
                \/ (\E r \in Row : \/ HandleSynSent(m, r) \/ HandleCloseCommand(m, r)
                                   \/ HandleClosedSocket(m, r) \/ GiveUp(m, r)
                                   \/ CloseWaitToLastAck(m, r) \/ TimeWaitToClosed(m, r))
                \/ TerminateManager(m) \/ StartManager(m) \/ StartAfterCrash(m)
BY DEF Next, AppStep, ProgramStep, ManagerStep, PacketStep, StateStep

LEMMA NextTyped ==
    ASSUME Typed, [Next]_vars
    PROVE  Typed'
<1>1. CASE UNCHANGED vars
  BY <1>1 DEF vars, Typed, StoppedIsEmpty, Used
<1>2. ASSUME NEW a \in App,
             \/ SocketBind(a) \/ HandleConnectRequest(a)
             \/ HandleDroppedRequest(a) \/ ProgramStep(a)
             \/ \E id \in held[a] : SocketListen(a, id)
      PROVE  Typed'
  <2>1. CASE HandleDroppedRequest(a)
    <3>1. \E m \in Ip : mgr' = [mgr EXCEPT ![m] = "hung"]
      <4>1. call[a].id = BoundId(Home[a]) /\ Home[a] \in Addr
        BY <2>1, NetworkAssumption DEF HandleDroppedRequest, Typed, CallsOK, CallOK
      <4>2. call[a].id.src.ip \in Ip
        BY <4>1, RecordTypes
      <4>. QED
        BY <2>1, <4>2 DEF HandleDroppedRequest
    <3>. QED
      BY <2>1, <3>1 DEF HandleDroppedRequest, Typed, StoppedIsEmpty, Used
  <2>. QED
    BY <1>2, <2>1, BindTyped, ConnectRequestTyped, ProgramStepTyped, ListenCallTyped
<1>3. ASSUME NEW m \in Ip,
             \/ IgnorePacket(m) \/ (\E r \in Row : ResendStep(m, r))
             \/ HandleReset(m)
             \/ (\E r \in Row : HandleSynReceived(m, r) \/ HandleConnected(m, r))
             \/ handle_packet_listen(m)
             \/ (\E r \in Row : \/ HandleSynSent(m, r) \/ HandleCloseCommand(m, r)
                                \/ HandleClosedSocket(m, r) \/ GiveUp(m, r)
                                \/ CloseWaitToLastAck(m, r) \/ TimeWaitToClosed(m, r))
             \/ TerminateManager(m) \/ StartManager(m) \/ StartAfterCrash(m)
      PROVE  Typed'
  BY <1>3, NetStepTyped, ConnectionStepTyped, PacketListenTyped, SynSentTyped,
     CloseCommandTyped, ClosedSocketTyped, TimerTyped, ManagerLifeTyped
<1>. QED
  BY <1>1, <1>2, <1>3, StepCases

\* Every variable keeps its type, a manager holds sockets of its own address
\* only, and a listener never accepts more often than SocketListen allowed:
\* the test for max_connections = 0 comes before the decrement in
\* handle_packet_listen.
THEOREM TypeCorrect == Spec => []TypeOK
<1>1. Spec => []Typed
  BY InitTyped, NextTyped, PTL DEF Spec
<1>2. Typed => TypeOK
  BY TypedMeaning
<1>. QED
  BY <1>1, <1>2, PTL

\* A listener has no partner and a connected socket has one, through every
\* handshake, close and timeout (handle_packet and the branches of
\* check_and_handle_outgoing_status_messages).
THEOREM StatesMatchIds == Spec => []StateMatchesId
<1>1. Spec => []Typed
  BY InitTyped, NextTyped, PTL DEF Spec
<1>2. Typed => StateMatchesId
  BY TypedMeaning
<1>. QED
  BY <1>1, <1>2, PTL
=============================================================================
