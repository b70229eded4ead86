---------------------------- MODULE TeardownProofs ----------------------------
(***************************************************************************)
(* Proofs about Teardown, for all messages, sequence numbers, buffer,      *)
(* window, queue and pipe sizes and any number of segments in flight.      *)
(***************************************************************************)
EXTENDS Teardown, DataTransferProofs

----------------------------------------------------------------------------
(* The invariant behind FinAckIsTrue.                                      *)

\* The segments of a connection that is open or on its way out: only a plain
\* ACK carries data.
KnownSegment(p) ==
    /\ p.flags \in {{"ACK"}, {"FIN"}, {"FIN", "ACK"}, {"RST"}}
    /\ p.data # <<>> => p.flags = {"ACK"}

SegmentsAreKnown == \A e \in End : \A i \in 1 .. Len(inPackets[e]) :
    KnownSegment(inPackets[e][i])

\* The first number that a socket has not used yet.  The handlers and commands
\* that leave ESTABLISHED count what is in the send window as used; a socket
\* that was reset has still to do so if a close command comes.
TopOf(s) ==
    s.send_seq + (IF s.state \in {"ESTABLISHED", "CLOSED"} THEN Len(s.send_window) ELSE 0)

ReceiverBelow(s, top) ==
    /\ s.recv_seq <= top
    /\ \A k \in Slot : s.recv_window[k] # NoByte => s.recv_seq + k < top

\* As long as an end has not taken a FIN, what it received was sent.
ReceivedWasSent == \A e \in End :
    inTable[e] /\ inTable[Peer(e)] /\ e \notin finTaken =>
        ReceiverBelow(sock[e], TopOf(sock[Peer(e)]))

\* The data of a segment was sent.
SegmentsWereSent == \A e \in End : inTable[Peer(e)] =>
    \A i \in 1 .. Len(inPackets[e]) :
        inPackets[e][i].seq + Len(inPackets[e][i].data) <= TopOf(sock[Peer(e)])

\* No segment acknowledges a FIN that was not taken.
AcksAreOfData == \A e \in End : inTable[e] /\ Peer(e) \notin finTaken =>
    \A i \in 1 .. Len(inPackets[e]) : inPackets[e][i].ack <= TopOf(sock[e])

Wellformed == TeardownTypeOK /\ SegmentsAreKnown

FinInv ==
    /\ Wellformed
    /\ ReceivedWasSent
    /\ SegmentsWereSent
    /\ AcksAreOfData
    /\ FinAckIsTrue

----------------------------------------------------------------------------
(* What a step of the connection does to the two sockets and the segments. *)

\* A segment that e has just sent.
SentBy(e, p) ==
    /\ p \in Segment /\ KnownSegment(p) /\ Len(p.data) <= MAX_DATA_PER_PACKET
    /\ inTable'[e]
    /\ p.seq + Len(p.data) <= TopOf(sock'[e])
    /\ p.ack = sock'[e].recv_seq
    /\ p.data # <<>> =>
        /\ e \in Sockets({"ESTABLISHED"})
        /\ p = construct_packet(sock[e], get_next_socket_packet_data(sock[e]), {"ACK"})

OldOrSent(e, p) ==
    \/ \E j \in 1 .. Len(inPackets[e]) : p = inPackets[e][j]
    \/ SentBy(Peer(e), p)

\* No socket comes back, and the numbers it has used stay used.
Kept(e) == inTable'[e] => inTable[e] /\ TopOf(sock[e]) <= TopOf(sock'[e])

\* An end that has taken no FIN stays below what bounded it and the segments
\* it could take.
Heard(e) == inTable'[e] /\ e \notin finTaken' =>
    \A top \in Int :
        /\ ReceiverBelow(sock[e], top)
        /\ \A i \in 1 .. Len(inPackets[e]) :
                inPackets[e][i].seq + Len(inPackets[e][i].data) <= top
        => ReceiverBelow(sock'[e], top)

\* The two sockets, the queues and all other variables keep their types.
SocketsTyped ==
    /\ sock' \in [End -> Socket]
    /\ \A e \in End : Len(sock'[e].send_window) <= DEFAULT_QUEUE_CAPACITY

SegmentsTyped ==
    /\ inPackets' \in [End -> Seq(Segment)]
    /\ \A e \in End : \A i \in 1 .. Len(inPackets'[e]) : OldOrSent(e, inPackets'[e][i])

RestTyped ==
    /\ written' \in [End -> Nat]
    /\ \A e \in End : written'[e] <= Len(Message[e])
    /\ sendFifo' \in [End -> Seq(Byte)]
    /\ recvFifo' \in [End -> Seq(Byte)]
    /\ recvCall' \in [End -> RecvCall]
    /\ delivered' \in [End -> Seq(Byte)]
    /\ received' \in [End -> Seq(Byte)]
    /\ inTable' \in [End -> BOOLEAN]
    /\ up' \in BOOLEAN
    /\ closeCall' \in [End -> CloseCall]
    /\ told' \subseteq End /\ finTaken' \subseteq End /\ finAcked' \subseteq End

Step ==
    /\ SocketsTyped /\ SegmentsTyped /\ RestTyped
    /\ \A e \in End : Kept(e) /\ Heard(e)
    /\ finTaken \subseteq finTaken'
    /\ FinAckIsTrue'

----------------------------------------------------------------------------
(* Such a step keeps the invariant.                                        *)

LEMMA TopIsInt ==
    ASSUME NEW s \in Socket
    PROVE  TopOf(s) \in Int
<1>1. s.send_seq \in Int /\ Len(s.send_window) \in Int
  BY SocketTypes
<1>. QED
  BY <1>1 DEF TopOf

\* A bound may grow.
LEMMA BelowHigherTop ==
    ASSUME NEW s \in Socket, NEW m \in Int, NEW n \in Int, m <= n, ReceiverBelow(s, m)
    PROVE  ReceiverBelow(s, n)
<1>1. s.recv_seq \in Int /\ \A k \in Slot : s.recv_seq + k \in Int
  BY SocketTypes, SizeAssumption DEF Slot
<1>. QED
  BY <1>1 DEF ReceiverBelow

\* The segments in flight, by number.
LEMMA SegmentTypes ==
    ASSUME TypeOK, NEW e \in End, NEW i \in 1 .. Len(inPackets[e])
    PROVE  /\ inPackets[e][i] \in Segment
           /\ inPackets[e][i].seq \in Int /\ inPackets[e][i].ack \in Int
           /\ inPackets[e][i].data \in Seq(Byte)
           /\ inPackets[e][i].seq + Len(inPackets[e][i].data) \in Int
<1>1. inPackets[e] \in Seq(Segment)
  BY DEF TypeOK
<1>2. inPackets[e][i] \in Segment
  BY <1>1
<1>. QED
  BY <1>2 DEF Segment

\* All types of the next state.
LEMMA StepTypes ==
    ASSUME TeardownTypeOK, SocketsTyped, SegmentsTyped, RestTyped
    PROVE  TeardownTypeOK'
<1>1. ASSUME NEW e \in End, NEW i \in 1 .. Len(inPackets'[e])
      PROVE  Len(inPackets'[e][i].data) <= MAX_DATA_PER_PACKET
  <2>1. OldOrSent(e, inPackets'[e][i])
    BY DEF SegmentsTyped
  <2>2. \A j \in 1 .. Len(inPackets[e]) : Len(inPackets[e][j].data) <= MAX_DATA_PER_PACKET
    BY DEF TeardownTypeOK, TypeOK
  <2>. QED
    BY <2>1, <2>2 DEF OldOrSent, SentBy
<1>2. TypeOK'
  BY <1>1 DEF SocketsTyped, SegmentsTyped, RestTyped, TypeOK
<1>. QED
  BY <1>2 DEF RestTyped, TeardownTypeOK

LEMMA StepKeepsFinInv ==
    ASSUME FinInv, Step
    PROVE  FinInv'
<1>0. /\ TypeOK /\ SegmentsAreKnown /\ ReceivedWasSent /\ SegmentsWereSent /\ AcksAreOfData
      /\ finTaken \subseteq finTaken'
      /\ \A e \in End : sock[e] \in Socket /\ sock'[e] \in Socket
      /\ \A e \in End : \A i \in 1 .. Len(inPackets'[e]) : OldOrSent(e, inPackets'[e][i])
  BY DEF FinInv, Wellformed, TeardownTypeOK, TypeOK, Step, SocketsTyped, SegmentsTyped
<1>t. TeardownTypeOK' /\ FinAckIsTrue'
  BY StepTypes DEF FinInv, Wellformed, Step
<1>1. \A e \in End : /\ TopOf(sock[e]) \in Int /\ TopOf(sock'[e]) \in Int
                     /\ inTable'[e] => inTable[e] /\ TopOf(sock[e]) <= TopOf(sock'[e])
  BY <1>0, TopIsInt DEF Step, Kept
<1>2. SegmentsAreKnown'
  <2>. SUFFICES ASSUME NEW e \in End, NEW i \in 1 .. Len(inPackets'[e])
                PROVE  KnownSegment(inPackets'[e][i])
    BY DEF SegmentsAreKnown, KnownSegment
  <2>1. OldOrSent(e, inPackets'[e][i])
    BY <1>0
  <2>. QED
    BY <1>0, <2>1 DEF OldOrSent, SentBy, SegmentsAreKnown
<1>3. SegmentsWereSent'
  <2>. SUFFICES ASSUME NEW e \in End, inTable'[Peer(e)], NEW i \in 1 .. Len(inPackets'[e])
                PROVE  inPackets'[e][i].seq + Len(inPackets'[e][i].data)
                            <= TopOf(sock'[Peer(e)])
    BY DEF SegmentsWereSent, TopOf
  <2>. DEFINE p == inPackets'[e][i]
              d == Peer(e)
  <2>1. OldOrSent(e, p)
    BY <1>0
  <2>2. d \in End
    BY PeerProperties
  <2>3. ASSUME NEW j \in 1 .. Len(inPackets[e]), p = inPackets[e][j]
        PROVE  p.seq + Len(p.data) <= TopOf(sock'[d])
    <3>1. inPackets[e][j].seq + Len(inPackets[e][j].data) \in Int
      BY <1>0, SegmentTypes
    <3>2. inTable[d] /\ TopOf(sock[d]) <= TopOf(sock'[d])
      BY <1>1, <2>2
    <3>3. inPackets[e][j].seq + Len(inPackets[e][j].data) <= TopOf(sock[d])
      BY <1>0, <3>2 DEF SegmentsWereSent
    <3>4. TopOf(sock[d]) \in Int /\ TopOf(sock'[d]) \in Int
      BY <1>1, <2>2
    <3>. HIDE DEF p, d
    <3>5. p.seq + Len(p.data) = inPackets[e][j].seq + Len(inPackets[e][j].data)
      BY <2>3
    <3>. QED
      BY <3>1, <3>2, <3>3, <3>4, <3>5
  <2>4. CASE SentBy(d, p)
    BY <2>4 DEF SentBy
  <2>. QED
    BY <2>1, <2>3, <2>4 DEF OldOrSent
<1>4. ReceivedWasSent'
  <2>. SUFFICES ASSUME NEW e \in End, inTable'[e], inTable'[Peer(e)], e \notin finTaken'
                PROVE  ReceiverBelow(sock'[e], TopOf(sock'[Peer(e)]))
    BY DEF ReceivedWasSent, ReceiverBelow, TopOf
  <2>. DEFINE d == Peer(e)
              top == TopOf(sock'[d])
  <2>1. /\ d \in End /\ inTable[e] /\ inTable[d] /\ e \notin finTaken
        /\ TopOf(sock[d]) <= top /\ TopOf(sock[d]) \in Int /\ top \in Int
    BY <1>0, <1>1, PeerProperties
  <2>2. ReceiverBelow(sock[e], TopOf(sock[d]))
    BY <1>0, <2>1 DEF ReceivedWasSent
  <2>. HIDE DEF top, d
  <2>3. ReceiverBelow(sock[e], top)
    BY <1>0, <2>1, <2>2, BelowHigherTop
  <2>4. ASSUME NEW i \in 1 .. Len(inPackets[e])
        PROVE  inPackets[e][i].seq + Len(inPackets[e][i].data) <= top
    <3>1. inPackets[e][i].seq + Len(inPackets[e][i].data) \in Int
      BY <1>0, SegmentTypes
    <3>2. inPackets[e][i].seq + Len(inPackets[e][i].data) <= TopOf(sock[d])
      BY <1>0, <2>1 DEF SegmentsWereSent, d
    <3>. QED
      BY <2>1, <3>1, <3>2
  <2>5. Heard(e)
    BY DEF Step
  <2>6. ReceiverBelow(sock'[e], top)
    BY <2>1, <2>3, <2>4, <2>5 DEF Heard
  <2>. QED
    BY <2>6 DEF top, d
<1>5. AcksAreOfData'
  <2>. SUFFICES ASSUME NEW e \in End, inTable'[e], Peer(e) \notin finTaken',
                       NEW i \in 1 .. Len(inPackets'[e])
                PROVE  inPackets'[e][i].ack <= TopOf(sock'[e])
    BY DEF AcksAreOfData, TopOf
  <2>. DEFINE p == inPackets'[e][i]
              d == Peer(e)
  <2>1. OldOrSent(e, p)
    BY <1>0
  <2>2. /\ inTable[e] /\ d \in End /\ d \notin finTaken /\ Peer(d) = e
        /\ TopOf(sock[e]) <= TopOf(sock'[e]) /\ TopOf(sock[e]) \in Int /\ TopOf(sock'[e]) \in Int
    BY <1>0, <1>1, PeerProperties
  <2>3. ASSUME NEW j \in 1 .. Len(inPackets[e]), p = inPackets[e][j]
        PROVE  p.ack <= TopOf(sock'[e])
    <3>1. inPackets[e][j].ack \in Int
      BY <1>0, SegmentTypes
    <3>2. inPackets[e][j].ack <= TopOf(sock[e])
      BY <1>0, <2>2 DEF AcksAreOfData
    <3>3. inPackets[e][j].ack <= TopOf(sock'[e])
      BY <2>2, <3>1, <3>2
    <3>. QED
      BY <2>3, <3>3, Zenon
  <2>4. CASE SentBy(d, p)
    <3>1. inTable'[d] /\ p.ack = sock'[d].recv_seq
      BY <2>4 DEF SentBy
    <3>2. ReceiverBelow(sock'[d], TopOf(sock'[e]))
      BY <1>4, <2>2, <3>1 DEF ReceivedWasSent, ReceiverBelow, TopOf
    <3>. QED
      BY <3>1, <3>2 DEF ReceiverBelow
  <2>. QED
    BY <2>1, <2>3, <2>4 DEF OldOrSent
<1>. QED
  BY <1>t, <1>2, <1>3, <1>4, <1>5 DEF FinInv, Wellformed

----------------------------------------------------------------------------
(* The parts of a step.                                                    *)

\* No segment is sent or taken.
LEMMA SameSegments ==
    ASSUME TypeOK, inPackets' = inPackets
    PROVE  SegmentsTyped
BY DEF TypeOK, SegmentsTyped, OldOrSent

\* One segment is sent.
LEMMA OneSent ==
    ASSUME TypeOK, NEW e \in End, NEW p, SentBy(e, p),
           inPackets' = [inPackets EXCEPT ![Peer(e)] = Append(@, p)]
    PROVE  SegmentsTyped
<1>. DEFINE d == Peer(e)
<1>1. d \in End /\ Peer(d) = e /\ p \in Segment
  BY PeerProperties DEF SentBy
<1>2. /\ inPackets[d] \in Seq(Segment)
      /\ inPackets'[d] = Append(inPackets[d], p)
      /\ \A c \in End : c # d => inPackets'[c] = inPackets[c]
  BY <1>1 DEF TypeOK
<1>. HIDE DEF d
<1>3. /\ inPackets'[d] \in Seq(Segment)
      /\ \A i \in 1 .. Len(inPackets'[d]) :
            \/ i \in 1 .. Len(inPackets[d]) /\ inPackets'[d][i] = inPackets[d][i]
            \/ inPackets'[d][i] = p
  BY <1>1, <1>2, AppendElements
<1>4. inPackets' \in [End -> Seq(Segment)]
  BY <1>1, <1>2, <1>3 DEF TypeOK, d
<1>5. ASSUME NEW c \in End, NEW i \in 1 .. Len(inPackets'[c])
      PROVE  OldOrSent(c, inPackets'[c][i])
  <2>1. CASE c # d
    BY <1>2, <2>1 DEF OldOrSent
  <2>2. CASE c = d /\ i \in 1 .. Len(inPackets[d]) /\ inPackets'[d][i] = inPackets[d][i]
    BY <2>2 DEF OldOrSent
  <2>3. CASE c = d /\ inPackets'[d][i] = p
    BY <1>1, <2>3 DEF OldOrSent
  <2>. QED
    BY <1>3, <2>1, <2>2, <2>3
<1>. QED
  BY <1>4, <1>5 DEF SegmentsTyped

\* The segment at the head of the queue is taken.
LEMMA OneTaken ==
    ASSUME TypeOK, NEW e \in End, inPackets[e] # <<>>
    PROVE  /\ Next_(e) \in Segment /\ Next_(e) = inPackets[e][1]
           /\ 1 \in 1 .. Len(inPackets[e])
           /\ Tail(inPackets[e]) \in Seq(Segment)
           /\ \A i \in 1 .. Len(Tail(inPackets[e])) :
                i + 1 \in 1 .. Len(inPackets[e]) /\ Tail(inPackets[e])[i] = inPackets[e][i + 1]
<1>1. inPackets[e] \in Seq(Segment) /\ Len(inPackets[e]) \in Nat
  BY DEF TypeOK
<1>2. /\ Head(inPackets[e]) \in Segment /\ Head(inPackets[e]) = inPackets[e][1]
      /\ Tail(inPackets[e]) \in Seq(Segment)
      /\ Len(inPackets[e]) >= 1
      /\ Len(Tail(inPackets[e])) = Len(inPackets[e]) - 1
      /\ \A i \in 1 .. Len(Tail(inPackets[e])) : Tail(inPackets[e])[i] = inPackets[e][i + 1]
  BY <1>1, HeadTailProperties
<1>. QED
  BY <1>1, <1>2 DEF Next_

LEMMA TakenOnly ==
    ASSUME TypeOK, NEW e \in End, inPackets[e] # <<>>,
           inPackets' = [inPackets EXCEPT ![e] = Tail(@)]
    PROVE  SegmentsTyped
<1>1. /\ inPackets'[e] = Tail(inPackets[e])
      /\ \A c \in End : c # e => inPackets'[c] = inPackets[c]
      /\ inPackets' \in [End -> Seq(Segment)]
  BY OneTaken DEF TypeOK
<1>2. ASSUME NEW c \in End, NEW i \in 1 .. Len(inPackets'[c])
      PROVE  \E j \in 1 .. Len(inPackets[c]) : inPackets'[c][i] = inPackets[c][j]
  <2>1. CASE c = e
    BY <1>1, <2>1, OneTaken
  <2>2. CASE c # e
    BY <1>1, <2>2
  <2>. QED
    BY <2>1, <2>2
<1>. QED
  BY <1>1, <1>2 DEF SegmentsTyped, OldOrSent

\* A segment is taken and answered, or not.
LEMMA TakenAndAnswered ==
    ASSUME TypeOK, NEW e \in End, inPackets[e] # <<>>, NEW reply, NEW p,
           reply = <<>> \/ (reply = <<p>> /\ SentBy(e, p)),
           inPackets' = [inPackets EXCEPT ![e] = Tail(@), ![Peer(e)] = @ \o reply]
    PROVE  SegmentsTyped
<1>. DEFINE d == Peer(e)
<1>1. d \in End /\ d # e /\ Peer(d) = e /\ \A c \in End : c = e \/ c = d
  BY PeerProperties
<1>2. /\ inPackets'[e] = Tail(inPackets[e])
      /\ inPackets'[d] = inPackets[d] \o reply
      /\ inPackets[d] \in Seq(Segment)
      /\ DOMAIN inPackets' = End
  BY <1>1 DEF TypeOK
<1>. HIDE DEF d
<1>3. /\ inPackets'[d] \in Seq(Segment)
      /\ \A i \in 1 .. Len(inPackets'[d]) :
            \/ i \in 1 .. Len(inPackets[d]) /\ inPackets'[d][i] = inPackets[d][i]
            \/ inPackets'[d][i] = p /\ SentBy(e, p)
  <2>1. CASE reply = <<>>
    <3>1. inPackets[d] \o <<>> = inPackets[d]
      BY <1>2
    <3>. QED
      BY <1>2, <2>1, <3>1
  <2>2. CASE reply = <<p>> /\ SentBy(e, p)
    <3>1. p \in Segment
      BY <2>2 DEF SentBy
    <3>. DEFINE q == inPackets[d]
    <3>2. q \in Seq(Segment) /\ <<p>> \in Seq(Segment) /\ inPackets'[d] = q \o <<p>>
      <4>1. <<p>> \in Seq(Segment)
        BY <3>1
      <4>2. inPackets'[d] = q \o <<p>>
        BY <1>2, <2>2, Zenon
      <4>. QED
        BY <1>2, <4>1, <4>2, Zenon
    <3>. HIDE DEF q
    <3>3. /\ Len(<<p>>) = 1 /\ <<p>>[1] = p /\ Len(q) \in Nat
          /\ q \o <<p>> \in Seq(Segment) /\ Len(q \o <<p>>) = Len(q) + Len(<<p>>)
          /\ \A i \in 1 .. Len(q) + Len(<<p>>) :
                (q \o <<p>>)[i] = IF i <= Len(q) THEN q[i] ELSE <<p>>[i - Len(q)]
      BY <3>2, ConcatProperties
    <3>4. \A i \in 1 .. Len(q \o <<p>>) :
                \/ i \in 1 .. Len(q) /\ (q \o <<p>>)[i] = q[i]
                \/ (q \o <<p>>)[i] = p
      BY <3>3
    <3>. QED
      BY <2>2, <3>2, <3>3, <3>4 DEF q
  <2>. QED
    BY <2>1, <2>2
<1>4. /\ inPackets'[e] \in Seq(Segment)
      /\ \A i \in 1 .. Len(inPackets'[e]) :
            i + 1 \in 1 .. Len(inPackets[e]) /\ inPackets'[e][i] = inPackets[e][i + 1]
  BY ZenonT(60), <1>2, OneTaken
<1>5. inPackets' \in [End -> Seq(Segment)]
  <2>1. \A c \in End : inPackets'[c] \in Seq(Segment)
    BY <1>1, <1>3, <1>4
  <2>2. inPackets' = [c \in End |-> inPackets'[c]]
    BY DEF TypeOK
  <2>. QED
    BY <2>1, <2>2
<1>6. ASSUME NEW c \in End, NEW i \in 1 .. Len(inPackets'[c])
      PROVE  OldOrSent(c, inPackets'[c][i])
  <2>1. CASE c = e
    BY <1>4, <2>1 DEF OldOrSent
  <2>2. CASE c = d
    <3>1. CASE i \in 1 .. Len(inPackets[d]) /\ inPackets'[d][i] = inPackets[d][i]
      BY <2>2, <3>1 DEF OldOrSent
    <3>2. CASE inPackets'[d][i] = p /\ SentBy(e, p)
      BY <1>1, <2>2, <3>2 DEF OldOrSent
    <3>. QED
      BY <1>3, <2>2, <3>1, <3>2
  <2>. QED
    BY <1>1, <2>1, <2>2
<1>. QED
  BY <1>5, <1>6 DEF SegmentsTyped

\* The sockets, the table and the history of FINs stay as they are.
LEMMA SameSockets ==
    ASSUME TypeOK, sock' = sock, inTable' = inTable, finTaken' = finTaken
    PROVE  SocketsTyped /\ \A c \in End : Kept(c) /\ Heard(c)
<1>1. \A c \in End : TopOf(sock[c]) \in Int /\ TopOf(sock'[c]) = TopOf(sock[c])
  BY TopIsInt DEF TypeOK
<1>2. \A c \in End : TopOf(sock[c]) <= TopOf(sock'[c])
  BY <1>1
<1>. QED
  BY <1>2 DEF TypeOK, SocketsTyped, Kept, Heard

\* One socket takes a step.
LEMMA OneSocket ==
    ASSUME TypeOK, NEW e \in End, NEW t \in Socket,
           sock' = [sock EXCEPT ![e] = t],
           Len(t.send_window) <= DEFAULT_QUEUE_CAPACITY,
           TopOf(sock[e]) <= TopOf(t),
           inTable' = inTable,
           finTaken \subseteq finTaken',
           \/ e \in finTaken'
           \/ t.recv_seq = sock[e].recv_seq /\ t.recv_window = sock[e].recv_window
           \/ Heard(e)
    PROVE  SocketsTyped /\ \A c \in End : Kept(c) /\ Heard(c)
<1>1. /\ sock'[e] = t /\ sock' \in [End -> Socket]
      /\ \A c \in End : c # e => sock'[c] = sock[c]
  BY DEF TypeOK
<1>2. SocketsTyped
  BY <1>1 DEF SocketsTyped, TypeOK
<1>3. Heard(e)
  <2>1. CASE e \in finTaken'
    BY <2>1 DEF Heard
  <2>2. CASE t.recv_seq = sock[e].recv_seq /\ t.recv_window = sock[e].recv_window
    BY <1>1, <2>2 DEF Heard, ReceiverBelow
  <2>. QED
    BY <2>1, <2>2
<1>4. \A c \in End : TopOf(sock[c]) <= TopOf(sock'[c])
  <2>1. \A c \in End : TopOf(sock[c]) \in Int
    BY TopIsInt DEF TypeOK
  <2>. QED
    BY <1>1, <2>1
<1>5. \A c \in End : c # e => Heard(c)
  BY <1>1 DEF Heard
<1>. QED
  BY <1>2, <1>3, <1>4, <1>5 DEF Kept

----------------------------------------------------------------------------
(* The actions.                                                            *)

\* What the other actions leave alone.
LEMMA SameHistory ==
    ASSUME FinAckIsTrue, finTaken' = finTaken, finAcked' = finAcked
    PROVE  finTaken \subseteq finTaken' /\ FinAckIsTrue'
BY DEF FinAckIsTrue

\* The calls of the two programs touch neither the sockets nor the segments.
LEMMA ProgramStep ==
    ASSUME FinInv, NEW e \in End, TransferCall(e) \/ TellingRead(e) \/ SocketClose(e)
    PROVE  Step
<1>0. TypeOK /\ TeardownTypeOK /\ FinAckIsTrue
  BY DEF FinInv, Wellformed, TeardownTypeOK
<1>1. UNCHANGED <<sock, inPackets, inTable, up, finTaken, finAcked>>
  BY DEF TransferCall, TellingRead, SocketClose, SocketSend, RecvOpen, RecvClose, RecvRead,
         life, vars
<1>2. RestTyped
  <2>1. CASE TransferCall(e)
    <3>1. UNCHANGED <<delivered, received, closeCall, told, inTable, up, finTaken, finAcked>>
      BY <2>1 DEF TransferCall, SocketSend, RecvOpen, RecvClose, life
    <3>2. CASE SocketSend(e)
      <4>1. PICK n \in written[e] + 1 .. Len(Message[e]) :
              /\ written' = [written EXCEPT ![e] = n]
              /\ sendFifo' = [sendFifo EXCEPT ![e] =
                                 @ \o SubSeq(Message[e], written[e] + 1, n)]
              /\ UNCHANGED <<recvFifo, recvCall>>
        BY <3>2 DEF SocketSend
      <4>2. /\ written[e] \in Nat /\ Message[e] \in Seq(Byte) /\ Len(Message[e]) \in Nat
            /\ sendFifo[e] \in Seq(Byte)
        BY <1>0, DataAssumption DEF TypeOK
      <4>3. n \in Nat /\ n <= Len(Message[e])
        BY <4>2
      <4>4. SubSeq(Message[e], written[e] + 1, n) \in Seq(Byte)
        BY <4>2, <4>3
      <4>5. sendFifo[e] \o SubSeq(Message[e], written[e] + 1, n) \in Seq(Byte)
        BY <4>2, <4>4
      <4>6. written' \in [End -> Nat] /\ \A d \in End : written'[d] <= Len(Message[d])
        BY <1>0, <4>1, <4>3 DEF TypeOK
      <4>7. sendFifo' \in [End -> Seq(Byte)]
        BY <1>0, <4>1, <4>5 DEF TypeOK
      <4>. QED
        BY <1>0, <3>1, <4>1, <4>6, <4>7 DEF RestTyped, TypeOK, TeardownTypeOK
    <3>3. CASE RecvOpen(e)
      BY <1>0, <3>1, <3>3 DEF RestTyped, TypeOK, TeardownTypeOK, RecvOpen, RecvCall
    <3>4. CASE RecvClose(e)
      <4>1. recvFifo' \in [End -> Seq(Byte)]
        BY <1>0, <3>4 DEF TypeOK, RecvClose
      <4>. QED
        BY <1>0, <3>1, <3>4, <4>1 DEF RestTyped, TypeOK, TeardownTypeOK, RecvClose, RecvCall
    <3>. QED
      BY <2>1, <3>2, <3>3, <3>4 DEF TransferCall
  <2>2. CASE TellingRead(e)
    <3>1. UNCHANGED <<written, sendFifo, delivered, closeCall, inTable, up, finTaken, finAcked>>
      BY <2>2 DEF TellingRead, RecvRead
    <3>. DEFINE n == IF Len(recvFifo[e]) < BufferLen THEN Len(recvFifo[e]) ELSE BufferLen
                chunk == SubSeq(recvFifo[e], 1, n)
                rest == SubSeq(recvFifo[e], n + 1, Len(recvFifo[e]))
    <3>2. recvFifo[e] \in Seq(Byte) /\ received[e] \in Seq(Byte)
      BY <1>0 DEF TypeOK
    <3>3. n \in 0 .. Len(recvFifo[e])
      BY <3>2, DataAssumption
    <3>4. chunk \in Seq(Byte) /\ rest \in Seq(Byte)
      BY <3>2, <3>3, SubSeqProperties
    <3>. HIDE DEF n
    <3>5. /\ recvFifo' = [recvFifo EXCEPT ![e] = rest]
          /\ received' = [received EXCEPT ![e] = @ \o chunk] \/ received' = received
          /\ recvCall' = [recvCall EXCEPT ![e] = "closing"]
          /\ told' = told \union {e} \/ told' = told
      BY <1>0, <2>2 DEF TellingRead, RecvRead, n, TypeOK
    <3>6. received[e] \o chunk \in Seq(Byte)
      BY <3>2, <3>4
    <3>. HIDE DEF chunk, rest
    <3>7. recvFifo' \in [End -> Seq(Byte)] /\ received' \in [End -> Seq(Byte)]
      BY <1>0, <3>4, <3>5, <3>6 DEF TypeOK
    <3>. QED
      BY <1>0, <3>1, <3>5, <3>7 DEF RestTyped, TypeOK, TeardownTypeOK, RecvCall
  <2>3. CASE SocketClose(e)
    BY <1>0, <2>3 DEF RestTyped, TypeOK, TeardownTypeOK, SocketClose, vars, CloseCall
  <2>. QED
    BY <2>1, <2>2, <2>3
<1>. QED
  BY <1>0, <1>1, <1>2, SameSockets, SameSegments, SameHistory DEF Step

\* What the manager's steps on its own sockets leave alone.
LEMMA SameRest ==
    ASSUME TeardownTypeOK,
           UNCHANGED <<written, sendFifo, recvFifo, recvCall, delivered, received, inTable,
                       up, told>>,
           closeCall' \in [End -> CloseCall],
           finTaken' \subseteq End, finAcked' \subseteq End
    PROVE  RestTyped
BY DEF TeardownTypeOK, TypeOK, RestTyped

\* Reading the send fifo appends to the send window, which counts as used.
LEMMA TransferStep ==
    ASSUME FinInv, NEW e \in End, Transfer(e)
    PROVE  Step
<1>. DEFINE s == sock[e]
<1>0. /\ TypeOK /\ TeardownTypeOK /\ FinAckIsTrue
      /\ up /\ inTable[e] /\ s.state = "ESTABLISHED" /\ s \in Socket
      /\ s.send_window \in Seq(Byte) /\ Len(s.send_window) \in Nat
      /\ s.send_seq \in Int /\ s.recv_seq \in Int
  BY SocketTypes DEF FinInv, Wellformed, TeardownTypeOK, TypeOK, Transfer, Sockets
<1>1. UNCHANGED <<inTable, up, told, closeCall, finTaken, finAcked>>
  BY DEF Transfer, life
<1>2. CASE ReadSendFifo(e)
  <2>. DEFINE x == Head(sendFifo[e])
              t == [s EXCEPT !.send_window = Append(s.send_window, x)]
  <2>1. /\ Len(s.send_window) < DEFAULT_QUEUE_CAPACITY
        /\ sendFifo[e] # <<>>
        /\ sock' = [sock EXCEPT ![e].send_window = Append(@, x)]
        /\ sendFifo' = [sendFifo EXCEPT ![e] = Tail(@)]
        /\ UNCHANGED <<inPackets, written, recvFifo, recvCall, delivered, received>>
    BY <1>2 DEF ReadSendFifo
  <2>2. sendFifo[e] \in Seq(Byte) /\ x \in Byte /\ Tail(sendFifo[e]) \in Seq(Byte)
    BY <1>0, <2>1, HeadTailProperties DEF TypeOK
  <2>. HIDE DEF x
  <2>3. Append(s.send_window, x) \in Seq(Byte)
        /\ Len(Append(s.send_window, x)) = Len(s.send_window) + 1
    BY <1>0, <2>2, AppendProperties
  <2>4. /\ t \in Socket /\ t.send_window = Append(s.send_window, x)
        /\ t.state = s.state /\ t.send_seq = s.send_seq
        /\ t.recv_seq = s.recv_seq /\ t.recv_window = s.recv_window
        /\ sock' = [sock EXCEPT ![e] = t]
    BY <1>0, <2>1, <2>3 DEF Socket, TypeOK
  <2>. HIDE DEF t
  <2>5. TopOf(s) <= TopOf(t)
    BY <1>0, <2>3, <2>4 DEF TopOf
  <2>6. Len(t.send_window) <= DEFAULT_QUEUE_CAPACITY
    BY <1>0, <2>1, <2>3, <2>4, SizeAssumption
  <2>7. SocketsTyped /\ \A c \in End : Kept(c) /\ Heard(c)
    BY <1>0, <1>1, <2>4, <2>5, <2>6, OneSocket
  <2>8. sendFifo' \in [End -> Seq(Byte)]
    BY <1>0, <2>1, <2>2 DEF TypeOK
  <2>9. RestTyped
    BY <1>0, <1>1, <2>1, <2>8 DEF RestTyped, TypeOK, TeardownTypeOK
  <2>. QED
    BY <1>0, <1>1, <2>1, <2>7, <2>9, SameSegments, SameHistory DEF Step
<1>3. CASE SendWindow(e)
  <2>. DEFINE data == get_next_socket_packet_data(s)
              p == construct_packet(s, data, {"ACK"})
  <2>1. /\ inPackets' = [inPackets EXCEPT ![Peer(e)] = Append(@, p)]
        /\ UNCHANGED <<sock, written, sendFifo, recvFifo, recvCall, delivered, received>>
    BY <1>3 DEF SendWindow
  <2>2. /\ data \in Seq(Byte) /\ Len(data) \in 0 .. Len(s.send_window)
        /\ Len(data) <= MAX_DATA_PER_PACKET
    <3>. DEFINE q == s.send_window
                n == DataLength(q)
    <3>1. n \in 0 .. Len(q) /\ n <= MAX_DATA_PER_PACKET
      BY <1>0, DataLengthProperties
    <3>2. data = SubSeq(q, 0 + 1, n) /\ 0 \in Nat
      BY DEF get_next_socket_packet_data
    <3>. HIDE DEF n, q, data
    <3>3. q \in Seq(Byte) /\ n \in Nat /\ 0 <= n /\ n <= Len(q)
      BY <1>0, <3>1 DEF q
    <3>4. SubSeq(q, 0 + 1, n) \in Seq(Byte) /\ Len(SubSeq(q, 0 + 1, n)) = n - 0
      BY <3>2, <3>3, Slice
    <3>. QED
      BY <3>1, <3>2, <3>3, <3>4 DEF q
  <2>3. p = [flags |-> {"ACK"}, seq |-> s.send_seq, ack |-> s.recv_seq, data |-> data]
    BY DEF construct_packet
  <2>4. p = construct_packet(sock[e], get_next_socket_packet_data(sock[e]), {"ACK"})
    OBVIOUS
  <2>. HIDE DEF data, p
  <2>5. p \in Segment /\ KnownSegment(p)
    BY <1>0, <2>2, <2>3 DEF Segment, Flag, KnownSegment
  <2>6. sock'[e] = s /\ inTable'[e] /\ e \in Sockets({"ESTABLISHED"})
    BY <1>0, <1>1, <2>1 DEF Sockets
  <2>7. p.seq + Len(p.data) <= TopOf(sock'[e])
    BY <1>0, <2>2, <2>3, <2>6 DEF TopOf
  <2>8. SentBy(e, p)
    <3>1. Len(p.data) <= MAX_DATA_PER_PACKET /\ p.ack = sock'[e].recv_seq
      BY <2>2, <2>3, <2>6
    <3>. QED
      BY <2>4, <2>5, <2>6, <2>7, <3>1, Zenon DEF SentBy
  <2>9. SegmentsTyped
    BY <1>0, <2>1, <2>8, OneSent
  <2>10. RestTyped
    BY <1>0, <1>1, <2>1 DEF RestTyped, TypeOK, TeardownTypeOK
  <2>. QED
    BY <1>0, <1>1, <2>1, <2>9, <2>10, SameSockets, SameHistory DEF Step
<1>. QED
  BY <1>2, <1>3 DEF Transfer

\* An answer, a FIN or a reset is a segment without data, from the socket as it
\* is after the step.
LEMMA AnswerIsSent ==
    ASSUME NEW e \in End, NEW t \in Socket, NEW flags \in {{"ACK"}, {"FIN"}, {"FIN", "ACK"}, {"RST"}},
           sock'[e].send_seq = t.send_seq, sock'[e].recv_seq = t.recv_seq,
           sock'[e] \in Socket, inTable'[e]
    PROVE  SentBy(e, construct_packet(t, <<>>, flags))
<1>. DEFINE p == construct_packet(t, <<>>, flags)
<1>1. p = [flags |-> flags, seq |-> t.send_seq, ack |-> t.recv_seq, data |-> <<>>]
  BY DEF construct_packet
<1>2. t.send_seq \in Int /\ t.recv_seq \in Int /\ Len(sock'[e].send_window) \in Nat
  BY SocketTypes
<1>. HIDE DEF p
<1>3. p \in Segment /\ KnownSegment(p)
  BY <1>1, <1>2 DEF Segment, Flag, KnownSegment
<1>4. p.data = <<>> /\ p.seq = t.send_seq /\ p.ack = t.recv_seq
  BY <1>1
<1>5. Len(p.data) = 0 /\ p.seq + Len(p.data) = t.send_seq
  BY <1>2, <1>4
<1>6. t.send_seq <= TopOf(sock'[e])
  BY <1>2 DEF TopOf
<1>7. Len(p.data) <= MAX_DATA_PER_PACKET
  BY <1>5, SizeAssumption
<1>8. SentBy(e, p)
  BY <1>3, <1>4, <1>5, <1>6, <1>7 DEF SentBy
<1>. QED
  BY <1>8 DEF p

\* The bytes an open socket takes from its window and from a segment are below
\* what bounds both.
LEMMA EstablishedBelow ==
    ASSUME NEW s \in Socket, NEW p \in Segment, p.flags = {"ACK"}, NEW canWrite \in BOOLEAN,
           NEW top \in Int, ReceiverBelow(s, top), p.seq + Len(p.data) <= top
    PROVE  ReceiverBelow(handle_packet_established(s, p, canWrite).sock, top)
<1>. DEFINE r == handle_packet_established(s, p, canWrite)
            t == r.sock
            n == Len(r.bytes)
<1>1. /\ t \in Socket /\ r.bytes \in Seq(Byte)
      /\ t.recv_seq = s.recv_seq + n
      /\ \A i \in 1 .. n : i - 1 \in Slot /\ Source(s, p, i - 1, r.bytes[i])
      /\ \A k \in Slot : t.recv_window[k] # NoByte =>
            k + n \in Slot /\ Source(s, p, k + n, t.recv_window[k])
  BY EstablishedProperties, Zenon
<1>. HIDE DEF r
<1>2. n \in Nat /\ \A i \in 1 .. n : r.bytes[i] # NoByte
  BY <1>1, ByteAssumption
<1>. HIDE DEF n, t
<1>3. /\ s.recv_seq \in Int /\ p.seq \in Int /\ Len(p.data) \in Nat
      /\ \A k \in Slot : k \in Int
  BY SocketTypes, SizeAssumption DEF Segment, Slot
<1>4. ASSUME NEW k \in Slot, NEW x, x # NoByte, Source(s, p, k, x)
      PROVE  s.recv_seq + k < top
  <2>1. CASE x = s.recv_window[k]
    BY <1>4, <2>1 DEF ReceiverBelow
  <2>2. ASSUME NEW i \in 1 .. Len(p.data), p.seq + i - 1 = s.recv_seq + k
        PROVE  s.recv_seq + k < top
    BY <1>3, <2>2
  <2>. QED
    BY <1>4, <2>1, <2>2 DEF Source
<1>5. t.recv_seq <= top
  <2>1. CASE n = 0
    BY <1>1, <1>3, <2>1 DEF ReceiverBelow
  <2>2. CASE n > 0
    <3>1. n \in 1 .. n /\ n - 1 \in Slot
      BY <1>1, <1>2, <2>2
    <3>2. Source(s, p, n - 1, r.bytes[n]) /\ r.bytes[n] # NoByte
      BY <1>1, <1>2, <3>1
    <3>3. s.recv_seq + (n - 1) < top
      BY <1>4, <3>1, <3>2
    <3>. QED
      BY <1>1, <1>2, <1>3, <3>3
  <2>. QED
    BY <1>2, <2>1, <2>2
<1>6. ASSUME NEW k \in Slot, t.recv_window[k] # NoByte
      PROVE  t.recv_seq + k < top
  <2>1. k + n \in Slot /\ Source(s, p, k + n, t.recv_window[k])
    BY <1>1, <1>6
  <2>2. s.recv_seq + (k + n) < top
    BY <1>4, <1>6, <2>1
  <2>. QED
    BY <1>1, <1>2, <1>3, <2>2
<1>. QED
  BY <1>5, <1>6 DEF ReceiverBelow, t, r

\* The segment at the head of a queue.
LEMMA HeadIsKnown ==
    ASSUME FinInv, NEW e \in End, inPackets[e] # <<>>
    PROVE  /\ KnownSegment(Next_(e)) /\ Next_(e) \in Segment
           /\ Next_(e).ack \in Int /\ Next_(e).seq \in Int /\ Next_(e).flags \in SUBSET Flag
           /\ \E i \in 1 .. Len(inPackets[e]) : Next_(e) = inPackets[e][i]
<1>1. TypeOK /\ SegmentsAreKnown
  BY DEF FinInv, Wellformed, TeardownTypeOK
<1>2. /\ Next_(e) \in Segment /\ Next_(e) = inPackets[e][1]
      /\ 1 \in 1 .. Len(inPackets[e])
  BY <1>1, OneTaken
<1>. QED
  BY <1>1, <1>2 DEF SegmentsAreKnown, Segment

\* An open socket takes a segment: a FIN is recorded, data stays below what
\* bounded it, an acknowledgement moves bytes from one side of the top's sum to
\* the other.
LEMMA HandleEstablishedStep ==
    ASSUME FinInv, NEW e \in End, HandleEstablished(e)
    PROVE  Step
<1>. DEFINE s == sock[e]
            p == Next_(e)
            cw == CanWrite(e, p)
            r == handle_packet_established(s, p, cw)
            t == r.sock
<1>0. /\ TypeOK /\ TeardownTypeOK /\ FinAckIsTrue
      /\ up /\ inTable[e] /\ s.state = "ESTABLISHED" /\ s \in Socket
      /\ s.send_window \in Seq(Byte) /\ Len(s.send_window) \in Nat
      /\ Len(s.send_window) <= DEFAULT_QUEUE_CAPACITY
      /\ s.send_seq \in Int /\ s.recv_seq \in Int
      /\ inPackets[e] # <<>> /\ "RST" \notin p.flags
  BY SocketTypes DEF FinInv, Wellformed, TeardownTypeOK, TypeOK, HandleEstablished, Sockets,
                     Plain, HasSegment
<1>1. PICK reply \in {r.reply, <<>>} :
        /\ sock' = [sock EXCEPT ![e] = t]
        /\ inPackets' = [inPackets EXCEPT ![e] = Tail(@), ![Peer(e)] = @ \o reply]
        /\ recvFifo' = [recvFifo EXCEPT ![e] = @ \o r.bytes]
        /\ delivered' = [delivered EXCEPT ![e] = @ \o r.bytes]
        /\ recvCall' = IF p.data # <<>> /\ recvCall[e] = "opening"
                       THEN [recvCall EXCEPT ![e] = "open"] ELSE recvCall
        /\ UNCHANGED <<written, sendFifo, received>>
  BY DEF HandleEstablished, HandlePacket, Next_
<1>2. /\ finTaken' = IF "FIN" \in p.flags THEN finTaken \union {e} ELSE finTaken
      /\ UNCHANGED <<inTable, up, closeCall, told, finAcked>>
  BY DEF HandleEstablished
<1>3. /\ KnownSegment(p) /\ p \in Segment /\ cw \in BOOLEAN
      /\ p.ack \in Int /\ p.seq \in Int
      /\ \E i \in 1 .. Len(inPackets[e]) : p = inPackets[e][i]
  BY <1>0, HeadIsKnown DEF CanWrite
<1>4. p.flags = {"ACK"} \/ ("FIN" \in p.flags /\ "SYN" \notin p.flags)
  BY <1>0, <1>3 DEF KnownSegment
<1>. HIDE DEF s, p, cw
<1>5. GoodResult(r, {s.state, "CLOSE_WAIT"}) /\ ("FIN" \notin p.flags => t.state = s.state)
  BY <1>0, <1>3, EstablishedStates
<1>6. /\ r.bytes \in Seq(Byte) /\ TopOf(s) <= TopOf(t)
      /\ Len(t.send_window) <= DEFAULT_QUEUE_CAPACITY
  <2>1. CASE p.flags = {"ACK"}
    <3>. DEFINE a == AckedBytes(s, p.ack)
    <3>0. s \in Socket /\ p \in Segment /\ p.flags = {"ACK"} /\ cw \in BOOLEAN
      BY <1>0, <1>3, <2>1
    <3>1. /\ t.send_seq = s.send_seq + a
          /\ Len(t.send_window) = Len(s.send_window) - a
          /\ r.bytes \in Seq(Byte)
      BY <3>0, EstablishedProperties, Zenon
    <3>2. a \in 0 .. Len(s.send_window)
      BY <1>0, <1>3, AcknowledgeProperties
    <3>3. t.state = "ESTABLISHED"
      BY <1>0, <1>5, <2>1
    <3>. HIDE DEF a, t, r
    <3>. QED
      BY <1>0, <3>1, <3>2, <3>3, SizeAssumption DEF TopOf
  <2>2. CASE "FIN" \in p.flags /\ "SYN" \notin p.flags
    <3>1. r = [sock |-> [s EXCEPT !.state = "CLOSE_WAIT", !.recv_seq = p.seq + 1,
                                  !.send_seq = s.send_seq + Len(s.send_window)],
               reply |-> <<>>, bytes |-> <<>>]
      BY <1>0, <2>2 DEF handle_packet_established, Ignore, Result, Socket
    <3>. HIDE DEF r
    <3>2. /\ t.send_seq = s.send_seq + Len(s.send_window) /\ t.state = "CLOSE_WAIT"
          /\ t.send_window = s.send_window /\ r.bytes = <<>>
      BY <1>0, <3>1 DEF Socket
    <3>. HIDE DEF t
    <3>. QED
      BY <1>0, <3>2 DEF TopOf
  <2>. QED
    BY <1>4, <2>1, <2>2
<1>7. t \in Socket /\ sock'[e] = t
  BY <1>0, <1>1, <1>5 DEF GoodResult, TypeOK
<1>8. finTaken \subseteq finTaken' /\ finTaken' \subseteq End /\ FinAckIsTrue'
  BY <1>0, <1>2 DEF FinAckIsTrue, TeardownTypeOK
<1>9. e \in finTaken' \/ Heard(e)
  <2>1. CASE p.flags = {"ACK"}
    <3>. SUFFICES ASSUME NEW top \in Int, ReceiverBelow(sock[e], top),
                         \A i \in 1 .. Len(inPackets[e]) :
                            inPackets[e][i].seq + Len(inPackets[e][i].data) <= top
                  PROVE  ReceiverBelow(sock'[e], top)
      BY DEF Heard
    <3>1. p.seq + Len(p.data) <= top /\ ReceiverBelow(s, top)
      BY <1>3 DEF s
    <3>. QED
      BY <1>0, <1>3, <1>7, <2>1, <3>1, EstablishedBelow
  <2>2. CASE "FIN" \in p.flags
    BY <1>2, <2>2
  <2>. QED
    BY <1>4, <2>1, <2>2
<1>10. SocketsTyped /\ \A c \in End : Kept(c) /\ Heard(c)
  <2>. HIDE DEF t, r
  <2>. QED
    BY <1>0, <1>1, <1>2, <1>6, <1>7, <1>8, <1>9, OneSocket DEF s
<1>11. SegmentsTyped
  <2>. DEFINE q == construct_packet(t, <<>>, {"ACK"})
  <2>1. reply = <<>> \/ reply = <<q>>
    BY <1>1, <1>5 DEF GoodResult
  <2>2. SentBy(e, q)
    BY <1>0, <1>2, <1>7, AnswerIsSent
  <2>. HIDE DEF q
  <2>. QED
    BY <1>0, <1>1, <2>1, <2>2, TakenAndAnswered
<1>12. RestTyped
  <2>. HIDE DEF r
  <2>1. recvFifo[e] \o r.bytes \in Seq(Byte) /\ delivered[e] \o r.bytes \in Seq(Byte)
    BY <1>0, <1>6 DEF TypeOK
  <2>2. recvFifo' \in [End -> Seq(Byte)] /\ delivered' \in [End -> Seq(Byte)]
    BY <1>0, <1>1, <2>1 DEF TypeOK
  <2>3. recvCall' \in [End -> RecvCall]
    BY <1>0, <1>1 DEF TypeOK, RecvCall
  <2>. QED
    BY <1>0, <1>1, <1>2, <1>8, <2>2, <2>3 DEF RestTyped, TypeOK, TeardownTypeOK
<1>. QED
  BY <1>8, <1>10, <1>11, <1>12 DEF Step

\* A socket on its way out takes a segment.  What it takes for the ACK of its
\* FIN is larger than every number it used for data, so the other end took the
\* FIN.
LEMMA HandleClosingStep ==
    ASSUME FinInv, NEW e \in End, HandleClosing(e)
    PROVE  Step
<1>. DEFINE s == sock[e]
            p == Next_(e)
            r == CASE s.state = "FIN_WAIT_1" -> handle_packet_fin_wait_1(s, p)
                   [] s.state = "FIN_WAIT_2" -> handle_packet_fin_wait_2(s, p)
                   [] s.state = "CLOSING" -> handle_packet_closing(s, p)
                   [] s.state = "LAST_ACK" -> handle_packet_last_ack(s, p)
            t == r.sock
            takesFin == s.state \in {"FIN_WAIT_1", "FIN_WAIT_2"} /\ "FIN" \in p.flags
            takesAck == s.state # "FIN_WAIT_2" /\ AcksFin(s, p)
<1>0. /\ TypeOK /\ TeardownTypeOK /\ FinAckIsTrue /\ AcksAreOfData
      /\ up /\ inTable[e] /\ s \in Socket
      /\ s.state \in {"FIN_WAIT_1", "FIN_WAIT_2", "CLOSING", "LAST_ACK"}
      /\ s.send_window \in Seq(Byte) /\ Len(s.send_window) \in Nat
      /\ Len(s.send_window) <= DEFAULT_QUEUE_CAPACITY
      /\ s.send_seq \in Int /\ s.recv_seq \in Int
      /\ inPackets[e] # <<>>
  BY SocketTypes DEF FinInv, Wellformed, TeardownTypeOK, TypeOK, HandleClosing, Sockets,
                     Plain, HasSegment
<1>1. PICK reply \in {r.reply, <<>>} :
        /\ sock' = [sock EXCEPT ![e] = t]
        /\ inPackets' = [inPackets EXCEPT ![e] = Tail(@), ![Peer(e)] = @ \o reply]
        /\ finTaken' = IF takesFin THEN finTaken \union {e} ELSE finTaken
        /\ finAcked' = IF takesAck THEN finAcked \union {e} ELSE finAcked
        /\ UNCHANGED <<written, sendFifo, recvFifo, recvCall, delivered, received,
                       inTable, up, closeCall, told>>
  BY DEF HandleClosing
<1>2. /\ p \in Segment /\ p.ack \in Int
      /\ \E i \in 1 .. Len(inPackets[e]) : p = inPackets[e][i]
  BY <1>0, HeadIsKnown
<1>3. TopOf(s) = s.send_seq
  BY <1>0 DEF TopOf
<1>4. takesAck => Peer(e) \in finTaken
  <2>. SUFFICES ASSUME p.ack > s.send_seq, Peer(e) \notin finTaken PROVE FALSE
    BY DEF AcksFin
  <2>1. p.ack <= TopOf(s)
    BY <1>0, <1>2 DEF AcksAreOfData
  <2>. QED
    BY <1>0, <1>2, <1>3, <2>1
<1>. HIDE DEF s, p
<1>5. \E states : GoodResult(r, states)
  <2>0. /\ \E states : GoodResult(handle_packet_fin_wait_1(s, p), states)
        /\ \E states : GoodResult(handle_packet_fin_wait_2(s, p), states)
        /\ \E states : GoodResult(handle_packet_closing(s, p), states)
        /\ \E states : GoodResult(handle_packet_last_ack(s, p), states)
    BY <1>0, <1>2, ClosingStates
  <2>1. CASE s.state = "FIN_WAIT_1"
    BY <2>0, <2>1
  <2>2. CASE s.state = "FIN_WAIT_2"
    BY <2>0, <2>2
  <2>3. CASE s.state = "CLOSING"
    BY <2>0, <2>3
  <2>4. CASE s.state = "LAST_ACK"
    BY <2>0, <2>4
  <2>. QED
    BY <1>0, <2>1, <2>2, <2>3, <2>4
<1>6. /\ t.send_seq = s.send_seq
      /\ t.send_window = s.send_window
      /\ t.recv_window = s.recv_window
      /\ t.recv_seq = s.recv_seq \/ takesFin
  <2>0. /\ AfterClose(s, p, handle_packet_fin_wait_1(s, p))
        /\ AfterClose(s, p, handle_packet_fin_wait_2(s, p))
    BY <1>0, <1>2, ClosingStates
  <2>1. CASE s.state = "FIN_WAIT_1"
    BY <2>0, <2>1 DEF AfterClose
  <2>2. CASE s.state = "FIN_WAIT_2"
    BY <2>0, <2>2 DEF AfterClose
  <2>3. CASE s.state = "CLOSING"
    BY <1>0, <2>3 DEF handle_packet_closing, Goto, Ignore, Result, Socket
  <2>4. CASE s.state = "LAST_ACK"
    BY <1>0, <2>4 DEF handle_packet_last_ack, Goto, Ignore, Result, Socket
  <2>. QED
    BY <1>0, <2>1, <2>2, <2>3, <2>4
<1>. HIDE DEF r
<1>7. t \in Socket /\ sock'[e] = t /\ (r.reply = <<>> \/ r.reply = <<construct_packet(t, <<>>, {"ACK"})>>)
  BY <1>0, <1>1, <1>5 DEF GoodResult, TypeOK
<1>8. finTaken \subseteq finTaken' /\ finTaken' \subseteq End /\ finAcked' \subseteq End
  BY <1>0, <1>1 DEF TeardownTypeOK
<1>9. FinAckIsTrue'
  BY <1>0, <1>1, <1>4, <1>8 DEF FinAckIsTrue
<1>10. SocketsTyped /\ \A c \in End : Kept(c) /\ Heard(c)
  <2>1. TopOf(s) <= TopOf(t)
    BY <1>0, <1>3, <1>6 DEF TopOf
  <2>2. e \in finTaken' \/ t.recv_seq = s.recv_seq
    BY <1>1, <1>6
  <2>. HIDE DEF t, takesFin, takesAck
  <2>. QED
    BY <1>0, <1>1, <1>6, <1>7, <1>8, <2>1, <2>2, OneSocket DEF s
<1>11. SegmentsTyped
  <2>. DEFINE q == construct_packet(t, <<>>, {"ACK"})
  <2>1. reply = <<>> \/ reply = <<q>>
    BY <1>1, <1>7
  <2>2. SentBy(e, q)
    BY <1>0, <1>1, <1>7, AnswerIsSent
  <2>. HIDE DEF q
  <2>. QED
    BY <1>0, <1>1, <2>1, <2>2, TakenAndAnswered
<1>12. RestTyped
  <2>1. closeCall' \in [End -> CloseCall]
    BY <1>0, <1>1 DEF TeardownTypeOK
  <2>. QED
    BY <1>0, <1>1, <1>8, <2>1, SameRest
<1>. QED
  BY <1>8, <1>9, <1>10, <1>11, <1>12 DEF Step

\* A change of state, with or without counting the send window as used.
LEMMA ChangeOfState ==
    ASSUME TypeOK, NEW e \in End, NEW state \in TCPState, NEW n \in {0, Len(sock[e].send_window)},
           state \notin {"ESTABLISHED"},
           \/ sock[e].state \notin {"ESTABLISHED", "CLOSED"}
           \/ state = "CLOSED" \/ n = Len(sock[e].send_window),
           sock' = [sock EXCEPT ![e] = [sock[e] EXCEPT !.state = state,
                                                       !.send_seq = sock[e].send_seq + n]],
           inTable' = inTable, finTaken' = finTaken
    PROVE  /\ SocketsTyped /\ \A c \in End : Kept(c) /\ Heard(c)
           /\ sock'[e] \in Socket
           /\ sock'[e].recv_seq = sock[e].recv_seq
           /\ sock'[e].send_seq = sock[e].send_seq + n
<1>. DEFINE s == sock[e]
            t == [s EXCEPT !.state = state, !.send_seq = s.send_seq + n]
<1>1. /\ s \in Socket /\ s.send_seq \in Int /\ Len(s.send_window) \in Nat
      /\ Len(s.send_window) <= DEFAULT_QUEUE_CAPACITY /\ n \in Nat
  BY SocketTypes DEF TypeOK
<1>2. s.send_seq + n \in Int
  BY <1>1
<1>3. /\ t \in Socket /\ t.state = state /\ t.send_seq = s.send_seq + n
      /\ t.send_window = s.send_window
      /\ t.recv_seq = s.recv_seq /\ t.recv_window = s.recv_window
  BY <1>1, <1>2 DEF Socket
<1>4. sock' = [sock EXCEPT ![e] = t] /\ sock'[e] = t
  BY DEF TypeOK
<1>5. TopOf(s) <= TopOf(t)
  <2>. HIDE DEF s, t
  <2>1. CASE s.state \notin {"ESTABLISHED", "CLOSED"}
    BY <1>1, <1>3, <2>1 DEF TopOf
  <2>2. CASE state = "CLOSED"
    BY <1>1, <1>3, <2>2 DEF TopOf
  <2>3. CASE n = Len(s.send_window)
    BY <1>1, <1>3, <2>3 DEF TopOf
  <2>. QED
    BY <2>1, <2>2, <2>3 DEF s
<1>. HIDE DEF t
<1>. QED
  BY <1>1, <1>3, <1>4, <1>5, OneSocket

\* A reset closes the socket; other segments are ignored.
LEMMA HandleOtherStep ==
    ASSUME FinInv, NEW e \in End, HandleOther(e)
    PROVE  Step
<1>0. /\ TypeOK /\ TeardownTypeOK /\ FinAckIsTrue /\ inPackets[e] # <<>>
      /\ sock[e] \in Socket /\ sock[e].send_seq \in Int
  BY SocketTypes DEF FinInv, Wellformed, TeardownTypeOK, TypeOK, HandleOther, HasSegment
<1>1. /\ inPackets' = [inPackets EXCEPT ![e] = Tail(@)]
      /\ UNCHANGED <<written, sendFifo, recvFifo, recvCall, delivered, received, life>>
      /\ sock' = [sock EXCEPT ![e].state = "CLOSED"] \/ sock' = sock
  BY DEF HandleOther
<1>2. SocketsTyped /\ \A c \in End : Kept(c) /\ Heard(c)
  <2>1. CASE sock' = sock
    BY <1>0, <1>1, <2>1, SameSockets DEF life
  <2>2. CASE sock' = [sock EXCEPT ![e].state = "CLOSED"]
    <3>1. sock' = [sock EXCEPT ![e] = [sock[e] EXCEPT !.state = "CLOSED",
                                                     !.send_seq = sock[e].send_seq + 0]]
      <4>1. sock[e].send_seq + 0 = sock[e].send_seq
        BY <1>0
      <4>2. [sock[e] EXCEPT !.state = "CLOSED"]
                = [sock[e] EXCEPT !.state = "CLOSED", !.send_seq = sock[e].send_seq]
        BY <1>0 DEF Socket
      <4>. QED
        BY <2>2, <4>1, <4>2
    <3>2. "CLOSED" \in TCPState
      BY DEF TCPState
    <3>. QED
      BY <1>0, <1>1, <3>1, <3>2, ChangeOfState DEF life
  <2>. QED
    BY <1>1, <2>1, <2>2
<1>3. SegmentsTyped
  BY <1>0, <1>1, TakenOnly
<1>4. RestTyped
  BY <1>0, <1>1, SameRest DEF life, TeardownTypeOK
<1>. QED
  BY <1>0, <1>1, <1>2, <1>3, <1>4, SameHistory DEF Step, life

\* The close command and the end of CLOSE_WAIT count the send window as used,
\* once more if it was counted already.
LEMMA CloseStep ==
    ASSUME FinInv, NEW e \in End, HandleCloseCommand(e) \/ CloseWaitToLastAck(e)
    PROVE  Step
<1>0. TypeOK /\ TeardownTypeOK /\ FinAckIsTrue
  BY DEF FinInv, Wellformed, TeardownTypeOK
<1>1. PICK state \in {"FIN_WAIT_1", "LAST_ACK"} :
        sock' = [sock EXCEPT ![e] = [sock[e] EXCEPT !.state = state,
                                     !.send_seq = sock[e].send_seq + Len(sock[e].send_window)]]
  <2>1. CASE HandleCloseCommand(e)
    BY <1>0, <2>1 DEF HandleCloseCommand, TypeOK
  <2>2. CASE CloseWaitToLastAck(e)
    BY <1>0, <2>2 DEF CloseWaitToLastAck, TypeOK
  <2>. QED
    BY <2>1, <2>2
<1>2. /\ closeCall' \in [End -> CloseCall]
      /\ UNCHANGED <<inPackets, written, sendFifo, recvFifo, recvCall, delivered, received,
                     inTable, up, told, finTaken, finAcked>>
  BY <1>0 DEF HandleCloseCommand, CloseWaitToLastAck, life, TeardownTypeOK, CloseCall
<1>3. state \in TCPState /\ state \notin {"ESTABLISHED"}
  BY DEF TCPState
<1>4. SocketsTyped /\ \A c \in End : Kept(c) /\ Heard(c)
  BY <1>0, <1>1, <1>2, <1>3, ChangeOfState
<1>5. RestTyped
  BY <1>0, <1>2, SameRest DEF TeardownTypeOK
<1>. QED
  BY <1>0, <1>2, <1>4, <1>5, SameSegments, SameHistory DEF Step

LEMMA TimeWaitStep ==
    ASSUME FinInv, NEW e \in End, TimeWaitToClosed(e)
    PROVE  Step
<1>0. TypeOK /\ TeardownTypeOK /\ FinAckIsTrue /\ sock[e] \in Socket /\ sock[e].send_seq \in Int
  BY SocketTypes DEF FinInv, Wellformed, TeardownTypeOK, TypeOK
<1>1. /\ sock' = [sock EXCEPT ![e].state = "CLOSED"]
      /\ UNCHANGED <<inPackets, written, sendFifo, recvFifo, recvCall, delivered, received, life>>
  BY DEF TimeWaitToClosed
<1>2. sock' = [sock EXCEPT ![e] = [sock[e] EXCEPT !.state = "CLOSED",
                                                 !.send_seq = sock[e].send_seq + 0]]
  <2>1. sock[e].send_seq + 0 = sock[e].send_seq
    BY <1>0
  <2>2. [sock[e] EXCEPT !.state = "CLOSED"]
            = [sock[e] EXCEPT !.state = "CLOSED", !.send_seq = sock[e].send_seq]
    BY <1>0 DEF Socket
  <2>. QED
    BY <1>1, <2>1, <2>2
<1>3. "CLOSED" \in TCPState
  BY DEF TCPState
<1>4. SocketsTyped /\ \A c \in End : Kept(c) /\ Heard(c)
  BY <1>0, <1>1, <1>2, <1>3, ChangeOfState DEF life
<1>5. RestTyped
  BY <1>0, <1>1, SameRest DEF life, TeardownTypeOK
<1>. QED
  BY <1>0, <1>1, <1>4, <1>5, SameSegments, SameHistory DEF Step, life

\* A FIN is sent, again or for the first time; a reset is the last segment.
LEMMA SendingStep ==
    ASSUME FinInv, NEW e \in End, ResendFin(e) \/ GiveUp(e)
    PROVE  Step
<1>0. /\ TypeOK /\ TeardownTypeOK /\ FinAckIsTrue
      /\ up /\ inTable[e] /\ sock[e] \in Socket /\ sock[e].send_seq \in Int
      /\ sock[e].state \in {"FIN_WAIT_1", "CLOSING", "LAST_ACK"}
  BY SocketTypes DEF FinInv, Wellformed, TeardownTypeOK, TypeOK, ResendFin, GiveUp, Sockets
<1>1. PICK flags \in {{"FIN"}, {"FIN", "ACK"}, {"RST"}} : Emit(e, flags)
  BY DEF ResendFin, GiveUp
<1>2. /\ inPackets' = [inPackets EXCEPT ![Peer(e)] =
                        Append(@, construct_packet(sock[e], <<>>, flags))]
      /\ UNCHANGED <<written, sendFifo, recvFifo, recvCall, delivered, received, life>>
  BY <1>1 DEF Emit
<1>3. /\ SocketsTyped /\ \A c \in End : Kept(c) /\ Heard(c)
      /\ sock'[e] \in Socket
      /\ sock'[e].recv_seq = sock[e].recv_seq /\ sock'[e].send_seq = sock[e].send_seq
  <2>1. CASE sock' = sock
    BY <1>0, <1>2, <2>1, SameSockets DEF life
  <2>2. CASE sock' = [sock EXCEPT ![e].state = "TIME_WAIT"]
    <3>1. sock[e].send_seq + 0 = sock[e].send_seq
      BY <1>0
    <3>2. sock' = [sock EXCEPT ![e] = [sock[e] EXCEPT !.state = "TIME_WAIT",
                                                     !.send_seq = sock[e].send_seq + 0]]
      <4>1. [sock[e] EXCEPT !.state = "TIME_WAIT"]
                = [sock[e] EXCEPT !.state = "TIME_WAIT", !.send_seq = sock[e].send_seq]
        BY <1>0 DEF Socket
      <4>. QED
        BY <2>2, <3>1, <4>1
    <3>3. "TIME_WAIT" \in TCPState
      BY DEF TCPState
    <3>. QED
      BY <1>0, <1>2, <3>1, <3>2, <3>3, ChangeOfState DEF life
  <2>. QED
    BY <2>1, <2>2 DEF ResendFin, GiveUp
<1>4. SegmentsTyped
  <2>1. SentBy(e, construct_packet(sock[e], <<>>, flags))
    BY <1>0, <1>2, <1>3, AnswerIsSent DEF life
  <2>. QED
    BY <1>0, <1>2, <2>1, OneSent
<1>5. RestTyped
  BY <1>0, <1>2, SameRest DEF life, TeardownTypeOK
<1>. QED
  BY <1>0, <1>2, <1>3, <1>4, <1>5, SameHistory DEF Step, life

\* A socket without connection, as a freed one is modelled.
LEMMA FreedIsSocket == Freed \in Socket /\ Len(Freed.send_window) <= DEFAULT_QUEUE_CAPACITY
<1>1. Freed.send_window = <<>> /\ Len(<<>>) = 0
  BY DEF Freed, NewSocket
<1>2. Freed \in Socket
  BY ByteAssumption DEF Freed, NewSocket, Socket, TCPState
<1>. QED
  BY <1>1, <1>2, SizeAssumption

\* What is written into the partner's recv fifo is CONN_CLOSED.
LEMMA TellPartnerTypes ==
    ASSUME TypeOK, NEW e \in End, TellPartner(e)
    PROVE  recvFifo' \in [End -> Seq(Byte)] /\ recvCall' \in [End -> RecvCall]
<1>1. CASE UNCHANGED <<recvFifo, recvCall>>
  BY <1>1 DEF TypeOK
<1>2. CASE ~UNCHANGED <<recvFifo, recvCall>>
  <2>1. /\ recvFifo' = [recvFifo EXCEPT ![Peer(e)] = Append(@, CONN_CLOSED)]
        /\ recvCall' = IF recvCall[Peer(e)] = "opening"
                       THEN [recvCall EXCEPT ![Peer(e)] = "open"] ELSE recvCall
    BY <1>2 DEF TellPartner
  <2>2. Append(recvFifo[Peer(e)], CONN_CLOSED) \in Seq(Byte)
    BY DataAssumption, PeerProperties DEF TypeOK
  <2>3. recvFifo' \in [End -> Seq(Byte)]
    BY <2>1, <2>2 DEF TypeOK
  <2>. QED
    BY <2>1, <2>3 DEF TypeOK, RecvCall
<1>. QED
  BY <1>1, <1>2

\* A removed socket is not there to take a segment any more.
LEMMA RemoveSocketStep ==
    ASSUME FinInv, NEW e \in End, RemoveSocket(e)
    PROVE  Step
<1>0. TypeOK /\ TeardownTypeOK /\ FinAckIsTrue
  BY DEF FinInv, Wellformed, TeardownTypeOK
<1>1. /\ inTable' = [inTable EXCEPT ![e] = FALSE]
      /\ sock' = [sock EXCEPT ![e] = Freed]
      /\ sendFifo' = [sendFifo EXCEPT ![e] = <<>>]
      /\ closeCall' = IF closeCall[e] = "blocked" THEN [closeCall EXCEPT ![e] = "done"]
                      ELSE closeCall
      /\ UNCHANGED <<inPackets, written, delivered, received, up, told, finTaken, finAcked>>
  BY DEF RemoveSocket
<1>2. SocketsTyped
  BY <1>0, <1>1, FreedIsSocket DEF TypeOK, SocketsTyped
<1>3. /\ inTable' \in [End -> BOOLEAN] /\ ~inTable'[e]
      /\ \A c \in End : c # e => inTable'[c] = inTable[c] /\ sock'[c] = sock[c]
  BY <1>0, <1>1 DEF TypeOK, TeardownTypeOK
<1>4. \A c \in End : Kept(c) /\ Heard(c)
  <2>1. \A c \in End : TopOf(sock[c]) \in Int
    BY <1>0, TopIsInt DEF TypeOK
  <2>2. \A c \in End : TopOf(sock[c]) <= TopOf(sock[c])
    BY <2>1
  <2>. QED
    BY <1>3, <2>2 DEF Kept, Heard
<1>5. RestTyped
  <2>1. recvFifo' \in [End -> Seq(Byte)] /\ recvCall' \in [End -> RecvCall]
    BY <1>0, TellPartnerTypes DEF RemoveSocket
  <2>2. sendFifo' \in [End -> Seq(Byte)]
    BY <1>0, <1>1 DEF TypeOK
  <2>. QED
    BY <1>0, <1>1, <1>3, <2>1, <2>2 DEF RestTyped, TypeOK, TeardownTypeOK, CloseCall
<1>. QED
  BY <1>0, <1>1, <1>2, <1>4, <1>5, SameSegments, SameHistory DEF Step

\* The manager stops: nothing is left.
LEMMA StopManagerStep ==
    ASSUME FinInv, NEW e \in End, StopManager(e)
    PROVE  Step
<1>0. TypeOK /\ TeardownTypeOK /\ FinAckIsTrue
  BY DEF FinInv, Wellformed, TeardownTypeOK
<1>1. /\ up' = FALSE
      /\ inTable' = [c \in End |-> FALSE]
      /\ sock' = [c \in End |-> Freed]
      /\ inPackets' = [c \in End |-> <<>>]
      /\ sendFifo' = [c \in End |-> <<>>]
      /\ closeCall' = [c \in End |-> IF closeCall[c] = "blocked" THEN "done" ELSE closeCall[c]]
      /\ UNCHANGED <<written, delivered, received, told, finTaken, finAcked>>
  BY DEF StopManager
<1>2. SocketsTyped
  BY <1>1, FreedIsSocket DEF SocketsTyped
<1>3. \A c \in End : Kept(c) /\ Heard(c)
  BY <1>1 DEF Kept, Heard
<1>4. SegmentsTyped
  <2>1. <<>> \in Seq(Segment) /\ \A i \in 1 .. Len(<<>>) : FALSE
    OBVIOUS
  <2>. QED
    BY <1>1, <2>1 DEF SegmentsTyped
<1>5. RestTyped
  <2>1. recvFifo' \in [End -> Seq(Byte)] /\ recvCall' \in [End -> RecvCall]
    BY <1>0, TellPartnerTypes DEF StopManager
  <2>2. <<>> \in Seq(Byte)
    OBVIOUS
  <2>. QED
    BY <1>0, <1>1, <2>1, <2>2 DEF RestTyped, TypeOK, TeardownTypeOK, CloseCall
<1>. QED
  BY <1>0, <1>1, <1>2, <1>3, <1>4, <1>5, SameHistory DEF Step

----------------------------------------------------------------------------
(* The invariant.                                                          *)

LEMMA TeardownInitInv == TeardownInit => FinInv
<1>. SUFFICES ASSUME TeardownInit PROVE FinInv
  OBVIOUS
<1>1. Inv
  BY InitInv DEF TeardownInit
<1>2. \A e \in End : /\ inPackets[e] = <<>> /\ Len(inPackets[e]) = 0
                     /\ sock[e] = NewSocket("ESTABLISHED", Isn[e], Isn[Peer(e)])
                     /\ Isn[e] \in Int /\ Isn[Peer(e)] \in Int
  BY DataAssumption, PeerProperties DEF TeardownInit, Init
<1>3. TeardownTypeOK
  BY <1>1 DEF Inv, TeardownTypeOK, TeardownInit, CloseCall
<1>4. ASSUME NEW e \in End PROVE ReceiverBelow(sock[e], TopOf(sock[Peer(e)]))
  <2>. DEFINE d == Peer(e)
  <2>1. d \in End /\ Peer(d) = e
    BY PeerProperties
  <2>2. /\ sock[e].recv_seq = Isn[d] /\ \A k \in Slot : sock[e].recv_window[k] = NoByte
        /\ sock[d].state = "ESTABLISHED" /\ sock[d].send_seq = Isn[d]
        /\ Len(sock[d].send_window) = 0 /\ Isn[d] \in Int
    <3>1. Len(<<>>) = 0
      OBVIOUS
    <3>2. \A c \in End : /\ sock[c].state = "ESTABLISHED" /\ sock[c].send_seq = Isn[c]
                         /\ sock[c].send_window = <<>> /\ sock[c].recv_seq = Isn[Peer(c)]
                         /\ \A k \in Slot : sock[c].recv_window[k] = NoByte
      <4>. SUFFICES ASSUME NEW c \in End
                    PROVE  /\ sock[c].state = "ESTABLISHED" /\ sock[c].send_seq = Isn[c]
                           /\ sock[c].send_window = <<>> /\ sock[c].recv_seq = Isn[Peer(c)]
                           /\ \A k \in Slot : sock[c].recv_window[k] = NoByte
        OBVIOUS
      <4>1. sock[c] = NewSocket("ESTABLISHED", Isn[c], Isn[Peer(c)])
        BY <1>2
      <4>. QED
        BY <4>1 DEF NewSocket
    <3>. HIDE DEF d
    <3>. QED
      BY <1>2, <2>1, <3>1, <3>2 DEF d
  <2>. HIDE DEF d
  <2>3. TopOf(sock[d]) = Isn[d]
    BY <2>2 DEF TopOf
  <2>4. ReceiverBelow(sock[e], TopOf(sock[d]))
    BY <2>2, <2>3 DEF ReceiverBelow
  <2>. QED
    BY <2>4 DEF d
<1>. QED
  BY <1>2, <1>3, <1>4 DEF FinInv, Wellformed, SegmentsAreKnown, ReceivedWasSent,
                          SegmentsWereSent, AcksAreOfData, FinAckIsTrue, TeardownInit

LEMMA StepOfNext == FinInv /\ TeardownNext => Step
<1>. SUFFICES ASSUME FinInv, NEW e \in End,
              \/ TransferCall(e) \/ TellingRead(e) \/ SocketClose(e)
              \/ Transfer(e) \/ HandleEstablished(e) \/ HandleClosing(e) \/ HandleOther(e)
              \/ HandleCloseCommand(e) \/ ResendFin(e) \/ TimerStep(e) \/ StopManager(e)
              PROVE  Step
  BY DEF TeardownNext
<1>. QED
  BY ProgramStep, TransferStep, HandleEstablishedStep, HandleClosingStep,
     HandleOtherStep, CloseStep, TimeWaitStep, SendingStep, RemoveSocketStep, StopManagerStep
     DEF TimerStep

LEMMA TeardownNextInv == FinInv /\ [TeardownNext]_allVars => FinInv'
<1>. SUFFICES ASSUME FinInv, [TeardownNext]_allVars PROVE FinInv'
  OBVIOUS
<1>1. CASE UNCHANGED allVars
  BY <1>1 DEF allVars, vars, life, FinInv, Wellformed, TeardownTypeOK, TypeOK,
              SegmentsAreKnown, ReceivedWasSent, SegmentsWereSent, AcksAreOfData,
              FinAckIsTrue, KnownSegment, ReceiverBelow, TopOf
<1>. QED
  BY <1>1, StepOfNext, StepKeepsFinInv

\* Every variable has its type through every close, reset, removal and stop.
THEOREM TeardownTypes == TeardownSpec => []TeardownTypeOK
<1>1. FinInv => TeardownTypeOK
  BY DEF FinInv, Wellformed
<1>. QED
  BY <1>1, TeardownInitInv, TeardownNextInv, PTL DEF TeardownSpec

\* What an end takes for the ACK of its FIN is one, whatever is in the send
\* windows, on its way or resent, and whichever close commands and timers come
\* in between.
THEOREM FinAcksAreTrue == TeardownSpec => []FinAckIsTrue
<1>1. FinInv => FinAckIsTrue
  BY DEF FinInv
<1>. QED
  BY <1>1, TeardownInitInv, TeardownNextInv, PTL DEF TeardownSpec

----------------------------------------------------------------------------
(* The stream through the end of the connection.                           *)

\* No message contains the char that stands for the end of the connection.
MessagesAvoidMarker == \A e \in End : \A i \in 1 .. Len(Message[e]) : Message[e][i] # CONN_CLOSED

Open(e) == inTable[e] /\ sock[e].state = "ESTABLISHED"

\* The send window and the send fifo of an open end hold the rest of what the
\* program wrote.
SenderGood(e) ==
    /\ Isn[e] <= sock[e].send_seq
    /\ SendEnd(e) - Isn[e] + Len(sendFifo[e]) = written[e]
    /\ \A i \in 1 .. Len(sendFifo[e]) : sendFifo[e][i] = StreamByte(e, SendEnd(e) + i - 1)
    /\ \A i \in 1 .. Len(sock[e].send_window) :
            sock[e].send_window[i] = StreamByte(e, sock[e].send_seq + i - 1)

\* The data of a segment to e is a piece of what the other end wrote.
Piece(e, p) ==
    /\ p.seq + Len(p.data) - Isn[Peer(e)] <= written[Peer(e)]
    /\ \A j \in 1 .. Len(p.data) : p.data[j] = StreamByte(Peer(e), p.seq + j - 1)

ReceiverGood(e) ==
    /\ sock[e].recv_seq = Isn[Peer(e)] + Len(delivered[e])
    /\ \A k \in Slot : sock[e].recv_window[k] # NoByte =>
            /\ sock[e].recv_seq + k - Isn[Peer(e)] < written[Peer(e)]
            /\ sock[e].recv_window[k] = StreamByte(Peer(e), sock[e].recv_seq + k)

DeliveredGood(e) ==
    /\ Len(delivered[e]) <= written[Peer(e)]
    /\ \A i \in 1 .. Len(delivered[e]) : delivered[e][i] = Message[Peer(e)][i]

HasMarker(e) == \E i \in 1 .. Len(recvFifo[e]) : recvFifo[e][i] = CONN_CLOSED

StreamInv ==
    /\ FinInv
    /\ \A e \in End : Open(e) => SenderGood(e) /\ ReceiverGood(e)
    /\ \A e \in End : \A i \in 1 .. Len(inPackets[e]) :
            inPackets[e][i].data # <<>> => Piece(e, inPackets[e][i])
    /\ \A e \in End : DeliveredGood(e)
    /\ \A e \in End : HasMarker(e) => ~Open(Peer(e))

\* What a step does to the stream, besides what Step says of the segments.
StreamStep ==
    /\ \A e \in End : written[e] <= written'[e]
    /\ \A e \in End : Open(e)' => Open(e) /\ SenderGood(e)' /\ ReceiverGood(e)'
    /\ \A e \in End : DeliveredGood(e)'
    /\ \A e \in End : HasMarker(e)' => HasMarker(e) \/ ~Open(Peer(e))'

\* A piece of what was written stays one.
LEMMA PieceStable ==
    ASSUME TypeOK, NEW e \in End, NEW p \in Segment, Piece(e, p),
           written' \in [End -> Nat], written[Peer(e)] <= written'[Peer(e)]
    PROVE  Piece(e, p)'
<1>1. /\ p.seq + Len(p.data) - Isn[Peer(e)] \in Int
      /\ written[Peer(e)] \in Int /\ written'[Peer(e)] \in Int
  <2>1. p.seq \in Int /\ Len(p.data) \in Int /\ Isn[Peer(e)] \in Int
    BY PeerProperties, DataAssumption DEF Segment
  <2>2. p.seq + Len(p.data) - Isn[Peer(e)] \in Int
    BY <2>1
  <2>3. written[Peer(e)] \in Int /\ written'[Peer(e)] \in Int
    BY PeerProperties DEF TypeOK
  <2>. QED
    BY <2>2, <2>3
<1>. QED
  BY <1>1 DEF Piece, StreamByte

\* What an open end cuts from its send window is a piece of its stream.
LEMMA CutIsPiece ==
    ASSUME TypeOK, NEW e \in End, SenderGood(e)
    PROVE  Piece(Peer(e), construct_packet(sock[e], get_next_socket_packet_data(sock[e]), {"ACK"}))
<1>. DEFINE s == sock[e]
            q == s.send_window
            n == DataLength(q)
            data == get_next_socket_packet_data(s)
            p == construct_packet(s, data, {"ACK"})
<1>1. /\ s \in Socket /\ q \in Seq(Byte) /\ Len(q) \in Nat /\ s.send_seq \in Int
      /\ Isn[e] \in Int /\ sendFifo[e] \in Seq(Byte) /\ Len(sendFifo[e]) \in Nat
      /\ written[e] \in Nat /\ Peer(Peer(e)) = e
  BY SocketTypes, DataAssumption, PeerProperties DEF TypeOK
<1>2. n \in 0 .. Len(q)
  BY <1>1, DataLengthProperties
<1>3. data = SubSeq(q, 0 + 1, n) /\ 0 \in Nat
  BY DEF get_next_socket_packet_data
<1>4. p.seq = s.send_seq /\ p.data = data
  BY DEF construct_packet
<1>8. /\ s.send_seq + Len(q) - Isn[e] + Len(sendFifo[e]) = written[e]
      /\ \A j \in 1 .. Len(q) : q[j] = StreamByte(e, s.send_seq + j - 1)
  <2>1. SendEnd(e) = s.send_seq + Len(q)
    BY DEF SendEnd
  <2>2. SendEnd(e) - Isn[e] + Len(sendFifo[e]) = written[e]
    BY DEF SenderGood
  <2>3. \A j \in 1 .. Len(q) : q[j] = StreamByte(e, s.send_seq + j - 1)
    BY DEF SenderGood
  <2>4. s.send_seq + Len(q) - Isn[e] + Len(sendFifo[e]) = written[e]
    BY <1>1, <2>1, <2>2
  <2>. QED
    BY <2>3, <2>4, Zenon
<1>. HIDE DEF n, q, data, p
<1>5. n \in Nat /\ 0 <= n /\ n <= Len(q)
  BY <1>1, <1>2
<1>6. /\ Len(SubSeq(q, 0 + 1, n)) = n - 0
      /\ \A i \in 1 .. n - 0 : SubSeq(q, 0 + 1, n)[i] = q[0 + i]
  BY <1>1, <1>3, <1>5, Slice
<1>7. Len(data) = n /\ \A j \in 1 .. n : data[j] = q[j]
  BY <1>3, <1>5, <1>6
<1>9. s.send_seq + n - Isn[e] <= written[e]
  BY SMTT(30), <1>1, <1>5, <1>8
<1>10. \A j \in 1 .. n : data[j] = StreamByte(e, s.send_seq + j - 1)
  <2>1. \A j \in 1 .. n : j \in 1 .. Len(q)
    BY <1>1, <1>5
  <2>. QED
    BY <1>7, <1>8, <2>1, Zenon
<1>11. Piece(Peer(e), p)
  BY <1>1, <1>4, <1>7, <1>9, <1>10 DEF Piece
<1>. QED
  BY <1>11 DEF p, data

LEMMA StreamStepKeepsInv ==
    ASSUME StreamInv, Step, StreamStep
    PROVE  StreamInv'
<1>0. /\ FinInv /\ FinInv' /\ TypeOK /\ TypeOK'
  <2>1. FinInv'
    BY StepKeepsFinInv DEF StreamInv
  <2>. QED
    BY <2>1 DEF StreamInv, FinInv, Wellformed, TeardownTypeOK
<1>1. ASSUME NEW e \in End, NEW i \in 1 .. Len(inPackets'[e]), inPackets'[e][i].data # <<>>
      PROVE  Piece(e, inPackets[e][i])'
  <2>. DEFINE q == inPackets'[e][i]
  <2>1. written' \in [End -> Nat] /\ written[Peer(e)] <= written'[Peer(e)]
    BY <1>0, PeerProperties DEF TypeOK, StreamStep
  <2>2. OldOrSent(e, q)
    BY DEF Step, SegmentsTyped
  <2>3. Piece(e, q) /\ q \in Segment
    <3>1. ASSUME NEW j \in 1 .. Len(inPackets[e]), q = inPackets[e][j]
          PROVE  Piece(e, q) /\ q \in Segment
      <4>1. inPackets[e][j] \in Segment /\ inPackets[e][j].data # <<>>
        BY <1>0, <1>1, <3>1, SegmentTypes
      <4>2. Piece(e, inPackets[e][j])
        BY <4>1 DEF StreamInv
      <4>. QED
        BY <3>1, <4>1, <4>2
    <3>2. CASE SentBy(Peer(e), q)
      <4>. DEFINE d == Peer(e)
      <4>1. d \in End /\ Peer(d) = e
        BY PeerProperties
      <4>2. /\ d \in Sockets({"ESTABLISHED"}) /\ q \in Segment
            /\ q = construct_packet(sock[d], get_next_socket_packet_data(sock[d]), {"ACK"})
        BY <1>1, <3>2 DEF SentBy
      <4>3. SenderGood(d)
        BY <4>1, <4>2 DEF Sockets, StreamInv, Open
      <4>. HIDE DEF d, q
      <4>4. Piece(Peer(d), construct_packet(sock[d], get_next_socket_packet_data(sock[d]), {"ACK"}))
        BY <1>0, <4>1, <4>3, CutIsPiece
      <4>. QED
        BY <4>1, <4>2, <4>4
    <3>. QED
      BY <2>2, <3>1, <3>2 DEF OldOrSent
  <2>4. \A x \in Segment : Piece(e, x) => Piece(e, x)'
    BY <1>0, <2>1, PieceStable
  <2>. QED
    BY <2>3, <2>4
<1>2. \A e \in End : HasMarker(e)' => ~Open(Peer(e))'
  <2>. SUFFICES ASSUME NEW e \in End, HasMarker(e)', Open(Peer(e))' PROVE FALSE
    OBVIOUS
  <2>1. HasMarker(e)
    BY DEF StreamStep
  <2>2. Open(Peer(e))
    BY PeerProperties DEF StreamStep
  <2>. QED
    BY <2>1, <2>2 DEF StreamInv
<1>. QED
  BY <1>0, <1>1, <1>2 DEF StreamStep, StreamInv

\* The steps that put no byte anywhere: an end that is still open has what it
\* had.
LEMMA QuietStream ==
    ASSUME StreamInv, written' = written, delivered' = delivered,
           \A e \in End : Open(e)' =>
                /\ Open(e) /\ sendFifo'[e] = sendFifo[e]
                /\ sock'[e].send_seq = sock[e].send_seq
                /\ sock'[e].send_window = sock[e].send_window
                /\ sock'[e].recv_seq = sock[e].recv_seq
                /\ sock'[e].recv_window = sock[e].recv_window,
           \A e \in End : HasMarker(e)' => HasMarker(e) \/ ~Open(Peer(e))'
    PROVE  StreamStep
<1>1. \A e \in End : written[e] <= written'[e]
  BY DEF StreamInv, FinInv, Wellformed, TeardownTypeOK, TypeOK
<1>2. ASSUME NEW e \in End, Open(e)'
      PROVE  Open(e) /\ SenderGood(e)' /\ ReceiverGood(e)'
  <2>1. Open(e) /\ SenderGood(e) /\ ReceiverGood(e)
    BY <1>2 DEF StreamInv
  <2>2. /\ sendFifo'[e] = sendFifo[e]
        /\ sock'[e].send_seq = sock[e].send_seq
        /\ sock'[e].send_window = sock[e].send_window
        /\ sock'[e].recv_seq = sock[e].recv_seq
        /\ sock'[e].recv_window = sock[e].recv_window
    BY <1>2
  <2>3. SendEnd(e)' = SendEnd(e)
    BY <2>2 DEF SendEnd
  <2>4. SenderGood(e)'
    BY <2>1, <2>2, <2>3 DEF SenderGood, StreamByte
  <2>5. ReceiverGood(e)'
    BY <2>1, <2>2 DEF ReceiverGood, StreamByte
  <2>. QED
    BY <2>1, <2>4, <2>5
<1>3. \A e \in End : DeliveredGood(e)'
  BY DEF StreamInv, DeliveredGood
<1>. QED
  BY <1>1, <1>2, <1>3 DEF StreamStep

\* A marker in a piece of a fifo was in the fifo.
LEMMA SuffixMarker ==
    ASSUME NEW q \in Seq(Byte), NEW n \in 0 .. Len(q),
           NEW i \in 1 .. Len(SubSeq(q, n + 1, Len(q))),
           SubSeq(q, n + 1, Len(q))[i] = CONN_CLOSED
    PROVE  \E j \in 1 .. Len(q) : q[j] = CONN_CLOSED
<1>1. n \in Nat /\ Len(q) \in Nat /\ n <= Len(q)
  OBVIOUS
<1>2. /\ Len(SubSeq(q, n + 1, Len(q))) = Len(q) - n
      /\ \A j \in 1 .. Len(q) - n : SubSeq(q, n + 1, Len(q))[j] = q[n + j]
  BY <1>1, Slice
<1>3. n + i \in 1 .. Len(q) /\ q[n + i] = CONN_CLOSED
  BY <1>1, <1>2
<1>. QED
  BY <1>3

\* The marker goes into the recv fifo of the partner of an end that goes away.
LEMMA TellPartnerMarks ==
    ASSUME TypeOK, NEW e \in End, TellPartner(e), ~inTable'[e],
           NEW c \in End, HasMarker(c)'
    PROVE  HasMarker(c) \/ ~Open(Peer(c))'
<1>1. CASE recvFifo' = recvFifo
  BY <1>1 DEF HasMarker
<1>2. CASE recvFifo' # recvFifo /\ c = Peer(e)
  <2>1. Peer(c) = e
    BY <1>2, PeerProperties
  <2>. QED
    BY <2>1 DEF Open
<1>3. CASE recvFifo' # recvFifo /\ c # Peer(e)
  <2>1. recvFifo' = [recvFifo EXCEPT ![Peer(e)] = Append(@, CONN_CLOSED)]
    BY <1>3 DEF TellPartner
  <2>2. recvFifo'[c] = recvFifo[c]
    BY <1>3, <2>1 DEF TypeOK
  <2>. QED
    BY <2>2 DEF HasMarker
<1>. QED
  BY <1>1, <1>2, <1>3

\* The manager's steps other than the transfer and the segments of an open
\* socket.
LEMMA ManagerStream ==
    ASSUME StreamInv, NEW e \in End,
           \/ HandleClosing(e) \/ HandleOther(e) \/ HandleCloseCommand(e)
           \/ ResendFin(e) \/ TimerStep(e) \/ StopManager(e)
    PROVE  StreamStep /\ written' = written /\ delivered' = delivered /\ told' = told
<1>0. TypeOK /\ TeardownTypeOK
  BY DEF StreamInv, FinInv, Wellformed, TeardownTypeOK
<1>1. CASE \/ HandleClosing(e) \/ HandleOther(e) \/ HandleCloseCommand(e)
           \/ ResendFin(e) \/ GiveUp(e) \/ CloseWaitToLastAck(e) \/ TimeWaitToClosed(e)
  <2>1. UNCHANGED <<written, sendFifo, recvFifo, delivered, inTable, told>>
    BY <1>1 DEF HandleClosing, HandleOther, HandleCloseCommand, ResendFin, GiveUp, Emit,
                CloseWaitToLastAck, TimeWaitToClosed, life
  <2>2. \/ sock' = sock
        \/ /\ \A c \in End : c # e => sock'[c] = sock[c]
           /\ sock'[e].state # "ESTABLISHED"
    <3>1. CASE HandleClosing(e)
      <4>. DEFINE s == sock[e]
                  p == Next_(e)
                  r == CASE s.state = "FIN_WAIT_1" -> handle_packet_fin_wait_1(s, p)
                         [] s.state = "FIN_WAIT_2" -> handle_packet_fin_wait_2(s, p)
                         [] s.state = "CLOSING" -> handle_packet_closing(s, p)
                         [] s.state = "LAST_ACK" -> handle_packet_last_ack(s, p)
      <4>1. /\ sock' = [sock EXCEPT ![e] = r.sock]
            /\ s.state \in {"FIN_WAIT_1", "FIN_WAIT_2", "CLOSING", "LAST_ACK"}
            /\ inPackets[e] # <<>>
        BY <3>1 DEF HandleClosing, Sockets, Plain, HasSegment
      <4>2. s \in Socket /\ p \in Segment
        BY <1>0, <4>1, OneTaken DEF TypeOK
      <4>. HIDE DEF s, p
      <4>3. /\ handle_packet_fin_wait_1(s, p).sock.state
                    \in {s.state, "FIN_WAIT_2", "CLOSING", "TIME_WAIT"}
            /\ handle_packet_fin_wait_2(s, p).sock.state \in {s.state, "TIME_WAIT"}
            /\ handle_packet_closing(s, p).sock.state \in {s.state, "TIME_WAIT"}
            /\ handle_packet_last_ack(s, p).sock.state \in {s.state, "CLOSED"}
        BY <4>2, ClosingStates DEF GoodResult
      <4>4. r.sock.state # "ESTABLISHED"
        <5>1. CASE s.state = "FIN_WAIT_1"
          BY <4>3, <5>1
        <5>2. CASE s.state = "FIN_WAIT_2"
          BY <4>3, <5>2
        <5>3. CASE s.state = "CLOSING"
          BY <4>3, <5>3
        <5>4. CASE s.state = "LAST_ACK"
          BY <4>3, <5>4
        <5>. QED
          BY <4>1, <5>1, <5>2, <5>3, <5>4
      <4>. HIDE DEF r
      <4>. QED
        BY <1>0, <4>1, <4>4 DEF TypeOK
    <3>2. CASE ~HandleClosing(e)
      BY <1>0, <1>1, <3>2 DEF HandleOther, HandleCloseCommand, ResendFin, GiveUp, Emit,
                CloseWaitToLastAck, TimeWaitToClosed, life, TypeOK, Socket
    <3>. QED
      BY <3>1, <3>2
  <2>3. \A c \in End : Open(c)' => Open(c) /\ sock'[c] = sock[c]
    BY <2>1, <2>2 DEF Open
  <2>4. \A c \in End : HasMarker(c)' => HasMarker(c)
    BY <2>1 DEF HasMarker
  <2>. QED
    BY <2>1, <2>3, <2>4, QuietStream
<1>2. CASE RemoveSocket(e) \/ StopManager(e)
  <2>1. /\ UNCHANGED <<written, delivered, told>>
        /\ TellPartner(e) /\ ~inTable'[e]
        /\ \A c \in End : inTable'[c] => /\ inTable[c] /\ sock'[c] = sock[c]
                                         /\ sendFifo'[c] = sendFifo[c]
    BY <1>0, <1>2 DEF RemoveSocket, StopManager, TypeOK, TeardownTypeOK
  <2>2. \A c \in End : HasMarker(c)' => HasMarker(c) \/ ~Open(Peer(c))'
    BY <1>0, <2>1, TellPartnerMarks
  <2>3. \A c \in End : Open(c)' => Open(c) /\ sock'[c] = sock[c] /\ sendFifo'[c] = sendFifo[c]
    BY <2>1 DEF Open
  <2>. QED
    BY <2>1, <2>2, <2>3, QuietStream
<1>. QED
  BY <1>1, <1>2 DEF TimerStep

\* The calls of the program other than SocketSend, and the send window.
LEMMA CallStream ==
    ASSUME StreamInv, NEW e \in End,
           \/ RecvOpen(e) /\ UNCHANGED life
           \/ RecvClose(e) /\ UNCHANGED life
           \/ SendWindow(e) /\ UNCHANGED life
           \/ TellingRead(e) \/ SocketClose(e)
    PROVE  StreamStep /\ written' = written /\ delivered' = delivered /\ Open(e)' = Open(e)
<1>0. TypeOK
  BY DEF StreamInv, FinInv, Wellformed, TeardownTypeOK
<1>1. UNCHANGED <<sock, sendFifo, written, delivered, inTable>>
  BY DEF RecvOpen, RecvClose, SendWindow, TellingRead, RecvRead, SocketClose, life, vars
<1>2. \A c \in End : HasMarker(c)' => HasMarker(c)
  <2>1. CASE recvFifo' = recvFifo
    BY <2>1 DEF HasMarker
  <2>2. CASE RecvClose(e)
    <3>1. /\ recvFifo'[e] = <<>> /\ \A c \in End : c # e => recvFifo'[c] = recvFifo[c]
      BY <1>0, <2>2 DEF RecvClose, TypeOK
    <3>2. \A i \in 1 .. Len(<<>>) : FALSE
      OBVIOUS
    <3>. QED
      BY <3>1, <3>2 DEF HasMarker
  <2>3. CASE TellingRead(e)
    <3>. DEFINE n == IF Len(recvFifo[e]) < BufferLen THEN Len(recvFifo[e]) ELSE BufferLen
                rest == SubSeq(recvFifo[e], n + 1, Len(recvFifo[e]))
    <3>1. recvFifo[e] \in Seq(Byte)
      BY <1>0 DEF TypeOK
    <3>2. n \in 0 .. Len(recvFifo[e])
      BY <3>1, DataAssumption
    <3>. HIDE DEF n
    <3>3. /\ recvFifo'[e] = rest
          /\ \A c \in End : c # e => recvFifo'[c] = recvFifo[c]
      BY <1>0, <2>3 DEF TellingRead, RecvRead, n, TypeOK
    <3>4. HasMarker(e)' => HasMarker(e)
      BY <3>1, <3>2, <3>3, SuffixMarker DEF HasMarker
    <3>. QED
      BY <3>3, <3>4 DEF HasMarker
  <2>. QED
    BY <2>1, <2>2, <2>3 DEF RecvOpen, SendWindow, SocketClose, vars
<1>3. \A c \in End : Open(c)' = Open(c)
  BY <1>1 DEF Open
<1>. QED
  BY <1>1, <1>2, <1>3, QuietStream

\* Where nothing but one end's sending side changes.
LEMMA SenderStream ==
    ASSUME StreamInv, NEW e \in End, recvFifo' = recvFifo, delivered' = delivered,
           inTable' = inTable,
           \A c \in End : /\ sock'[c].state = sock[c].state
                          /\ sock'[c].recv_seq = sock[c].recv_seq
                          /\ sock'[c].recv_window = sock[c].recv_window
                          /\ written[c] <= written'[c],
           \A c \in End : c # e => /\ sock'[c] = sock[c] /\ sendFifo'[c] = sendFifo[c]
                                   /\ written'[c] = written[c],
           written' \in [End -> Nat],
           Open(e) => SenderGood(e)'
    PROVE  StreamStep
<1>0. TypeOK
  BY DEF StreamInv, FinInv, Wellformed, TeardownTypeOK
<1>1. ASSUME NEW c \in End, Open(c)'
      PROVE  Open(c) /\ SenderGood(c)' /\ ReceiverGood(c)'
  <2>1. Open(c) /\ SenderGood(c) /\ ReceiverGood(c)
    BY <1>1 DEF Open, StreamInv
  <2>2. SenderGood(c)'
    <3>1. CASE c = e
      BY <2>1, <3>1
    <3>2. CASE c # e
      BY <2>1, <3>2 DEF SenderGood, SendEnd, StreamByte
    <3>. QED
      BY <3>1, <3>2
  <2>3. ReceiverGood(c)'
    <3>. DEFINE d == Peer(c)
    <3>0. d \in End
      BY PeerProperties
    <3>. HIDE DEF d
    <3>1. /\ sock[c].recv_seq \in Int /\ Isn[d] \in Int
          /\ written[d] \in Int /\ written'[d] \in Int /\ written[d] <= written'[d]
          /\ \A k \in Slot : k \in Int
      <4>1. sock[c] \in Socket /\ Isn[d] \in Int /\ written[d] \in Nat
        BY <1>0, <3>0, DataAssumption DEF TypeOK
      <4>2. sock[c].recv_seq \in Int
        BY <4>1, SocketTypes
      <4>3. \A k \in Slot : k \in Int
        BY SizeAssumption DEF Slot
      <4>4. written'[d] \in Nat /\ written[d] <= written'[d]
        BY <3>0
      <4>. QED
        BY <4>1, <4>2, <4>3, <4>4
    <3>2. \A k \in Slot : sock[c].recv_seq + k - Isn[d] < written[d]
                            => sock[c].recv_seq + k - Isn[d] < written'[d]
      BY <3>1
    <3>. QED
      BY <2>1, <3>2 DEF ReceiverGood, StreamByte, d
  <2>. QED
    BY <2>1, <2>2, <2>3
<1>2. ASSUME NEW c \in End PROVE DeliveredGood(c)'
  <2>1. /\ Len(delivered[c]) \in Int /\ written[Peer(c)] \in Int /\ written'[Peer(c)] \in Int
        /\ written[Peer(c)] <= written'[Peer(c)]
    BY <1>0, PeerProperties DEF TypeOK
  <2>2. DeliveredGood(c)
    BY DEF StreamInv
  <2>. QED
    BY <2>1, <2>2 DEF DeliveredGood
<1>3. \A c \in End : HasMarker(c)' => HasMarker(c)
  BY DEF HasMarker
<1>. QED
  BY <1>1, <1>2, <1>3 DEF StreamStep

\* What a program writes continues the stream.
LEMMA SocketSendStream ==
    ASSUME StreamInv, NEW e \in End, SocketSend(e), UNCHANGED life
    PROVE  /\ StreamStep /\ \A c \in End : Open(c)' = Open(c)
           /\ written[e] <= written'[e] /\ written' = [written EXCEPT ![e] = written'[e]]
           /\ delivered' = delivered
<1>0. TypeOK
  BY DEF StreamInv, FinInv, Wellformed, TeardownTypeOK
<1>1. PICK n \in written[e] + 1 .. Len(Message[e]) :
        /\ written' = [written EXCEPT ![e] = n]
        /\ sendFifo' = [sendFifo EXCEPT ![e] = @ \o SubSeq(Message[e], written[e] + 1, n)]
        /\ UNCHANGED <<sock, inPackets, recvFifo, recvCall, delivered, received>>
  BY DEF SocketSend
<1>. DEFINE w == written[e]
            m == Message[e]
            f == sendFifo[e]
            new == SubSeq(m, w + 1, n)
            top == SendEnd(e)
            isn == Isn[e]
<1>2. /\ w \in Nat /\ m \in Seq(Byte) /\ Len(m) \in Nat
      /\ f \in Seq(Byte) /\ Len(f) \in Nat /\ isn \in Int
  BY <1>0, DataAssumption DEF TypeOK
<1>3. n \in Nat /\ w < n /\ n <= Len(m)
  BY <1>2
<1>4. top \in Int
  <2>1. sock[e].send_seq \in Int /\ Len(sock[e].send_window) \in Int
    BY <1>0, SocketTypes DEF TypeOK
  <2>. QED
    BY <2>1 DEF SendEnd
<1>5. SendEnd(e)' = top /\ inTable' = inTable
  BY <1>1 DEF SendEnd, life
<1>6. /\ written'[e] = n /\ written' \in [End -> Nat]
      /\ \A c \in End : c # e => written'[c] = written[c] /\ sendFifo'[c] = sendFifo[c]
      /\ sendFifo'[e] = f \o new
  BY <1>0, <1>1, <1>3 DEF TypeOK
<1>7. \A c \in End : written[c] <= written'[c]
  <2>1. \A c \in End : written[c] \in Nat
    BY <1>0 DEF TypeOK
  <2>2. written[e] <= written'[e]
    BY <1>2, <1>3, <1>6
  <2>3. \A c \in End : c # e => written[c] <= written'[c]
    <3>1. \A k \in Nat : k <= k
      OBVIOUS
    <3>. QED
      BY <1>6, <2>1, <3>1, Zenon
  <2>. QED
    BY <2>2, <2>3, Zenon
<1>8. /\ new \in Seq(Byte) /\ Len(new) = n - w
      /\ \A i \in 1 .. n - w : new[i] = m[w + i]
  <2>. HIDE DEF w, m
  <2>1. w <= n
    BY <1>2, <1>3
  <2>. QED
    BY <1>2, <1>3, <2>1, Slice
<1>9. ASSUME Open(e) PROVE SenderGood(e)'
  <2>1. /\ isn <= sock[e].send_seq
        /\ top - isn + Len(f) = w
        /\ \A i \in 1 .. Len(f) : f[i] = StreamByte(e, top + i - 1)
        /\ \A i \in 1 .. Len(sock[e].send_window) :
                sock[e].send_window[i] = StreamByte(e, sock[e].send_seq + i - 1)
    BY <1>9 DEF StreamInv, SenderGood
  <2>2. \A j \in Int : StreamByte(e, j) = m[j - isn + 1]
    BY DEF StreamByte
  <2>. HIDE DEF w, m, f, new, top, isn
  <2>3. /\ Len(f \o new) = Len(f) + Len(new)
        /\ \A i \in 1 .. Len(f) + Len(new) :
                (f \o new)[i] = IF i <= Len(f) THEN f[i] ELSE new[i - Len(f)]
    BY <1>2, <1>8, ConcatProperties
  <2>4. Len(f \o new) = Len(f) + (n - w)
    BY <1>8, <2>3
  <2>a. top - isn + Len(f) = w
    BY <2>1
  <2>b. top \in Int /\ Len(f) \in Int /\ isn \in Int /\ w \in Int /\ n \in Int
    BY <1>2, <1>3, <1>4
  <2>5. top - isn + Len(f \o new) = n
    <3>1. top - isn + (Len(f) + (n - w)) = n
      BY <2>a, <2>b
    <3>. QED
      BY <2>4, <3>1, Zenon
  <2>6. ASSUME NEW i \in 1 .. Len(f \o new)
        PROVE  (f \o new)[i] = StreamByte(e, top + i - 1)
    <3>0. i \in 1 .. Len(f) + Len(new)
      BY <2>3
    <3>1. CASE i <= Len(f)
      <4>1. i \in 1 .. Len(f)
        BY <1>2, <1>3, <2>4, <3>1
      <4>2. (f \o new)[i] = f[i]
        BY <2>3, <3>0, <3>1
      <4>. QED
        BY <2>1, <4>1, <4>2, Zenon
    <3>2. CASE ~(i <= Len(f))
      <4>1. i - Len(f) \in 1 .. n - w /\ i \in Int
        BY <1>2, <1>3, <2>4, <3>2
      <4>2. (f \o new)[i] = new[i - Len(f)]
        BY <2>3, <3>0, <3>2
      <4>3. new[i - Len(f)] = m[w + (i - Len(f))]
        BY <1>8, <4>1
      <4>4. w + (i - Len(f)) = (top + i - 1) - isn + 1 /\ top + i - 1 \in Int
        <5>1. i \in Int
          BY <4>1
        <5>. QED
          BY <2>a, <2>b, <5>1
      <4>5. StreamByte(e, top + i - 1) = m[(top + i - 1) - isn + 1]
        BY <2>2, <4>4
      <4>. QED
        BY <4>2, <4>3, <4>4, <4>5, Zenon
    <3>. QED
      BY <3>1, <3>2
  <2>7. /\ sock' = sock /\ sendFifo'[e] = f \o new /\ written'[e] = n /\ SendEnd(e)' = top
    BY <1>1, <1>5, <1>6
  <2>. QED
    BY <2>1, <2>5, <2>6, <2>7 DEF SenderGood, StreamByte, isn
<1>. HIDE DEF w, m, f, new, top, isn
<1>10. StreamStep
  <2>1. \A c \in End : sock'[c] = sock[c]
    BY <1>1
  <2>. QED
    BY <1>1, <1>5, <1>6, <1>7, <1>9, <2>1, SenderStream
<1>11. \A c \in End : Open(c)' = Open(c)
  BY <1>1, <1>5 DEF Open
<1>. QED
  BY <1>1, <1>6, <1>7, <1>10, <1>11

\* A byte that moves from the send fifo to the end of the send window keeps its
\* place in the stream.
LEMMA ReadSendFifoStream ==
    ASSUME StreamInv, NEW e \in End, Open(e), ReadSendFifo(e), UNCHANGED life
    PROVE  StreamStep /\ written' = written /\ delivered' = delivered
           /\ \A c \in End : Open(c)' = Open(c)
<1>. DEFINE s == sock[e]
            q == s.send_window
            f == sendFifo[e]
            x == Head(f)
            isn == Isn[e]
            base == s.send_seq
<1>0. TypeOK
  BY DEF StreamInv, FinInv, Wellformed, TeardownTypeOK
<1>1. /\ f # <<>>
      /\ sock' = [sock EXCEPT ![e].send_window = Append(@, x)]
      /\ sendFifo' = [sendFifo EXCEPT ![e] = Tail(@)]
      /\ UNCHANGED <<inPackets, written, recvFifo, recvCall, delivered, received, inTable>>
  BY DEF ReadSendFifo, life
<1>2. /\ s \in Socket /\ isn \in Int /\ q \in Seq(Byte) /\ Len(q) \in Nat
      /\ base \in Int /\ f \in Seq(Byte) /\ Len(f) \in Nat /\ written[e] \in Nat
      /\ written \in [End -> Nat]
  BY <1>0, DataAssumption, SocketTypes DEF TypeOK
<1>3. /\ x \in Byte /\ x = f[1] /\ Len(f) >= 1
      /\ Len(Tail(f)) = Len(f) - 1
      /\ \A i \in 1 .. Len(Tail(f)) : Tail(f)[i] = f[i + 1]
  BY <1>1, <1>2, HeadTailProperties
<1>4. /\ Len(Append(q, x)) = Len(q) + 1
      /\ \A i \in 1 .. Len(Append(q, x)) :
            \/ i \in 1 .. Len(q) /\ Append(q, x)[i] = q[i]
            \/ i = Len(q) + 1 /\ Append(q, x)[i] = x
  <2>. HIDE DEF q, x
  <2>. QED
    BY <1>2, <1>3, AppendElements
<1>5. /\ sock'[e].send_window = Append(q, x) /\ sendFifo'[e] = Tail(f)
      /\ sock'[e].send_seq = base
      /\ \A c \in End : /\ sock'[c].state = sock[c].state
                        /\ sock'[c].recv_seq = sock[c].recv_seq
                        /\ sock'[c].recv_window = sock[c].recv_window
      /\ \A c \in End : c # e => sock'[c] = sock[c] /\ sendFifo'[c] = sendFifo[c]
  BY <1>0, <1>1 DEF TypeOK, Socket
<1>6. /\ isn <= base
      /\ SendEnd(e) - isn + Len(f) = written[e] /\ SendEnd(e) = base + Len(q)
      /\ \A i \in 1 .. Len(f) : f[i] = StreamByte(e, SendEnd(e) + i - 1)
      /\ \A i \in 1 .. Len(q) : q[i] = StreamByte(e, base + i - 1)
  <2>1. SenderGood(e)
    BY DEF StreamInv
  <2>. QED
    BY <2>1 DEF SenderGood, SendEnd
<1>. DEFINE top == SendEnd(e)
<1>7. top \in Int /\ SendEnd(e)' = top + 1
  <2>1. SendEnd(e)' = base + Len(Append(q, x))
    BY <1>5 DEF SendEnd
  <2>. HIDE DEF q, x, base
  <2>2. top = base + Len(q)
    BY <1>6
  <2>. HIDE DEF top
  <2>. QED
    BY <1>2, <1>4, <2>1, <2>2
<1>. HIDE DEF s, q, f, x, isn, base, top
<1>8. (top + 1) - isn + Len(Tail(f)) = written[e]
  <2>1. \A y, L, I, v \in Int : y - I + L = v => (y + 1) - I + (L - 1) = v
    OBVIOUS
  <2>2. top \in Int /\ Len(f) \in Int /\ isn \in Int /\ written[e] \in Int
    BY <1>2, <1>7
  <2>3. top - isn + Len(f) = written[e]
    BY <1>6 DEF top
  <2>4. (top + 1) - isn + (Len(f) - 1) = written[e]
    BY <2>2, <2>3
  <2>. QED
    BY <1>3, <2>4, Zenon
<1>9. ASSUME NEW i \in 1 .. Len(Tail(f))
      PROVE  Tail(f)[i] = StreamByte(e, (top + 1) + i - 1)
  <2>1. i + 1 \in 1 .. Len(f) /\ Tail(f)[i] = f[i + 1]
    BY <1>2, <1>3
  <2>2. f[i + 1] = StreamByte(e, top + (i + 1) - 1)
    BY <1>6, <2>1 DEF top
  <2>3. top + (i + 1) - 1 = (top + 1) + i - 1
    BY <1>7
  <2>. QED
    BY <2>1, <2>2, <2>3
<1>10. ASSUME NEW i \in 1 .. Len(Append(q, x))
       PROVE  Append(q, x)[i] = StreamByte(e, base + i - 1)
  <2>1. CASE i \in 1 .. Len(q) /\ Append(q, x)[i] = q[i]
    BY <1>6, <2>1, Zenon
  <2>2. CASE i = Len(q) + 1 /\ Append(q, x)[i] = x
    <3>1. 1 \in 1 .. Len(f)
      BY <1>2, <1>3
    <3>2. x = StreamByte(e, top + 1 - 1)
      BY <1>3, <1>6, <3>1 DEF top
    <3>3. top + 1 - 1 = base + i - 1
      BY <1>2, <1>6, <1>7, <2>2 DEF top
    <3>. QED
      BY <2>2, <3>2, <3>3
  <2>. QED
    BY <1>4, <2>1, <2>2
<1>11. SenderGood(e)'
  BY ZenonT(60), <1>1, <1>5, <1>6, <1>7, <1>8, <1>9, <1>10 DEF SenderGood, StreamByte, isn
<1>12. \A c \in End : written[c] <= written'[c] /\ written'[c] = written[c]
  BY <1>0, <1>1 DEF TypeOK
<1>13. StreamStep
  BY <1>1, <1>2, <1>5, <1>11, <1>12, SenderStream
<1>14. \A c \in End : Open(c)' = Open(c)
  BY <1>1, <1>5 DEF Open
<1>. QED
  BY <1>1, <1>13, <1>14

\* Every byte that can get into a slot of an open end is the byte of the other
\* end's stream with the slot's number.
LEMMA SourceIsStream ==
    ASSUME TypeOK, NEW e \in End, ReceiverGood(e),
           NEW p \in Segment, p.data # <<>> => Piece(e, p),
           NEW k \in Slot, NEW x, x # NoByte, Source(sock[e], p, k, x)
    PROVE  /\ sock[e].recv_seq + k - Isn[Peer(e)] < written[Peer(e)]
           /\ x = StreamByte(Peer(e), sock[e].recv_seq + k)
<1>. DEFINE d == Peer(e)
            recv == sock[e].recv_seq
<1>1. CASE x = sock[e].recv_window[k]
  BY <1>1 DEF ReceiverGood
<1>2. CASE \E i \in 1 .. Len(p.data) : p.seq + i - 1 = recv + k /\ x = p.data[i]
  <2>1. PICK i \in 1 .. Len(p.data) : p.seq + i - 1 = recv + k /\ x = p.data[i]
    BY <1>2
  <2>2. p.data \in Seq(Byte) /\ p.seq \in Int /\ Len(p.data) \in Int /\ i \in Int
    BY DEF Segment
  <2>3. p.data # <<>>
    <3>1. Len(<<>>) = 0
      OBVIOUS
    <3>. QED
      BY <2>1, <2>2, <3>1
  <2>4. /\ p.seq + Len(p.data) - Isn[d] <= written[d]
        /\ x = StreamByte(d, p.seq + i - 1)
    BY <2>1, <2>3 DEF Piece
  <2>5. Isn[d] \in Int /\ written[d] \in Int /\ i <= Len(p.data)
    BY PeerProperties, DataAssumption, <2>2 DEF TypeOK
  <2>. HIDE DEF d, recv
  <2>6. p.seq + i - 1 - Isn[d] < written[d]
    BY <2>2, <2>4, <2>5
  <2>7. p.seq + i - 1 - Isn[d] = (p.seq + i - 1) - Isn[d]
    BY <2>2, <2>5
  <2>8. recv + k - Isn[d] < written[d] /\ x = StreamByte(d, recv + k)
    <3>1. recv + k = p.seq + i - 1
      BY <2>1
    <3>2. k \in Int /\ recv \in Int
      BY SocketTypes, SizeAssumption DEF Slot, TypeOK, recv
    <3>3. recv + k - Isn[d] = (p.seq + i - 1) - Isn[d]
      BY <2>2, <2>5, <3>1, <3>2
    <3>. QED
      BY <2>4, <2>6, <2>7, <3>1, <3>3, Zenon
  <2>. QED
    BY <2>8 DEF d, recv
<1>. QED
  BY <1>1, <1>2 DEF Source

\* What an acknowledgement leaves in the send window is still the stream.
LEMMA AckedSender ==
    ASSUME TypeOK, NEW e \in End, SenderGood(e),
           NEW a \in Nat, a <= Len(sock[e].send_window), sock'[e] \in Socket,
           sock'[e].send_seq = sock[e].send_seq + a,
           Len(sock'[e].send_window) = Len(sock[e].send_window) - a,
           \A i \in 1 .. Len(sock'[e].send_window) :
                sock'[e].send_window[i] = sock[e].send_window[i + a],
           sendFifo'[e] = sendFifo[e], written'[e] = written[e]
    PROVE  SenderGood(e)'
<1>. DEFINE seq == sock[e].send_seq
            q == sock[e].send_window
<1>1. /\ seq \in Int /\ Len(q) \in Int /\ Isn[e] \in Int /\ Len(sock'[e].send_window) \in Int
      /\ Isn[e] <= seq
      /\ \A i \in 1 .. Len(q) : q[i] = StreamByte(e, seq + i - 1)
  BY SocketTypes, DataAssumption DEF TypeOK, SenderGood
<1>2. SendEnd(e)' = SendEnd(e)
  <2>1. SendEnd(e) = seq + Len(q) /\ SendEnd(e)' = (seq + a) + (Len(q) - a)
    BY DEF SendEnd
  <2>. HIDE DEF seq, q
  <2>. QED
    BY <1>1, <2>1
<1>3. Isn[e] <= sock'[e].send_seq
  BY <1>1
<1>4. ASSUME NEW i \in 1 .. Len(sock'[e].send_window)
      PROVE  sock'[e].send_window[i] = StreamByte(e, sock'[e].send_seq + i - 1)
  <2>1. i + a \in 1 .. Len(q)
    BY <1>1
  <2>2. seq + (i + a) - 1 = (seq + a) + i - 1
    BY <1>1
  <2>3. sock'[e].send_window[i] = q[i + a] /\ q[i + a] = StreamByte(e, seq + (i + a) - 1)
    BY <1>1, <2>1
  <2>. QED
    BY <2>2, <2>3
<1>. QED
  BY <1>2, <1>3, <1>4 DEF SenderGood, StreamByte

\* What an open end offers to its program continues the stream, and contains no
\* marker of its own.
LEMMA DeliveredReceiver ==
    ASSUME TypeOK, MessagesAvoidMarker, NEW e \in End, ReceiverGood(e), DeliveredGood(e),
           NEW p \in Segment, p.data # <<>> => Piece(e, p),
           NEW new \in Seq(Byte),
           sock'[e].recv_seq = sock[e].recv_seq + Len(new),
           \A i \in 1 .. Len(new) : i - 1 \in Slot /\ Source(sock[e], p, i - 1, new[i]),
           \A k \in Slot : sock'[e].recv_window[k] # NoByte =>
                k + Len(new) \in Slot /\ Source(sock[e], p, k + Len(new), sock'[e].recv_window[k]),
           delivered'[e] = delivered[e] \o new, written' = written
    PROVE  /\ ReceiverGood(e)' /\ DeliveredGood(e)'
           /\ \A i \in 1 .. Len(new) : new[i] # CONN_CLOSED
<1>. DEFINE d == Peer(e)
            recv == sock[e].recv_seq
            old == delivered[e]
            isn == Isn[d]
            w == written[d]
<1>1. /\ d \in End /\ recv \in Int /\ old \in Seq(Byte) /\ Len(old) \in Int /\ 0 <= Len(old)
      /\ isn \in Int /\ w \in Int /\ Len(new) \in Int /\ 0 <= Len(new)
      /\ w <= Len(Message[d]) /\ Len(Message[d]) \in Int
  <2>1. d \in End
    BY PeerProperties
  <2>2. sock[e] \in Socket /\ old \in Seq(Byte) /\ w \in Nat /\ w <= Len(Message[d])
    BY <2>1 DEF TypeOK
  <2>3. isn \in Int /\ Message[d] \in Seq(Byte)
    BY <2>1, DataAssumption
  <2>4. recv \in Int
    BY <2>2, SocketTypes
  <2>. QED
    BY <2>1, <2>2, <2>3, <2>4
<1>2. recv = isn + Len(old) /\ Len(old) <= w /\ \A i \in 1 .. Len(old) : old[i] = Message[d][i]
  BY DEF ReceiverGood, DeliveredGood
<1>3. \A k \in Slot : \A x : x # NoByte /\ Source(sock[e], p, k, x) =>
        recv + k - isn < w /\ x = StreamByte(d, recv + k)
  BY SourceIsStream
<1>4. \A j \in Int : StreamByte(d, j) = Message[d][j - isn + 1]
  BY DEF StreamByte
<1>. HIDE DEF d, recv, old, isn, w
\* The i-th new byte is byte Len(old) + i of the message.
<1>5. ASSUME NEW i \in 1 .. Len(new)
      PROVE  Len(old) + i <= w /\ new[i] = Message[d][Len(old) + i]
  <2>1. i \in Int /\ i - 1 \in Slot /\ new[i] # NoByte
    BY ByteAssumption
  <2>2. recv + (i - 1) - isn < w /\ new[i] = StreamByte(d, recv + (i - 1))
    BY <1>3, <2>1
  <2>3. recv + (i - 1) \in Int /\ (recv + (i - 1)) - isn + 1 = Len(old) + i
    BY <1>1, <1>2, <2>1
  <2>4. new[i] = Message[d][(recv + (i - 1)) - isn + 1]
    BY <1>4, <2>2, <2>3, Zenon
  <2>5. Len(old) + i <= w
    BY <1>1, <1>2, <2>1, <2>2
  <2>. QED
    BY <2>3, <2>4, <2>5
<1>6. \A i \in 1 .. Len(new) : new[i] # CONN_CLOSED
  <2>. SUFFICES ASSUME NEW i \in 1 .. Len(new) PROVE new[i] # CONN_CLOSED
    OBVIOUS
  <2>1. Len(old) + i \in 1 .. Len(Message[d])
    BY <1>1, <1>5
  <2>. QED
    BY ZenonT(60), <1>1, <1>5, <2>1 DEF MessagesAvoidMarker
<1>7. DeliveredGood(e)'
  <2>1. /\ Len(old \o new) = Len(old) + Len(new)
        /\ \A i \in 1 .. Len(old) + Len(new) :
                (old \o new)[i] = IF i <= Len(old) THEN old[i] ELSE new[i - Len(old)]
    BY <1>1, ConcatProperties
  <2>2. Len(old) + Len(new) <= w
    <3>1. CASE Len(new) = 0
      BY <1>1, <1>2, <3>1
    <3>2. CASE Len(new) # 0
      <4>1. Len(new) \in 1 .. Len(new)
        BY <1>1, <3>2
      <4>. QED
        BY <1>5, <4>1
    <3>. QED
      BY <3>1, <3>2
  <2>3. ASSUME NEW i \in 1 .. Len(old) + Len(new)
        PROVE  (old \o new)[i] = Message[d][i]
    <3>1. CASE i <= Len(old)
      BY <1>1, <1>2, <2>1, <3>1
    <3>2. CASE ~(i <= Len(old))
      <4>1. i - Len(old) \in 1 .. Len(new) /\ Len(old) + (i - Len(old)) = i
        BY <1>1, <3>2
      <4>2. new[i - Len(old)] = Message[d][Len(old) + (i - Len(old))]
        BY <1>5, <4>1
      <4>. QED
        BY <2>1, <3>2, <4>1, <4>2
    <3>. QED
      BY <3>1, <3>2
  <2>4. delivered'[e] = old \o new /\ written'[d] = w
    BY DEF old, w
  <2>. QED
    BY <2>1, <2>2, <2>3, <2>4 DEF DeliveredGood, d
<1>8. ReceiverGood(e)'
  <2>1. sock'[e].recv_seq = recv + Len(new)
    BY DEF recv
  <2>2. sock'[e].recv_seq = isn + Len(delivered'[e])
    <3>1. Len(old \o new) = Len(old) + Len(new)
      BY <1>1, ConcatProperties
    <3>2. delivered'[e] = old \o new
      BY DEF old
    <3>3. recv + Len(new) = isn + (Len(old) + Len(new))
      BY <1>1, <1>2
    <3>. QED
      BY <2>1, <3>1, <3>2, <3>3
  <2>3. ASSUME NEW k \in Slot, sock'[e].recv_window[k] # NoByte
        PROVE  /\ (recv + Len(new)) + k - isn < w
               /\ sock'[e].recv_window[k] = StreamByte(d, (recv + Len(new)) + k)
    <3>1. /\ recv + (k + Len(new)) - isn < w
          /\ sock'[e].recv_window[k] = StreamByte(d, recv + (k + Len(new)))
      BY <1>3, <2>3
    <3>2. k \in Int
      BY SizeAssumption DEF Slot
    <3>3. recv + (k + Len(new)) = (recv + Len(new)) + k
      BY <1>1, <3>2
    <3>4. recv + (k + Len(new)) - isn = (recv + Len(new)) + k - isn
      BY <1>1, <3>2
    <3>. QED
      BY <3>1, <3>3, <3>4
  <2>. QED
    BY <2>1, <2>2, <2>3 DEF ReceiverGood, StreamByte, d, isn, w
<1>. QED
  BY <1>6, <1>7, <1>8

\* An open end takes a segment: a FIN ends its stream, an ACK moves both
\* windows.
LEMMA HandleEstablishedStream ==
    ASSUME StreamInv, MessagesAvoidMarker, NEW e \in End, HandleEstablished(e)
    PROVE  /\ StreamStep /\ written' = written /\ told' = told
           /\ \/ delivered' = delivered
              \/ /\ Open(e) /\ \A c \in End : Open(c)' = Open(c)
                 /\ \E new \in Seq(Byte) : delivered' = [delivered EXCEPT ![e] = @ \o new]
<1>. DEFINE s == sock[e]
            p == Next_(e)
            cw == CanWrite(e, p)
            r == handle_packet_established(s, p, cw)
            t == r.sock
<1>0. /\ FinInv /\ TypeOK /\ up /\ inTable[e] /\ s.state = "ESTABLISHED" /\ s \in Socket
      /\ s.send_window \in Seq(Byte) /\ Len(s.send_window) \in Nat
      /\ inPackets[e] # <<>> /\ "RST" \notin p.flags
  BY SocketTypes DEF StreamInv, FinInv, Wellformed, TeardownTypeOK, TypeOK, HandleEstablished,
                     Sockets, Plain, HasSegment
<1>1. /\ sock' = [sock EXCEPT ![e] = t]
      /\ recvFifo' = [recvFifo EXCEPT ![e] = @ \o r.bytes]
      /\ delivered' = [delivered EXCEPT ![e] = @ \o r.bytes]
      /\ UNCHANGED <<written, sendFifo, inTable, told>>
  BY DEF HandleEstablished, HandlePacket, Next_
<1>2. /\ KnownSegment(p) /\ p \in Segment /\ cw \in BOOLEAN /\ p.ack \in Int
      /\ \E i \in 1 .. Len(inPackets[e]) : p = inPackets[e][i]
  BY <1>0, HeadIsKnown DEF CanWrite
<1>3. p.flags = {"ACK"} \/ ("FIN" \in p.flags /\ "SYN" \notin p.flags)
  BY <1>0, <1>2 DEF KnownSegment
<1>4. p.data # <<>> => Piece(e, p)
  BY <1>2 DEF StreamInv
<1>5. Open(e) /\ SenderGood(e) /\ ReceiverGood(e) /\ DeliveredGood(e)
  BY <1>0 DEF Open, StreamInv
<1>. HIDE DEF s, p, cw
<1>6. GoodResult(r, {s.state, "CLOSE_WAIT"}) /\ ("FIN" \notin p.flags => t.state = s.state)
  BY <1>0, <1>2, EstablishedStates
<1>7. /\ t \in Socket /\ sock'[e] = t
      /\ \A c \in End : c # e => sock'[c] = sock[c]
  BY <1>0, <1>1, <1>6 DEF GoodResult, TypeOK
<1>8. CASE p.flags = {"ACK"}
  <2>. DEFINE a == AckedBytes(s, p.ack)
              new == r.bytes
  <2>0. s \in Socket /\ p \in Segment /\ p.flags = {"ACK"} /\ cw \in BOOLEAN
    BY <1>0, <1>2, <1>8
  <2>1. /\ t.send_seq = s.send_seq + a
        /\ Len(t.send_window) = Len(s.send_window) - a
        /\ \A i \in 1 .. Len(t.send_window) : t.send_window[i] = s.send_window[i + a]
        /\ new \in Seq(Byte)
        /\ t.recv_seq = s.recv_seq + Len(new)
        /\ \A i \in 1 .. Len(new) : i - 1 \in Slot /\ Source(s, p, i - 1, new[i])
        /\ \A k \in Slot : t.recv_window[k] # NoByte =>
                k + Len(new) \in Slot /\ Source(s, p, k + Len(new), t.recv_window[k])
    BY ZenonT(60), <2>0, EstablishedProperties
  <2>2. a \in 0 .. Len(s.send_window)
    BY <1>0, <1>2, AcknowledgeProperties
  <2>3. t.state = "ESTABLISHED"
    BY <1>0, <1>6, <1>8
  <2>. HIDE DEF a, t, r, new
  <2>4. a \in Nat /\ a <= Len(s.send_window)
    BY <1>0, <2>2
  <2>5. /\ delivered'[e] = delivered[e] \o new /\ recvFifo'[e] = recvFifo[e] \o new
        /\ delivered' = [delivered EXCEPT ![e] = @ \o new]
        /\ \A c \in End : c # e => delivered'[c] = delivered[c] /\ recvFifo'[c] = recvFifo[c]
    BY <1>0, <1>1 DEF TypeOK, new
  <2>6. SenderGood(e)'
    BY <1>0, <1>1, <1>5, <1>7, <2>1, <2>4, AckedSender DEF s
  <2>7. ReceiverGood(e)' /\ DeliveredGood(e)' /\ \A i \in 1 .. Len(new) : new[i] # CONN_CLOSED
    <3>1. /\ sock'[e].recv_seq = sock[e].recv_seq + Len(new)
          /\ \A i \in 1 .. Len(new) : i - 1 \in Slot /\ Source(sock[e], p, i - 1, new[i])
          /\ \A k \in Slot : sock'[e].recv_window[k] # NoByte =>
                /\ k + Len(new) \in Slot
                /\ Source(sock[e], p, k + Len(new), sock'[e].recv_window[k])
          /\ new \in Seq(Byte)
      BY <1>7, <2>1, Zenon DEF s
    <3>2. TypeOK /\ p \in Segment /\ written' = written
      BY <1>0, <1>1, <1>2
    <3>. QED
      BY <1>4, <1>5, <2>5, <3>1, <3>2, DeliveredReceiver, Zenon
  <2>8. \A c \in End : Open(c)' = Open(c)
    BY <1>0, <1>1, <1>7, <2>3 DEF Open, s
  <2>9. ASSUME NEW c \in End, Open(c)'
        PROVE  Open(c) /\ SenderGood(c)' /\ ReceiverGood(c)'
    <3>1. Open(c) /\ SenderGood(c) /\ ReceiverGood(c)
      BY <2>8, <2>9 DEF StreamInv
    <3>2. CASE c # e
      BY <1>1, <1>7, <2>5, <3>1, <3>2 DEF SenderGood, ReceiverGood, SendEnd, StreamByte
    <3>. QED
      BY <2>6, <2>7, <3>1, <3>2
  <2>10. ASSUME NEW c \in End PROVE DeliveredGood(c)' /\ (HasMarker(c)' => HasMarker(c))
    <3>1. CASE c # e
      <4>1. delivered'[c] = delivered[c] /\ recvFifo'[c] = recvFifo[c] /\ written' = written
        BY <1>1, <2>5, <3>1
      <4>2. DeliveredGood(c)
        BY DEF StreamInv
      <4>3. DeliveredGood(c)'
        BY <4>1, <4>2 DEF DeliveredGood
      <4>4. HasMarker(c)' => HasMarker(c)
        BY <4>1 DEF HasMarker
      <4>. QED
        BY <4>3, <4>4
    <3>2. CASE c = e
      <4>. DEFINE f == recvFifo[e]
      <4>1. f \in Seq(Byte) /\ Len(f) \in Int /\ Len(new) \in Int
        BY <1>0, <2>1 DEF TypeOK
      <4>. HIDE DEF f
      <4>2. /\ Len(f \o new) = Len(f) + Len(new)
            /\ \A i \in 1 .. Len(f) + Len(new) :
                    (f \o new)[i] = IF i <= Len(f) THEN f[i] ELSE new[i - Len(f)]
        BY <2>1, <4>1, ConcatProperties
      <4>3. ASSUME NEW i \in 1 .. Len(f) + Len(new), (f \o new)[i] = CONN_CLOSED
            PROVE  i \in 1 .. Len(f) /\ f[i] = CONN_CLOSED
        <5>1. CASE i <= Len(f)
          BY <4>1, <4>2, <4>3, <5>1
        <5>2. CASE ~(i <= Len(f))
          <6>1. i - Len(f) \in 1 .. Len(new) /\ new[i - Len(f)] = CONN_CLOSED
            BY <4>1, <4>2, <4>3, <5>2
          <6>. QED
            BY <2>7, <6>1
        <5>. QED
          BY <5>1, <5>2
      <4>4. HasMarker(e)' => HasMarker(e)
        BY <2>5, <4>2, <4>3 DEF HasMarker, f
      <4>. QED
        BY <2>7, <3>2, <4>4
    <3>. QED
      BY <3>1, <3>2
  <2>11. \A c \in End : written[c] <= written'[c]
    BY <1>0, <1>1 DEF TypeOK
  <2>12. StreamStep
    BY <2>9, <2>10, <2>11 DEF StreamStep
  <2>. QED
    BY <1>1, <1>5, <2>1, <2>5, <2>8, <2>12
<1>9. CASE "FIN" \in p.flags /\ "SYN" \notin p.flags
  <2>1. r = [sock |-> [s EXCEPT !.state = "CLOSE_WAIT", !.recv_seq = p.seq + 1,
                                !.send_seq = s.send_seq + Len(s.send_window)],
             reply |-> <<>>, bytes |-> <<>>]
    BY <1>0, <1>9 DEF handle_packet_established, Ignore, Result, Socket
  <2>. HIDE DEF r
  <2>2. t.state = "CLOSE_WAIT" /\ r.bytes = <<>>
    BY <1>0, <2>1 DEF Socket
  <2>. HIDE DEF t
  <2>3. recvFifo' = recvFifo /\ delivered' = delivered
    <3>1. \A q \in Seq(Byte) : q \o <<>> = q
      OBVIOUS
    <3>. QED
      BY <1>0, <1>1, <2>2, <3>1 DEF TypeOK
  <2>4. \A c \in End : Open(c)' => Open(c) /\ c # e /\ sock'[c] = sock[c]
    BY <1>1, <1>7, <2>2 DEF Open
  <2>5. \A c \in End : HasMarker(c)' => HasMarker(c)
    BY <2>3 DEF HasMarker
  <2>6. StreamStep
    BY <1>1, <2>3, <2>4, <2>5, QuietStream
  <2>. QED
    BY <1>1, <2>3, <2>6
<1>. QED
  BY <1>3, <1>8, <1>9

LEMMA TeardownInitStream == TeardownInit => StreamInv
<1>. SUFFICES ASSUME TeardownInit PROVE StreamInv
  OBVIOUS
<1>1. FinInv /\ Init /\ TypeOK
  BY TeardownInitInv DEF FinInv, Wellformed, TeardownTypeOK, TeardownInit
<1>2. /\ Len(<<>>) = 0 /\ \A i \in 1 .. 0 : FALSE
      /\ \A x \in Int : x + 0 = x /\ x - x = 0 /\ x - x + 0 = 0 /\ x <= x
  OBVIOUS
<1>3. ASSUME NEW c \in End
      PROVE  /\ sock[c].send_seq = Isn[c] /\ sock[c].send_window = <<>>
             /\ sock[c].recv_seq = Isn[Peer(c)]
             /\ \A k \in Slot : sock[c].recv_window[k] = NoByte
             /\ inPackets[c] = <<>> /\ written[c] = 0 /\ sendFifo[c] = <<>>
             /\ recvFifo[c] = <<>> /\ delivered[c] = <<>>
             /\ Isn[c] \in Int /\ Isn[Peer(c)] \in Int /\ written[Peer(c)] = 0
  <2>1. sock[c] = NewSocket("ESTABLISHED", Isn[c], Isn[Peer(c)])
    BY <1>1 DEF Init
  <2>. QED
    BY <1>1, <2>1, DataAssumption, PeerProperties DEF Init, NewSocket
<1>4. ASSUME NEW c \in End PROVE SenderGood(c)
  <2>1. SendEnd(c) = Isn[c]
    <3>1. SendEnd(c) = sock[c].send_seq + Len(sock[c].send_window)
      BY DEF SendEnd
    <3>. QED
      BY <1>2, <1>3, <3>1
  <2>2. Isn[c] <= sock[c].send_seq
    BY <1>2, <1>3
  <2>3. SendEnd(c) - Isn[c] + Len(sendFifo[c]) = written[c]
    BY <1>2, <1>3, <2>1
  <2>. QED
    BY <1>2, <1>3, <2>2, <2>3 DEF SenderGood
<1>5. ASSUME NEW c \in End PROVE ReceiverGood(c) /\ DeliveredGood(c) /\ ~HasMarker(c)
  <2>1. sock[c].recv_seq = Isn[Peer(c)] + Len(delivered[c])
    BY <1>2, <1>3
  <2>. QED
    BY <1>2, <1>3, <2>1 DEF ReceiverGood, DeliveredGood, HasMarker
<1>. QED
  BY <1>1, <1>2, <1>3, <1>4, <1>5 DEF StreamInv

\* What a step is to the stream: a program writes, a manager offers data to a
\* program, a program is told, or ends close.
StreamAction ==
    \/ \E e \in End :
        /\ written[e] <= written'[e] /\ written' = [written EXCEPT ![e] = written'[e]]
        /\ delivered' = delivered /\ told' = told
        /\ \A c \in End : Open(c)' = Open(c)
    \/ \E e \in End :
        /\ Open(e) /\ \A c \in End : Open(c)' = Open(c)
        /\ \E new \in Seq(Byte) : delivered' = [delivered EXCEPT ![e] = @ \o new]
        /\ written' = written /\ told' = told
    \/ \E e \in End :
        /\ ~Open(Peer(e)) /\ told' = told \union {e}
        /\ written' = written /\ delivered' = delivered
        /\ \A c \in End : Open(c)' = Open(c)
    \/ /\ written' = written /\ delivered' = delivered /\ told' = told

\* A program is told only when a marker is in its fifo.
LEMMA TellingReadTells ==
    ASSUME StreamInv, NEW e \in End, TellingRead(e), told' # told
    PROVE  ~Open(Peer(e)) /\ told' = told \union {e}
<1>. DEFINE n == IF Len(recvFifo[e]) < BufferLen THEN Len(recvFifo[e]) ELSE BufferLen
<1>1. n > 0 /\ recvFifo[e][n] = CONN_CLOSED /\ told' = told \union {e}
  BY DEF TellingRead
<1>2. recvFifo[e] \in Seq(Byte)
  BY DEF StreamInv, FinInv, Wellformed, TeardownTypeOK, TypeOK
<1>3. n \in 1 .. Len(recvFifo[e])
  BY <1>1, <1>2, DataAssumption
<1>4. HasMarker(e)
  BY <1>1, <1>3 DEF HasMarker
<1>. QED
  BY <1>1, <1>4 DEF StreamInv

\* Every step is one of them, and keeps the stream.
LEMMA TeardownStream ==
    ASSUME StreamInv, MessagesAvoidMarker, TeardownNext
    PROVE  StreamStep /\ StreamAction
<1>0. FinInv
  BY DEF StreamInv
<1>1. ASSUME NEW e \in End, inTable[e], SocketSend(e), UNCHANGED life
      PROVE  StreamStep /\ StreamAction
  <2>1. told' = told
    BY <1>1 DEF life
  <2>. QED
    BY <1>1, <2>1, SocketSendStream DEF StreamAction
<1>2. ASSUME NEW e \in End,
             \/ (RecvOpen(e) \/ RecvClose(e)) /\ UNCHANGED life
             \/ SendWindow(e) /\ UNCHANGED life
             \/ SocketClose(e)
      PROVE  StreamStep /\ StreamAction
  <2>1. told' = told
    BY <1>2 DEF life, SocketClose
  <2>2. StreamStep /\ written' = written /\ delivered' = delivered
    BY <1>2, CallStream
  <2>. QED
    BY <2>1, <2>2 DEF StreamAction
<1>3. ASSUME NEW e \in End, TellingRead(e) PROVE StreamStep /\ StreamAction
  <2>1. /\ StreamStep /\ written' = written /\ delivered' = delivered
        /\ UNCHANGED <<sock, inTable>>
    BY <1>3, CallStream DEF TellingRead, RecvRead
  <2>2. \A c \in End : Open(c)' = Open(c)
    BY <2>1 DEF Open
  <2>. QED
    BY <1>3, <2>1, <2>2, TellingReadTells DEF StreamAction
<1>4. ASSUME NEW e \in End, e \in Sockets({"ESTABLISHED"}), ReadSendFifo(e), UNCHANGED life
      PROVE  StreamStep /\ StreamAction
  <2>1. Open(e) /\ told' = told
    BY <1>4 DEF Open, Sockets, life
  <2>. QED
    BY <1>4, <2>1, ReadSendFifoStream DEF StreamAction
<1>5. ASSUME NEW e \in End, HandleEstablished(e) PROVE StreamStep /\ StreamAction
  BY <1>5, HandleEstablishedStream DEF StreamAction
<1>6. ASSUME NEW e \in End,
             \/ HandleClosing(e) \/ HandleOther(e) \/ HandleCloseCommand(e)
             \/ ResendFin(e) \/ TimerStep(e) \/ StopManager(e)
      PROVE  StreamStep /\ StreamAction
  BY <1>6, ManagerStream DEF StreamAction
<1>. QED
  BY <1>1, <1>2, <1>3, <1>4, <1>5, <1>6 DEF TeardownNext, TransferCall, Transfer

LEMMA TeardownNextStream ==
    ASSUME MessagesAvoidMarker, StreamInv, [TeardownNext]_allVars
    PROVE  StreamInv'
<1>1. CASE UNCHANGED allVars
  <2>1. FinInv'
    BY TeardownNextInv DEF StreamInv
  <2>2. /\ \A e \in End : Open(e)' => SenderGood(e)' /\ ReceiverGood(e)'
        /\ \A e \in End : DeliveredGood(e)'
        /\ \A e \in End : HasMarker(e)' => ~Open(Peer(e))'
    BY <1>1 DEF allVars, vars, life, StreamInv, Open, SenderGood, ReceiverGood, DeliveredGood,
                HasMarker, SendEnd, StreamByte
  <2>3. inPackets' = inPackets /\ written' = written
    BY <1>1 DEF allVars, vars
  <2>4. (\A e \in End : \A i \in 1 .. Len(inPackets[e]) :
            inPackets[e][i].data # <<>> => Piece(e, inPackets[e][i]))'
    BY <2>3 DEF StreamInv, Piece, StreamByte
  <2>. QED
    BY <2>1, <2>2, <2>4, Zenon DEF StreamInv
<1>2. CASE TeardownNext
  <2>1. Step
    BY <1>2, StepOfNext DEF StreamInv
  <2>. QED
    BY <1>2, <2>1, TeardownStream, StreamStepKeepsInv
<1>. QED
  BY <1>1, <1>2

----------------------------------------------------------------------------
(* The refinement.                                                         *)

\* Prefixes of a sequence.
LEMMA Prefixes ==
    ASSUME NEW S, NEW q \in Seq(S), NEW w \in Nat, w <= Len(q)
    PROVE  /\ SubSeq(q, 1, w) \in Seq(S) /\ Len(SubSeq(q, 1, w)) = w
           /\ \A i \in 1 .. w : SubSeq(q, 1, w)[i] = q[i]
<1>1. 0 \in Nat /\ 0 <= w
  OBVIOUS
<1>2. /\ SubSeq(q, 0 + 1, w) \in Seq(S) /\ Len(SubSeq(q, 0 + 1, w)) = w - 0
      /\ \A i \in 1 .. w - 0 : SubSeq(q, 0 + 1, w)[i] = q[0 + i]
  BY <1>1, Slice
<1>. QED
  BY <1>2

LEMMA PrefixOfPrefix ==
    ASSUME NEW S, NEW q \in Seq(S), NEW w \in Nat, w <= Len(q), NEW n \in Nat, n <= w,
           NEW o \in Seq(S), Len(o) = n, \A i \in 1 .. n : o[i] = q[i]
    PROVE  o = SubSeq(SubSeq(q, 1, w), 1, n)
<1>. DEFINE p == SubSeq(q, 1, w)
<1>1. p \in Seq(S) /\ Len(p) = w /\ \A i \in 1 .. w : p[i] = q[i]
  BY Prefixes
<1>. HIDE DEF p
<1>. DEFINE r == SubSeq(p, 1, n)
<1>2. r \in Seq(S) /\ Len(r) = n /\ \A i \in 1 .. n : r[i] = p[i]
  BY <1>1, Prefixes
<1>. HIDE DEF r
<1>3. o = r
  BY <1>1, <1>2, SeqEqual
<1>. QED
  BY <1>3 DEF r, p

AbstractClosed == {e \in End : ~inTable[e] \/ sock[e].state # "ESTABLISHED"}

\* Write: the input grows to a longer prefix of the message.
LEMMA WriteStep ==
    ASSUME TypeOK, TypeOK', NEW e \in End, written[e] <= written'[e],
           written' = [written EXCEPT ![e] = written'[e]]
    PROVE  /\ Len(AbstractInput[e]) <= Len(AbstractInput'[e])
           /\ SubSeq(AbstractInput'[e], 1, Len(AbstractInput[e])) = AbstractInput[e]
           /\ AbstractInput' = [AbstractInput EXCEPT ![e] = AbstractInput'[e]]
<1>. DEFINE m == Message[e]
            w == written[e]
            n == written'[e]
<1>1. /\ m \in Seq(Byte) /\ w \in Nat /\ n \in Nat /\ w <= n /\ n <= Len(m) /\ w <= Len(m)
  BY DataAssumption DEF TypeOK
<1>2. AbstractInput[e] = SubSeq(m, 1, w) /\ AbstractInput'[e] = SubSeq(m, 1, n)
  BY DEF AbstractInput
<1>3. AbstractInput' = [AbstractInput EXCEPT ![e] = AbstractInput'[e]]
  <2>1. \A c \in End : c # e => written'[c] = written[c]
    BY DEF TypeOK
  <2>2. \A c \in End : c # e => AbstractInput'[c] = AbstractInput[c]
    BY <2>1 DEF AbstractInput
  <2>. QED
    BY <2>2 DEF AbstractInput
<1>. HIDE DEF m, w, n
<1>4. /\ SubSeq(m, 1, w) \in Seq(Byte) /\ Len(SubSeq(m, 1, w)) = w
      /\ \A i \in 1 .. w : SubSeq(m, 1, w)[i] = m[i]
      /\ Len(SubSeq(m, 1, n)) = n
  BY <1>1, Prefixes
<1>5. SubSeq(m, 1, w) = SubSeq(SubSeq(m, 1, n), 1, w)
  BY <1>1, <1>4, PrefixOfPrefix
<1>. QED
  BY <1>1, <1>2, <1>3, <1>4, <1>5

\* Deliver: what was delivered after the step is a prefix of the other input.
LEMMA DeliverStep ==
    ASSUME TypeOK, TypeOK', written' = written, NEW e \in End, DeliveredGood(e)',
           NEW new \in Seq(Byte), new # <<>>, delivered' = [delivered EXCEPT ![e] = @ \o new]
    PROVE  \E n \in Len(delivered[e]) + 1 .. Len(AbstractInput[Peer(e)]) :
              delivered' = [delivered EXCEPT ![e] = SubSeq(AbstractInput[Peer(e)], 1, n)]
<1>. DEFINE m == Message[Peer(e)]
            w == written[Peer(e)]
            o == delivered'[e]
            n == Len(o)
<1>1. /\ m \in Seq(Byte) /\ w \in Nat /\ w <= Len(m) /\ o \in Seq(Byte) /\ n \in Nat
      /\ o = delivered[e] \o new /\ delivered[e] \in Seq(Byte) /\ Len(delivered[e]) \in Nat
      /\ Len(new) \in Nat /\ Len(new) # 0
  <2>1. /\ delivered[e] \in Seq(Byte) /\ delivered' = [delivered EXCEPT ![e] = @ \o new]
        /\ delivered \in [End -> Seq(Byte)] /\ w \in Nat /\ w <= Len(m)
    BY PeerProperties DEF TypeOK
  <2>2. o = delivered[e] \o new /\ o \in Seq(Byte)
    BY <2>1
  <2>3. m \in Seq(Byte)
    BY PeerProperties, DataAssumption
  <2>4. Len(new) \in Nat /\ Len(new) # 0
    BY EmptySeq
  <2>. QED
    BY <2>1, <2>2, <2>3, <2>4
<1>2. n <= w /\ \A i \in 1 .. n : o[i] = m[i]
  BY DEF DeliveredGood
<1>3. delivered' = [delivered EXCEPT ![e] = o]
  BY DEF TypeOK
<1>4. AbstractInput[Peer(e)] = SubSeq(m, 1, w)
  BY PeerProperties DEF AbstractInput
<1>5. n = Len(delivered[e]) + Len(new)
  BY <1>1, ConcatProperties
<1>. HIDE DEF m, w, o, n
<1>6. o = SubSeq(SubSeq(m, 1, w), 1, n) /\ Len(SubSeq(m, 1, w)) = w
  <2>1. Len(o) = n
    BY DEF n
  <2>. QED
    BY <1>1, <1>2, <2>1, Prefixes, PrefixOfPrefix
<1>7. n \in Len(delivered[e]) + 1 .. Len(AbstractInput[Peer(e)])
  BY <1>1, <1>2, <1>4, <1>5, <1>6
<1>. QED
  BY <1>3, <1>4, <1>6, <1>7

\* A step of the connection is a step of the abstract stream.
LEMMA StreamActionImplements ==
    ASSUME StreamInv, TypeOK', StreamStep, StreamAction
    PROVE  Closable!Next \/ UNCHANGED <<AbstractInput, delivered, AbstractClosed, told>>
<1>. DEFINE Other == [e \in End |-> Peer(e)]
<1>0. TypeOK /\ \A e \in End : Other[e] = Peer(e) /\ Peer(e) \in End
  BY PeerProperties DEF StreamInv, FinInv, Wellformed, TeardownTypeOK
<1>a. \A e \in End : e \in AbstractClosed <=> ~Open(e)
  BY DEF AbstractClosed, Open
<1>b. \A e \in End : e \in AbstractClosed' <=> ~Open(e)'
  BY DEF AbstractClosed, Open
<1>c. AbstractClosed \subseteq End /\ AbstractClosed' \subseteq End
  BY DEF AbstractClosed
<1>d. (\A e \in End : Open(e)' = Open(e)) => AbstractClosed' = AbstractClosed
  BY <1>a, <1>b, <1>c, Zenon
<1>e. written' = written => AbstractInput' = AbstractInput
  BY DEF AbstractInput
<1>1. ASSUME NEW e \in End, written[e] <= written'[e],
             written' = [written EXCEPT ![e] = written'[e]],
             delivered' = delivered, told' = told, \A c \in End : Open(c)' = Open(c)
      PROVE  Closable!Write(e)
  <2>1. /\ Len(AbstractInput[e]) <= Len(AbstractInput'[e])
        /\ SubSeq(AbstractInput'[e], 1, Len(AbstractInput[e])) = AbstractInput[e]
        /\ AbstractInput' = [AbstractInput EXCEPT ![e] = AbstractInput'[e]]
    BY <1>0, <1>1, WriteStep
  <2>2. AbstractClosed' = AbstractClosed
    BY <1>1, <1>d
  <2>. QED
    BY <1>1, <2>1, <2>2 DEF Closable!Write, AbstractInput, AbstractClosed
<1>2. ASSUME NEW e \in End, Open(e), \A c \in End : Open(c)' = Open(c),
             NEW new \in Seq(Byte), delivered' = [delivered EXCEPT ![e] = @ \o new],
             written' = written, told' = told
      PROVE  Closable!Deliver(e)
             \/ UNCHANGED <<AbstractInput, delivered, AbstractClosed, told>>
  <2>1. AbstractInput' = AbstractInput /\ AbstractClosed' = AbstractClosed
    BY <1>2, <1>d, <1>e
  <2>2. CASE new = <<>>
    <3>1. \A q \in Seq(Byte) : q \o <<>> = q
      OBVIOUS
    <3>2. delivered' = delivered
      BY <1>0, <1>2, <2>2, <3>1 DEF TypeOK
    <3>. QED
      BY <1>2, <2>1, <3>2
  <2>3. CASE new # <<>>
    <3>1. DeliveredGood(e)'
      BY DEF StreamStep
    <3>2. \E n \in Len(delivered[e]) + 1 .. Len(AbstractInput[Peer(e)]) :
              delivered' = [delivered EXCEPT ![e] = SubSeq(AbstractInput[Peer(e)], 1, n)]
      BY <1>0, <1>2, <2>3, <3>1, DeliverStep
    <3>3. e \notin AbstractClosed
      BY <1>2, <1>a
    <3>4. Closable!Deliver(e)
      BY <1>0, <1>2, <2>1, <3>2, <3>3 DEF Closable!Deliver, AbstractInput, AbstractClosed
    <3>. QED
      BY <3>4
  <2>. QED
    BY <2>2, <2>3
<1>3. ASSUME NEW e \in End, ~Open(Peer(e)), told' = told \union {e},
             written' = written, delivered' = delivered, \A c \in End : Open(c)' = Open(c)
      PROVE  Closable!Tell(e)
  <2>1. AbstractInput' = AbstractInput /\ AbstractClosed' = AbstractClosed
    BY <1>3, <1>d, <1>e
  <2>2. Other[e] \in AbstractClosed
    BY <1>0, <1>3, <1>a
  <2>. QED
    BY <1>3, <2>1, <2>2 DEF Closable!Tell, AbstractInput, AbstractClosed
<1>4. ASSUME written' = written, delivered' = delivered, told' = told
      PROVE  Closable!Close
  <2>1. \A e \in End : e \in AbstractClosed => e \in AbstractClosed'
    BY <1>a, <1>b DEF StreamStep
  <2>2. AbstractClosed' = AbstractClosed \union AbstractClosed' /\ AbstractClosed' \in SUBSET End
    BY <1>c, <2>1
  <2>3. \E S \in SUBSET End : AbstractClosed' = AbstractClosed \union S
    BY <2>2
  <2>4. AbstractInput' = AbstractInput
    BY <1>4, <1>e
  <2>. QED
    BY <1>4, <2>3, <2>4 DEF Closable!Close, AbstractInput, AbstractClosed
<1>. HIDE DEF Other
<1>. QED
  BY <1>1, <1>2, <1>3, <1>4 DEF StreamAction, Closable!Next

\* The connection implements a stream that can be closed: through every close,
\* reset, removal and stop, in any order, an end gets only a prefix of what the
\* other wrote, nothing after it is closed, and is told that the connection is
\* over only when the other end has closed; provided that the programs never
\* send the char that stands for the end of the connection.
THEOREM ClosableRefinement ==
    ASSUME MessagesAvoidMarker
    PROVE  TeardownSpec => ImplementsClosableStream
<1>1. TeardownInit => Closable!Init
  <2>. SUFFICES ASSUME TeardownInit PROVE Closable!Init
    OBVIOUS
  <2>1. \A e \in End : SubSeq(Message[e], 1, written[e]) = <<>>
    <3>1. \A e \in End : Message[e] \in Seq(Byte) /\ written[e] = 0
      BY DataAssumption DEF TeardownInit, Init
    <3>. QED
      BY <3>1
  <2>2. \A e \in End : inTable[e] /\ sock[e].state = "ESTABLISHED"
    BY DEF TeardownInit, Init, NewSocket
  <2>. QED
    BY <2>1, <2>2 DEF TeardownInit, Init, Closable!Init
<1>2. StreamInv /\ [TeardownNext]_allVars => StreamInv'
  BY TeardownNextStream
<1>3. StreamInv /\ StreamInv' /\ [TeardownNext]_allVars => [Closable!Next]_(Closable!vars)
  <2>. SUFFICES ASSUME StreamInv, StreamInv', [TeardownNext]_allVars
                PROVE  Closable!Next \/ UNCHANGED <<AbstractInput, delivered, AbstractClosed, told>>
    BY DEF Closable!vars, AbstractInput, AbstractClosed
  <2>1. CASE UNCHANGED allVars
    BY <2>1 DEF allVars, vars, life, AbstractInput, AbstractClosed
  <2>2. CASE TeardownNext
    <3>1. TypeOK'
      BY DEF StreamInv, FinInv, Wellformed, TeardownTypeOK
    <3>. QED
      BY <2>2, <3>1, TeardownStream, StreamActionImplements
  <2>. QED
    BY <2>1, <2>2
<1>. QED
  BY <1>1, <1>2, <1>3, TeardownInitStream, PTL DEF TeardownSpec, ImplementsClosableStream,
                                                   Closable!Spec
=============================================================================
