------------------------- MODULE DataTransferProofs -------------------------
(***************************************************************************)
(* Proofs about DataTransfer, for all messages, sequence numbers, buffer,  *)
(* window, queue and pipe sizes and any number of segments in flight.      *)
(***************************************************************************)
EXTENDS DataTransfer, TcpSocketTheorems

\* There are two ends and Peer swaps them.
LEMMA PeerProperties ==
    \A e \in End : /\ Peer(e) \in End /\ Peer(e) # e /\ Peer(Peer(e)) = e
                   /\ \A d \in End : d = e \/ d = Peer(e)
BY DEF End, Peer

\* The fields of a socket have their types.
LEMMA SocketTypes ==
    ASSUME NEW s \in Socket
    PROVE  /\ s.send_window \in Seq(Byte) /\ Len(s.send_window) \in Nat
           /\ s.send_seq \in Int /\ s.recv_seq \in Int
           /\ s.recv_window \in [Slot -> Byte \union {NoByte}]
BY DEF Socket

\* A segment stays good while the positions it is compared with grow.
LEMMA GoodSegmentStable ==
    ASSUME TypeOK, TypeOK', NEW e \in End, NEW p \in Segment, GoodSegment(e, p),
           sock[e].recv_seq <= sock'[e].recv_seq,
           SendEnd(Peer(e)) <= SendEnd(Peer(e))',
           sock[Peer(e)].recv_seq <= sock'[Peer(e)].recv_seq
    PROVE  GoodSegment(e, p)'
<1>1. /\ sock[e] \in Socket /\ sock'[e] \in Socket
      /\ sock[Peer(e)] \in Socket /\ sock'[Peer(e)] \in Socket
  BY PeerProperties DEF TypeOK
<1>2. /\ sock[e].recv_seq \in Int /\ sock'[e].recv_seq \in Int
      /\ sock[Peer(e)].recv_seq \in Int /\ sock'[Peer(e)].recv_seq \in Int
      /\ SendEnd(Peer(e)) \in Int /\ SendEnd(Peer(e))' \in Int
  BY <1>1, SocketTypes DEF SendEnd
<1>3. p.seq \in Int /\ p.ack \in Int /\ Len(p.data) \in Nat
  BY DEF Segment
<1>. QED
  BY SMTT(30), <1>2, <1>3 DEF GoodSegment, StreamByte

\* If positions only grow, and every segment in flight is an old one or a good
\* one, then all segments are good.
LEMMA SegmentsStayGood ==
    ASSUME TypeOK, TypeOK', SegmentsAreGood,
           \A c \in End : /\ sock[c].recv_seq <= sock'[c].recv_seq
                         /\ SendEnd(c) <= SendEnd(c)',
           \A c \in End : \A i \in 1 .. Len(inPackets'[c]) :
                \/ \E j \in 1 .. Len(inPackets[c]) : inPackets'[c][i] = inPackets[c][j]
                \/ GoodSegment(c, inPackets[c][i])'
    PROVE  SegmentsAreGood'
<1>. SUFFICES ASSUME NEW c \in End, NEW i \in 1 .. Len(inPackets'[c])
              PROVE  GoodSegment(c, inPackets[c][i])'
  BY DEF SegmentsAreGood
<1>1. CASE GoodSegment(c, inPackets[c][i])'
  BY <1>1
<1>2. ASSUME NEW j \in 1 .. Len(inPackets[c]), inPackets'[c][i] = inPackets[c][j]
      PROVE  GoodSegment(c, inPackets[c][i])'
  <2>1. inPackets[c][j] \in Segment /\ GoodSegment(c, inPackets[c][j])
    BY SMTT(30) DEF TypeOK, SegmentsAreGood
  <2>2. \A q \in Segment : GoodSegment(c, q) => GoodSegment(c, q)'
    BY GoodSegmentStable, PeerProperties
  <2>3. \A q : q = inPackets'[c][i] => (GoodSegment(c, q)' => GoodSegment(c, inPackets[c][i])')
    BY DEF GoodSegment
  <2>. QED
    BY <1>2, <2>1, <2>2, <2>3
<1>. QED
  BY <1>1, <1>2

\* What Append does, with the queue and the element as they are named here.
LEMMA AppendElements ==
    ASSUME NEW S, NEW q \in Seq(S), NEW x \in S
    PROVE  /\ Append(q, x) \in Seq(S)
           /\ Len(Append(q, x)) = Len(q) + 1
           /\ \A i \in 1 .. Len(Append(q, x)) :
                \/ i \in 1 .. Len(q) /\ Append(q, x)[i] = q[i]
                \/ i = Len(q) + 1 /\ Append(q, x)[i] = x
<1>1. /\ Append(q, x) \in Seq(S)
      /\ Len(Append(q, x)) = Len(q) + 1
      /\ \A i \in 1 .. Len(q) : Append(q, x)[i] = q[i]
      /\ Append(q, x)[Len(q) + 1] = x
  BY AppendProperties
<1>. QED
  BY <1>1

\* Init establishes the invariant: both windows are empty and nothing is in
\* flight.
LEMMA InitInv == Init => Inv
<1>. SUFFICES ASSUME Init PROVE Inv
  OBVIOUS
<1>. USE DEF Init
<1>1. \A e \in End : /\ sock[e] = NewSocket("ESTABLISHED", Isn[e], Isn[Peer(e)])
                     /\ Isn[e] \in Int /\ Isn[Peer(e)] \in Int
                     /\ Message[e] \in Seq(Byte)
  BY PeerProperties, DataAssumption
<1>2. \A e \in End : /\ sock[e] \in Socket
                     /\ sock[e].send_seq = Isn[e]
                     /\ sock[e].recv_seq = Isn[Peer(e)]
                     /\ sock[e].send_window = <<>>
                     /\ \A k \in Slot : sock[e].recv_window[k] = NoByte
  BY <1>1 DEF NewSocket, Socket, TCPState
<1>3. Len(<<>>) = 0 /\ \A i \in 1 .. 0 : FALSE
  OBVIOUS
<1>4. TypeOK
  <2>1. sock \in [End -> Socket]
    BY <1>2
  <2>2. \A e \in End : Len(sock[e].send_window) <= DEFAULT_QUEUE_CAPACITY
    BY <1>2, <1>3, SizeAssumption
  <2>. QED
    BY <1>1, <2>1, <2>2, <1>3 DEF TypeOK, RecvCall
<1>5. SendFifoHoldsStream
  <2>. SUFFICES ASSUME NEW e \in End
                PROVE  /\ Isn[e] <= sock[e].send_seq
                       /\ SendEnd(e) - Isn[e] + Len(sendFifo[e]) = written[e]
                       /\ \A i \in 1 .. Len(sendFifo[e]) :
                            sendFifo[e][i] = StreamByte(e, SendEnd(e) + i - 1)
    BY DEF SendFifoHoldsStream
  <2>1. SendEnd(e) = Isn[e]
    BY <1>1, <1>2, <1>3 DEF SendEnd
  <2>. QED
    BY <1>1, <1>2, <1>3, <2>1
<1>6. SendWindowHoldsStream
  BY <1>2, <1>3 DEF SendWindowHoldsStream
<1>7. SegmentsAreGood
  BY <1>3 DEF SegmentsAreGood
<1>8. WindowsAgree
  BY <1>1, <1>2, <1>3, PeerProperties DEF WindowsAgree, SendEnd
<1>9. WindowHoldsStream /\ WindowHoldsOneSegment
  BY <1>2 DEF WindowHoldsStream, WindowHoldsOneSegment
<1>10. DeliveredInOrder
  BY <1>1, <1>2, <1>3, PeerProperties DEF DeliveredInOrder
<1>. QED
  BY <1>4, <1>5, <1>6, <1>7, <1>8, <1>9, <1>10 DEF Inv

\* An application's write extends the send fifo by the next bytes of the
\* message.
LEMMA SocketSendInv ==
    ASSUME Inv, NEW e \in End, SocketSend(e)
    PROVE  Inv'
<1>0. TypeOK /\ SendFifoHoldsStream
  BY DEF Inv
<1>1. PICK n \in written[e] + 1 .. Len(Message[e]) :
        /\ written' = [written EXCEPT ![e] = n]
        /\ sendFifo' = [sendFifo EXCEPT ![e] = @ \o SubSeq(Message[e], written[e] + 1, n)]
        /\ UNCHANGED <<sock, inPackets, recvFifo, recvCall, delivered, received>>
  BY DEF SocketSend
<1>. DEFINE new == SubSeq(Message[e], written[e] + 1, n)
<1>2. /\ written[e] \in Nat /\ Message[e] \in Seq(Byte) /\ Len(Message[e]) \in Nat
      /\ sendFifo[e] \in Seq(Byte) /\ Len(sendFifo[e]) \in Nat
      /\ sock[e] \in Socket /\ Isn[e] \in Int
  BY <1>0, DataAssumption DEF TypeOK
<1>n. n \in Nat /\ written[e] < n /\ n <= Len(Message[e])
  BY <1>2
<1>3. /\ new \in Seq(Byte) /\ Len(new) = n - written[e]
      /\ \A i \in 1 .. Len(new) : new[i] = Message[e][written[e] + i]
  <2>. DEFINE q == Message[e]
              a == written[e]
  <2>1. q \in Seq(Byte) /\ a \in Nat /\ n \in Nat /\ a <= n /\ n <= Len(q)
    BY <1>2, <1>n
  <2>. HIDE DEF q, a
  <2>2. /\ SubSeq(q, a + 1, n) \in Seq(Byte)
        /\ Len(SubSeq(q, a + 1, n)) = n - a
        /\ \A i \in 1 .. n - a : SubSeq(q, a + 1, n)[i] = q[a + i]
    BY <2>1, Slice
  <2>3. new = SubSeq(q, a + 1, n)
    BY DEF q, a
  <2>. HIDE DEF new
  <2>4. Len(new) = n - a /\ \A i \in 1 .. Len(new) : new[i] = q[a + i]
    BY <2>2, <2>3
  <2>. QED
    BY <2>2, <2>3, <2>4 DEF q, a
<1>. HIDE DEF new
<1>4. /\ sendFifo'[e] = sendFifo[e] \o new
      /\ written'[e] = n
      /\ \A d \in End : d # e => sendFifo'[d] = sendFifo[d] /\ written'[d] = written[d]
      /\ \A d \in End : SendEnd(d)' = SendEnd(d)
  BY <1>0, <1>1 DEF TypeOK, SendEnd, new
<1>c. Len(sendFifo'[e]) = Len(sendFifo[e]) + Len(new)
  BY <1>2, <1>3, <1>4, ConcatProperties
<1>5. TypeOK'
  <2>1. sendFifo' \in [End -> Seq(Byte)]
    BY SMTT(30), <1>0, <1>1, <1>2, <1>3 DEF TypeOK, new
  <2>2. written' \in [End -> Nat] /\ \A d \in End : written'[d] <= Len(Message[d])
    BY <1>0, <1>1, <1>n DEF TypeOK
  <2>. QED
    BY <1>0, <1>1, <2>1, <2>2 DEF TypeOK
<1>6. SendFifoHoldsStream'
  <2>. SUFFICES ASSUME NEW d \in End
                PROVE  /\ Isn[d] <= sock'[d].send_seq
                       /\ SendEnd(d)' - Isn[d] + Len(sendFifo'[d]) = written'[d]
                       /\ \A i \in 1 .. Len(sendFifo'[d]) :
                            sendFifo'[d][i] = StreamByte(d, SendEnd(d)' + i - 1)
    BY DEF SendFifoHoldsStream, StreamByte
  <2>1. CASE d # e
    BY <1>0, <1>1, <1>4, <2>1 DEF SendFifoHoldsStream
  <2>2. CASE d = e
    <3>1. SendEnd(e) \in Int
      BY <1>2, SocketTypes DEF SendEnd
    <3>2. Len(sendFifo'[e]) = Len(sendFifo[e]) + n - written[e]
      BY <1>2, <1>3, <1>c, <1>n
    <3>3. SendEnd(e) - Isn[e] + Len(sendFifo[e]) = written[e]
      BY <1>0 DEF SendFifoHoldsStream
    <3>4. ASSUME NEW i \in 1 .. Len(sendFifo'[e])
          PROVE  sendFifo'[e][i] = StreamByte(e, SendEnd(e) + i - 1)
      <4>1. CASE i <= Len(sendFifo[e])
        <5>1. i \in 1 .. Len(sendFifo[e])
          BY <1>2, <1>3, <1>4, <4>1
        <5>2. sendFifo'[e][i] = sendFifo[e][i]
          BY <1>2, <1>3, <1>4, <5>1
        <5>. QED
          BY <1>0, <5>1, <5>2 DEF SendFifoHoldsStream
      <4>2. CASE i > Len(sendFifo[e])
        <5>1. i - Len(sendFifo[e]) \in 1 .. Len(new)
          BY SMTT(30), <1>2, <1>3, <3>2, <4>2
        <5>2. sendFifo'[e][i] = new[i - Len(sendFifo[e])]
          BY <1>2, <1>3, <1>4, <3>2, <4>2
        <5>3. sendFifo'[e][i] = Message[e][written[e] + i - Len(sendFifo[e])]
          BY <1>2, <1>3, <5>1, <5>2
        <5>4. written[e] + i - Len(sendFifo[e]) = (SendEnd(e) + i - 1) - Isn[e] + 1
          BY <1>2, <3>1, <3>3
        <5>5. StreamByte(e, SendEnd(e) + i - 1) = Message[e][(SendEnd(e) + i - 1) - Isn[e] + 1]
          BY DEF StreamByte
        <5>. QED
          BY <5>3, <5>4, <5>5
      <4>. QED
        BY <1>2, <4>1, <4>2
    <3>5. Isn[e] <= sock'[e].send_seq
      BY <1>0, <1>1 DEF SendFifoHoldsStream
    <3>6. SendEnd(e)' - Isn[e] + Len(sendFifo'[e]) = written'[e]
      <4>1. SendEnd(e)' = SendEnd(e) /\ written'[e] = n
        BY <1>4
      <4>2. SendEnd(e) - Isn[e] + Len(sendFifo'[e]) = n
        <5>1. \A x, L, I, w \in Int : x - I + L = w => x - I + (L + n - w) = n
          BY <1>n
        <5>2. /\ SendEnd(e) \in Int /\ Len(sendFifo[e]) \in Int
              /\ Isn[e] \in Int /\ written[e] \in Int
          BY <1>2, <3>1
        <5>3. SendEnd(e) - Isn[e] + (Len(sendFifo[e]) + n - written[e]) = n
          BY ZenonT(60), <3>3, <5>1, <5>2
        <5>. QED
          BY <3>2, <5>3, Zenon
      <4>. QED
        BY <4>1, <4>2, Zenon
    <3>. QED
      BY <1>4, <2>2, <3>4, <3>5, <3>6
  <2>. QED
    BY <2>1, <2>2
<1>7. SendWindowHoldsStream'
  BY <1>1 DEF Inv, SendWindowHoldsStream, StreamByte
<1>8. SegmentsAreGood'
  BY ZenonT(60), <1>1 DEF Inv, SegmentsAreGood, GoodSegment, StreamByte, SendEnd
<1>9. (WindowsAgree /\ WindowHoldsStream /\ WindowHoldsOneSegment)'
  BY <1>1 DEF Inv, WindowsAgree, WindowHoldsStream, WindowHoldsOneSegment, SendEnd, StreamByte
<1>10. DeliveredInOrder'
  BY <1>1 DEF Inv, DeliveredInOrder
<1>. QED
  BY <1>5, <1>6, <1>7, <1>8, <1>9, <1>10 DEF Inv

\* The calls of SocketRecv touch only the application's side of the recv fifo.
LEMMA SocketRecvInv ==
    ASSUME Inv, NEW e \in End, RecvOpen(e) \/ RecvRead(e) \/ RecvClose(e)
    PROVE  Inv'
<1>1. UNCHANGED <<sock, inPackets, written, sendFifo, delivered>>
  BY DEF RecvOpen, RecvRead, RecvClose
<1>2. TypeOK'
  <2>1. CASE RecvOpen(e)
    BY <2>1 DEF Inv, TypeOK, RecvOpen, RecvCall
  <2>2. CASE RecvClose(e)
    <3>1. recvFifo' \in [End -> Seq(Byte)]
      BY <2>2 DEF Inv, TypeOK, RecvClose
    <3>. QED
      BY <2>2, <3>1 DEF Inv, TypeOK, RecvClose, RecvCall
  <2>3. CASE RecvRead(e)
    <3>. DEFINE n == IF Len(recvFifo[e]) < BufferLen THEN Len(recvFifo[e]) ELSE BufferLen
                chunk == SubSeq(recvFifo[e], 1, n)
                rest == SubSeq(recvFifo[e], n + 1, Len(recvFifo[e]))
    <3>1. recvFifo[e] \in Seq(Byte) /\ received[e] \in Seq(Byte)
      BY DEF Inv, TypeOK
    <3>2. n \in 0 .. Len(recvFifo[e])
      BY <3>1, DataAssumption
    <3>3. chunk \in Seq(Byte) /\ rest \in Seq(Byte)
      BY <3>1, <3>2, SubSeqProperties
    <3>. HIDE DEF n
    <3>4. /\ recvFifo' = [recvFifo EXCEPT ![e] = rest]
          /\ received' = [received EXCEPT ![e] = @ \o chunk] \/ received' = received
          /\ recvCall' = [recvCall EXCEPT ![e] = "closing"]
      BY <2>3 DEF RecvRead, n, Inv, TypeOK
    <3>5. received[e] \o chunk \in Seq(Byte)
      BY <3>1, <3>3
    <3>. HIDE DEF chunk, rest
    <3>6. received' \in [End -> Seq(Byte)]
      BY <3>4, <3>5 DEF Inv, TypeOK
    <3>. QED
      BY <1>1, <3>3, <3>4, <3>6 DEF Inv, TypeOK, RecvCall
  <2>. QED
    BY <2>1, <2>2, <2>3
<1>3. SendFifoHoldsStream'
  BY <1>1 DEF Inv, SendFifoHoldsStream, SendEnd, StreamByte
<1>4. SendWindowHoldsStream'
  BY <1>1 DEF Inv, SendWindowHoldsStream, StreamByte
<1>5. SegmentsAreGood'
  BY ZenonT(60), <1>1 DEF Inv, SegmentsAreGood, GoodSegment, SendEnd, StreamByte
<1>6. WindowsAgree' /\ WindowHoldsStream'
  BY <1>1 DEF Inv, WindowsAgree, WindowHoldsStream, SendEnd, StreamByte
<1>7. WindowHoldsOneSegment' /\ DeliveredInOrder'
  BY <1>1 DEF Inv, WindowHoldsOneSegment, DeliveredInOrder
<1>. QED
  BY <1>2, <1>3, <1>4, <1>5, <1>6, <1>7 DEF Inv

\* One byte moves from the send fifo to the end of the send window; the place
\* of every byte in the stream stays what it was.
LEMMA ReadSendFifoInv ==
    ASSUME Inv, NEW e \in End, ReadSendFifo(e)
    PROVE  Inv'
<1>. DEFINE s == sock[e]
            t == sock'[e]
            x == Head(sendFifo[e])
<1>0. TypeOK /\ SendFifoHoldsStream /\ SendWindowHoldsStream
  BY DEF Inv
<1>1. /\ Len(s.send_window) < DEFAULT_QUEUE_CAPACITY
      /\ sendFifo[e] # <<>>
      /\ sock' = [sock EXCEPT ![e].send_window = Append(@, x)]
      /\ sendFifo' = [sendFifo EXCEPT ![e] = Tail(@)]
      /\ UNCHANGED <<inPackets, written, recvFifo, recvCall, delivered, received>>
  BY DEF ReadSendFifo
<1>2. /\ s \in Socket /\ Isn[e] \in Int /\ written[e] \in Nat
      /\ s.send_window \in Seq(Byte) /\ Len(s.send_window) \in Nat
      /\ s.send_seq \in Int /\ SendEnd(e) \in Int
      /\ SendEnd(e) = s.send_seq + Len(s.send_window)
      /\ sendFifo[e] \in Seq(Byte) /\ Len(sendFifo[e]) \in Nat
  BY <1>0, DataAssumption, SocketTypes DEF TypeOK, SendEnd
<1>3. /\ x \in Byte /\ Tail(sendFifo[e]) \in Seq(Byte)
      /\ Len(sendFifo[e]) >= 1 /\ x = sendFifo[e][1]
      /\ Len(Tail(sendFifo[e])) = Len(sendFifo[e]) - 1
      /\ \A i \in 1 .. Len(Tail(sendFifo[e])) : Tail(sendFifo[e])[i] = sendFifo[e][i + 1]
  BY <1>1, <1>2, HeadTailProperties
<1>4. /\ Append(s.send_window, x) \in Seq(Byte)
      /\ Len(Append(s.send_window, x)) = Len(s.send_window) + 1
      /\ \A i \in 1 .. Len(s.send_window) : Append(s.send_window, x)[i] = s.send_window[i]
      /\ Append(s.send_window, x)[Len(s.send_window) + 1] = x
  BY <1>2, <1>3, AppendProperties
<1>. HIDE DEF x
<1>5. /\ t \in Socket
      /\ t.send_seq = s.send_seq /\ t.recv_seq = s.recv_seq
      /\ t.recv_window = s.recv_window
      /\ t.send_window = Append(s.send_window, x)
      /\ sock' \in [End -> Socket]
      /\ \A d \in End : d # e => sock'[d] = sock[d]
  BY ZenonT(60), <1>0, <1>1, <1>4 DEF TypeOK, Socket
<1>6. /\ sendFifo'[e] = Tail(sendFifo[e])
      /\ sendFifo' \in [End -> Seq(Byte)]
      /\ \A d \in End : d # e => sendFifo'[d] = sendFifo[d]
  BY <1>0, <1>1, <1>3 DEF TypeOK
<1>7. /\ SendEnd(e)' = SendEnd(e) + 1
      /\ \A d \in End : d # e => SendEnd(d)' = SendEnd(d)
  <2>1. SendEnd(e)' = s.send_seq + (Len(s.send_window) + 1)
    BY <1>4, <1>5 DEF SendEnd
  <2>2. s.send_seq + (Len(s.send_window) + 1) = SendEnd(e) + 1
    BY <1>2
  <2>3. \A d \in End : d # e => SendEnd(d)' = SendEnd(d)
    BY <1>5 DEF SendEnd
  <2>. QED
    BY <2>1, <2>2, <2>3
<1>8. TypeOK'
  <2>1. \A d \in End : Len(sock'[d].send_window) <= DEFAULT_QUEUE_CAPACITY
    <3>1. Len(t.send_window) <= DEFAULT_QUEUE_CAPACITY
      BY <1>1, <1>2, <1>4, <1>5, SizeAssumption
    <3>. QED
      BY <1>0, <1>5, <3>1 DEF TypeOK
  <2>. QED
    BY <1>0, <1>1, <1>5, <1>6, <2>1 DEF TypeOK
<1>. HIDE DEF s, t
<1>9. SendFifoHoldsStream'
  <2>. SUFFICES ASSUME NEW d \in End
                PROVE  /\ Isn[d] <= sock'[d].send_seq
                       /\ SendEnd(d)' - Isn[d] + Len(sendFifo'[d]) = written'[d]
                       /\ \A i \in 1 .. Len(sendFifo'[d]) :
                            sendFifo'[d][i] = StreamByte(d, SendEnd(d)' + i - 1)
    BY DEF SendFifoHoldsStream, StreamByte
  <2>1. CASE d # e
    BY <1>0, <1>1, <1>5, <1>6, <1>7, <2>1 DEF SendFifoHoldsStream
  <2>2. CASE d = e
    <3>1. Isn[e] <= sock'[e].send_seq
      BY <1>0, <1>5 DEF SendFifoHoldsStream, s, t
    <3>2. SendEnd(e)' - Isn[e] + Len(sendFifo'[e]) = written'[e]
      <4>1. SendEnd(e) - Isn[e] + Len(sendFifo[e]) = written[e]
        BY <1>0 DEF SendFifoHoldsStream
      <4>2. (SendEnd(e) + 1) - Isn[e] + (Len(sendFifo[e]) - 1) = written[e]
        BY <1>2, <4>1
      <4>. QED
        BY <1>1, <1>3, <1>6, <1>7, <4>2
    <3>3. ASSUME NEW i \in 1 .. Len(sendFifo'[e])
          PROVE  sendFifo'[e][i] = StreamByte(e, SendEnd(e)' + i - 1)
      <4>1. i + 1 \in 1 .. Len(sendFifo[e]) /\ sendFifo'[e][i] = sendFifo[e][i + 1]
        BY <1>2, <1>3, <1>6
      <4>2. sendFifo[e][i + 1] = StreamByte(e, SendEnd(e) + (i + 1) - 1)
        BY <1>0, <4>1 DEF SendFifoHoldsStream
      <4>3. SendEnd(e) + (i + 1) - 1 = (SendEnd(e) + 1) + i - 1
        BY <1>2
      <4>. QED
        BY <1>7, <4>1, <4>2, <4>3
    <3>. QED
      BY <2>2, <3>1, <3>2, <3>3
  <2>. QED
    BY <2>1, <2>2
<1>10. SendWindowHoldsStream'
  <2>. SUFFICES ASSUME NEW d \in End, NEW i \in 1 .. Len(sock'[d].send_window)
                PROVE  sock'[d].send_window[i] = StreamByte(d, sock'[d].send_seq + i - 1)
    BY DEF SendWindowHoldsStream, StreamByte
  <2>1. CASE d # e
    BY <1>0, <1>5, <2>1 DEF SendWindowHoldsStream
  <2>2. CASE d = e /\ i <= Len(s.send_window)
    <3>1. i \in 1 .. Len(s.send_window)
      BY <1>2, <2>2
    <3>. QED
      BY <1>0, <1>4, <1>5, <2>2, <3>1 DEF SendWindowHoldsStream, s, t
  <2>3. CASE d = e /\ ~(i <= Len(s.send_window))
    <3>1. i = Len(s.send_window) + 1
      BY <1>2, <1>4, <1>5, <2>3 DEF t
    <3>2. x = StreamByte(e, SendEnd(e) + 1 - 1)
      BY <1>0, <1>2, <1>3 DEF SendFifoHoldsStream
    <3>3. SendEnd(e) + 1 - 1 = s.send_seq + i - 1
      BY <1>2, <3>1
    <3>. QED
      BY <1>4, <1>5, <2>3, <3>1, <3>2, <3>3 DEF t
  <2>. QED
    BY <2>1, <2>2, <2>3
<1>11. SegmentsAreGood'
  <2>1. \A d \in End : SendEnd(d) <= SendEnd(d)' /\ sock[d].recv_seq <= sock'[d].recv_seq
    <3>1. \A d \in End : sock[d].recv_seq \in Int /\ SendEnd(d) \in Int
      BY SMTT(30), <1>0, SocketTypes DEF TypeOK, SendEnd
    <3>. QED
      BY <1>5, <1>7, <3>1 DEF s, t
  <2>. SUFFICES ASSUME NEW d \in End, NEW i \in 1 .. Len(inPackets[d])
                PROVE  GoodSegment(d, inPackets[d][i])'
    BY <1>1 DEF SegmentsAreGood
  <2>2. inPackets[d][i] \in Segment /\ GoodSegment(d, inPackets[d][i])
    BY <1>0 DEF TypeOK, Inv, SegmentsAreGood
  <2>3. inPackets'[d][i] = inPackets[d][i]
    BY <1>1
  <2>. DEFINE p == inPackets[d][i]
  <2>4. \A q \in Segment : GoodSegment(d, q) => GoodSegment(d, q)'
    BY <1>0, <1>8, <2>1, GoodSegmentStable, PeerProperties
  <2>. QED
    BY <2>2, <2>3, <2>4 DEF GoodSegment
<1>12. WindowsAgree' /\ WindowHoldsStream'
  <2>1. \A d \in End : /\ sock'[d].send_seq = sock[d].send_seq
                       /\ sock'[d].recv_seq = sock[d].recv_seq
                       /\ sock'[d].recv_window = sock[d].recv_window
    BY <1>5 DEF s, t
  <2>2. \A d \in End : \A n \in Int : /\ n <= SendEnd(d) => n <= SendEnd(d)'
                                      /\ n < SendEnd(d) => n < SendEnd(d)'
    <3>1. \A d \in End : SendEnd(d) \in Int
      BY SMTT(30), <1>0, SocketTypes DEF TypeOK, SendEnd
    <3>. QED
      BY <1>7, <3>1
  <2>3. \A d \in End : sock[d].recv_seq \in Int /\ \A k \in Slot : sock[d].recv_seq + k \in Int
    BY SMTT(30), <1>0, SocketTypes, SizeAssumption DEF TypeOK, Slot
  <2>4. WindowsAgree'
    BY <2>1, <2>2, <2>3, PeerProperties DEF Inv, WindowsAgree
  <2>5. WindowHoldsStream'
    BY <2>1, <2>2, <2>3, PeerProperties DEF Inv, WindowHoldsStream, StreamByte
  <2>. QED
    BY <2>4, <2>5
<1>13. WindowHoldsOneSegment' /\ DeliveredInOrder'
  <2>1. \A d \in End : /\ sock'[d].recv_seq = sock[d].recv_seq
                       /\ sock'[d].recv_window = sock[d].recv_window
    BY <1>5 DEF s, t
  <2>. QED
    BY <1>1, <2>1 DEF Inv, WindowHoldsOneSegment, DeliveredInOrder
<1>. QED
  BY <1>8, <1>9, <1>10, <1>11, <1>12, <1>13 DEF Inv

\* The segment cut from the front of the send window is a good one: it starts
\* at send_seq, which the other end has reached, and acknowledges recv_seq.
LEMMA SendWindowInv ==
    ASSUME Inv, NEW e \in End, SendWindow(e)
    PROVE  Inv'
<1>. DEFINE s == sock[e]
            data == get_next_socket_packet_data(s)
            p == construct_packet(s, data, {"ACK"})
            d == Peer(e)
<1>0. TypeOK /\ SegmentsAreGood /\ SendWindowHoldsStream /\ SendFifoHoldsStream /\ WindowsAgree
  BY DEF Inv
<1>1. /\ inPackets' = [inPackets EXCEPT ![d] = Append(@, p)]
      /\ UNCHANGED <<sock, written, sendFifo, recvFifo, recvCall, delivered, received>>
  BY DEF SendWindow
<1>2. /\ d \in End /\ Peer(d) = e /\ s \in Socket
      /\ s.send_window \in Seq(Byte) /\ Len(s.send_window) \in Nat
      /\ s.send_seq \in Int /\ s.recv_seq \in Int
  BY <1>0, PeerProperties, SocketTypes DEF TypeOK
<1>3. /\ data \in Seq(Byte)
      /\ Len(data) \in 0 .. Len(s.send_window)
      /\ Len(data) <= MAX_DATA_PER_PACKET
      /\ \A i \in 1 .. Len(data) : data[i] = s.send_window[i]
  <2>. DEFINE q == s.send_window
              n == DataLength(q)
  <2>1. n \in 0 .. Len(q) /\ n <= MAX_DATA_PER_PACKET
    BY <1>2, DataLengthProperties
  <2>2. data = SubSeq(q, 0 + 1, n) /\ 0 \in Nat
    BY DEF get_next_socket_packet_data
  <2>. HIDE DEF n, q, data
  <2>3. q \in Seq(Byte) /\ n \in Nat /\ 0 <= n /\ n <= Len(q)
    BY <1>2, <2>1 DEF q
  <2>4. /\ SubSeq(q, 0 + 1, n) \in Seq(Byte)
        /\ Len(SubSeq(q, 0 + 1, n)) = n - 0
        /\ \A i \in 1 .. n - 0 : SubSeq(q, 0 + 1, n)[i] = q[0 + i]
    BY <2>2, <2>3, Slice
  <2>5. n - 0 = n /\ \A i \in 1 .. n : 0 + i = i
    BY <2>3
  <2>. QED
    BY <2>1, <2>2, <2>4, <2>5 DEF q
<1>. HIDE DEF data, d
<1>4. /\ p = [flags |-> {"ACK"}, seq |-> s.send_seq, ack |-> s.recv_seq, data |-> data]
      /\ p \in Segment
  BY <1>2, <1>3 DEF construct_packet, Segment, Flag
<1>5. GoodSegment(d, p)
  <2>1. Isn[e] <= s.send_seq /\ s.send_seq <= sock[d].recv_seq
    BY <1>0 DEF SendFifoHoldsStream, WindowsAgree, d
  <2>2. s.send_seq + Len(data) <= SendEnd(e)
    BY <1>2, <1>3 DEF SendEnd
  <2>3. \A j \in 1 .. Len(data) : data[j] = StreamByte(e, s.send_seq + j - 1)
    BY <1>0, <1>2, <1>3 DEF SendWindowHoldsStream
  <2>4. s.recv_seq <= sock[Peer(d)].recv_seq
    BY <1>2
  <2>. QED
    BY <1>2, <1>4, <2>1, <2>2, <2>3, <2>4 DEF GoodSegment
<1>. HIDE DEF p
<1>6. /\ inPackets[d] \in Seq(Segment) /\ Len(inPackets[d]) \in Nat
      /\ inPackets'[d] = Append(inPackets[d], p)
      /\ \A c \in End : c # d => inPackets'[c] = inPackets[c]
  BY SMTT(30), <1>0, <1>1, <1>2 DEF TypeOK
<1>7. /\ inPackets'[d] \in Seq(Segment)
      /\ \A i \in 1 .. Len(inPackets'[d]) :
            \/ i \in 1 .. Len(inPackets[d]) /\ inPackets'[d][i] = inPackets[d][i]
            \/ inPackets'[d][i] = p
  BY <1>4, <1>6, AppendElements
<1>8. \A c \in End : \A i \in 1 .. Len(inPackets'[c]) :
        \/ i \in 1 .. Len(inPackets[c]) /\ inPackets'[c][i] = inPackets[c][i]
        \/ c = d /\ inPackets'[c][i] = p
  BY <1>6, <1>7
<1>9. TypeOK'
  <2>1. inPackets' \in [End -> Seq(Segment)]
    BY <1>0, <1>1, <1>6, <1>7 DEF TypeOK
  <2>2. Len(p.data) <= MAX_DATA_PER_PACKET
    BY <1>3, <1>4
  <2>3. ASSUME NEW c \in End, NEW i \in 1 .. Len(inPackets'[c])
        PROVE  Len(inPackets'[c][i].data) <= MAX_DATA_PER_PACKET
    BY <1>0, <1>8, <2>2 DEF TypeOK
  <2>. QED
    BY <1>0, <1>1, <2>1, <2>3 DEF TypeOK
<1>10. SegmentsAreGood'
  <2>1. \A q : GoodSegment(d, q) => GoodSegment(d, q)'
    BY <1>1 DEF GoodSegment, SendEnd, StreamByte
  <2>2. \A i \in 1 .. Len(inPackets'[d]) :
            inPackets'[d][i] = p => GoodSegment(d, inPackets[d][i])'
    BY <1>5, <2>1 DEF GoodSegment
  <2>3. \A c \in End : \A i \in 1 .. Len(inPackets'[c]) :
            \/ \E j \in 1 .. Len(inPackets[c]) : inPackets'[c][i] = inPackets[c][j]
            \/ GoodSegment(c, inPackets[c][i])'
    BY <1>8, <2>2
  <2>4. \A c \in End : /\ sock[c].recv_seq <= sock'[c].recv_seq
                       /\ SendEnd(c) <= SendEnd(c)'
    <3>1. \A c \in End : sock[c].recv_seq \in Int /\ SendEnd(c) \in Int
      BY SMTT(30), <1>0, SocketTypes DEF TypeOK, SendEnd
    <3>. QED
      BY <1>1, <3>1 DEF SendEnd
  <2>. QED
    BY <1>0, <1>9, <2>3, <2>4, SegmentsStayGood
<1>11. SendFifoHoldsStream'
  BY <1>1 DEF Inv, SendFifoHoldsStream, SendEnd, StreamByte
<1>12. SendWindowHoldsStream'
  BY <1>1 DEF Inv, SendWindowHoldsStream, StreamByte
<1>13. WindowsAgree' /\ WindowHoldsStream'
  BY <1>1 DEF Inv, WindowsAgree, WindowHoldsStream, SendEnd, StreamByte
<1>14. WindowHoldsOneSegment' /\ DeliveredInOrder'
  BY <1>1 DEF Inv, WindowHoldsOneSegment, DeliveredInOrder
<1>. QED
  BY <1>9, <1>10, <1>11, <1>12, <1>13, <1>14 DEF Inv

\* What one step of the receiving manager does to the positions, the windows
\* and the queues.  a bytes are acknowledged, the bytes in "new" delivered.
LEMMA HandlePacketEffect ==
    ASSUME Inv, NEW e \in End, HandlePacket(e)
    PROVE  \E a \in Nat, new \in Seq(Byte), p \in Segment, reply \in Seq(Segment) :
        /\ GoodSegment(e, p) /\ Len(p.data) <= MAX_DATA_PER_PACKET
        /\ a <= Len(sock[e].send_window) /\ (a > 0 => sock[e].send_seq + a <= p.ack)
        /\ sock' \in [End -> Socket] /\ \A c \in End : c # e => sock'[c] = sock[c]
        /\ sock'[e].send_seq = sock[e].send_seq + a
        /\ Len(sock'[e].send_window) = Len(sock[e].send_window) - a
        /\ \A i \in 1 .. Len(sock'[e].send_window) :
                sock'[e].send_window[i] = sock[e].send_window[i + a]
        /\ sock'[e].recv_seq = sock[e].recv_seq + Len(new)
        /\ \A i \in 1 .. Len(new) : i - 1 \in Slot /\ Source(sock[e], p, i - 1, new[i])
        /\ \A k \in Slot : sock'[e].recv_window[k] # NoByte =>
                /\ k + Len(new) \in Slot
                /\ Source(sock[e], p, k + Len(new), sock'[e].recv_window[k])
        /\ \A k \in Slot : k + Len(new) \in Slot /\ Filled(sock[e], p, k + Len(new)) =>
                sock'[e].recv_window[k] # NoByte
        /\ delivered' = [delivered EXCEPT ![e] = @ \o new]
        /\ recvFifo' = [recvFifo EXCEPT ![e] = @ \o new]
        /\ inPackets[e] # <<>>
        /\ inPackets' = [inPackets EXCEPT ![e] = Tail(@), ![Peer(e)] = @ \o reply]
        /\ \/ reply = <<>>
           \/ reply = <<[flags |-> {"ACK"}, seq |-> sock'[e].send_seq,
                          ack |-> sock'[e].recv_seq, data |-> <<>>]>>
<1>. DEFINE s == sock[e]
            p == Head(inPackets[e])
            cw == CanWrite(e, p)
            r == handle_packet_established(s, p, cw)
            a == AckedBytes(s, p.ack)
<1>0. TypeOK /\ SegmentsAreGood
  BY DEF Inv
<1>1. PICK reply \in {r.reply, <<>>} :
        /\ inPackets[e] # <<>>
        /\ sock' = [sock EXCEPT ![e] = r.sock]
        /\ inPackets' = [inPackets EXCEPT ![e] = Tail(@), ![Peer(e)] = @ \o reply]
        /\ recvFifo' = [recvFifo EXCEPT ![e] = @ \o r.bytes]
        /\ delivered' = [delivered EXCEPT ![e] = @ \o r.bytes]
  BY DEF HandlePacket
<1>2. /\ s \in Socket /\ inPackets[e] \in Seq(Segment) /\ Len(inPackets[e]) \in Nat
      /\ Len(inPackets[e]) >= 1
  BY <1>0, <1>1 DEF TypeOK
<1>3. p \in Segment /\ p = inPackets[e][1] /\ 1 \in 1 .. Len(inPackets[e])
  BY <1>1, <1>2, HeadTailProperties
<1>4. GoodSegment(e, p) /\ Len(p.data) <= MAX_DATA_PER_PACKET
  BY <1>0, <1>3 DEF SegmentsAreGood, TypeOK
<1>5. p.flags = {"ACK"} /\ p.ack \in Int /\ cw \in BOOLEAN
  BY <1>3, <1>4 DEF GoodSegment, Segment, CanWrite
<1>. HIDE DEF p, cw, s
<1>6. /\ a \in 0 .. Len(s.send_window)
      /\ a > 0 => s.send_seq + a <= p.ack
  BY <1>2, <1>5, AcknowledgeProperties
<1>7. /\ r.sock \in Socket
      /\ r.sock.send_seq = s.send_seq + a
      /\ Len(r.sock.send_window) = Len(s.send_window) - a
      /\ \A i \in 1 .. Len(r.sock.send_window) :
               r.sock.send_window[i] = s.send_window[i + a]
      /\ r.bytes \in Seq(Byte)
      /\ r.sock.recv_seq = s.recv_seq + Len(r.bytes)
      /\ \A i \in 1 .. Len(r.bytes) :
               i - 1 \in Slot /\ Source(s, p, i - 1, r.bytes[i])
      /\ \A k \in Slot : r.sock.recv_window[k] # NoByte =>
               /\ k + Len(r.bytes) \in Slot
               /\ Source(s, p, k + Len(r.bytes), r.sock.recv_window[k])
      /\ \A k \in Slot : k + Len(r.bytes) \in Slot /\ Filled(s, p, k + Len(r.bytes)) =>
               r.sock.recv_window[k] # NoByte
      /\ \/ r.reply = <<>>
         \/ r.reply = <<[flags |-> {"ACK"}, seq |-> r.sock.send_seq,
                          ack |-> r.sock.recv_seq, data |-> <<>>]>>
  BY ZenonT(60), <1>2, <1>3, <1>5, EstablishedProperties
<1>. HIDE DEF r, a
<1>8. a \in Nat /\ a <= Len(s.send_window)
  BY <1>2, <1>6, SocketTypes
<1>9. /\ sock'[e] = r.sock
      /\ sock' \in [End -> Socket]
      /\ \A c \in End : c # e => sock'[c] = sock[c]
  BY <1>0, <1>1, <1>7 DEF TypeOK
<1>10. /\ \/ reply = <<>>
          \/ reply = <<[flags |-> {"ACK"}, seq |-> r.sock.send_seq,
                         ack |-> r.sock.recv_seq, data |-> <<>>]>>
       /\ reply \in Seq(Segment)
  <2>1. [flags |-> {"ACK"}, seq |-> r.sock.send_seq, ack |-> r.sock.recv_seq,
         data |-> <<>>] \in Segment
    BY <1>7, SocketTypes DEF Segment, Flag
  <2>2. \/ reply = <<>>
        \/ reply = <<[flags |-> {"ACK"}, seq |-> r.sock.send_seq,
                       ack |-> r.sock.recv_seq, data |-> <<>>]>>
    BY <1>7
  <2>3. <<>> \in Seq(Segment) /\ \A q \in Segment : <<q>> \in Seq(Segment)
    OBVIOUS
  <2>. QED
    BY <2>1, <2>2, <2>3
<1>11. s = sock[e]
  BY DEF s
<1>. QED
  <2>. DEFINE new == r.bytes
  <2>. USE <1>3, <1>7, <1>8, <1>10
  <2>. WITNESS a \in Nat, new \in Seq(Byte), p \in Segment, reply \in Seq(Segment)
  <2>. QED
    BY <1>1, <1>3, <1>4, <1>6, <1>7, <1>8, <1>9, <1>10, <1>11

\* The receiving manager keeps the invariant: what it stores and delivers are
\* the next bytes of the stream, whatever old or overlapping segment it takes.
LEMMA HandlePacketInv ==
    ASSUME Inv, NEW e \in End, HandlePacket(e)
    PROVE  Inv'
<1>. DEFINE d == Peer(e)
            recv == sock[e].recv_seq
<1>0. /\ TypeOK /\ SendFifoHoldsStream /\ SendWindowHoldsStream /\ SegmentsAreGood
      /\ WindowsAgree /\ WindowHoldsStream /\ WindowHoldsOneSegment /\ DeliveredInOrder
  BY DEF Inv
<1>1. PICK a \in Nat, new \in Seq(Byte), p \in Segment, reply \in Seq(Segment) :
        /\ GoodSegment(e, p) /\ Len(p.data) <= MAX_DATA_PER_PACKET
        /\ a <= Len(sock[e].send_window) /\ (a > 0 => sock[e].send_seq + a <= p.ack)
        /\ sock' \in [End -> Socket] /\ \A c \in End : c # e => sock'[c] = sock[c]
        /\ sock'[e].send_seq = sock[e].send_seq + a
        /\ Len(sock'[e].send_window) = Len(sock[e].send_window) - a
        /\ \A i \in 1 .. Len(sock'[e].send_window) :
                sock'[e].send_window[i] = sock[e].send_window[i + a]
        /\ sock'[e].recv_seq = sock[e].recv_seq + Len(new)
        /\ \A i \in 1 .. Len(new) : i - 1 \in Slot /\ Source(sock[e], p, i - 1, new[i])
        /\ \A k \in Slot : sock'[e].recv_window[k] # NoByte =>
                /\ k + Len(new) \in Slot
                /\ Source(sock[e], p, k + Len(new), sock'[e].recv_window[k])
        /\ \A k \in Slot : k + Len(new) \in Slot /\ Filled(sock[e], p, k + Len(new)) =>
                sock'[e].recv_window[k] # NoByte
        /\ delivered' = [delivered EXCEPT ![e] = @ \o new]
        /\ recvFifo' = [recvFifo EXCEPT ![e] = @ \o new]
        /\ inPackets[e] # <<>>
        /\ inPackets' = [inPackets EXCEPT ![e] = Tail(@), ![Peer(e)] = @ \o reply]
        /\ \/ reply = <<>>
           \/ reply = <<[flags |-> {"ACK"}, seq |-> sock'[e].send_seq,
                          ack |-> sock'[e].recv_seq, data |-> <<>>]>>
  BY HandlePacketEffect
<1>2. /\ UNCHANGED <<written, sendFifo, received>>
      /\ recvCall' \in [End -> RecvCall]
  BY <1>0 DEF HandlePacket, TypeOK, RecvCall
<1>3. /\ d \in End /\ d # e /\ Peer(d) = e /\ \A c \in End : c = e \/ c = d
      /\ Isn[e] \in Int /\ Isn[d] \in Int
      /\ sock[e] \in Socket /\ sock[d] \in Socket
  BY <1>0, PeerProperties, DataAssumption DEF TypeOK
<1>4. /\ recv \in Int /\ sock[e].send_seq \in Int
      /\ sock[d].recv_seq \in Int /\ sock[d].send_seq \in Int
      /\ Len(sock[e].send_window) \in Nat /\ Len(sock[d].send_window) \in Nat
      /\ SendEnd(e) \in Int /\ SendEnd(d) \in Int
      /\ Len(new) \in Nat /\ Len(p.data) \in Nat /\ p.seq \in Int /\ p.ack \in Int
  <2>1. /\ sock[e].recv_seq \in Int /\ sock[e].send_seq \in Int
        /\ sock[d].recv_seq \in Int /\ sock[d].send_seq \in Int
        /\ Len(sock[e].send_window) \in Nat /\ Len(sock[d].send_window) \in Nat
    BY <1>3, SocketTypes
  <2>2. SendEnd(e) \in Int /\ SendEnd(d) \in Int
    BY SMTT(30), <2>1 DEF SendEnd
  <2>3. Len(new) \in Nat
    OBVIOUS
  <2>4. Len(p.data) \in Nat /\ p.seq \in Int /\ p.ack \in Int
    BY DEF Segment
  <2>. QED
    BY <2>1, <2>2, <2>3, <2>4
<1>5. SendEnd(e)' = SendEnd(e) /\ SendEnd(d)' = SendEnd(d) /\ sock'[d] = sock[d]
  <2>1. SendEnd(e)' = (sock[e].send_seq + a) + (Len(sock[e].send_window) - a)
    BY <1>1 DEF SendEnd
  <2>2. \A x, y \in Int : (x + a) + (y - a) = x + y
    OBVIOUS
  <2>3. (sock[e].send_seq + a) + (Len(sock[e].send_window) - a)
            = sock[e].send_seq + Len(sock[e].send_window)
    BY SMTT(30), <1>4, <2>2
  <2>4. SendEnd(e) = sock[e].send_seq + Len(sock[e].send_window)
    BY DEF SendEnd
  <2>5. SendEnd(e)' = SendEnd(e)
    BY <2>1, <2>3, <2>4
  <2>. QED
    BY <1>1, <1>3, <2>5 DEF SendEnd
<1>. HIDE DEF d, recv
\* Every byte that can get into slot k is byte recv + k of the other's stream.
<1>6. ASSUME NEW k \in Slot, NEW x, x # NoByte, Source(sock[e], p, k, x)
      PROVE  recv + k < SendEnd(d) /\ x = StreamByte(d, recv + k)
  <2>1. CASE x = sock[e].recv_window[k]
    BY <1>0, <1>6, <2>1 DEF WindowHoldsStream, d, recv
  <2>2. CASE \E i \in 1 .. Len(p.data) : p.seq + i - 1 = sock[e].recv_seq + k /\ x = p.data[i]
    <3>1. PICK i \in 1 .. Len(p.data) : p.seq + i - 1 = recv + k /\ x = p.data[i]
      BY <2>2 DEF recv
    <3>2. p.seq + Len(p.data) <= SendEnd(d) /\ p.data[i] = StreamByte(d, p.seq + i - 1)
      BY <1>1 DEF GoodSegment, d
    <3>3. p.seq + i - 1 < SendEnd(d)
      BY SMTT(30), <1>4, <3>2
    <3>. QED
      BY <3>1, <3>2, <3>3
  <2>. QED
    BY <1>6, <2>1, <2>2 DEF Source
<1>7. \A i \in 1 .. Len(new) : /\ recv + (i - 1) < SendEnd(d)
                               /\ new[i] = StreamByte(d, recv + (i - 1))
  BY <1>1, <1>6, ByteAssumption
<1>8. recv + Len(new) <= SendEnd(d)
  <2>1. CASE Len(new) = 0
    BY <1>0, <1>3, <1>4, <2>1 DEF WindowsAgree, recv, d
  <2>2. CASE Len(new) > 0
    <3>1. Len(new) \in 1 .. Len(new)
      BY <1>4, <2>2
    <3>2. recv + (Len(new) - 1) < SendEnd(d)
      BY <1>7, <3>1
    <3>. QED
      BY <1>4, <3>2
  <2>. QED
    BY <1>4, <2>1, <2>2
<1>9. sock[e].send_seq + a <= sock[d].recv_seq
  <2>1. p.ack <= sock[d].recv_seq /\ sock[e].send_seq <= sock[d].recv_seq
    BY <1>0, <1>1 DEF GoodSegment, WindowsAgree, d
  <2>. QED
    BY SMTT(30), <1>1, <1>4, <2>1
<1>10. /\ sock'[e].recv_seq = recv + Len(new)
       /\ \A c \in End : /\ sock[c].recv_seq <= sock'[c].recv_seq
                         /\ SendEnd(c) <= SendEnd(c)'
  <2>1. sock'[e].recv_seq = recv + Len(new)
    BY <1>1 DEF recv
  <2>2. sock[e].recv_seq <= sock'[e].recv_seq
    <3>1. recv <= recv + Len(new)
      BY <1>4
    <3>. QED
      BY <2>1, <3>1 DEF recv
  <2>3. sock[d].recv_seq <= sock'[d].recv_seq
    BY <1>4, <1>5
  <2>4. \A c \in {e, d} : SendEnd(c) <= SendEnd(c)'
    BY <1>4, <1>5
  <2>. QED
    BY <1>3, <2>1, <2>2, <2>3, <2>4
<1>11. DeliveredInOrder'
  <2>. SUFFICES ASSUME NEW c \in End
                PROVE  /\ Len(delivered'[c]) = sock'[c].recv_seq - Isn[Peer(c)]
                       /\ Len(delivered'[c]) <= Len(Message[Peer(c)])
                       /\ \A i \in 1 .. Len(delivered'[c]) :
                            delivered'[c][i] = Message[Peer(c)][i]
    BY DEF DeliveredInOrder
  <2>1. CASE c # e
    <3>1. delivered'[c] = delivered[c] /\ sock'[c] = sock[c]
      BY <1>1, <2>1, <1>0 DEF TypeOK
    <3>. QED
      BY <1>0, <3>1 DEF DeliveredInOrder
  <2>2. CASE c = e
    <3>. DEFINE old == delivered[e]
                all == delivered'[e]
    <3>1. /\ old \in Seq(Byte) /\ Len(old) \in Nat /\ all = old \o new
          /\ Len(old) = recv - Isn[d]
          /\ \A i \in 1 .. Len(old) : old[i] = Message[d][i]
      <4>1. /\ delivered \in [End -> Seq(Byte)]
            /\ delivered' = [delivered EXCEPT ![e] = @ \o new]
        BY <1>0, <1>1 DEF TypeOK
      <4>2. old \in Seq(Byte) /\ Len(old) \in Nat /\ all = old \o new
        BY <4>1
      <4>3. /\ Len(old) = recv - Isn[d]
            /\ \A i \in 1 .. Len(old) : old[i] = Message[d][i]
        BY <1>0 DEF DeliveredInOrder, d, recv
      <4>. QED
        BY <4>2, <4>3
    <3>. HIDE DEF old, all
    <3>2. /\ Len(all) = Len(old) + Len(new)
          /\ \A i \in 1 .. Len(old) + Len(new) :
                all[i] = IF i <= Len(old) THEN old[i] ELSE new[i - Len(old)]
      BY <3>1, ConcatProperties
    <3>3. Len(all) = (recv + Len(new)) - Isn[d]
      BY <1>3, <1>4, <3>1, <3>2
    <3>4. Len(all) <= Len(Message[d])
      <4>1. /\ SendEnd(d) - Isn[d] + Len(sendFifo[d]) = written[d]
            /\ Len(sendFifo[d]) \in Nat /\ written[d] \in Nat
            /\ written[d] <= Len(Message[d]) /\ Len(Message[d]) \in Nat
        <5>1. SendEnd(d) - Isn[d] + Len(sendFifo[d]) = written[d]
          BY <1>0, <1>3 DEF SendFifoHoldsStream
        <5>2. /\ sendFifo[d] \in Seq(Byte) /\ written[d] \in Nat
              /\ written[d] <= Len(Message[d])
          BY <1>0, <1>3 DEF TypeOK
        <5>3. Message[d] \in Seq(Byte)
          BY <1>3, DataAssumption
        <5>. QED
          BY <5>1, <5>2, <5>3
      <4>2. SendEnd(d) - Isn[d] <= Len(Message[d])
        <5>1. \A x, I, L, w, m \in Int : x - I + L = w /\ 0 <= L /\ w <= m => x - I <= m
          OBVIOUS
        <5>2. /\ SendEnd(d) \in Int /\ Isn[d] \in Int /\ Len(sendFifo[d]) \in Int
              /\ written[d] \in Int /\ Len(Message[d]) \in Int /\ 0 <= Len(sendFifo[d])
          BY <1>3, <1>4, <4>1
        <5>. QED
          BY <4>1, <5>1, <5>2, Zenon
      <4>. QED
        BY <1>3, <1>4, <1>8, <3>3, <4>1, <4>2
    <3>5. ASSUME NEW i \in 1 .. Len(all) PROVE all[i] = Message[d][i]
      <4>1. CASE i <= Len(old)
        BY <3>1, <3>2, <4>1
      <4>2. CASE i > Len(old)
        <5>1. i - Len(old) \in 1 .. Len(new) /\ all[i] = new[i - Len(old)]
          <6>1. /\ Len(all) = Len(old) + Len(new) /\ Len(old) \in Nat /\ Len(new) \in Nat
                /\ i \in 1 .. Len(old) + Len(new)
            BY <1>4, <3>1, <3>2
          <6>2. i - Len(old) \in 1 .. Len(new) /\ ~(i <= Len(old))
            BY <4>2, <6>1
          <6>. QED
            BY <3>2, <6>1, <6>2
        <5>2. all[i] = Message[d][(recv + ((i - Len(old)) - 1)) - Isn[d] + 1]
          BY <1>7, <5>1 DEF StreamByte
        <5>3. (recv + ((i - Len(old)) - 1)) - Isn[d] + 1 = i
          <6>1. \A x, I, L, j \in Int : L = x - I => (x + ((j - L) - 1)) - I + 1 = j
            OBVIOUS
          <6>2. recv \in Int /\ Isn[d] \in Int /\ Len(old) \in Int /\ i \in Int
            BY <1>3, <1>4, <3>1
          <6>3. Len(old) = recv - Isn[d]
            BY <3>1
          <6>. QED
            BY SMTT(60), <6>1, <6>2, <6>3
        <5>. QED
          BY <5>2, <5>3
      <4>. QED
        BY SMTT(30), <1>4, <3>1, <3>2, <4>1, <4>2
    <3>. QED
      BY <1>10, <2>2, <3>3, <3>4, <3>5 DEF all, d
  <2>. QED
    BY <2>1, <2>2
<1>ack. PICK ack \in Segment : ack = [flags |-> {"ACK"}, seq |-> sock'[e].send_seq,
                                    ack |-> sock'[e].recv_seq, data |-> <<>>]
  <2>1. sock'[e].send_seq \in Int /\ sock'[e].recv_seq \in Int
    BY <1>1, SocketTypes
  <2>2. <<>> \in Seq(Byte) /\ {"ACK"} \in SUBSET {"SYN", "ACK", "FIN", "RST"}
    OBVIOUS
  <2>3. [flags |-> {"ACK"}, seq |-> sock'[e].send_seq,
         ack |-> sock'[e].recv_seq, data |-> <<>>] \in Segment
    BY <2>1, <2>2 DEF Segment, Flag
  <2>. QED
    BY <2>3, Zenon
<1>12. /\ inPackets'[e] = Tail(inPackets[e]) /\ inPackets'[e] \in Seq(Segment)
       /\ inPackets'[d] = inPackets[d] \o reply /\ inPackets'[d] \in Seq(Segment)
       /\ inPackets' \in [End -> Seq(Segment)]
  <2>1. /\ inPackets[e] \in Seq(Segment) /\ inPackets[d] \in Seq(Segment)
        /\ inPackets \in [End -> Seq(Segment)]
    BY <1>0, <1>3 DEF TypeOK
  <2>2. Tail(inPackets[e]) \in Seq(Segment) /\ inPackets[d] \o reply \in Seq(Segment)
    BY <1>1, <2>1, HeadTailProperties
  <2>3. inPackets' = [inPackets EXCEPT ![e] = Tail(@), ![d] = @ \o reply]
    BY <1>1 DEF d
  <2>. QED
    BY <1>3, <2>1, <2>2, <2>3
<1>13. \A c \in End : \A i \in 1 .. Len(inPackets'[c]) :
          \/ \E j \in 1 .. Len(inPackets[c]) : inPackets'[c][i] = inPackets[c][j]
          \/ c = d /\ inPackets'[c][i] = ack
  <2>. DEFINE qe == inPackets[e]
              qd == inPackets[d]
  <2>1. qe \in Seq(Segment) /\ qe # <<>> /\ qd \in Seq(Segment)
    BY <1>0, <1>1, <1>3 DEF TypeOK
  <2>2. inPackets'[e] = Tail(qe) /\ inPackets'[d] = qd \o reply
    BY <1>12
  <2>3. reply = <<>> \/ reply = <<ack>>
    BY <1>1, <1>ack, Zenon
  <2>. HIDE DEF qe, qd
  <2>4. \A i \in 1 .. Len(Tail(qe)) : \E j \in 1 .. Len(qe) : Tail(qe)[i] = qe[j]
    <3>1. /\ Len(qe) \in Nat /\ Len(qe) >= 1 /\ Len(Tail(qe)) = Len(qe) - 1
          /\ \A i \in 1 .. Len(Tail(qe)) : Tail(qe)[i] = qe[i + 1]
      BY <2>1, HeadTailProperties
    <3>2. \A i \in 1 .. Len(Tail(qe)) : i + 1 \in 1 .. Len(qe)
      BY <3>1
    <3>. QED
      BY <3>1, <3>2
  <2>5. ASSUME NEW i \in 1 .. Len(qd \o reply)
        PROVE  \/ \E j \in 1 .. Len(qd) : (qd \o reply)[i] = qd[j]
               \/ (qd \o reply)[i] = ack
    <3>1. /\ Len(qd \o reply) = Len(qd) + Len(reply) /\ Len(qd) \in Nat
          /\ \A k \in 1 .. Len(qd) + Len(reply) :
                (qd \o reply)[k] = IF k <= Len(qd) THEN qd[k] ELSE reply[k - Len(qd)]
      BY <2>1, ConcatProperties
    <3>2. CASE i <= Len(qd)
      <4>1. i \in 1 .. Len(qd) /\ i \in 1 .. Len(qd) + Len(reply)
        BY <3>1, <3>2
      <4>2. (qd \o reply)[i] = qd[i]
        BY <3>1, <3>2, <4>1
      <4>. QED
        BY <4>1, <4>2
    <3>3. CASE i > Len(qd)
      <4>1. reply = <<ack>> /\ i = Len(qd) + 1
        BY <2>3, <3>1, <3>3
      <4>2. i - Len(qd) = 1 /\ reply[1] = ack
        BY <3>1, <4>1
      <4>3. (qd \o reply)[i] = reply[i - Len(qd)]
        <5>1. i \in 1 .. Len(qd) + Len(reply) /\ ~(i <= Len(qd))
          BY <3>1, <3>3
        <5>. QED
          BY <3>1, <5>1
      <4>. QED
        BY <4>2, <4>3
    <3>. QED
      BY <3>1, <3>2, <3>3
  <2>. QED
    <3>1. ASSUME NEW i \in 1 .. Len(inPackets'[e])
          PROVE  \E j \in 1 .. Len(inPackets[e]) : inPackets'[e][i] = inPackets[e][j]
      BY <2>2, <2>4 DEF qe
    <3>2. ASSUME NEW i \in 1 .. Len(inPackets'[d])
          PROVE  \/ \E j \in 1 .. Len(inPackets[d]) : inPackets'[d][i] = inPackets[d][j]
                 \/ inPackets'[d][i] = ack
      BY <2>2, <2>5 DEF qd
    <3>3. ASSUME NEW c \in End, NEW i \in 1 .. Len(inPackets'[c])
          PROVE  \/ \E j \in 1 .. Len(inPackets[c]) : inPackets'[c][i] = inPackets[c][j]
                 \/ c = d /\ inPackets'[c][i] = ack
      <4>1. CASE c = e
        BY <3>1, <4>1
      <4>2. CASE c = d
        BY <3>2, <4>2
      <4>. QED
        BY <1>3, <4>1, <4>2
    <3>. QED
      BY <3>3
<1>14. TypeOK'
  <2>1. \A c \in End : Len(sock'[c].send_window) <= DEFAULT_QUEUE_CAPACITY
    <3>1. /\ Len(sock[e].send_window) <= DEFAULT_QUEUE_CAPACITY
          /\ Len(sock[d].send_window) <= DEFAULT_QUEUE_CAPACITY
      BY <1>0, <1>3 DEF TypeOK
    <3>2. Len(sock'[e].send_window) <= DEFAULT_QUEUE_CAPACITY
      BY <1>1, <1>4, <3>1, SizeAssumption
    <3>. QED
      BY <1>3, <1>5, <3>1, <3>2
  <2>2. Len(ack.data) = 0 /\ 0 <= MAX_DATA_PER_PACKET
    BY <1>ack, SizeAssumption
  <2>3. ASSUME NEW c \in End, NEW i \in 1 .. Len(inPackets'[c])
        PROVE  Len(inPackets'[c][i].data) <= MAX_DATA_PER_PACKET
    <3>1. \A j \in 1 .. Len(inPackets[c]) : Len(inPackets[c][j].data) <= MAX_DATA_PER_PACKET
      BY <1>0 DEF TypeOK
    <3>2. CASE \E j \in 1 .. Len(inPackets[c]) : inPackets'[c][i] = inPackets[c][j]
      BY ZenonT(60), <3>1, <3>2
    <3>3. CASE inPackets'[c][i] = ack
      BY <2>2, <3>3
    <3>. QED
      BY <1>13, <3>2, <3>3
  <2>4. /\ recvFifo' \in [End -> Seq(Byte)] /\ delivered' \in [End -> Seq(Byte)]
    BY SMTT(30), <1>0, <1>1 DEF TypeOK
  <2>. QED
    BY <1>0, <1>1, <1>2, <1>12, <2>1, <2>3, <2>4 DEF TypeOK
<1>15. SegmentsAreGood'
  <2>1. GoodSegment(d, ack)'
    <3>1. Isn[Peer(d)] <= sock'[e].send_seq
      <4>1. Isn[e] <= sock[e].send_seq
        BY <1>0 DEF SendFifoHoldsStream
      <4>2. Isn[e] <= sock'[e].send_seq
        BY SMTT(30), <1>1, <1>3, <1>4, <4>1
      <4>. QED
        BY <1>3, <4>2, Zenon
    <3>2. sock'[e].send_seq <= sock'[d].recv_seq
      BY <1>1, <1>5, <1>9
    <3>3. sock'[e].send_seq + 0 <= SendEnd(Peer(d))'
      <4>1. SendEnd(e)' = sock'[e].send_seq + Len(sock'[e].send_window)
        BY DEF SendEnd
      <4>2. sock'[e].send_seq \in Int /\ Len(sock'[e].send_window) \in Nat
        BY <1>1, SocketTypes
      <4>. QED
        BY <1>3, <4>1, <4>2
    <3>4. sock'[e].recv_seq <= sock'[Peer(d)].recv_seq
      BY SMTT(30), <1>3, <1>14, SocketTypes DEF TypeOK
    <3>5. Len(<<>>) = 0 /\ \A j \in 1 .. 0 : FALSE
      OBVIOUS
    <3>6. /\ ack.flags = {"ACK"} /\ ack.seq = sock'[e].send_seq
          /\ ack.ack = sock'[e].recv_seq /\ ack.data = <<>>
      BY <1>ack
    <3>. QED
      BY <3>1, <3>2, <3>3, <3>4, <3>5, <3>6 DEF GoodSegment
  <2>2. \A i \in 1 .. Len(inPackets'[d]) :
            inPackets'[d][i] = ack => GoodSegment(d, inPackets[d][i])'
    BY <2>1 DEF GoodSegment
  <2>3. \A c \in End : \A i \in 1 .. Len(inPackets'[c]) :
            \/ \E j \in 1 .. Len(inPackets[c]) : inPackets'[c][i] = inPackets[c][j]
            \/ GoodSegment(c, inPackets[c][i])'
    BY <1>13, <2>2
  <2>. QED
    BY <1>0, <1>10, <1>14, <2>3, SegmentsStayGood
<1>16. SendFifoHoldsStream'
  <2>. SUFFICES ASSUME NEW c \in End
                PROVE  /\ Isn[c] <= sock'[c].send_seq
                       /\ SendEnd(c)' - Isn[c] + Len(sendFifo'[c]) = written'[c]
                       /\ \A i \in 1 .. Len(sendFifo'[c]) :
                            sendFifo'[c][i] = StreamByte(c, SendEnd(c)' + i - 1)
    BY DEF SendFifoHoldsStream, StreamByte
  <2>1. Isn[c] <= sock'[c].send_seq
    <3>1. Isn[e] <= sock[e].send_seq /\ Isn[d] <= sock[d].send_seq
      BY <1>0, <1>3 DEF SendFifoHoldsStream
    <3>2. Isn[e] <= sock'[e].send_seq
      BY SMTT(30), <1>1, <1>3, <1>4, <3>1
    <3>3. Isn[d] <= sock'[d].send_seq
      BY <1>5, <3>1
    <3>. QED
      BY <1>3, <3>2, <3>3
  <2>2. SendEnd(c)' = SendEnd(c)
    BY <1>3, <1>5
  <2>. QED
    BY <1>0, <1>2, <2>1, <2>2 DEF SendFifoHoldsStream
<1>17. SendWindowHoldsStream'
  <2>. SUFFICES ASSUME NEW c \in End, NEW i \in 1 .. Len(sock'[c].send_window)
                PROVE  sock'[c].send_window[i] = StreamByte(c, sock'[c].send_seq + i - 1)
    BY DEF SendWindowHoldsStream, StreamByte
  <2>1. CASE c # e
    BY <1>0, <1>1, <2>1 DEF SendWindowHoldsStream
  <2>2. CASE c = e
    <3>1. i + a \in 1 .. Len(sock[e].send_window)
      BY SMTT(30), <1>1, <1>4, <2>2
    <3>2. sock'[e].send_window[i] = sock[e].send_window[i + a]
      BY <1>1, <2>2
    <3>3. sock[e].send_window[i + a] = StreamByte(e, sock[e].send_seq + (i + a) - 1)
      BY <1>0, <3>1 DEF SendWindowHoldsStream
    <3>4. sock[e].send_seq + (i + a) - 1 = (sock[e].send_seq + a) + i - 1
      BY SMTT(30), <1>4
    <3>. QED
      BY <1>1, <2>2, <3>2, <3>3, <3>4
  <2>. QED
    BY <2>1, <2>2
<1>18. WindowsAgree'
  <2>1. /\ sock'[e].send_seq <= sock'[d].recv_seq
        /\ sock'[d].recv_seq <= SendEnd(e)'
    BY <1>0, <1>1, <1>3, <1>5, <1>9 DEF WindowsAgree, d
  <2>2. /\ sock'[d].send_seq <= sock'[e].recv_seq
        /\ sock'[e].recv_seq <= SendEnd(d)'
    <3>1. sock[d].send_seq <= recv
      BY <1>0, <1>3 DEF WindowsAgree, recv
    <3>. QED
      BY <1>4, <1>5, <1>8, <1>10, <3>1
  <2>. QED
    BY <1>3, <2>1, <2>2 DEF WindowsAgree, d
<1>19. WindowHoldsStream'
  <2>. SUFFICES ASSUME NEW c \in End, NEW k \in Slot, sock'[c].recv_window[k] # NoByte
                PROVE  /\ sock'[c].recv_seq + k < SendEnd(Peer(c))'
                       /\ sock'[c].recv_window[k] = StreamByte(Peer(c), sock'[c].recv_seq + k)
    BY DEF WindowHoldsStream, StreamByte
  <2>1. CASE c = d
    <3>1. /\ sock[d].recv_seq + k < SendEnd(e)
          /\ sock[d].recv_window[k] = StreamByte(e, sock[d].recv_seq + k)
      BY <1>0, <1>3, <1>5, <2>1 DEF WindowHoldsStream
    <3>. QED
      BY <1>3, <1>5, <2>1, <3>1
  <2>2. CASE c = e
    <3>1. /\ k + Len(new) \in Slot
          /\ Source(sock[e], p, k + Len(new), sock'[e].recv_window[k])
      BY <1>1, <2>2
    <3>2. /\ recv + (k + Len(new)) < SendEnd(d)
          /\ sock'[e].recv_window[k] = StreamByte(d, recv + (k + Len(new)))
      BY <1>6, <2>2, <3>1
    <3>3. recv + (k + Len(new)) = (recv + Len(new)) + k
      BY <1>4, SizeAssumption DEF Slot
    <3>. QED
      BY <1>5, <1>10, <2>2, <3>2, <3>3 DEF d
  <2>. QED
    BY <1>3, <2>1, <2>2
<1>20. WindowHoldsOneSegment'
  <2>. SUFFICES ASSUME NEW c \in End, NEW k \in Slot, sock'[c].recv_window[k] # NoByte
                PROVE  /\ k < MAX_DATA_PER_PACKET
                       /\ \A j \in 0 .. k : sock'[c].recv_window[j] # NoByte
    BY DEF WindowHoldsOneSegment
  <2>1. CASE c # e
    BY ZenonT(60), <1>0, <1>1, <2>1 DEF WindowHoldsOneSegment
  <2>2. CASE c = e
    <3>. DEFINE n == Len(new)
    <3>1. k + n \in Slot /\ Source(sock[e], p, k + n, sock'[e].recv_window[k])
      BY <1>1, <2>2
    <3>3. k \in Nat /\ n \in Nat /\ k + n \in Nat
      <4>1. k \in Nat
        BY SizeAssumption DEF Slot
      <4>2. n \in Nat
        BY <1>4
      <4>. QED
        BY <4>1, <4>2
    <3>c. k + n <= MAX_WINDOW_SIZE - 1
      BY <3>1, SizeAssumption DEF Slot
    <3>. HIDE DEF n
    <3>2. \A j \in 0 .. k : j \in Slot /\ j + n \in Slot /\ j + n <= k + n
      BY <3>3, <3>c, SizeAssumption DEF Slot
    <3>4. k + n < MAX_DATA_PER_PACKET
          /\ \A j \in 0 .. k + n : j \in Slot => Filled(sock[e], p, j)
      <4>1. CASE sock'[e].recv_window[k] = sock[e].recv_window[k + n]
        BY <1>0, <2>2, <3>1, <4>1 DEF WindowHoldsOneSegment, Filled
      <4>2. CASE \E i \in 1 .. Len(p.data) : p.seq + i - 1 = sock[e].recv_seq + (k + n)
        <5>1. PICK i \in 1 .. Len(p.data) : p.seq + i - 1 = recv + (k + n)
          BY <4>2 DEF recv
        <5>2. p.seq <= recv
          BY <1>1 DEF GoodSegment, recv
        <5>a. /\ recv \in Int /\ p.seq \in Int /\ Len(p.data) \in Nat /\ i \in Int
              /\ i <= Len(p.data)
          BY <1>4
        <5>b. \A x, y, l, m, i_ \in Int : y + i_ - 1 = x + m /\ y <= x /\ i_ <= l =>
                 /\ m < l
                 /\ \A j \in 0 .. m : y <= x + j /\ x + j < y + l
          OBVIOUS
        <5>c. /\ k + n < Len(p.data)
              /\ \A j \in 0 .. k + n : p.seq <= recv + j /\ recv + j < p.seq + Len(p.data)
          <6>1. k + n \in Int /\ Len(p.data) \in Int
            BY <3>3, <5>a
          <6>. QED
            BY <5>1, <5>2, <5>a, <5>b, <6>1, Zenon
        <5>3. \A j \in 0 .. k + n : p.seq <= recv + j /\ recv + j < p.seq + Len(p.data)
          BY <5>c
        <5>4. k + n < Len(p.data)
          BY <5>c
        <5>5. k + n < MAX_DATA_PER_PACKET
          BY <1>1, <1>4, <3>3, <5>4, SizeAssumption
        <5>. QED
          BY <5>3, <5>5 DEF Filled, recv
      <4>. QED
        BY <3>1, <4>1, <4>2 DEF Source
    <3>5. ASSUME NEW j \in 0 .. k PROVE sock'[e].recv_window[j] # NoByte
      <4>1. j + n \in 0 .. k + n
        BY <3>2, <3>3
      <4>. QED
        BY <1>1, <3>2, <3>4, <4>1 DEF n
    <3>. QED
      BY <2>2, <3>3, <3>4, <3>5, SizeAssumption
  <2>. QED
    BY <2>1, <2>2
<1>. QED
  BY <1>11, <1>14, <1>15, <1>16, <1>17, <1>18, <1>19, <1>20 DEF Inv

\* Every step keeps the invariant.
LEMMA NextInv == Inv /\ [Next]_vars => Inv'
<1>. SUFFICES ASSUME Inv, [Next]_vars PROVE Inv'
  OBVIOUS
<1>1. CASE Next
  <2>1. PICK e \in End : \/ SocketSend(e) \/ RecvOpen(e) \/ RecvRead(e) \/ RecvClose(e)
                         \/ ReadSendFifo(e) \/ SendWindow(e) \/ HandlePacket(e)
    BY <1>1 DEF Next
  <2>. QED
    BY <2>1, SocketSendInv, SocketRecvInv, ReadSendFifoInv, SendWindowInv, HandlePacketInv
<1>2. CASE UNCHANGED vars
  <2>1. UNCHANGED <<sock, inPackets, written, sendFifo, recvFifo, recvCall,
                    delivered, received>>
    BY <1>2 DEF vars
  <2>2. TypeOK'
    BY <2>1 DEF Inv, TypeOK
  <2>3. SendFifoHoldsStream' /\ SendWindowHoldsStream'
    BY <2>1 DEF Inv, SendFifoHoldsStream, SendWindowHoldsStream, SendEnd, StreamByte
  <2>4. SegmentsAreGood'
    BY <2>1 DEF Inv, SegmentsAreGood, GoodSegment, SendEnd, StreamByte
  <2>5. WindowsAgree' /\ WindowHoldsStream'
    BY <2>1 DEF Inv, WindowsAgree, WindowHoldsStream, SendEnd, StreamByte
  <2>6. WindowHoldsOneSegment' /\ DeliveredInOrder'
    BY <2>1 DEF Inv, WindowHoldsOneSegment, DeliveredInOrder
  <2>. QED
    BY <2>2, <2>3, <2>4, <2>5, <2>6 DEF Inv
<1>. QED
  BY <1>1, <1>2

\* In every reachable state every place a byte can be in holds the right piece
\* of the stream.
THEOREM Invariance == Spec => []Inv
<1>. QED
  BY InitInv, NextInv, PTL DEF Spec

\* Type correctness, with the send queue within its capacity and no segment
\* larger than a packet.
THEOREM TypeCorrectness == Spec => []TypeOK
<1>1. Inv => TypeOK
  BY DEF Inv
<1>. QED
  BY <1>1, Invariance, PTL

\* The receiver's position stays inside the sender's window.
THEOREM WindowAgreement == Spec => []WindowsAgree
<1>1. Inv => WindowsAgree
  BY DEF Inv
<1>. QED
  BY <1>1, Invariance, PTL

\* Resent, overlapping and late segments neither duplicate, reorder nor
\* corrupt a byte.
THEOREM OrderedDelivery == Spec => []DeliveredInOrder
<1>1. Inv => DeliveredInOrder
  BY DEF Inv
<1>. QED
  BY <1>1, Invariance, PTL

\* What waits in a receive window is the stream.
THEOREM ReceiveWindowContents == Spec => []WindowHoldsStream
<1>1. Inv => WindowHoldsStream
  BY DEF Inv
<1>. QED
  BY <1>1, Invariance, PTL

\* A receive window never buffers more than one segment's data, in one piece,
\* whatever the sizes of the windows and of the packets.
THEOREM OneSegmentBuffered == Spec => []WindowHoldsOneSegment
<1>1. Inv => WindowHoldsOneSegment
  BY DEF Inv
<1>. QED
  BY <1>1, Invariance, PTL

\* Sequence numbers never go back, and what is acknowledged was delivered.
LEMMA StepForward ==
    ASSUME Inv, [Next]_vars, NEW e \in End
    PROVE  /\ sock'[e].send_seq >= sock[e].send_seq
           /\ sock'[e].recv_seq >= sock[e].recv_seq
           /\ sock'[e].send_seq - Isn[e] <= Len(delivered[Peer(e)])
<1>0. TypeOK /\ WindowsAgree /\ DeliveredInOrder
  BY DEF Inv
<1>1. /\ sock[e].send_seq \in Int /\ sock[e].recv_seq \in Int
      /\ sock[Peer(e)].recv_seq \in Int /\ Isn[e] \in Int
      /\ sock[e].send_seq <= sock[Peer(e)].recv_seq
      /\ Len(delivered[Peer(e)]) = sock[Peer(e)].recv_seq - Isn[e]
  BY <1>0, PeerProperties, SocketTypes, DataAssumption
     DEF TypeOK, WindowsAgree, DeliveredInOrder
<1>2. CASE /\ sock'[e].send_seq = sock[e].send_seq
           /\ sock'[e].recv_seq = sock[e].recv_seq
  BY <1>1, <1>2
<1>3. ASSUME NEW c \in End, HandlePacket(c)
      PROVE  \/ c # e /\ sock'[e] = sock[e]
             \/ /\ sock'[e].send_seq >= sock[e].send_seq
                /\ sock'[e].recv_seq >= sock[e].recv_seq
                /\ sock'[e].send_seq <= sock[Peer(e)].recv_seq
  <2>1. PICK a \in Nat, new \in Seq(Byte), p \in Segment, reply \in Seq(Segment) :
          /\ GoodSegment(c, p)
          /\ (a > 0 => sock[c].send_seq + a <= p.ack)
          /\ \A d \in End : d # c => sock'[d] = sock[d]
          /\ sock'[c].send_seq = sock[c].send_seq + a
          /\ sock'[c].recv_seq = sock[c].recv_seq + Len(new)
    BY <1>3, HandlePacketEffect
  <2>2. CASE c # e
    BY <2>1, <2>2
  <2>3. CASE c = e
    <3>1. p.ack <= sock[Peer(e)].recv_seq /\ p.ack \in Int
      BY <2>1, <2>3 DEF GoodSegment, Segment
    <3>2. Len(new) \in Nat
      OBVIOUS
    <3>3. /\ sock'[e].send_seq = sock[e].send_seq + a
          /\ sock'[e].recv_seq = sock[e].recv_seq + Len(new)
          /\ a > 0 => sock[e].send_seq + a <= p.ack
      BY <2>1, <2>3
    <3>. QED
      BY SMTT(30), <1>1, <3>1, <3>2, <3>3
  <2>. QED
    BY <2>2, <2>3
<1>4. \/ \E c \in End : HandlePacket(c)
      \/ /\ sock'[e].send_seq = sock[e].send_seq
         /\ sock'[e].recv_seq = sock[e].recv_seq
  <2>1. ASSUME NEW c \in End, ReadSendFifo(c)
        PROVE  /\ sock'[e].send_seq = sock[e].send_seq
               /\ sock'[e].recv_seq = sock[e].recv_seq
    BY <1>0, <2>1 DEF ReadSendFifo, TypeOK, Socket
  <2>2. ASSUME NEW c \in End, \/ SocketSend(c) \/ RecvOpen(c) \/ RecvRead(c)
                              \/ RecvClose(c) \/ SendWindow(c)
        PROVE  sock' = sock
    BY <2>2 DEF SocketSend, RecvOpen, RecvRead, RecvClose, SendWindow
  <2>. QED
    BY <2>1, <2>2 DEF Next, vars
<1>5. CASE /\ sock'[e].send_seq >= sock[e].send_seq
           /\ sock'[e].recv_seq >= sock[e].recv_seq
           /\ sock'[e].send_seq <= sock[Peer(e)].recv_seq
           /\ sock'[e].send_seq \in Int
  BY <1>1, <1>5
<1>6. sock'[e].send_seq \in Int
  BY NextInv, SocketTypes DEF Inv, TypeOK
<1>. QED
  BY <1>2, <1>3, <1>4, <1>5, <1>6

\* A byte is dropped from a send window only after it was delivered.
THEOREM AcknowledgedIsDelivered == Spec => NoByteDroppedEarly
<1>1. Inv /\ [Next]_vars =>
        [\A e \in End :
            /\ sock'[e].send_seq >= sock[e].send_seq
            /\ sock'[e].recv_seq >= sock[e].recv_seq
            /\ sock'[e].send_seq - Isn[e] <= Len(delivered[Peer(e)])]_vars
  BY StepForward
<1>. QED
  BY <1>1, Invariance, PTL DEF Spec, NoByteDroppedEarly

\* The packet handler only appends to what it has delivered.
LEMMA DeliveredGrows ==
    ASSUME Inv, NEW c \in End, HandlePacket(c)
    PROVE  \E new \in Seq(Byte) : delivered' = [delivered EXCEPT ![c] = @ \o new]
<1>. DEFINE p == Head(inPackets[c])
            new == handle_packet_established(sock[c], p, CanWrite(c, p)).bytes
<1>1. /\ inPackets[c] # <<>> /\ inPackets[c] \in Seq(Segment) /\ sock[c] \in Socket
      /\ delivered' = [delivered EXCEPT ![c] = @ \o new]
  BY DEF HandlePacket, Inv, TypeOK
<1>2. p \in Segment /\ p = inPackets[c][1] /\ 1 \in 1 .. Len(inPackets[c])
  BY <1>1, HeadTailProperties
<1>3. p.flags = {"ACK"} /\ CanWrite(c, p) \in BOOLEAN
  BY <1>2 DEF Inv, SegmentsAreGood, GoodSegment, CanWrite
<1>. HIDE DEF p
<1>4. new \in Seq(Byte)
  BY <1>1, <1>2, <1>3, EstablishedProperties, Zenon
<1>. HIDE DEF new
<1>. QED
  BY <1>1, <1>4

\* The abstract input and output of a state, and what they are afterwards.
AbstractInput == [e \in End |-> SubSeq(Message[e], 1, written[e])]
AbstractOutput == [e \in End |-> delivered[Peer(e)]]

OutputPrefix ==
    \A e \in End : Stream!Extends(AbstractInput[e], AbstractOutput[e])

\* In every reachable state the output of a stream is a prefix of its input.
LEMMA OutputIsPrefix == Inv => OutputPrefix
<1>. SUFFICES ASSUME Inv, NEW e \in End
              PROVE  Stream!Extends(AbstractInput[e], AbstractOutput[e])
  BY DEF OutputPrefix
<1>. DEFINE m == Message[e]
            w == written[e]
            o == delivered[Peer(e)]
<1>0. TypeOK /\ SendFifoHoldsStream /\ WindowsAgree /\ DeliveredInOrder
  BY DEF Inv
<1>1. /\ m \in Seq(Byte) /\ w \in Nat /\ w <= Len(m)
      /\ o \in Seq(Byte) /\ Len(o) \in Nat
  BY <1>0, PeerProperties, DataAssumption DEF TypeOK
<1>2. \A i \in 1 .. Len(o) : o[i] = m[i]
  BY <1>0, PeerProperties DEF DeliveredInOrder
<1>3. Len(o) <= w
  <2>1. Len(o) = sock[Peer(e)].recv_seq - Isn[e]
    BY <1>0, PeerProperties DEF DeliveredInOrder
  <2>2. sock[Peer(e)].recv_seq <= SendEnd(e)
    BY <1>0 DEF WindowsAgree
  <2>3. SendEnd(e) - Isn[e] + Len(sendFifo[e]) = w
    BY <1>0 DEF SendFifoHoldsStream
  <2>4. sock[e] \in Socket /\ sock[Peer(e)] \in Socket /\ sendFifo[e] \in Seq(Byte)
    BY <1>0, PeerProperties DEF TypeOK
  <2>5. /\ sock[Peer(e)].recv_seq \in Int /\ SendEnd(e) \in Int /\ Isn[e] \in Int
        /\ Len(sendFifo[e]) \in Int /\ 0 <= Len(sendFifo[e]) /\ Len(o) \in Int /\ w \in Int
    BY SMTT(30), <1>1, <2>4, SocketTypes, DataAssumption DEF SendEnd
  <2>6. \A x, r, s, I, L, n \in Int :
            x = r - I /\ r <= s /\ s - I + L = n /\ 0 <= L => x <= n
    OBVIOUS
  <2>. HIDE DEF o, w
  <2>. QED
    BY <2>1, <2>2, <2>3, <2>5, <2>6
<1>. HIDE DEF m, w, o
<1>4. /\ Len(SubSeq(m, 0 + 1, w)) = w - 0
      /\ \A i \in 1 .. w - 0 : SubSeq(m, 0 + 1, w)[i] = m[0 + i]
  BY <1>1, Slice
<1>5. /\ Len(SubSeq(m, 1, w)) = w
      /\ \A i \in 1 .. w : SubSeq(m, 1, w)[i] = m[i]
  BY <1>1, <1>4
<1>6. AbstractInput[e] = SubSeq(m, 1, w) /\ AbstractOutput[e] = o
  BY DEF AbstractInput, AbstractOutput, m, w, o
<1>. QED
  BY <1>1, <1>2, <1>3, <1>5, <1>6 DEF Stream!Extends

\* The connection implements the reliable ordered byte stream: an
\* application's SocketSend puts, the peer manager's packet handler gets, and
\* every other step is invisible.
THEOREM Refinement == Spec => ImplementsByteStream
<1>1. Init => Stream!Init
  <2>. SUFFICES ASSUME Init PROVE Stream!Init
    OBVIOUS
  <2>1. \A e \in End : SubSeq(Message[e], 1, written[e]) = <<>>
    <3>1. \A e \in End : Message[e] \in Seq(Byte) /\ written[e] = 0
      BY DataAssumption DEF Init
    <3>. QED
      BY <3>1
  <2>2. \A e \in End : delivered[Peer(e)] = <<>>
    BY PeerProperties DEF Init
  <2>. QED
    BY <2>1, <2>2 DEF Stream!Init
<1>p. Inv' => OutputPrefix'
  BY OutputIsPrefix, PTL
<1>2. Inv /\ Inv' /\ [Next]_vars => [Stream!Next]_(Stream!vars)
  <2>. SUFFICES ASSUME Inv, Inv', [Next]_vars
                PROVE  Stream!Next \/ UNCHANGED <<AbstractInput, AbstractOutput>>
    BY DEF Stream!vars, AbstractInput, AbstractOutput
  <2>1. ASSUME NEW e \in End, SocketSend(e) PROVE Stream!Next
    <3>1. PICK n \in written[e] + 1 .. Len(Message[e]) :
            written' = [written EXCEPT ![e] = n] /\ delivered' = delivered
      BY <2>1 DEF SocketSend
    <3>2. /\ written \in [End -> Nat] /\ Message[e] \in Seq(Byte)
          /\ n \in Nat /\ written[e] < n /\ n <= Len(Message[e])
      <4>1. written \in [End -> Nat] /\ Message[e] \in Seq(Byte)
        BY DataAssumption DEF Inv, TypeOK
      <4>. QED
        BY <4>1
    <3>3. \A k \in Nat : k <= Len(Message[e]) =>
            /\ SubSeq(Message[e], 1, k) \in Seq(Byte)
            /\ Len(SubSeq(Message[e], 1, k)) = k
            /\ \A i \in 1 .. k : SubSeq(Message[e], 1, k)[i] = Message[e][i]
      <4>. DEFINE m == Message[e]
      <4>. SUFFICES ASSUME NEW k \in Nat, k <= Len(m)
                    PROVE  /\ SubSeq(m, 1, k) \in Seq(Byte)
                           /\ Len(SubSeq(m, 1, k)) = k
                           /\ \A i \in 1 .. k : SubSeq(m, 1, k)[i] = m[i]
        OBVIOUS
      <4>1. m \in Seq(Byte) /\ 0 \in Nat /\ 0 <= k
        BY <3>2
      <4>. HIDE DEF m
      <4>2. /\ SubSeq(m, 0 + 1, k) \in Seq(Byte)
            /\ Len(SubSeq(m, 0 + 1, k)) = k - 0
            /\ \A i \in 1 .. k - 0 : SubSeq(m, 0 + 1, k)[i] = m[0 + i]
        BY <4>1, Slice
      <4>. QED
        BY <4>2
    <3>4. /\ AbstractInput' = [AbstractInput EXCEPT ![e] = SubSeq(Message[e], 1, n)]
          /\ AbstractInput'[e] = SubSeq(Message[e], 1, n)
          /\ AbstractInput[e] = SubSeq(Message[e], 1, written[e])
          /\ AbstractOutput' = AbstractOutput
      BY <3>1, <3>2 DEF AbstractInput, AbstractOutput
    <3>5. Stream!Extends(AbstractInput'[e], AbstractInput[e])
      BY <3>2, <3>3, <3>4 DEF Stream!Extends
    <3>6. AbstractInput'[e] \in Seq(Byte)
      BY <3>2, <3>3, <3>4
    <3>7. Stream!Put(e)
      BY <3>4, <3>5, <3>6 DEF Stream!Put, AbstractInput, AbstractOutput
    <3>. QED
      BY <3>7 DEF Stream!Next
  <2>2. ASSUME NEW c \in End, HandlePacket(c) PROVE Stream!Next
    <3>. DEFINE e == Peer(c)
    <3>1. PICK new \in Seq(Byte) : delivered' = [delivered EXCEPT ![c] = @ \o new]
      BY <2>2, DeliveredGrows
    <3>2. /\ e \in End /\ Peer(e) = c /\ \A d \in End : d # e => Peer(d) # c
          /\ delivered \in [End -> Seq(Byte)] /\ written' = written
      BY <2>2, PeerProperties DEF Inv, TypeOK, HandlePacket
    <3>. HIDE DEF e
    <3>3. /\ AbstractOutput' = [AbstractOutput EXCEPT ![e] = delivered[c] \o new]
          /\ AbstractOutput'[e] = delivered[c] \o new
          /\ AbstractOutput[e] = delivered[c]
          /\ AbstractInput' = AbstractInput
      BY <3>1, <3>2, PeerProperties DEF AbstractInput, AbstractOutput
    <3>4. Stream!Extends(AbstractOutput'[e], AbstractOutput[e])
      <4>. DEFINE o == delivered[c]
      <4>1. o \in Seq(Byte)
        BY <3>2
      <4>. HIDE DEF o
      <4>2. /\ Len(o \o new) = Len(o) + Len(new) /\ Len(o) \in Nat /\ Len(new) \in Nat
            /\ \A i \in 1 .. Len(o) + Len(new) :
                   (o \o new)[i] = IF i <= Len(o) THEN o[i] ELSE new[i - Len(o)]
        BY <4>1, ConcatProperties
      <4>3. Len(o) <= Len(o \o new) /\ \A i \in 1 .. Len(o) : (o \o new)[i] = o[i]
        BY <4>2
      <4>. QED
        BY <3>3, <4>3 DEF Stream!Extends, o
    <3>5. Stream!Extends(AbstractInput[e], AbstractOutput'[e])
      <4>1. (\A d \in End : Stream!Extends(AbstractInput[d], AbstractOutput[d]))'
        BY <1>p DEF OutputPrefix
      <4>. QED
        BY <3>2, <3>3, <4>1 DEF Stream!Extends
    <3>6. AbstractOutput'[e] \in Seq(Byte)
      BY <3>2, <3>3
    <3>7. Stream!Get(e)
      BY <3>2, <3>3, <3>4, <3>5, <3>6 DEF Stream!Get, AbstractInput, AbstractOutput
    <3>. QED
      BY <3>2, <3>7 DEF Stream!Next
  <2>3. CASE UNCHANGED <<written, delivered>>
    BY <2>3 DEF AbstractInput, AbstractOutput
  <2>4. \/ \E e \in End : SocketSend(e) \/ HandlePacket(e)
        \/ UNCHANGED <<written, delivered>>
    BY DEF Next, vars, RecvOpen, RecvRead, RecvClose, ReadSendFifo, SendWindow
  <2>. QED
    BY <2>1, <2>2, <2>3, <2>4
<1>. QED
  BY <1>1, <1>2, Invariance, PTL DEF Spec, ImplementsByteStream, Stream!Spec
=============================================================================
