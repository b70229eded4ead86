------------------------- MODULE TcpSocketTheorems -------------------------
(***************************************************************************)
(* Lemmas about the operators of TcpSocket.                                *)
(***************************************************************************)
EXTENDS TcpSocket, TLAPS, WellFoundedInduction, SequenceTheorems

\* LeastOf is the minimum of a non-empty set of natural numbers.
LEMMA LeastOfProperties ==
    ASSUME NEW S \in SUBSET Nat, S # {}
    PROVE  /\ LeastOf(S) \in S
           /\ \A m \in S : LeastOf(S) <= m
<1>1. PICK n \in S : \A m \in S : ~(<<m, n>> \in OpToRel(<, Nat))
  BY NatLessThanWellFounded, WFMin
<1>2. ASSUME NEW m \in S PROVE n <= m
  <2>1. m < n => <<m, n>> \in OpToRel(<, Nat)
    BY DEF OpToRel
  <2>2. ~(m < n)
    BY <1>1, <2>1, Zenon
  <2>. QED
    BY <2>2
<1>. QED
  BY <1>2 DEF LeastOf

\* A slice of a sequence, with the position of its elements.
LEMMA Slice ==
    ASSUME NEW S, NEW q \in Seq(S), NEW a \in Nat, NEW b \in Nat,
           a <= b, b <= Len(q)
    PROVE  /\ SubSeq(q, a + 1, b) \in Seq(S)
           /\ Len(SubSeq(q, a + 1, b)) = b - a
           /\ \A i \in 1 .. b - a : SubSeq(q, a + 1, b)[i] = q[a + i]
<1>. DEFINE t == SubSeq(q, a + 1, b)
<1>1. \A i \in a + 1 .. b : q[i] \in S
  OBVIOUS
<1>2. /\ t \in Seq(S)
      /\ Len(t) = IF a + 1 <= b THEN b - (a + 1) + 1 ELSE 0
      /\ \A i \in 1 .. b - (a + 1) + 1 : t[i] = q[(a + 1) + i - 1]
  BY <1>1, SubSeqProperties
<1>. HIDE DEF t
<1>3. \A i \in Int : (a + 1) + i - 1 = a + i
  OBVIOUS
<1>4. b - (a + 1) + 1 = b - a
  OBVIOUS
<1>. QED
  BY <1>2, <1>3, <1>4 DEF t

\* get_next_socket_packet_data cuts at most MAX_DATA_PER_PACKET bytes off the
\* front of the queue, and no NUL is among them.
LEMMA DataLengthProperties ==
    ASSUME NEW q \in Seq(Byte)
    PROVE  /\ DataLength(q) \in 0 .. Len(q)
           /\ DataLength(q) <= MAX_DATA_PER_PACKET
           /\ \A i \in 1 .. DataLength(q) : q[i] # NUL
<1>. DEFINE S == {n \in 0 .. Len(q) : Stops(q, n)}
<1>1. S \in SUBSET Nat /\ Len(q) \in S
  BY DEF Stops
<1>2. DataLength(q) \in S /\ \A m \in S : DataLength(q) <= m
  BY <1>1, LeastOfProperties DEF DataLength
<1>3. DataLength(q) <= MAX_DATA_PER_PACKET
  <2>. SUFFICES ASSUME DataLength(q) > MAX_DATA_PER_PACKET PROVE FALSE
    BY <1>2, SizeAssumption
  <2>. QED
    BY <1>2, SizeAssumption DEF Stops
<1>4. ASSUME NEW i \in 1 .. DataLength(q) PROVE q[i] # NUL
  <2>1. i - 1 \in 0 .. Len(q) /\ ~(DataLength(q) <= i - 1)
    BY <1>2
  <2>2. ~Stops(q, i - 1)
    BY <1>2, <2>1
  <2>. QED
    BY <2>2 DEF Stops
<1>. QED
  BY <1>2, <1>3, <1>4

\* ValidPrefix is the length of the longest prefix of valid slots.
LEMMA ValidPrefixProperties ==
    ASSUME NEW w \in [Slot -> Byte \union {NoByte}]
    PROVE  /\ ValidPrefix(w) \in 0 .. MAX_WINDOW_SIZE
           /\ \A k \in Slot : k < ValidPrefix(w) => w[k] \in Byte
           /\ \A k \in Slot : k = ValidPrefix(w) => w[k] = NoByte
<1>. DEFINE S == {n \in 0 .. MAX_WINDOW_SIZE : n = MAX_WINDOW_SIZE \/ w[n] = NoByte}
<1>1. S \in SUBSET Nat /\ MAX_WINDOW_SIZE \in S
  BY SizeAssumption
<1>2. ValidPrefix(w) \in S /\ \A m \in S : ValidPrefix(w) <= m
  BY <1>1, LeastOfProperties DEF ValidPrefix
<1>3. ASSUME NEW k \in Slot, k < ValidPrefix(w) PROVE w[k] \in Byte
  BY <1>2, <1>3, SizeAssumption DEF Slot
<1>4. ASSUME NEW k \in Slot, k = ValidPrefix(w) PROVE w[k] = NoByte
  BY <1>2, <1>4, SizeAssumption DEF Slot
<1>. QED
  BY <1>2, <1>3, <1>4

\* A cumulative acknowledgement removes bytes from the front of the send
\* window, never more than it holds, and never passes the acknowledged number.
LEMMA AcknowledgeProperties ==
    ASSUME NEW s \in Socket, NEW ack \in Int
    PROVE  LET n == AckedBytes(s, ack)
               t == Acknowledge(s, ack) IN
           /\ n \in 0 .. Len(s.send_window)
           /\ n > 0 => s.send_seq + n <= ack
           /\ t \in Socket
           /\ t.state = s.state
           /\ t.send_seq = s.send_seq + n
           /\ Len(t.send_window) = Len(s.send_window) - n
           /\ \A i \in 1 .. Len(t.send_window) :
                    t.send_window[i] = s.send_window[i + n]
           /\ t.recv_seq = s.recv_seq
           /\ t.recv_window = s.recv_window
<1>. DEFINE n == AckedBytes(s, ack)
<1>1. s.send_window \in Seq(Byte) /\ s.send_seq \in Int
  BY DEF Socket
<1>2. n \in 0 .. Len(s.send_window) /\ (n > 0 => s.send_seq + n <= ack)
  BY <1>1 DEF AckedBytes
<1>. DEFINE w == SubSeq(s.send_window, n + 1, Len(s.send_window))
<1>3. /\ w \in Seq(Byte)
      /\ Len(w) = Len(s.send_window) - n
      /\ \A i \in 1 .. Len(w) : w[i] = s.send_window[i + n]
  BY SMTT(30), <1>1, <1>2, SubSeqProperties
<1>. HIDE DEF n, w
<1>4. Acknowledge(s, ack) = [s EXCEPT !.send_window = w, !.send_seq = s.send_seq + n]
  BY DEF Acknowledge, Socket, n, w
<1>5. s.send_seq + n \in Int
  BY <1>1, <1>2
<1>. QED
  BY <1>2, <1>3, <1>4, <1>5 DEF Socket, n

\* Where the byte x of slot k can come from when s takes segment p: it was in
\* the slot already, or it is the byte of p with the slot's sequence number.
Source(s, p, k, x) ==
    \/ x = s.recv_window[k]
    \/ \E i \in 1 .. Len(p.data) : p.seq + i - 1 = s.recv_seq + k /\ x = p.data[i]

\* The slot was valid already or p has a byte for it.
Filled(s, p, k) ==
    \/ s.recv_window[k] # NoByte
    \/ p.seq <= s.recv_seq + k /\ s.recv_seq + k < p.seq + Len(p.data)

\* receiveNewData fills exactly the slots the segment has a byte for, each
\* with that byte, and leaves the other slots alone.
LEMMA StoreDataProperties ==
    ASSUME NEW s \in Socket, NEW p \in Segment
    PROVE  LET t == StoreData(s, p) IN
           /\ t \in Socket
           /\ t = [s EXCEPT !.recv_window = t.recv_window]
           /\ \A k \in Slot : Source(s, p, k, t.recv_window[k])
           /\ \A k \in Slot : Filled(s, p, k) => t.recv_window[k] # NoByte
<1>. DEFINE w == [k \in Slot |->
                    LET i == s.recv_seq + k - p.seq IN
                    IF s.recv_window[k] = NoByte /\ i \in 0 .. Len(p.data) - 1
                    THEN p.data[i + 1] ELSE s.recv_window[k]]
<1>1. StoreData(s, p) = [s EXCEPT !.recv_window = w]
  BY DEF StoreData, Socket
<1>2. /\ p.data \in Seq(Byte) /\ p.seq \in Int /\ s.recv_seq \in Int
      /\ s.recv_window \in [Slot -> Byte \union {NoByte}]
  BY DEF Socket, Segment
<1>3. \A k \in Slot :
        \/ w[k] = s.recv_window[k]
        \/ \E i \in 1 .. Len(p.data) : /\ p.seq + i - 1 = s.recv_seq + k
                                       /\ w[k] = p.data[i]
  <2>. SUFFICES ASSUME NEW k \in Slot, w[k] # s.recv_window[k]
                PROVE  \E i \in 1 .. Len(p.data) : /\ p.seq + i - 1 = s.recv_seq + k
                                                   /\ w[k] = p.data[i]
    OBVIOUS
  <2>. DEFINE j == s.recv_seq + k - p.seq + 1
  <2>1. k \in Int
    BY SizeAssumption DEF Slot
  <2>2. s.recv_seq + k - p.seq \in 0 .. Len(p.data) - 1 /\ w[k] = p.data[j]
    OBVIOUS
  <2>3. Len(p.data) \in Nat
    BY <1>2
  <2>. HIDE DEF w
  <2>4. p.seq \in Int /\ s.recv_seq \in Int
    BY <1>2
  <2>5. j \in 1 .. Len(p.data)
    BY <2>1, <2>2, <2>3, <2>4
  <2>6. p.seq + j - 1 = s.recv_seq + k
    BY <2>1, <2>4
  <2>. QED
    BY <2>2, <2>5, <2>6
<1>4. w \in [Slot -> Byte \union {NoByte}]
  <2>. SUFFICES ASSUME NEW k \in Slot PROVE w[k] \in Byte \union {NoByte}
    OBVIOUS
  <2>. HIDE DEF w
  <2>. QED
    BY <1>2, <1>3
<1>5. ASSUME NEW k \in Slot, Filled(s, p, k) PROVE w[k] # NoByte
  <2>1. CASE s.recv_window[k] # NoByte
    BY <2>1
  <2>2. CASE /\ s.recv_window[k] = NoByte
             /\ p.seq <= s.recv_seq + k /\ s.recv_seq + k < p.seq + Len(p.data)
    <3>. HIDE DEF w
    <3>1. k \in Int /\ p.seq \in Int /\ s.recv_seq \in Int /\ Len(p.data) \in Nat
      BY <1>2, SizeAssumption DEF Slot
    <3>2. s.recv_seq + k - p.seq \in 0 .. Len(p.data) - 1
      <4>1. \A i, q, n \in Int : \A l \in Nat : q <= n + i /\ n + i < q + l
                => n + i - q \in 0 .. l - 1
        OBVIOUS
      <4>. QED
        BY <2>2, <3>1, <4>1
    <3>3. s.recv_seq + k - p.seq + 1 \in 1 .. Len(p.data)
      BY <3>1, <3>2
    <3>4. w[k] = p.data[s.recv_seq + k - p.seq + 1]
      BY <2>2, <3>2 DEF w
    <3>. QED
      BY <1>2, <3>3, <3>4, ByteAssumption
  <2>. QED
    BY <1>5, <2>1, <2>2 DEF Filled
<1>. HIDE DEF w
<1>. QED
  BY <1>1, <1>3, <1>4, <1>5 DEF Socket, Source

\* Sliding the receive window moves every slot n places to the left.
LEMMA SlideProperties ==
    ASSUME NEW s \in Socket, NEW n \in 0 .. MAX_WINDOW_SIZE
    PROVE  LET t == Slide(s, n) IN
           /\ t \in Socket
           /\ t.state = s.state
           /\ t.send_window = s.send_window
           /\ t.send_seq = s.send_seq
           /\ t.recv_seq = s.recv_seq + n
           /\ \A k \in Slot : t.recv_window[k] # NoByte =>
                /\ k + n \in Slot
                /\ t.recv_window[k] = s.recv_window[k + n]
           /\ \A k \in Slot : k + n \in Slot =>
                t.recv_window[k] = s.recv_window[k + n]
<1>. DEFINE w == [k \in Slot |-> IF k + n < MAX_WINDOW_SIZE
                                 THEN s.recv_window[k + n] ELSE NoByte]
<1>1. Slide(s, n) = [s EXCEPT !.recv_seq = s.recv_seq + n, !.recv_window = w]
  BY DEF Slide, Socket
<1>2. s.recv_seq + n \in Int /\ s.recv_window \in [Slot -> Byte \union {NoByte}]
  BY SizeAssumption DEF Socket
<1>3. \A k \in Slot : k + n < MAX_WINDOW_SIZE <=> k + n \in Slot
  BY SizeAssumption DEF Slot
<1>4. w \in [Slot -> Byte \union {NoByte}]
  BY <1>2, <1>3
<1>5. \A k \in Slot : /\ w[k] # NoByte => k + n \in Slot /\ w[k] = s.recv_window[k + n]
                      /\ k + n \in Slot => w[k] = s.recv_window[k + n]
  BY <1>3
<1>. HIDE DEF w
<1>. QED
  BY <1>1, <1>2, <1>4, <1>5 DEF Socket

\* The whole of handle_packet_established for a segment of an open connection
\* (ACK, with or without data): what was acknowledged leaves the send window,
\* the ready bytes go to the application or stay, and the reply, if any,
\* acknowledges exactly what the application's fifo has got.
LEMMA EstablishedProperties ==
    ASSUME NEW s \in Socket, NEW p \in Segment, p.flags = {"ACK"},
           NEW canWrite \in BOOLEAN
    PROVE  LET r == handle_packet_established(s, p, canWrite)
               t == r.sock
               a == AckedBytes(s, p.ack)
               n == Len(r.bytes) IN
           /\ t \in Socket
           /\ t.send_seq = s.send_seq + a
           /\ Len(t.send_window) = Len(s.send_window) - a
           /\ \A i \in 1 .. Len(t.send_window) :
                    t.send_window[i] = s.send_window[i + a]
           /\ r.bytes \in Seq(Byte)
           /\ t.recv_seq = s.recv_seq + n
           /\ \A i \in 1 .. n : /\ i - 1 \in Slot
                                /\ Source(s, p, i - 1, r.bytes[i])
           /\ \A k \in Slot : t.recv_window[k] # NoByte =>
                    /\ k + n \in Slot
                    /\ Source(s, p, k + n, t.recv_window[k])
           /\ \A k \in Slot : k + n \in Slot /\ Filled(s, p, k + n) =>
                    t.recv_window[k] # NoByte
           /\ \/ r.reply = <<>>
              \/ r.reply = <<[flags |-> {"ACK"}, seq |-> t.send_seq,
                              ack |-> t.recv_seq, data |-> <<>>]>>
<1>. DEFINE r == handle_packet_established(s, p, canWrite)
            a == AckedBytes(s, p.ack)
            u == Acknowledge(s, p.ack)
            v == StoreData(u, p)
            m == ValidPrefix(v.recv_window)
<1>1. p.ack \in Int /\ p.data \in Seq(Byte)
  BY DEF Segment
<1>2. /\ a \in 0 .. Len(s.send_window)
      /\ u \in Socket
      /\ u.send_seq = s.send_seq + a
      /\ Len(u.send_window) = Len(s.send_window) - a
      /\ \A i \in 1 .. Len(u.send_window) : u.send_window[i] = s.send_window[i + a]
      /\ u.recv_seq = s.recv_seq
      /\ u.recv_window = s.recv_window
  BY <1>1, AcknowledgeProperties
<1>3. \A k \in Slot : \A x : /\ Source(u, p, k, x) <=> Source(s, p, k, x)
                             /\ Filled(u, p, k) <=> Filled(s, p, k)
  BY <1>2 DEF Source, Filled
<1>4. s.recv_seq \in Int /\ s.send_seq \in Int
  BY DEF Socket
<1>5. r = IF p.data = <<>> THEN Ignore(u) ELSE receiveNewData(u, p, canWrite)
  BY DEF handle_packet_established
<1>6. \A k \in Slot : k + 0 = k
  BY SizeAssumption DEF Slot
<1>7. CASE p.data = <<>>
  <2>1. r = [sock |-> u, reply |-> <<>>, bytes |-> <<>>]
    BY <1>5, <1>7 DEF Ignore, Result
  <2>2. \A k \in Slot : Filled(s, p, k) => s.recv_window[k] # NoByte
    <3>. SUFFICES ASSUME NEW k \in Slot,
                         p.seq <= s.recv_seq + k /\ s.recv_seq + k < p.seq + Len(p.data)
                  PROVE  FALSE
      BY DEF Filled
    <3>1. Len(p.data) = 0 /\ p.seq \in Int /\ k \in Int
      BY <1>7, SizeAssumption DEF Segment, Slot
    <3>. QED
      BY <1>4, <3>1
  <2>3. \A k \in Slot : Source(s, p, k, s.recv_window[k])
    BY DEF Source
  <2>4. Len(<<>>) = 0 /\ <<>> \in Seq(Byte) /\ s.recv_seq + 0 = s.recv_seq
    BY <1>4
  <2>. HIDE DEF r, a, u
  <2>. QED
    BY <1>2, <1>6, <2>1, <2>2, <2>3, <2>4 DEF r, a
<1>8. CASE p.data # <<>>
  <2>1. /\ v \in Socket
        /\ v = [u EXCEPT !.recv_window = v.recv_window]
        /\ \A k \in Slot : Source(s, p, k, v.recv_window[k])
        /\ \A k \in Slot : Filled(s, p, k) => v.recv_window[k] # NoByte
    BY <1>2, <1>3, StoreDataProperties
  <2>2. v.send_seq = u.send_seq /\ v.send_window = u.send_window /\ v.recv_seq = u.recv_seq
    BY <1>2, <2>1 DEF Socket
  <2>3. /\ m \in 0 .. MAX_WINDOW_SIZE
        /\ \A k \in Slot : k < m => v.recv_window[k] \in Byte
    BY <2>1, ValidPrefixProperties DEF Socket
  <2>4. CASE canWrite
    <3>. DEFINE t == Slide(v, m)
    <3>1. r = [sock |-> t, reply |-> <<construct_packet(t, <<>>, {"ACK"})>>,
               bytes |-> ReadyBytes(v)]
      BY <1>5, <1>8, <2>4 DEF receiveNewData, Result
    <3>2. /\ ReadyBytes(v) \in Seq(Byte)
          /\ Len(ReadyBytes(v)) = m
          /\ \A i \in 1 .. m : i - 1 \in Slot /\ ReadyBytes(v)[i] = v.recv_window[i - 1]
      <4>1. \A i \in 1 .. m : i - 1 \in Slot /\ i - 1 < m
        BY <2>3, SizeAssumption DEF Slot
      <4>2. m \in Nat
        BY <2>3, SizeAssumption
      <4>. HIDE DEF m
      <4>3. ReadyBytes(v) = [i \in 1 .. m |-> v.recv_window[i - 1]]
        BY DEF ReadyBytes, m
      <4>4. \A i \in 1 .. m : v.recv_window[i - 1] \in Byte
        BY <2>3, <4>1
      <4>. HIDE DEF v
      <4>5. ReadyBytes(v) \in Seq(Byte) /\ Len(ReadyBytes(v)) = m
        BY <4>2, <4>3, <4>4
      <4>. QED
        BY <4>1, <4>3, <4>5
    <3>3. /\ t \in Socket
          /\ t.send_window = v.send_window
          /\ t.send_seq = v.send_seq
          /\ t.recv_seq = v.recv_seq + m
          /\ \A k \in Slot : t.recv_window[k] # NoByte =>
                k + m \in Slot /\ t.recv_window[k] = v.recv_window[k + m]
          /\ \A k \in Slot : k + m \in Slot => t.recv_window[k] = v.recv_window[k + m]
      BY <2>1, <2>3, SlideProperties
    <3>. HIDE DEF r, a, u, v, m, t
    <3>4. r.sock = t /\ r.bytes = ReadyBytes(v)
          /\ r.reply = <<construct_packet(t, <<>>, {"ACK"})>>
      BY <3>1
    <3>5. Len(r.bytes) = m /\ r.bytes \in Seq(Byte)
      BY <3>2, <3>4
    <3>6. \A i \in 1 .. m : i - 1 \in Slot /\ Source(s, p, i - 1, r.bytes[i])
      BY <2>1, <3>2, <3>4
    <3>7. /\ t.send_seq = s.send_seq + a
          /\ Len(t.send_window) = Len(s.send_window) - a
          /\ \A i \in 1 .. Len(t.send_window) : t.send_window[i] = s.send_window[i + a]
          /\ t.recv_seq = s.recv_seq + m
      BY <1>2, <2>2, <3>3
    <3>8. \A k \in Slot : t.recv_window[k] # NoByte =>
                k + m \in Slot /\ Source(s, p, k + m, t.recv_window[k])
      BY <2>1, <3>3
    <3>9. \A k \in Slot : k + m \in Slot /\ Filled(s, p, k + m) => t.recv_window[k] # NoByte
      BY <2>1, <3>3
    <3>. QED
      BY <3>3, <3>4, <3>5, <3>6, <3>7, <3>8, <3>9 DEF construct_packet, r, a
  <2>5. CASE ~canWrite
    <3>. HIDE DEF a, u, v
    <3>1. r = [sock |-> v, reply |-> <<construct_packet(v, <<>>, {"ACK"})>>, bytes |-> <<>>]
      BY <1>5, <1>8, <2>5 DEF receiveNewData, Result, v
    <3>2. Len(<<>>) = 0 /\ <<>> \in Seq(Byte) /\ s.recv_seq + 0 = s.recv_seq
      BY <1>4
    <3>. HIDE DEF r, m
    <3>3. r.sock = v /\ r.bytes = <<>>
          /\ r.reply = <<construct_packet(v, <<>>, {"ACK"})>>
      BY <3>1
    <3>4. /\ v.send_seq = s.send_seq + a
          /\ Len(v.send_window) = Len(s.send_window) - a
          /\ \A i \in 1 .. Len(v.send_window) : v.send_window[i] = s.send_window[i + a]
          /\ v.recv_seq = s.recv_seq
      BY <1>2, <2>2
    <3>5. \A i \in 1 .. 0 : FALSE
      OBVIOUS
    <3>6. /\ \A k \in Slot : k + 0 \in Slot /\ Source(s, p, k + 0, v.recv_window[k])
          /\ \A k \in Slot : Filled(s, p, k + 0) => v.recv_window[k] # NoByte
      BY <1>6, <2>1
    <3>7. Len(r.bytes) = 0 /\ r.bytes \in Seq(Byte)
      BY <3>2, <3>3
    <3>. QED
      BY <2>1, <3>2, <3>3, <3>4, <3>5, <3>6, <3>7 DEF construct_packet, r, a
  <2>. QED
    BY <2>4, <2>5
<1>. QED
  BY <1>7, <1>8

\* What every handler of a connected socket gives: a socket, and a reply that
\* is a segment without data from the socket as it is afterwards.
GoodResult(r, states) ==
    /\ r.sock \in Socket
    /\ r.sock.state \in states
    /\ \/ r.reply = <<>>
       \/ r.reply = <<construct_packet(r.sock, <<>>, {"ACK"})>>

\* A segment for an ESTABLISHED socket, whatever its flags, leaves the socket
\* ESTABLISHED or, when it carries FIN, closes the other end.
LEMMA EstablishedStates ==
    ASSUME NEW s \in Socket, NEW p \in Segment, NEW canWrite \in BOOLEAN
    PROVE  /\ GoodResult(handle_packet_established(s, p, canWrite), {s.state, "CLOSE_WAIT"})
           /\ "FIN" \notin p.flags =>
                handle_packet_established(s, p, canWrite).sock.state = s.state
<1>. DEFINE r == handle_packet_established(s, p, canWrite)
            u == IF "ACK" \in p.flags THEN Acknowledge(s, p.ack) ELSE s
            v == StoreData(u, p)
            n == ValidPrefix(v.recv_window)
<1>1. p.ack \in Int /\ p.seq \in Int /\ s.state \in TCPState
      /\ s.send_seq \in Int /\ s.send_window \in Seq(Byte)
  BY DEF Segment, Socket
<1>2. CASE "SYN" \in p.flags
  BY <1>2 DEF handle_packet_established, Ignore, Result, GoodResult
<1>3. CASE "SYN" \notin p.flags /\ "FIN" \in p.flags
  <2>1. p.seq + 1 \in Int /\ s.send_seq + Len(s.send_window) \in Int
    BY <1>1
  <2>. QED
    BY <1>3, <2>1 DEF handle_packet_established, Ignore, Result, GoodResult, Socket, TCPState
<1>4. CASE "SYN" \notin p.flags /\ "FIN" \notin p.flags
  <2>1. u \in Socket /\ u.state = s.state
    BY <1>1, AcknowledgeProperties
  <2>2. v \in Socket /\ v.state = u.state
    <3>. HIDE DEF u
    <3>1. v \in Socket /\ v = [u EXCEPT !.recv_window = v.recv_window]
      BY <2>1, StoreDataProperties
    <3>. QED
      BY <2>1, <3>1 DEF Socket
  <2>3. n \in 0 .. MAX_WINDOW_SIZE
    BY <2>2, ValidPrefixProperties DEF Socket
  <2>4. Slide(v, n) \in Socket /\ Slide(v, n).state = v.state
    BY <2>2, <2>3, SlideProperties
  <2>5. r = IF p.data = <<>> THEN Ignore(u) ELSE receiveNewData(u, p, canWrite)
    BY <1>4 DEF handle_packet_established
  <2>6. receiveNewData(u, p, canWrite).sock = IF canWrite THEN Slide(v, n) ELSE v
    BY DEF receiveNewData, Result
  <2>7. receiveNewData(u, p, canWrite).reply =
            <<construct_packet(receiveNewData(u, p, canWrite).sock, <<>>, {"ACK"})>>
    BY DEF receiveNewData, Result
  <2>. HIDE DEF r, u, v, n
  <2>. QED
    BY <2>1, <2>2, <2>4, <2>5, <2>6, <2>7 DEF Ignore, Result, GoodResult, r
<1>. QED
  BY <1>2, <1>3, <1>4

\* Only a FIN moves the receive position of a socket on its way out, and
\* nothing moves its send position.
AfterClose(s, p, r) ==
    /\ r.sock.send_seq = s.send_seq
    /\ r.sock.send_window = s.send_window
    /\ r.sock.recv_window = s.recv_window
    /\ \/ r.sock.recv_seq = s.recv_seq
       \/ "FIN" \in p.flags /\ r.sock.recv_seq = p.seq + 1

\* The handlers of the states that wait for a FIN or for the ACK of one, and
\* the states they lead to.
LEMMA ClosingStates ==
    ASSUME NEW s \in Socket, NEW p \in Segment
    PROVE  /\ GoodResult(handle_packet_fin_wait_1(s, p),
                         {s.state, "FIN_WAIT_2", "CLOSING", "TIME_WAIT"})
           /\ GoodResult(handle_packet_fin_wait_2(s, p), {s.state, "TIME_WAIT"})
           /\ GoodResult(handle_packet_closing(s, p), {s.state, "TIME_WAIT"})
           /\ GoodResult(handle_packet_last_ack(s, p), {s.state, "CLOSED"})
           /\ AfterClose(s, p, handle_packet_fin_wait_1(s, p))
           /\ AfterClose(s, p, handle_packet_fin_wait_2(s, p))
           /\ AfterClose(s, p, handle_packet_closing(s, p))
           /\ AfterClose(s, p, handle_packet_last_ack(s, p))
<1>. USE DEF GoodResult, AfterClose, Goto, Ignore, Result
<1>1. p.seq + 1 \in Int
  BY DEF Segment
<1>2. \A state \in TCPState :
        /\ [s EXCEPT !.state = state] \in Socket
        /\ [s EXCEPT !.state = state].state = state
        /\ [s EXCEPT !.state = state].send_seq = s.send_seq
        /\ [s EXCEPT !.state = state].send_window = s.send_window
        /\ [s EXCEPT !.state = state].recv_window = s.recv_window
        /\ [s EXCEPT !.state = state].recv_seq = s.recv_seq
  BY DEF Socket
<1>. DEFINE u == [s EXCEPT !.recv_seq = p.seq + 1]
<1>3. /\ u \in Socket /\ u.send_seq = s.send_seq /\ u.send_window = s.send_window
      /\ u.recv_window = s.recv_window /\ u.recv_seq = p.seq + 1
  BY <1>1 DEF Socket
<1>4. \A state \in TCPState :
        /\ [u EXCEPT !.state = state] \in Socket
        /\ [u EXCEPT !.state = state].state = state
        /\ [u EXCEPT !.state = state].send_seq = s.send_seq
        /\ [u EXCEPT !.state = state].send_window = s.send_window
        /\ [u EXCEPT !.state = state].recv_window = s.recv_window
        /\ [u EXCEPT !.state = state].recv_seq = p.seq + 1
  BY <1>3 DEF Socket
<1>5. {"FIN_WAIT_2", "CLOSING", "TIME_WAIT", "CLOSED"} \subseteq TCPState
  BY DEF TCPState
<1>6. /\ GoodResult(handle_packet_fin_wait_1(s, p),
                    {s.state, "FIN_WAIT_2", "CLOSING", "TIME_WAIT"})
      /\ AfterClose(s, p, handle_packet_fin_wait_1(s, p))
  <2>. HIDE DEF u
  <2>1. handle_packet_fin_wait_1(s, p) =
            IF "FIN" \in p.flags
            THEN Goto(u, IF AcksFin(s, p) THEN "TIME_WAIT" ELSE "CLOSING")
            ELSE IF AcksFin(s, p) THEN Goto(s, "FIN_WAIT_2") ELSE Ignore(s)
    BY DEF handle_packet_fin_wait_1, u
  <2>2. CASE "FIN" \in p.flags
    <3>. DEFINE state == IF AcksFin(s, p) THEN "TIME_WAIT" ELSE "CLOSING"
                t == [u EXCEPT !.state = state]
    <3>1. state \in {"CLOSING", "TIME_WAIT"}
      OBVIOUS
    <3>2. handle_packet_fin_wait_1(s, p) = [sock |-> t, reply |-> <<>>, bytes |-> <<>>]
      BY <2>1, <2>2
    <3>. HIDE DEF state
    <3>3. /\ t \in Socket /\ t.state = state /\ t.send_seq = s.send_seq
          /\ t.send_window = s.send_window /\ t.recv_window = s.recv_window
          /\ t.recv_seq = p.seq + 1
      BY <1>4, <1>5, <3>1
    <3>. HIDE DEF t
    <3>. QED
      BY <2>2, <3>1, <3>2, <3>3
  <2>3. CASE "FIN" \notin p.flags /\ AcksFin(s, p)
    BY <1>2, <1>5, <2>3 DEF handle_packet_fin_wait_1
  <2>4. CASE "FIN" \notin p.flags /\ ~AcksFin(s, p)
    BY <2>4 DEF handle_packet_fin_wait_1
  <2>. QED
    BY <2>2, <2>3, <2>4
<1>7. /\ GoodResult(handle_packet_fin_wait_2(s, p), {s.state, "TIME_WAIT"})
      /\ AfterClose(s, p, handle_packet_fin_wait_2(s, p))
  <2>1. [s EXCEPT !.state = "TIME_WAIT", !.recv_seq = p.seq + 1]
            = [u EXCEPT !.state = "TIME_WAIT"]
    BY DEF Socket
  <2>. HIDE DEF u
  <2>2. CASE "FIN" \in p.flags
    <3>. DEFINE t == [u EXCEPT !.state = "TIME_WAIT"]
    <3>1. handle_packet_fin_wait_2(s, p) =
            [sock |-> t, reply |-> <<construct_packet(t, <<>>, {"ACK"})>>, bytes |-> <<>>]
      BY <2>1, <2>2 DEF handle_packet_fin_wait_2
    <3>2. /\ t \in Socket /\ t.state = "TIME_WAIT" /\ t.send_seq = s.send_seq
          /\ t.send_window = s.send_window /\ t.recv_window = s.recv_window
          /\ t.recv_seq = p.seq + 1
      BY <1>4, <1>5
    <3>. HIDE DEF t
    <3>. QED
      BY <2>2, <3>1, <3>2
  <2>3. CASE "FIN" \notin p.flags
    BY <2>3 DEF handle_packet_fin_wait_2
  <2>. QED
    BY <2>2, <2>3
<1>8. /\ GoodResult(handle_packet_closing(s, p), {s.state, "TIME_WAIT"})
      /\ AfterClose(s, p, handle_packet_closing(s, p))
  BY <1>2, <1>5 DEF handle_packet_closing
<1>9. /\ GoodResult(handle_packet_last_ack(s, p), {s.state, "CLOSED"})
      /\ AfterClose(s, p, handle_packet_last_ack(s, p))
  BY <1>2, <1>5 DEF handle_packet_last_ack
<1>. QED
  BY <1>6, <1>7, <1>8, <1>9

\* The handlers of the handshake notify the program or change nothing.
LEMMA HandshakeStates ==
    ASSUME NEW s \in Socket, NEW p \in Segment, NEW notified \in BOOLEAN
    PROVE  LET t == handle_packet_syn_sent(s, p, notified).sock
               u == handle_packet_syn_received(s, p, notified).sock IN
           /\ t \in Socket
           /\ t = s \/ (notified /\ t.state = "ESTABLISHED")
           /\ u \in Socket
           /\ u = s \/ (notified /\ u.state = "ESTABLISHED")
<1>1. p.seq + 1 \in Int
  BY DEF Segment
<1>. QED
  BY <1>1 DEF handle_packet_syn_sent, handle_packet_syn_received, Goto, Ignore, Result,
              Socket, TCPState
=============================================================================
