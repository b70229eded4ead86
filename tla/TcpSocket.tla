----------------------------- MODULE TcpSocket -----------------------------
(***************************************************************************)
(* The TCP half of a socket as the network manager keeps it: the Socket    *)
(* structure of util_types.h, the segments of tcp.c, and the segment       *)
(* handlers of packet_handlers.c as pure operators.  A handler maps the    *)
(* socket and the segment to the socket afterwards, the reply it returns   *)
(* (at most one segment) and the bytes it wrote into the user's recv fifo. *)
(* The modules that hold state (DataTransfer, NetworkManager) call these.  *)
(*                                                                         *)
(* Addresses are not part of this module: a socket is found by its id and  *)
(* a segment travels in an envelope, both of which NetworkManager models.  *)
(***************************************************************************)
EXTENDS Integers, Sequences, FiniteSets

CONSTANTS
    Byte,                   \* the values of a char
    NUL,                    \* '\0'
    NoByte,                 \* a recv_window slot whose recv_window_isvalid is false
    MAX_WINDOW_SIZE,
    MAX_DATA_PER_PACKET,
    DEFAULT_QUEUE_CAPACITY

ASSUME ByteAssumption == NUL \in Byte /\ NoByte \notin Byte
ASSUME SizeAssumption ==
    /\ MAX_WINDOW_SIZE \in Nat \ {0}
    /\ MAX_DATA_PER_PACKET \in Nat \ {0}
    /\ DEFAULT_QUEUE_CAPACITY \in Nat \ {0}

TCPState == { "CLOSED", "LISTEN", "SYN_SENT", "SYN_RECEIVED", "ESTABLISHED",
              "CLOSE_WAIT", "LAST_ACK", "FIN_WAIT_1", "FIN_WAIT_2",
              "CLOSING", "TIME_WAIT" }

Slot == 0 .. MAX_WINDOW_SIZE - 1

\* recv_window and recv_window_isvalid are one function: a slot holds a byte
\* or NoByte.  max_connections is only meaningful in LISTEN.
Socket == [ state : TCPState,
            send_window : Seq(Byte),
            send_seq : Int,
            recv_window : [Slot -> Byte \union {NoByte}],
            recv_seq : Int,
            max_connections : Int ]

NewSocket(state, send_seq, recv_seq) ==
    [ state |-> state, send_window |-> <<>>, send_seq |-> send_seq,
      recv_window |-> [k \in Slot |-> NoByte], recv_seq |-> recv_seq,
      max_connections |-> 0 ]

----------------------------------------------------------------------------
(* Segments.  tcp_to_str and str_to_tcp carry the data as a C string: an   *)
(* empty string arrives as data = NULL, here <<>>.                         *)

Flag == {"SYN", "ACK", "FIN", "RST"}

Segment == [ flags : SUBSET Flag, seq : Int, ack : Int, data : Seq(Byte) ]

construct_packet(s, data, flags) ==
    [flags |-> flags, seq |-> s.send_seq, ack |-> s.recv_seq, data |-> data]

LeastOf(S) == CHOOSE n \in S : \A m \in S : n <= m

\* The loop of get_next_socket_packet_data stops at the end of the queue, at
\* a full packet, or at a byte equal to QUEUE_EMPTY_ELEMENT.
Stops_NoPacketLimit(q, n) == n = Len(q) \/ q[n + 1] = NUL

Stops(q, n) == n = Len(q) \/ n = MAX_DATA_PER_PACKET \/ q[n + 1] = NUL

DataLength(q) == LeastOf({n \in 0 .. Len(q) : Stops(q, n)})

get_next_socket_packet_data(s) ==
    SubSeq(s.send_window, 1, DataLength(s.send_window))

----------------------------------------------------------------------------
(* The windows of an ESTABLISHED socket.                                   *)

AckedBytes_OffByOne(s, ack) ==
    IF ack < s.send_seq THEN 0
    ELSE IF ack - s.send_seq < Len(s.send_window) THEN ack - s.send_seq + 1
    ELSE Len(s.send_window)

\* How many bytes the while loop over a cumulative ACK dequeues.
AckedBytes(s, ack) ==
    IF ack <= s.send_seq THEN 0
    ELSE IF ack - s.send_seq < Len(s.send_window) THEN ack - s.send_seq
    ELSE Len(s.send_window)

Acknowledge(s, ack) ==
    LET n == AckedBytes(s, ack) IN
    [s EXCEPT !.send_window = SubSeq(@, n + 1, Len(@)), !.send_seq = @ + n]

StoreData_IgnoresSeq(s, p) ==
    [s EXCEPT !.recv_window =
        [k \in Slot |-> IF @[k] = NoByte /\ k < Len(p.data) THEN p.data[k + 1] ELSE @[k]]]

\* receiveNewData: each byte of the segment that falls into the window goes
\* into its slot unless the slot is valid already.
StoreData(s, p) ==
    [s EXCEPT !.recv_window =
        [k \in Slot |->
            LET i == s.recv_seq + k - p.seq IN
            IF @[k] = NoByte /\ i \in 0 .. Len(p.data) - 1
            THEN p.data[i + 1] ELSE @[k]]]

ValidPrefix(w) ==
    LeastOf({n \in 0 .. MAX_WINDOW_SIZE : n = MAX_WINDOW_SIZE \/ w[n] = NoByte})

\* The bytes update_recv_window offers to the user's recv fifo.
ReadyBytes(s) == [i \in 1 .. ValidPrefix(s.recv_window) |-> s.recv_window[i - 1]]

Slide(s, n) ==
    [s EXCEPT !.recv_seq = @ + n,
              !.recv_window = [k \in Slot |->
                  IF k + n < MAX_WINDOW_SIZE THEN @[k + n] ELSE NoByte]]

----------------------------------------------------------------------------
(* The handlers.                                                           *)

Result(s, reply, bytes) == [sock |-> s, reply |-> reply, bytes |-> bytes]

Goto(s, state) == Result([s EXCEPT !.state = state], <<>>, <<>>)

Ignore(s) == Result(s, <<>>, <<>>)

receiveNewData_SlidesUnwritten(s, p, canWrite) ==
    LET stored == StoreData(s, p)
        final  == Slide(stored, ValidPrefix(stored.recv_window))
    IN Result(final, <<construct_packet(final, <<>>, {"ACK"})>>,
              IF canWrite THEN ReadyBytes(stored) ELSE <<>>)

receiveNewData_OffersNewBytesOnly(s, p, canWrite) ==
    LET stored == StoreData(s, p)
        offer  == canWrite /\ stored # s
        final  == IF offer THEN Slide(stored, ValidPrefix(stored.recv_window)) ELSE stored
    IN Result(final, <<construct_packet(final, <<>>, {"ACK"})>>,
              IF offer THEN ReadyBytes(stored) ELSE <<>>)

\* canWrite: the non-blocking write of the recv fifo succeeds, which it does
\* when a SocketRecv has the fifo open and the pipe has room.
receiveNewData(s, p, canWrite) ==
    LET stored == StoreData(s, p)
        final  == IF canWrite
                  THEN Slide(stored, ValidPrefix(stored.recv_window))
                  ELSE stored
    IN Result(final,
              <<construct_packet(final, <<>>, {"ACK"})>>,
              IF canWrite THEN ReadyBytes(stored) ELSE <<>>)

handle_packet_established(s, p, canWrite) ==
    IF "SYN" \in p.flags THEN Ignore(s)
    ELSE IF "FIN" \in p.flags
    THEN Ignore([s EXCEPT !.state = "CLOSE_WAIT",
                          !.recv_seq = p.seq + 1,
                          !.send_seq = @ + Len(s.send_window)])
    ELSE LET acked == IF "ACK" \in p.flags THEN Acknowledge(s, p.ack) ELSE s
         IN IF p.data = <<>> THEN Ignore(acked)
            ELSE receiveNewData(acked, p, canWrite)

handle_packet_syn_sent_NoAckTest(s, p, notified) ==
    IF "SYN" \in p.flags /\ notified
    THEN Goto([s EXCEPT !.recv_seq = p.seq + 1], "ESTABLISHED")
    ELSE Ignore(s)

\* notified: notify_connect_client returned 0.
handle_packet_syn_sent(s, p, notified) ==
    IF {"SYN", "ACK"} \subseteq p.flags /\ p.ack = s.send_seq /\ notified
    THEN Goto([s EXCEPT !.recv_seq = p.seq + 1], "ESTABLISHED")
    ELSE Ignore(s)

\* notified: notify_accept_client returned 0.
handle_packet_syn_received(s, p, notified) ==
    IF "ACK" \in p.flags /\ p.ack = s.send_seq /\ notified
    THEN Goto(s, "ESTABLISHED")
    ELSE Ignore(s)

AcksFin_OrEqual(s, p) == "ACK" \in p.flags /\ p.ack >= s.send_seq

AcksFin(s, p) == "ACK" \in p.flags /\ p.ack > s.send_seq

handle_packet_fin_wait_1(s, p) ==
    IF "FIN" \in p.flags
    THEN Goto([s EXCEPT !.recv_seq = p.seq + 1],
              IF AcksFin(s, p) THEN "TIME_WAIT" ELSE "CLOSING")
    ELSE IF AcksFin(s, p) THEN Goto(s, "FIN_WAIT_2") ELSE Ignore(s)

handle_packet_fin_wait_2(s, p) ==
    IF "FIN" \in p.flags
    THEN LET t == [s EXCEPT !.state = "TIME_WAIT", !.recv_seq = p.seq + 1]
         IN Result(t, <<construct_packet(t, <<>>, {"ACK"})>>, <<>>)
    ELSE Ignore(s)

handle_packet_closing(s, p) ==
    IF AcksFin(s, p) THEN Goto(s, "TIME_WAIT") ELSE Ignore(s)

handle_packet_last_ack(s, p) ==
    IF AcksFin(s, p) THEN Goto(s, "CLOSED") ELSE Ignore(s)
=============================================================================
