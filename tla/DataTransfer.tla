---------------------------- MODULE DataTransfer ----------------------------
(***************************************************************************)
(* An established connection: two sockets in state ESTABLISHED, the        *)
(* managers that own them, the in-packet fifos between the managers and    *)
(* the two applications.  The state starts where the three-way handshake   *)
(* leaves it: each recv_seq equals the other end's send_seq.               *)
(*                                                                         *)
(* A byte sent with SocketSend goes through the send fifo, the send        *)
(* window, a segment, the peer's receive window, the peer's recv fifo and  *)
(* the buffer of a SocketRecv.                                             *)
(***************************************************************************)
EXTENDS TcpSocket

CONSTANTS
    Message,            \* Message[e]: all the application at e ever sends
    Isn,                \* Isn[e]: first sequence number of e's data
    CONN_CLOSED,        \* the char that means "closed by the other side"
    BufferLen,          \* the bufferLen argument of SocketRecv
    PIPE_CAPACITY,      \* the size of a pipe of the operating system
    MaxInFlight         \* bound on segments in flight that a timer adds to

End == {"client", "server"}

Peer(e) == IF e = "client" THEN "server" ELSE "client"

ASSUME DataAssumption ==
    /\ Message \in [End -> Seq(Byte)]
    /\ Isn \in [End -> Int]
    /\ CONN_CLOSED \in Byte
    /\ BufferLen \in Nat \ {0}
    /\ PIPE_CAPACITY \in Nat
    /\ MaxInFlight \in Nat

VARIABLES
    sock,               \* the two Socket structures
    inPackets,          \* inPackets[e]: segments on their way to e
    written,            \* how much of Message[e] SocketSend has written
    sendFifo,           \* bytes in the send fifo of e
    recvFifo,           \* bytes in the recv fifo of e
    recvCall,           \* where e's call of SocketRecv is
    delivered,          \* history: all bytes ever put into e's recv fifo
    received            \* history: all bytes SocketRecv ever returned at e

vars == <<sock, inPackets, written, sendFifo, recvFifo, recvCall, delivered, received>>

(* SocketRecv: "opening" is blocked in open() until a writer comes, "open" *)
(* has the fifo open, "closing" has read and not yet closed.  From         *)
(* "opening" to "closing" the fifo has a reader.                           *)
RecvCall == {"idle", "opening", "open", "closing"}

Init ==
    /\ sock = [e \in End |-> NewSocket("ESTABLISHED", Isn[e], Isn[Peer(e)])]
    /\ inPackets = [e \in End |-> <<>>]
    /\ written = [e \in End |-> 0]
    /\ sendFifo = [e \in End |-> <<>>]
    /\ recvFifo = [e \in End |-> <<>>]
    /\ recvCall = [e \in End |-> "idle"]
    /\ delivered = [e \in End |-> <<>>]
    /\ received = [e \in End |-> <<>>]

----------------------------------------------------------------------------
(* The applications.                                                       *)

\* SocketSend writes a chunk of any length into the send fifo.
SocketSend(e) ==
    \E n \in written[e] + 1 .. Len(Message[e]) :
        /\ written' = [written EXCEPT ![e] = n]
        /\ sendFifo' = [sendFifo EXCEPT ![e] =
                            @ \o SubSeq(Message[e], written[e] + 1, n)]
        /\ UNCHANGED <<sock, inPackets, recvFifo, recvCall, delivered, received>>

RecvOpen(e) ==
    /\ recvCall[e] = "idle"
    /\ recvCall' = [recvCall EXCEPT ![e] = "opening"]
    /\ UNCHANGED <<sock, inPackets, written, sendFifo, recvFifo, delivered, received>>

\* One read() of at most bufferLen bytes.  If the last one is CONN_CLOSED,
\* SocketRecv returns -1 and the caller gets nothing.
RecvRead(e) ==
    /\ recvCall[e] = "open"
    /\ LET n == IF Len(recvFifo[e]) < BufferLen THEN Len(recvFifo[e]) ELSE BufferLen
           chunk == SubSeq(recvFifo[e], 1, n)
       IN /\ recvFifo' = [recvFifo EXCEPT ![e] = SubSeq(@, n + 1, Len(@))]
          /\ received' = IF n > 0 /\ chunk[n] # CONN_CLOSED
                         THEN [received EXCEPT ![e] = @ \o chunk]
                         ELSE received
    /\ recvCall' = [recvCall EXCEPT ![e] = "closing"]
    /\ UNCHANGED <<sock, inPackets, written, sendFifo, delivered>>

\* close() drops the only descriptor, and the pipe with what it still holds.
\* The caller then returns, or starts over when it read nothing.
RecvClose(e) ==
    /\ recvCall[e] = "closing"
    /\ recvCall' = [recvCall EXCEPT ![e] = "idle"]
    /\ recvFifo' = [recvFifo EXCEPT ![e] = <<>>]
    /\ UNCHANGED <<sock, inPackets, written, sendFifo, delivered, received>>

----------------------------------------------------------------------------
(* The managers.                                                           *)

ReadSendFifo_NoCapacityTest(e) ==
    /\ sock[e].state = "ESTABLISHED"
    /\ sendFifo[e] # <<>>
    /\ sock' = [sock EXCEPT ![e].send_window = Append(@, Head(sendFifo[e]))]
    /\ sendFifo' = [sendFifo EXCEPT ![e] = Tail(@)]
    /\ UNCHANGED <<inPackets, written, recvFifo, recvCall, delivered, received>>

\* check_and_handle_outgoing_status_messages, ESTABLISHED: the send fifo is
\* closed inside the loop, so one turn takes one byte.
ReadSendFifo(e) ==
    /\ sock[e].state = "ESTABLISHED"
    /\ Len(sock[e].send_window) < DEFAULT_QUEUE_CAPACITY
    /\ sendFifo[e] # <<>>
    /\ sock' = [sock EXCEPT ![e].send_window = Append(@, Head(sendFifo[e]))]
    /\ sendFifo' = [sendFifo EXCEPT ![e] = Tail(@)]
    /\ UNCHANGED <<inPackets, written, recvFifo, recvCall, delivered, received>>

\* check_and_handle_send_window: SOCKET_SEND_AGAIN_TIME passed since the last
\* segment.  A failed send_TCP_packet leaves everything as it is.
SendWindow(e) ==
    /\ sock[e].state = "ESTABLISHED"
    /\ Len(inPackets[e]) + Len(inPackets[Peer(e)]) < MaxInFlight
    /\ inPackets' = [inPackets EXCEPT ![Peer(e)] =
            Append(@, construct_packet(sock[e],
                        get_next_socket_packet_data(sock[e]), {"ACK"}))]
    /\ UNCHANGED <<sock, written, sendFifo, recvFifo, recvCall, delivered, received>>

\* The non-blocking open and write of update_recv_window succeed.
CanWrite(e, p) ==
    /\ recvCall[e] # "idle"
    /\ Len(recvFifo[e]) + ValidPrefix(StoreData(sock[e], p).recv_window)
            <= PIPE_CAPACITY

\* handle_incoming_ip_packet for the socket at e.  The reply may be lost:
\* nobody looks at the result of its send_TCP_packet.
HandlePacket(e) ==
    /\ inPackets[e] # <<>>
    /\ LET p == Head(inPackets[e])
           r == handle_packet_established(sock[e], p, CanWrite(e, p))
       IN /\ sock' = [sock EXCEPT ![e] = r.sock]
          /\ \E reply \in {r.reply, <<>>} :
                inPackets' = [inPackets EXCEPT ![e] = Tail(@),
                                               ![Peer(e)] = @ \o reply]
          /\ recvFifo' = [recvFifo EXCEPT ![e] = @ \o r.bytes]
          /\ delivered' = [delivered EXCEPT ![e] = @ \o r.bytes]
          /\ recvCall' = IF p.data # <<>> /\ recvCall[e] = "opening"
                         THEN [recvCall EXCEPT ![e] = "open"] ELSE recvCall
    /\ UNCHANGED <<written, sendFifo, received>>

Next == \E e \in End :
    \/ SocketSend(e)
    \/ RecvOpen(e)
    \/ RecvRead(e)
    \/ RecvClose(e)
    \/ ReadSendFifo(e)
    \/ SendWindow(e)
    \/ HandlePacket(e)

Spec == Init /\ [][Next]_vars

(* The manager loop visits every socket and drains its in-packet fifo      *)
(* again and again; the send timer fires again and again, and is disabled  *)
(* here only while MaxInFlight segments wait.  The application is assumed  *)
(* to call SocketRecv in a loop, as server_main.c does; nothing is assumed *)
(* about SocketSend, or about replies being sent.                          *)
Fairness == \A e \in End :
    /\ WF_vars(ReadSendFifo(e)) /\ SF_vars(SendWindow(e)) /\ WF_vars(HandlePacket(e))
    /\ WF_vars(RecvOpen(e)) /\ WF_vars(RecvRead(e)) /\ WF_vars(RecvClose(e))

FairSpec == Spec /\ Fairness

----------------------------------------------------------------------------
(* Properties.                                                             *)

\* Every variable has its type; the send window never exceeds the capacity of
\* its queue (the size test before enqueue in the ESTABLISHED branch), and no
\* segment is larger than MAX_DATA_PER_PACKET.
TypeOK ==
    /\ sock \in [End -> Socket]
    /\ \A e \in End : Len(sock[e].send_window) <= DEFAULT_QUEUE_CAPACITY
    /\ inPackets \in [End -> Seq(Segment)]
    /\ \A e \in End : \A i \in 1 .. Len(inPackets[e]) :
            Len(inPackets[e][i].data) <= MAX_DATA_PER_PACKET
    /\ written \in [End -> Nat]
    /\ \A e \in End : written[e] <= Len(Message[e])
    /\ sendFifo \in [End -> Seq(Byte)]
    /\ recvFifo \in [End -> Seq(Byte)]
    /\ recvCall \in [End -> RecvCall]
    /\ delivered \in [End -> Seq(Byte)]
    /\ received \in [End -> Seq(Byte)]

\* The byte of e's stream with sequence number n, and the first number e has
\* not yet taken from its send fifo.
StreamByte(e, n) == Message[e][n - Isn[e] + 1]

SendEnd(e) == sock[e].send_seq + Len(sock[e].send_window)

\* An acknowledged byte has reached the other application's recv fifo, and no
\* byte gets there that was not taken from the sender's send fifo: the
\* receiver's position lies inside the sender's window.
WindowsAgree == \A e \in End :
    /\ sock[e].send_seq <= sock[Peer(e)].recv_seq
    /\ sock[Peer(e)].recv_seq <= SendEnd(e)

\* What was put into a recv fifo is exactly the first recv_seq - Isn bytes of
\* the other end's message: resent, overlapping and late segments neither
\* duplicate, reorder nor corrupt a byte.
DeliveredInOrder == \A e \in End :
    /\ Len(delivered[e]) = sock[e].recv_seq - Isn[Peer(e)]
    /\ Len(delivered[e]) <= Len(Message[Peer(e)])
    /\ \A i \in 1 .. Len(delivered[e]) : delivered[e][i] = Message[Peer(e)][i]

\* A byte in the receive window that waits for the application to call
\* SocketRecv is the byte of the stream its slot stands for.
WindowHoldsStream == \A e \in End : \A k \in Slot :
    sock[e].recv_window[k] # NoByte =>
        /\ sock[e].recv_seq + k < SendEnd(Peer(e))
        /\ sock[e].recv_window[k] = StreamByte(Peer(e), sock[e].recv_seq + k)

\* Segments are always cut from the front of the send window, so the receive
\* window never buffers more than one segment's data, and never has a hole,
\* however large MAX_WINDOW_SIZE is.
WindowHoldsOneSegment == \A e \in End : \A k \in Slot :
    sock[e].recv_window[k] # NoByte =>
        /\ k < MAX_DATA_PER_PACKET
        /\ \A j \in 0 .. k : sock[e].recv_window[j] # NoByte

\* The parts of the inductive invariant that are no properties of their own:
\* the send fifo continues the send window, the send window holds the stream
\* from send_seq on, and a segment in flight is a piece of the stream that
\* starts at or before the receiver's position and acknowledges no more than
\* its sender had delivered.
SendFifoHoldsStream == \A e \in End :
    /\ Isn[e] <= sock[e].send_seq
    /\ SendEnd(e) - Isn[e] + Len(sendFifo[e]) = written[e]
    /\ \A i \in 1 .. Len(sendFifo[e]) :
            sendFifo[e][i] = StreamByte(e, SendEnd(e) + i - 1)

SendWindowHoldsStream == \A e \in End : \A i \in 1 .. Len(sock[e].send_window) :
    sock[e].send_window[i] = StreamByte(e, sock[e].send_seq + i - 1)

GoodSegment(e, p) ==
    /\ p.flags = {"ACK"}
    /\ Isn[Peer(e)] <= p.seq
    /\ p.seq <= sock[e].recv_seq
    /\ p.seq + Len(p.data) <= SendEnd(Peer(e))
    /\ \A j \in 1 .. Len(p.data) : p.data[j] = StreamByte(Peer(e), p.seq + j - 1)
    /\ p.ack <= sock[Peer(e)].recv_seq

SegmentsAreGood == \A e \in End : \A i \in 1 .. Len(inPackets[e]) :
    GoodSegment(e, inPackets[e][i])

\* The inductive invariant the theorems of DataTransferProofs rest on: every
\* place a byte can be in holds the right piece of the stream.
Inv == /\ TypeOK
       /\ SendFifoHoldsStream
       /\ SendWindowHoldsStream
       /\ SegmentsAreGood
       /\ WindowsAgree
       /\ WindowHoldsStream
       /\ WindowHoldsOneSegment
       /\ DeliveredInOrder

\* Sequence numbers only move forward, and an end drops a byte from its send
\* window only in a step before which the other end already delivered it.
NoByteDroppedEarly ==
    [][\A e \in End :
        /\ sock'[e].send_seq >= sock[e].send_seq
        /\ sock'[e].recv_seq >= sock[e].recv_seq
        /\ sock'[e].send_seq - Isn[e] <= Len(delivered[Peer(e)])]_vars

\* The connection implements a reliable ordered byte stream up to the recv
\* fifo (README.md: "reliable, ordered and error-checked delivery of a stream
\* of bytes").
Stream == INSTANCE ByteStream WITH
    Sender <- End,
    input <- [e \in End |-> SubSeq(Message[e], 1, written[e])],
    output <- [e \in End |-> delivered[Peer(e)]]

ImplementsByteStream == Stream!Spec

\* Whatever SocketSend wrote eventually reaches the recv fifo of the other
\* end, provided that the other application keeps calling SocketRecv.
WrittenIsDelivered == \A e \in End : \A n \in 1 .. Len(Message[e]) :
    written[e] >= n ~> Len(delivered[Peer(e)]) >= n

\* The application sees the stream: what the calls of SocketRecv returned is
\* a prefix of what the other end sent (README.md, General Description).
ReceivedIsStream == \A e \in End :
    /\ Len(received[e]) <= written[Peer(e)]
    /\ received[e] = SubSeq(Message[Peer(e)], 1, Len(received[e]))
=============================================================================
