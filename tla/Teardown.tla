------------------------------ MODULE Teardown ------------------------------
(***************************************************************************)
(* The end of a connection: the two sockets of DataTransfer with data in   *)
(* their windows, on their way and in their fifos, while a program calls   *)
(* SocketClose, a timer gives up, sockets are removed from the table and   *)
(* the manager stops.                                                      *)
(*                                                                         *)
(* Both ends belong to one manager, as those of every connection that gets *)
(* established do: an accepted socket has the ip of its own manager as     *)
(* destination (NetworkManager, handle_packet_listen).                     *)
(***************************************************************************)
EXTENDS DataTransfer

VARIABLES
    inTable,    \* inTable[e]: e is in the table; its data fifos have names
    up,         \* the manager runs
    closeCall,  \* where the one SocketClose of e is
    told,       \* history: ends whose SocketRecv returned -1 for CONN_CLOSED
    finTaken,   \* history: ends that took a FIN of the other end
    finAcked    \* history: ends that took a segment for the ACK of their FIN

life == <<inTable, up, closeCall, told, finTaken, finAcked>>
allVars == <<vars, life>>

CloseCall == {"none", "blocked", "done"}

TeardownInit ==
    /\ Init
    /\ inTable = [e \in End |-> TRUE]
    /\ up = TRUE
    /\ closeCall = [e \in End |-> "none"]
    /\ told = {}
    /\ finTaken = {}
    /\ finAcked = {}

Sockets(states) == {e \in End : up /\ inTable[e] /\ sock[e].state \in states}

----------------------------------------------------------------------------
(* The applications.  Once the names of its data fifos are gone, SocketSend *)
(* and SocketRecv of an end return -1; descriptors that are open stay.      *)

TransferCall(e) ==
    /\ \/ inTable[e] /\ (SocketSend(e) \/ RecvOpen(e))
       \/ RecvClose(e)
    /\ UNCHANGED life

TellingRead(e) ==
    /\ RecvRead(e)
    /\ LET n == IF Len(recvFifo[e]) < BufferLen THEN Len(recvFifo[e]) ELSE BufferLen IN
       told' = IF n > 0 /\ recvFifo[e][n] = CONN_CLOSED THEN told \union {e} ELSE told
    /\ UNCHANGED <<inTable, up, closeCall, finTaken, finAcked>>

\* SocketClose blocks in open() until the manager takes the command.
SocketClose(e) ==
    /\ inTable[e] /\ closeCall[e] = "none"
    /\ closeCall' = [closeCall EXCEPT ![e] = "blocked"]
    /\ UNCHANGED <<vars, inTable, up, told, finTaken, finAcked>>

----------------------------------------------------------------------------
(* The manager: segments.                                                  *)

\* The next segment for e, which is not a reset.
Next_(e) == Head(inPackets[e])
HasSegment(e) == up /\ inPackets[e] # <<>>
Plain(e) == HasSegment(e) /\ "RST" \notin Next_(e).flags

Transfer(e) ==
    /\ e \in Sockets({"ESTABLISHED"})
    /\ ReadSendFifo(e) \/ SendWindow(e)
    /\ UNCHANGED life

HandleEstablished(e) ==
    /\ e \in Sockets({"ESTABLISHED"}) /\ Plain(e)
    /\ HandlePacket(e)
    /\ finTaken' = IF "FIN" \in Next_(e).flags THEN finTaken \union {e} ELSE finTaken
    /\ UNCHANGED <<inTable, up, closeCall, told, finAcked>>

\* The states that wait for the other end's FIN or for the ACK of their own.
HandleClosing(e) ==
    LET s == sock[e]
        p == Next_(e)
        r == CASE s.state = "FIN_WAIT_1" -> handle_packet_fin_wait_1(s, p)
               [] s.state = "FIN_WAIT_2" -> handle_packet_fin_wait_2(s, p)
               [] s.state = "CLOSING" -> handle_packet_closing(s, p)
               [] s.state = "LAST_ACK" -> handle_packet_last_ack(s, p)
        takesFin == s.state \in {"FIN_WAIT_1", "FIN_WAIT_2"} /\ "FIN" \in p.flags
        takesAck == s.state # "FIN_WAIT_2" /\ AcksFin(s, p)
    IN /\ e \in Sockets({"FIN_WAIT_1", "FIN_WAIT_2", "CLOSING", "LAST_ACK"}) /\ Plain(e)
       /\ sock' = [sock EXCEPT ![e] = r.sock]
       /\ \E reply \in {r.reply, <<>>} :
            inPackets' = [inPackets EXCEPT ![e] = Tail(@), ![Peer(e)] = @ \o reply]
       /\ finTaken' = IF takesFin THEN finTaken \union {e} ELSE finTaken
       /\ finAcked' = IF takesAck THEN finAcked \union {e} ELSE finAcked
       /\ UNCHANGED <<written, sendFifo, recvFifo, recvCall, delivered, received,
                      inTable, up, closeCall, told>>

\* A reset, or a segment that no state waits for or no socket is there for.
HandleOther(e) ==
    /\ HasSegment(e)
    /\ IF inTable[e] /\ ~Plain(e)
       THEN sock' = [sock EXCEPT ![e].state = "CLOSED"]
       ELSE /\ inTable[e] => sock[e].state \in {"CLOSED", "CLOSE_WAIT", "TIME_WAIT"}
            /\ UNCHANGED sock
    /\ inPackets' = [inPackets EXCEPT ![e] = Tail(@)]
    /\ UNCHANGED <<written, sendFifo, recvFifo, recvCall, delivered, received, life>>

----------------------------------------------------------------------------
(* The manager: the close command and the timers.                          *)

HandleCloseCommand_KeepsSeq(e) ==
    /\ up /\ inTable[e] /\ closeCall[e] = "blocked"
    /\ sock' = [sock EXCEPT ![e].state = "FIN_WAIT_1"]
    /\ closeCall' = [closeCall EXCEPT ![e] = "done"]
    /\ UNCHANGED <<inPackets, written, sendFifo, recvFifo, recvCall, delivered, received,
                   inTable, up, told, finTaken, finAcked>>

\* check_and_handle_close_command, in whatever state the socket is.  What is
\* in the send window is counted as sent and stays there.
HandleCloseCommand(e) ==
    /\ up /\ inTable[e] /\ closeCall[e] = "blocked"
    /\ sock' = [sock EXCEPT ![e].state = "FIN_WAIT_1",
                            ![e].send_seq = @ + Len(sock[e].send_window)]
    /\ closeCall' = [closeCall EXCEPT ![e] = "done"]
    /\ UNCHANGED <<inPackets, written, sendFifo, recvFifo, recvCall, delivered, received,
                   inTable, up, told, finTaken, finAcked>>

Emit(e, flags) ==
    /\ inPackets' = [inPackets EXCEPT ![Peer(e)] =
                        Append(@, construct_packet(sock[e], <<>>, flags))]
    /\ UNCHANGED <<written, sendFifo, recvFifo, recvCall, delivered, received, life>>

ResendFin(e) ==
    /\ Len(inPackets[Peer(e)]) < MaxInFlight
    /\ \/ e \in Sockets({"FIN_WAIT_1"}) /\ Emit(e, {"FIN"})
       \/ e \in Sockets({"LAST_ACK"}) /\ Emit(e, {"FIN", "ACK"})
    /\ UNCHANGED sock

GiveUp_NotInClosing(e) ==
    /\ e \in Sockets({"FIN_WAIT_1"})
    /\ sock' = [sock EXCEPT ![e].state = "TIME_WAIT"]
    /\ Emit(e, {"RST"})

\* SOCKET_FIN_RST_TIME after the FIN.
GiveUp(e) ==
    /\ e \in Sockets({"FIN_WAIT_1", "CLOSING"})
    /\ sock' = [sock EXCEPT ![e].state = "TIME_WAIT"]
    /\ Emit(e, {"RST"})

CloseWaitToLastAck(e) ==
    /\ e \in Sockets({"CLOSE_WAIT"})
    /\ sock' = [sock EXCEPT ![e].state = "LAST_ACK",
                            ![e].send_seq = @ + Len(sock[e].send_window)]
    /\ UNCHANGED <<inPackets, written, sendFifo, recvFifo, recvCall, delivered, received, life>>

TimeWaitToClosed(e) ==
    /\ e \in Sockets({"TIME_WAIT"})
    /\ sock' = [sock EXCEPT ![e].state = "CLOSED"]
    /\ UNCHANGED <<inPackets, written, sendFifo, recvFifo, recvCall, delivered, received, life>>

----------------------------------------------------------------------------
(* The manager: removal.                                                   *)

\* unlink_socket_fifos_server_side writes CONN_CLOSED into the partner's recv
\* fifo and closes it: without a reader the byte is gone.  A full pipe keeps the
\* manager in write(), with all it does; here only this removal waits, so the
\* model has more behaviours than the code.
TellPartner(e) ==
    IF /\ sock[e].send_seq # 0
       /\ inTable[Peer(e)] /\ recvCall[Peer(e)] # "idle"
    THEN /\ Len(recvFifo[Peer(e)]) < PIPE_CAPACITY
         /\ recvFifo' = [recvFifo EXCEPT ![Peer(e)] = Append(@, CONN_CLOSED)]
         /\ recvCall' = IF recvCall[Peer(e)] = "opening"
                        THEN [recvCall EXCEPT ![Peer(e)] = "open"] ELSE recvCall
    ELSE UNCHANGED <<recvFifo, recvCall>>

Freed == NewSocket("CLOSED", 0, 0)

\* check_and_handle_closed_socket and remove_and_destroy_socket.  A program in
\* SocketClose is woken.
RemoveSocket(e) ==
    /\ e \in Sockets({"CLOSED"})
    /\ TellPartner(e)
    /\ inTable' = [inTable EXCEPT ![e] = FALSE]
    /\ sock' = [sock EXCEPT ![e] = Freed]
    /\ sendFifo' = [sendFifo EXCEPT ![e] = <<>>]
    /\ closeCall' = IF closeCall[e] = "blocked" THEN [closeCall EXCEPT ![e] = "done"]
                    ELSE closeCall
    /\ UNCHANGED <<inPackets, written, delivered, received, up, told, finTaken, finAcked>>

\* terminate_manager visits the sockets in the order of the table: when it
\* comes to the second, the fifos of the first have no names any more.
StopManager(first) ==
    /\ up /\ up' = FALSE
    /\ inTable[first]
    /\ TellPartner(first)
    /\ inTable' = [e \in End |-> FALSE]
    /\ sock' = [e \in End |-> Freed]
    /\ inPackets' = [e \in End |-> <<>>]
    /\ sendFifo' = [e \in End |-> <<>>]
    /\ closeCall' = [e \in End |-> IF closeCall[e] = "blocked" THEN "done" ELSE closeCall[e]]
    /\ UNCHANGED <<written, delivered, received, told, finTaken, finAcked>>

----------------------------------------------------------------------------

TimerStep(e) == GiveUp(e) \/ CloseWaitToLastAck(e) \/ TimeWaitToClosed(e) \/ RemoveSocket(e)

TeardownNext == \E e \in End :
    \/ TransferCall(e) \/ TellingRead(e) \/ SocketClose(e)
    \/ Transfer(e) \/ HandleEstablished(e) \/ HandleClosing(e) \/ HandleOther(e)
    \/ HandleCloseCommand(e) \/ ResendFin(e) \/ TimerStep(e) \/ StopManager(e)

TeardownSpec == TeardownInit /\ [][TeardownNext]_allVars

\* The manager visits every socket again and again while CPU time passes.  A
\* program that is inside SocketRecv goes on.
TeardownFairSpec ==
    /\ TeardownSpec
    /\ \A e \in End : WF_allVars(TimerStep(e)) /\ WF_allVars(TellingRead(e))

----------------------------------------------------------------------------
(* Properties.                                                             *)

TeardownTypeOK ==
    /\ TypeOK
    /\ inTable \in [End -> BOOLEAN]
    /\ up \in BOOLEAN
    /\ closeCall \in [End -> CloseCall]
    /\ told \subseteq End /\ finTaken \subseteq End /\ finAcked \subseteq End

\* An end that takes a segment for the ACK of its FIN is right: the other end
\* did take the FIN.  An ACK of data that is still around does not pass for
\* one, although the FIN has the number of the byte after the send window and
\* send_seq is advanced up to three times over the same window.
FinAckIsTrue == \A e \in finAcked : Peer(e) \in finTaken

\* The connection implements a stream that can be closed: through every close,
\* reset, removal and stop an end gets a prefix of what the other end wrote,
\* nothing when it is closed itself, and SocketRecv reports the end of the
\* connection only when the other end has closed.
Closable == INSTANCE ClosableStream WITH
    Other <- [e \in End |-> Peer(e)],
    input <- [e \in End |-> SubSeq(Message[e], 1, written[e])],
    output <- delivered,
    closed <- {e \in End : ~inTable[e] \/ sock[e].state # "ESTABLISHED"}

ImplementsClosableStream == Closable!Spec

\* A close the manager has taken is carried through: the socket leaves the
\* table whatever the other end does, also when both ends close at once.
CloseEnds == \A e \in End :
    inTable[e] /\ sock[e].state = "FIN_WAIT_1" ~> ~inTable[e]
=============================================================================
