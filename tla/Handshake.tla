------------------------------ MODULE Handshake ------------------------------
(***************************************************************************)
(* The sequence numbers of connections.  srand(time(NULL)) precedes every  *)
(* rand() and nothing asks whether a number is in use, so a connection may *)
(* get the number of an earlier one between the same two addresses, and    *)
(* then take what is left of that one for its own.  This module adds to    *)
(* NetworkManager a history of where that has happened, which no action    *)
(* looks at, and says that nothing else makes the two ends of a connection *)
(* disagree.                                                               *)
(***************************************************************************)
EXTENDS NetworkManager

VARIABLE repeated   \* the pairs of addresses between which a number was drawn again

hvars == <<vars, repeated>>

Between(id) == {id.src, id.dst}

InFlight(q) == {q[i] : i \in 1 .. Len(q)}

\* The connections that HandleConnectRequest or handle_packet_listen has just
\* given a number: their ids are new, and no other step makes such an id.
Drawn == {e \in AllSockets' : ~BoundOnly(e.id) /\ \A d \in AllSockets : d.id # e.id}

\* d is connected to e.
Mates(d, e) == d.id.dst = e.id.src /\ e.id.dst = d.id.src

\* The number of e is not its own: it is 0, which a socket expects that has not
\* heard of its partner, or an older socket connected to e expects it, or a
\* segment under way passes for the SYN or FIN of e, or for an answer to e.
PassesFor(v, e) ==
    \/ /\ v.src = e.id.src /\ v.dst = e.id.dst
       /\ {"SYN", "FIN"} \intersect v.segment.flags # {}
       /\ v.segment.seq + 1 = e.sock.send_seq
    \/ /\ v.src = e.id.dst /\ v.dst = e.id.src
       /\ "ACK" \in v.segment.flags
       /\ v.segment.ack = e.sock.send_seq
IsRepeat(e) ==
    \/ e.sock.send_seq = 0
    \/ \E d \in AllSockets : Mates(d, e) /\ d.sock.recv_seq = e.sock.send_seq
    \/ \E m \in Ip : \E v \in InFlight(net[m]) : PassesFor(v, e)

\* A pair is forgotten when no socket is left between the two addresses.
Remember ==
    IF table' = table THEN repeated' = repeated
    ELSE repeated' =
        {p \in repeated \union {Between(e.id) : e \in {d \in Drawn : IsRepeat(d)}} :
            \E e \in AllSockets' : Between(e.id) = p}

HInit == Init /\ repeated = {}

HNext == Next /\ Remember

HSpec == HInit /\ [][HNext]_hvars

----------------------------------------------------------------------------
(* Properties.                                                             *)

\* The pairs of sockets that are connected to each other without a repeat.
Proper(d, e) == Mates(d, e) /\ Between(d.id) \notin repeated

Established == {e \in AllSockets : e.sock.state = "ESTABLISHED"}

\* Two sockets connected to each other and both ESTABLISHED agree on the
\* sequence numbers (DataTransfer starts from this), whatever segments of an
\* earlier connection between the same ports are still around, unless the
\* connection was given a number of that earlier one.
EstablishedInSync == \A d, e \in Established :
    Proper(d, e) => d.sock.recv_seq = e.sock.send_seq

\* While one side of a connection is ESTABLISHED, the other is not in FIN_WAIT_2:
\* nobody acknowledges a FIN without sending its own, and a segment of an earlier
\* connection between the same ports is not taken for an acknowledgement, unless
\* the connection was given a number of that earlier one.
NoHalfClose == \A d \in Established : \A e \in AllSockets :
    Proper(d, e) /\ d.sock.recv_seq = e.sock.send_seq => e.sock.state # "FIN_WAIT_2"
=============================================================================
