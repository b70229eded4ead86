--------------------------- MODULE HandshakeProofs ---------------------------
(***************************************************************************)
(* Proofs that the two ends of a connection agree on the sequence numbers  *)
(* and that a FIN is not acknowledged by accident, for every number of     *)
(* programs, managers, ports and rows, for every backlog and for every     *)
(* number of segments in flight, whatever an earlier connection between    *)
(* the same two ports left behind and whether or not managers are stopped  *)
(* and started.                                                            *)
(*                                                                         *)
(* The numbers are any that rand() can draw: a connection that             *)
(* repeats a number between the same two addresses is in the history, and  *)
(* of it nothing is said.  One hypothesis: connections stay on one machine *)
(* as all of those do that are accepted (handle_packet_listen answers to   *)
(* its own address), since the argument looks at the in-packet fifo of one *)
(* manager.                                                                *)
(*                                                                         *)
(* What is said of a pair of sockets depends on the segments between them  *)
(* and on their order, so the in-packet fifo of a manager appears here as  *)
(* the set Q of its segments and the set B of the pairs of which the first *)
(* is ahead of the second.                                                 *)
(***************************************************************************)
EXTENDS SocketIdProofs, Handshake

----------------------------------------------------------------------------
(* Segments and sockets.                                                   *)

Ahead(q) == {b \in InFlight(q) \X InFlight(q) :
                \E i, j \in 1 .. Len(q) : i < j /\ b = <<q[i], q[j]>>}

Has(v, flag) == flag \in v.segment.flags

\* v travels from the side of e, or to it.
Sent(e, v) == v.src = e.id.src /\ v.dst = e.id.dst
Got(e, v) == v.src = e.id.dst /\ v.dst = e.id.src

\* v is a SYN of e itself, not one of an earlier socket with the same id.
OwnSyn(e, v) == Sent(e, v) /\ Has(v, "SYN") /\ v.segment.seq + 1 = e.sock.send_seq

\* v is what e waits for while the connection opens.
Answers(e, v) == Got(e, v) /\ Has(v, "ACK") /\ v.segment.ack = e.sock.send_seq
Answered(e, Q) == \E v \in Q : Answers(e, v)

OnlyOwnSyns(e, Q) == \A v \in Q : Sent(e, v) /\ Has(v, "SYN") => OwnSyn(e, v)
NoAcks(e, Q) == \A v \in Q : Sent(e, v) => ~Has(v, "ACK")

Asks(e) == e.sock.state = "SYN_SENT"
Replies(e) == e.sock.state = "SYN_RECEIVED"
Runs(e) == e.sock.state = "ESTABLISHED"
Synced(e) == Replies(e) \/ Runs(e)
Active(e) == Asks(e) \/ Synced(e)

\* e expects the sequence number of f.
Knows(e, f) == e.sock.recv_seq = f.sock.send_seq

----------------------------------------------------------------------------
(* The inductive invariant of one socket e that has a partner.             *)

\* A FIN in flight is of an earlier socket.
FinsAreOld(e, Q) == \A v \in Q : Sent(e, v) /\ Has(v, "FIN") => v.segment.seq + 1 # e.sock.send_seq

\* Behind a SYN of its own there is no older one.
OwnSynsFirst(e, Q, B) == \A v, w \in Q :
    <<v, w>> \in B /\ OwnSyn(e, v) /\ Sent(e, w) /\ Has(w, "SYN") => OwnSyn(e, w)

\* A socket in SYN_SENT has acknowledged nothing, and behind its SYN there is
\* no acknowledgement of an earlier socket either.
AsksFirst(e, Q, B) == Asks(e) =>
    /\ e.sock.recv_seq = 0
    /\ \A v \in Q : OwnSyn(e, v) => ~Has(v, "ACK")
    /\ \A v, w \in Q : <<v, w>> \in B /\ OwnSyn(e, v) /\ Sent(e, w) => ~Has(w, "ACK")

\* A SYN/ACK of its own acknowledges what the socket expects, and so does
\* every acknowledgement behind it.
RepliesFirst(e, Q, B) == Synced(e) =>
    /\ \A v \in Q : OwnSyn(e, v) /\ Has(v, "ACK") => v.segment.ack = e.sock.recv_seq
    /\ \A v, w \in Q : <<v, w>> \in B /\ OwnSyn(e, v) /\ Has(v, "ACK")
                       /\ Sent(e, w) /\ Has(w, "ACK") => w.segment.ack = e.sock.recv_seq

\* A socket whose partner is its own address is never ESTABLISHED.
NeverWithItself(e, Q) == e.id.src = e.id.dst =>
    /\ ~Runs(e) /\ ~Answered(e, Q)
    /\ Replies(e) => ~Knows(e, e)

Single(e, Q, B) == Active(e) =>
    /\ e.sock.send_seq # 0
    /\ FinsAreOld(e, Q)
    /\ OwnSynsFirst(e, Q, B)
    /\ Answered(e, Q) => OnlyOwnSyns(e, Q)
    /\ AsksFirst(e, Q, B)
    /\ RepliesFirst(e, Q, B)
    /\ NeverWithItself(e, Q)

----------------------------------------------------------------------------
(* The inductive invariant of two sockets e and f connected to each other. *)

\* f has taken a SYN of e, so that all of the SYNs in flight are of e.
SynsAfterContact(e, f, Q) == Active(e) /\ Knows(f, e) => OnlyOwnSyns(e, Q)

\* e is in SYN_SENT: its answer can only come from an f that has its number.
\* An f that has it, or has it acknowledged, is not a socket e has heard of.
WhileAsking(e, f, Q) == Asks(e) =>
    /\ Asks(f) => ~(Answered(e, Q) /\ Answered(f, Q))
    /\ Synced(f) /\ ~Knows(f, e) => ~Answered(e, Q)
    /\ Synced(f) /\ Knows(f, e) => Replies(f) /\ ~Answered(f, Q)
    /\ Knows(f, e) => NoAcks(e, Q)
    /\ (\E v \in Q : OwnSyn(f, v) /\ Has(v, "ACK") /\ v.segment.ack = e.sock.send_seq)
            => NoAcks(e, Q) /\ f.sock.state # "FIN_WAIT_2"

\* e is in SYN_RECEIVED: an f that is, too, is the partner of none of its SYNs;
\* an ESTABLISHED f and e know each other or have nothing to do with each other.
WhileReplying(e, f, Q) == Replies(e) =>
    /\ Replies(f) => ~(Answered(e, Q) /\ Answered(f, Q))
    /\ Replies(f) /\ Knows(f, e) => ~Knows(e, f) /\ ~Answered(f, Q)
    /\ Runs(f) /\ Answered(e, Q) => Knows(e, f) /\ Knows(f, e)
    /\ Runs(f) /\ Knows(f, e) => Knows(e, f)

InSync(e, f) == Runs(e) /\ Runs(f) => Knows(e, f)

\* f has the number of e, and e the number of f or an acknowledgement of it on
\* its way to f: nothing in flight acknowledges a FIN of e.
FinUnanswered(e, f, Q) ==
    /\ e.sock.state # "FIN_WAIT_2"
    /\ \A v \in Q : Sent(f, v) /\ Has(v, "ACK") /\ ~Has(v, "FIN")
                        => v.segment.ack = e.sock.send_seq
NoHalfCloseOf(e, f, Q) ==
    Synced(f) /\ Knows(f, e) /\ (Runs(f) \/ Knows(e, f) \/ Answered(f, Q))
        => FinUnanswered(e, f, Q)

Pair(e, f, Q) ==
    /\ SynsAfterContact(e, f, Q)
    /\ WhileAsking(e, f, Q)
    /\ WhileReplying(e, f, Q)
    /\ InSync(e, f)
    /\ NoHalfCloseOf(e, f, Q)

Both(e, f, Q) == Pair(e, f, Q) /\ Pair(f, e, Q)

----------------------------------------------------------------------------
(* A segment leaves the queue: what is said of the segments is said of all *)
(* of them, or of the absence of some.                                     *)

LEMMA SinglePop ==
    ASSUME NEW e, NEW Q, NEW B, NEW R, NEW C, R \subseteq Q, C \subseteq B, Single(e, Q, B)
    PROVE  Single(e, R, C)
BY DEF Single, FinsAreOld, OwnSynsFirst, Answered, OnlyOwnSyns, AsksFirst, RepliesFirst,
       NeverWithItself

LEMMA BothPop ==
    ASSUME NEW e, NEW f, NEW Q, NEW R, R \subseteq Q, Both(e, f, Q)
    PROVE  Both(e, f, R)
<1>1. ASSUME NEW x, NEW y, Pair(x, y, Q) PROVE Pair(x, y, R)
  BY <1>1 DEF Pair, SynsAfterContact, WhileAsking, WhileReplying, InSync, NoHalfCloseOf,
              FinUnanswered, Answered, OnlyOwnSyns, NoAcks
<1>. QED
  BY <1>1 DEF Both


----------------------------------------------------------------------------
(* A socket sends: v is a segment that e may send in its state.            *)

Sends(e, v) ==
    /\ Sent(e, v)
    /\ Has(v, "SYN") => (Asks(e) \/ Replies(e)) /\ v.segment.seq + 1 = e.sock.send_seq
    /\ Has(v, "ACK") => ~Asks(e) /\ v.segment.ack = e.sock.recv_seq
    /\ Has(v, "FIN") => ~Active(e)

\* The order of the queue after v has been put at its end.
Behind(B, C, Q, v) == \A u, w \in Q \union {v} :
    <<u, w>> \in C => (u \in Q /\ w \in Q /\ <<u, w>> \in B) \/ w = v

LEMMA SingleSend ==
    ASSUME NEW e, NEW Q, NEW B, NEW C, NEW v, Behind(B, C, Q, v), Single(e, Q, B),
           Sends(e, v)
    PROVE  Single(e, Q \union {v}, C)
<1>. SUFFICES ASSUME Active(e) PROVE Single(e, Q \union {v}, C)
  BY DEF Single
<1>1. FinsAreOld(e, Q \union {v})
  BY DEF Single, FinsAreOld, Sends
<1>2. Has(v, "SYN") => OwnSyn(e, v)
  BY DEF Sends, OwnSyn
<1>3. OwnSynsFirst(e, Q \union {v}, C)
  BY <1>2 DEF Single, OwnSynsFirst, Behind
<1>4. e.id.src # e.id.dst => ~Answers(e, v)
  BY DEF Answers, Got, Sends, Sent
<1>5. e.id.src = e.id.dst => ~Answers(e, v)
  BY DEF Answers, Sends, Single, NeverWithItself, Knows, Synced, Active
<1>6. Answered(e, Q \union {v}) => OnlyOwnSyns(e, Q \union {v})
  BY <1>2, <1>4, <1>5 DEF Single, Answered, OnlyOwnSyns
<1>7. AsksFirst(e, Q \union {v}, C)
  BY DEF Single, AsksFirst, Sends, Behind
<1>8. RepliesFirst(e, Q \union {v}, C)
  BY DEF Single, RepliesFirst, Sends, Behind
<1>9. NeverWithItself(e, Q \union {v})
  BY <1>5 DEF Single, NeverWithItself, Answered
<1>. QED
  BY <1>1, <1>3, <1>6, <1>7, <1>8, <1>9 DEF Single

\* Its partner gets what it sends, and may be answered by it.
LEMMA SingleGets ==
    ASSUME NEW e, NEW f, NEW Q, NEW B, NEW C, NEW v, Behind(B, C, Q, v), Single(e, Q, B),
           Mates(e, f), e.id.src # e.id.dst, Both(e, f, Q), Sends(f, v)
    PROVE  Single(e, Q \union {v}, C)
<1>. SUFFICES ASSUME Active(e) PROVE Single(e, Q \union {v}, C)
  BY DEF Single
<1>1. ~Sent(e, v)
  BY DEF Mates, Sends, Sent
<1>2. Answers(e, v) => Knows(f, e)
  BY DEF Answers, Sends, Knows
<1>3. Answered(e, Q \union {v}) => OnlyOwnSyns(e, Q \union {v})
  BY <1>1, <1>2 DEF Single, Answered, OnlyOwnSyns, Both, Pair, SynsAfterContact
<1>. QED
  BY <1>1, <1>3 DEF Single, FinsAreOld, OwnSynsFirst, OwnSyn, AsksFirst, RepliesFirst,
                    NeverWithItself, Behind

\* A segment of a third socket is none of theirs.
LEMMA SingleOther ==
    ASSUME NEW e, NEW Q, NEW B, NEW C, NEW v, Behind(B, C, Q, v), Single(e, Q, B),
           ~Sent(e, v), ~Got(e, v)
    PROVE  Single(e, Q \union {v}, C)
BY DEF Single, FinsAreOld, OwnSynsFirst, OwnSyn, Answered, Answers, OnlyOwnSyns, AsksFirst,
       RepliesFirst, NeverWithItself, Behind

LEMMA BothOther ==
    ASSUME NEW e, NEW f, NEW Q, NEW v, Mates(e, f), Both(e, f, Q), ~Sent(e, v), ~Got(e, v)
    PROVE  Both(e, f, Q \union {v})
<1>1. ASSUME NEW x, NEW y, Pair(x, y, Q), ~Sent(x, v), ~Got(x, v), ~Sent(y, v), ~Got(y, v)
      PROVE  Pair(x, y, Q \union {v})
  BY <1>1 DEF Pair, SynsAfterContact, WhileAsking, WhileReplying, InSync, NoHalfCloseOf,
              FinUnanswered, Answered, Answers, OnlyOwnSyns, OwnSyn, NoAcks
<1>2. ~Sent(f, v) /\ ~Got(f, v)
  BY DEF Mates, Sent, Got
<1>. QED
  BY <1>1, <1>2 DEF Both


\* Two sockets connected to each other, of which e sends: f may be answered, and
\* what is answered is what e expects.
LEMMA BothSend ==
    ASSUME NEW e, NEW f, NEW Q, NEW v, Mates(e, f), e.id.src # e.id.dst, Both(e, f, Q),
           Sends(e, v)
    PROVE  Both(e, f, Q \union {v})
<1>. DEFINE R == Q \union {v}
<1>1. /\ Sent(e, v) /\ ~Got(e, v) /\ Got(f, v) /\ ~Sent(f, v)
      /\ Has(v, "SYN") => OwnSyn(e, v)
  BY DEF Mates, Sends, Sent, Got, OwnSyn
<1>2. Answers(f, v) => Knows(e, f) /\ Has(v, "ACK") /\ ~Asks(e)
  BY DEF Answers, Sends, Knows
<1>3. Answered(e, R) <=> Answered(e, Q)
  BY <1>1 DEF Answered, Answers
<1>4. Answered(f, R) => Answered(f, Q) \/ (Knows(e, f) /\ ~Asks(e))
  BY <1>2 DEF Answered
<1>5. NoAcks(f, R) <=> NoAcks(f, Q)
  BY <1>1 DEF NoAcks
<1>6. Asks(e) => (NoAcks(e, R) <=> NoAcks(e, Q))
  BY DEF NoAcks, Sends
<1>7. OnlyOwnSyns(f, Q) => OnlyOwnSyns(f, R)
  BY <1>1 DEF OnlyOwnSyns
<1>8. OnlyOwnSyns(e, Q) => OnlyOwnSyns(e, R)
  BY <1>1 DEF OnlyOwnSyns
<1>9. SynsAfterContact(e, f, R) /\ SynsAfterContact(f, e, R)
  BY <1>7, <1>8 DEF Both, Pair, SynsAfterContact
<1>. DEFINE Offer(x, y, S) == \E u \in S : OwnSyn(x, u) /\ Has(u, "ACK") /\ u.segment.ack = y.sock.send_seq
<1>10. Offer(f, e, R) <=> Offer(f, e, Q)
  BY <1>1 DEF OwnSyn
<1>11. Offer(e, f, R) => Offer(e, f, Q) \/ (Knows(e, f) /\ Replies(e))
  BY DEF OwnSyn, Sends, Knows
<1>12. WhileAsking(e, f, R)
  BY <1>3, <1>4, <1>6, <1>10 DEF Both, Pair, WhileAsking
<1>13. WhileAsking(f, e, R)
  BY <1>3, <1>4, <1>5, <1>11 DEF Both, Pair, WhileAsking, Synced, Replies, Asks
<1>14. WhileReplying(e, f, R) /\ WhileReplying(f, e, R)
  BY <1>3, <1>4 DEF Both, Pair, WhileReplying
<1>15. FinUnanswered(e, f, Q) => FinUnanswered(e, f, R)
  BY <1>1 DEF FinUnanswered
<1>16. Knows(e, f) /\ FinUnanswered(f, e, Q) => FinUnanswered(f, e, R)
  BY DEF FinUnanswered, Sends, Knows
<1>17. NoHalfCloseOf(e, f, R) /\ NoHalfCloseOf(f, e, R)
  BY <1>3, <1>4, <1>15, <1>16 DEF Both, Pair, NoHalfCloseOf
<1>. QED
  BY <1>9, <1>12, <1>13, <1>14, <1>17 DEF Both, Pair, InSync


----------------------------------------------------------------------------
(* A socket leaves the handshake or the connection, or goes on leaving it: *)
(* x is e afterwards.  What it expects changes with the FIN of its partner *)
(* only, and FIN_WAIT_2 is the answer to an acknowledgement of its FIN.    *)

SameSide(e, x) == x.id = e.id /\ x.sock.send_seq = e.sock.send_seq

Fades(e, x, Q) ==
    /\ SameSide(e, x)
    /\ ~Active(x)
    /\ \/ x.sock.recv_seq = e.sock.recv_seq
       \/ \E v \in Q : Got(e, v) /\ Has(v, "FIN") /\ x.sock.recv_seq = v.segment.seq + 1
    /\ x.sock.state = "FIN_WAIT_2" =>
        \/ e.sock.state = "FIN_WAIT_2"
        \/ \E v \in Q : /\ Got(e, v) /\ Has(v, "ACK") /\ ~Has(v, "FIN")
                        /\ v.segment.ack # e.sock.send_seq

LEMMA BothFade ==
    ASSUME NEW e, NEW x, NEW f, NEW Q, NEW B, Mates(e, f), Both(e, f, Q), Single(f, Q, B),
           Fades(e, x, Q)
    PROVE  Both(x, f, Q)
<1>1. x.id = e.id /\ x.sock.send_seq = e.sock.send_seq /\ ~Active(x)
  BY DEF Fades, SameSide
<1>2. Active(f) /\ Knows(x, f) => Knows(e, f)
  <2>1. ASSUME NEW v \in Q, Active(f), Got(e, v), Has(v, "FIN")
        PROVE  v.segment.seq + 1 # f.sock.send_seq
    BY <2>1 DEF Single, FinsAreOld, Got, Sent, Mates
  <2>. QED
    BY <2>1 DEF Fades, Knows
<1>3. \A v : /\ Sent(x, v) <=> Sent(e, v)
             /\ OwnSyn(x, v) <=> OwnSyn(e, v)
             /\ Answers(x, v) <=> Answers(e, v)
  BY <1>1 DEF Sent, OwnSyn, Answers, Got
<1>4. Knows(f, x) <=> Knows(f, e)
  BY <1>1 DEF Knows
<1>5. ~Asks(x) /\ ~Replies(x) /\ ~Runs(x) /\ ~Synced(x)
  BY <1>1 DEF Active, Synced
<1>6. SynsAfterContact(x, f, Q) /\ SynsAfterContact(f, x, Q)
  BY <1>1, <1>2 DEF SynsAfterContact, Both, Pair
<1>7. x.sock.state = "FIN_WAIT_2" => \/ e.sock.state = "FIN_WAIT_2"
                                     \/ \E v \in Q : /\ Sent(f, v) /\ Has(v, "ACK") /\ ~Has(v, "FIN")
                                                     /\ v.segment.ack # e.sock.send_seq
  BY DEF Fades, Got, Sent, Mates
<1>8. Asks(f) => /\ Knows(x, f) => NoAcks(f, Q)
                 /\ (\E v \in Q : OwnSyn(x, v) /\ Has(v, "ACK") /\ v.segment.ack = f.sock.send_seq)
                        => NoAcks(f, Q) /\ x.sock.state # "FIN_WAIT_2"
  BY <1>2, <1>3, <1>7 DEF Both, Pair, WhileAsking, Active, NoAcks
<1>9. WhileAsking(x, f, Q) /\ WhileAsking(f, x, Q)
  BY <1>5, <1>8 DEF WhileAsking
<1>10. WhileReplying(x, f, Q) /\ WhileReplying(f, x, Q) /\ InSync(x, f) /\ InSync(f, x)
  BY <1>5 DEF WhileReplying, InSync
<1>11. FinUnanswered(e, f, Q) => FinUnanswered(x, f, Q)
  BY <1>1, <1>7 DEF FinUnanswered
<1>12. NoHalfCloseOf(x, f, Q) /\ NoHalfCloseOf(f, x, Q)
  BY <1>2, <1>4, <1>5, <1>11 DEF NoHalfCloseOf, Both, Pair, Synced, Active
<1>. QED
  BY <1>6, <1>9, <1>10, <1>12 DEF Both, Pair

----------------------------------------------------------------------------
(* SYN_SENT ends: e takes the SYN/ACK v from the head of the queue; R and  *)
(* C are what is left of it.                                               *)

Took(v, Q, B, R, C) ==
    /\ v \in Q /\ R \subseteq Q /\ C \subseteq B
    /\ \A w \in R : <<v, w>> \in B

Connects(e, x, v) ==
    /\ SameSide(e, x) /\ Asks(e) /\ Runs(x)
    /\ Answers(e, v) /\ Has(v, "SYN")
    /\ x.sock.recv_seq = v.segment.seq + 1

LEMMA SingleConnects ==
    ASSUME NEW e, NEW x, NEW v, NEW Q, NEW B, NEW R, NEW C, Single(e, Q, B),
           Took(v, Q, B, R, C), Connects(e, x, v)
    PROVE  Single(x, R, C)
<1>1. Single(e, R, C)
  BY SinglePop DEF Took
<1>2. Active(e) /\ ~Asks(x) /\ x.id = e.id /\ x.sock.send_seq = e.sock.send_seq
  BY DEF Connects, Active, SameSide, Asks, Runs
<1>3. \A u : OwnSyn(x, u) <=> OwnSyn(e, u)
  BY <1>2 DEF OwnSyn, Sent
<1>4. \A u \in Q : OwnSyn(e, u) => ~Has(u, "ACK")
  BY <1>2 DEF Single, AsksFirst, Connects
<1>5. RepliesFirst(x, R, C) /\ AsksFirst(x, R, C)
  BY <1>2, <1>3, <1>4 DEF RepliesFirst, AsksFirst, Took
<1>6. NeverWithItself(x, R)
  BY <1>2 DEF NeverWithItself, Single, Connects, Took, Answered
<1>. QED
  BY <1>1, <1>2, <1>3, <1>5, <1>6 DEF Single, FinsAreOld, OwnSynsFirst, Answered, Answers,
        OnlyOwnSyns, Sent, Got

LEMMA BothConnect ==
    ASSUME NEW e, NEW x, NEW f, NEW v, NEW Q, NEW B, NEW R, NEW C, Mates(e, f),
           Both(e, f, Q), Single(e, Q, B), Single(f, Q, B),
           Took(v, Q, B, R, C), Connects(e, x, v)
    PROVE  Both(x, f, R)
<1>1. Both(e, f, R)
  BY BothPop DEF Took
<1>2. /\ x.id = e.id /\ x.sock.send_seq = e.sock.send_seq /\ Asks(e) /\ Runs(x)
      /\ x.sock.recv_seq = v.segment.seq + 1
      /\ Answers(e, v) /\ Has(v, "SYN") /\ Has(v, "ACK") /\ v.segment.ack = e.sock.send_seq
      /\ v \in Q /\ R \subseteq Q
  BY DEF Connects, Took, SameSide, Answers
<1>3. Sent(f, v) /\ (Knows(x, f) => OwnSyn(f, v))
  BY <1>2 DEF Answers, Got, Sent, Mates, OwnSyn, Knows
<1>4. Answered(e, Q)
  BY <1>2 DEF Answered
<1>5. Asks(f) => ~Knows(x, f) /\ ~Answered(f, R)
  BY <1>1, <1>2, <1>3, <1>4 DEF Both, Pair, WhileAsking, Single, AsksFirst, Active, Answered
<1>6. Synced(f) => Knows(f, e) /\ Replies(f)
  BY <1>2, <1>4 DEF Both, Pair, WhileAsking
<1>7. Active(f) /\ Answered(f, R) => OwnSyn(f, v) /\ Knows(x, f)
  BY <1>2, <1>3 DEF Single, Answered, OnlyOwnSyns, OwnSyn, Knows
<1>8. \A u : /\ Sent(x, u) <=> Sent(e, u)
             /\ OwnSyn(x, u) <=> OwnSyn(e, u)
             /\ Answers(x, u) <=> Answers(e, u)
  BY <1>2 DEF Sent, OwnSyn, Answers, Got
<1>9. Knows(f, x) <=> Knows(f, e)
  BY <1>2 DEF Knows
<1>10. Runs(x) /\ ~Asks(x) /\ ~Replies(x) /\ Synced(x) /\ Active(x) /\ Active(e)
  BY <1>2 DEF Runs, Asks, Replies, Synced, Active
<1>11. SynsAfterContact(x, f, R)
  BY <1>1, <1>8, <1>9, <1>10 DEF SynsAfterContact, Both, Pair, OnlyOwnSyns
<1>12. SynsAfterContact(f, x, R)
  BY <1>2, <1>3 DEF SynsAfterContact, Single, OwnSynsFirst, OnlyOwnSyns, Took
<1>13. WhileAsking(x, f, R) /\ WhileReplying(x, f, R)
  BY <1>10 DEF WhileAsking, WhileReplying
<1>14. Asks(f) => /\ Synced(x) /\ ~Knows(x, f) => ~Answered(f, R)
                  /\ ~Knows(x, f)
                  /\ x.sock.state # "FIN_WAIT_2"
                  /\ ~(\E u \in R : OwnSyn(x, u) /\ Has(u, "ACK") /\ u.segment.ack = f.sock.send_seq)
  BY <1>2, <1>5, <1>8, <1>10 DEF Single, AsksFirst, Runs
<1>15. WhileAsking(f, x, R)
  BY <1>10, <1>14 DEF WhileAsking
<1>16. WhileReplying(f, x, R)
  BY <1>6, <1>7, <1>9, <1>10 DEF WhileReplying, Active, Synced
<1>17. ~Runs(f)
  BY <1>6 DEF Synced, Runs, Replies
<1>18. OwnSyn(f, v) => NoAcks(x, R) /\ f.sock.state # "FIN_WAIT_2"
  BY <1>2, <1>8 DEF Both, Pair, WhileAsking, NoAcks
<1>19. NoHalfCloseOf(f, x, R)
  BY <1>3, <1>18 DEF NoHalfCloseOf, FinUnanswered, NoAcks
<1>20. ASSUME Synced(f), OwnSyn(f, v), NEW w \in R, Sent(f, w), Has(w, "ACK")
       PROVE  w.segment.ack = e.sock.send_seq
  <2>1. <<v, w>> \in B /\ w \in Q
    BY DEF Took
  <2>2. w.segment.ack = f.sock.recv_seq
    BY <1>2, <1>20, <2>1 DEF Single, RepliesFirst, Active
  <2>. QED
    BY <1>6, <1>20, <2>2 DEF Knows
<1>21. NoHalfCloseOf(x, f, R)
  BY <1>2, <1>3, <1>7, <1>17, <1>20 DEF NoHalfCloseOf, FinUnanswered, Runs, Active
<1>. QED
  BY <1>11, <1>12, <1>13, <1>15, <1>16, <1>17, <1>19, <1>21 DEF Both, Pair, InSync


----------------------------------------------------------------------------
(* SYN_RECEIVED ends: e takes the acknowledgement v it waits for.          *)

Accepts(e, x, Q) ==
    /\ SameSide(e, x) /\ Replies(e) /\ Runs(x)
    /\ x.sock.recv_seq = e.sock.recv_seq
    /\ Answered(e, Q)

LEMMA SingleAccepts ==
    ASSUME NEW e, NEW x, NEW Q, NEW B, Single(e, Q, B), Accepts(e, x, Q)
    PROVE  Single(x, Q, B)
<1>1. /\ Active(e) /\ Synced(e) /\ Synced(x) /\ ~Asks(x) /\ ~Replies(x)
      /\ x.id = e.id /\ x.sock.send_seq = e.sock.send_seq
      /\ x.sock.recv_seq = e.sock.recv_seq
  BY DEF Accepts, Active, Synced, SameSide, Asks, Runs, Replies
<1>2. \A u : /\ Sent(x, u) <=> Sent(e, u)
             /\ OwnSyn(x, u) <=> OwnSyn(e, u)
             /\ Answers(x, u) <=> Answers(e, u)
  BY <1>1 DEF Sent, OwnSyn, Answers, Got
<1>3. NeverWithItself(x, Q)
  BY <1>1 DEF NeverWithItself, Single, Accepts
<1>. QED
  BY <1>1, <1>2, <1>3 DEF Single, FinsAreOld, OwnSynsFirst, Answered, OnlyOwnSyns, AsksFirst,
        RepliesFirst

LEMMA BothAccept ==
    ASSUME NEW e, NEW x, NEW f, NEW Q, Both(e, f, Q), Accepts(e, x, Q)
    PROVE  Both(x, f, Q)
<1>1. /\ Active(e) /\ Synced(e) /\ Synced(x) /\ ~Asks(x) /\ ~Replies(x) /\ Replies(e) /\ Runs(x)
      /\ x.id = e.id /\ x.sock.send_seq = e.sock.send_seq
      /\ x.sock.recv_seq = e.sock.recv_seq
      /\ Answered(e, Q)
      /\ x.sock.state # "FIN_WAIT_2"
  BY DEF Accepts, Active, Synced, SameSide, Asks, Runs, Replies
<1>2. \A u : /\ Sent(x, u) <=> Sent(e, u)
             /\ OwnSyn(x, u) <=> OwnSyn(e, u)
             /\ Answers(x, u) <=> Answers(e, u)
  BY <1>1 DEF Sent, OwnSyn, Answers, Got
<1>3. (Knows(f, x) <=> Knows(f, e)) /\ (Knows(x, f) <=> Knows(e, f))
  BY <1>1 DEF Knows
<1>4. SynsAfterContact(x, f, Q) /\ SynsAfterContact(f, x, Q)
  BY <1>1, <1>2, <1>3 DEF SynsAfterContact, Both, Pair, OnlyOwnSyns, Active
<1>5. WhileAsking(x, f, Q) /\ WhileReplying(x, f, Q)
  BY <1>1 DEF WhileAsking, WhileReplying
<1>6. Asks(f) => ~Knows(e, f)
  BY <1>1 DEF Both, Pair, WhileAsking
<1>7. WhileAsking(f, x, Q)
  BY <1>1, <1>2, <1>3, <1>6 DEF Both, Pair, WhileAsking
<1>8. Replies(f) => ~Knows(e, f) /\ ~Answered(f, Q)
  BY <1>1 DEF Both, Pair, WhileReplying
<1>9. WhileReplying(f, x, Q)
  BY <1>1, <1>3, <1>8 DEF WhileReplying
<1>10. InSync(x, f) /\ InSync(f, x)
  BY <1>1, <1>3 DEF Both, Pair, WhileReplying, InSync
<1>11. FinUnanswered(e, f, Q) => FinUnanswered(x, f, Q)
  BY <1>1 DEF FinUnanswered
<1>12. FinUnanswered(f, e, Q) => FinUnanswered(f, x, Q)
  BY <1>2 DEF FinUnanswered
<1>13. NoHalfCloseOf(x, f, Q) /\ NoHalfCloseOf(f, x, Q)
  BY <1>1, <1>3, <1>11, <1>12 DEF Both, Pair, NoHalfCloseOf
<1>. QED
  BY <1>4, <1>5, <1>7, <1>9, <1>10, <1>13 DEF Both, Pair

----------------------------------------------------------------------------
(* Births: x is a new socket, and its number is none of those in use.      *)

NewNumber(x, Q) == x.sock.send_seq # 0 /\ \A v \in Q : ~PassesFor(v, x)

Unrelated(x, f) == Mates(f, x) => f.sock.recv_seq # x.sock.send_seq

LEMMA NewSocketAlone ==
    ASSUME NEW x, NEW Q, NEW R, R \subseteq Q, NewNumber(x, Q)
    PROVE  /\ ~Answered(x, R)
           /\ \A v \in R : ~OwnSyn(x, v)
           /\ FinsAreOld(x, R)
BY DEF Answered, Answers, OwnSyn, FinsAreOld, NewNumber, PassesFor, Sent, Got, Has

\* HandleConnectRequest: a socket in SYN_SENT.
LEMMA SingleAsk ==
    ASSUME NEW x, NEW Q, NEW B, NewNumber(x, Q), Asks(x), x.sock.recv_seq = 0
    PROVE  Single(x, Q, B)
<1>1. ~Replies(x) /\ ~Runs(x) /\ ~Synced(x)
  BY DEF Asks, Replies, Runs, Synced
<1>2. /\ ~Answered(x, Q) /\ FinsAreOld(x, Q)
      /\ \A v \in Q : ~OwnSyn(x, v)
  BY NewSocketAlone
<1>. QED
  BY <1>1, <1>2 DEF Single, OwnSynsFirst, AsksFirst, RepliesFirst, NeverWithItself, NewNumber

LEMMA BothAsk ==
    ASSUME NEW x, NEW f, NEW Q, NEW B, Mates(x, f), NewNumber(x, Q), Asks(x),
           x.sock.recv_seq = 0, Single(f, Q, B), Unrelated(x, f)
    PROVE  Both(x, f, Q)
<1>1. ~Replies(x) /\ ~Runs(x) /\ ~Synced(x) /\ x.sock.state # "FIN_WAIT_2"
  BY DEF Asks, Replies, Runs, Synced
<1>2. /\ ~Answered(x, Q)
      /\ \A v \in Q : ~OwnSyn(x, v)
      /\ \A v \in Q : OwnSyn(f, v) /\ Has(v, "ACK") => v.segment.ack # x.sock.send_seq
  BY NewSocketAlone DEF NewNumber, PassesFor, OwnSyn, Sent, Has, Mates
<1>3. ~Knows(f, x) /\ (Active(f) => ~Knows(x, f))
  BY DEF Unrelated, Knows, Single, Mates
<1>4. Pair(x, f, Q)
  BY <1>1, <1>2, <1>3 DEF Pair, SynsAfterContact, WhileAsking, WhileReplying, InSync,
        NoHalfCloseOf
<1>5. Pair(f, x, Q)
  BY <1>1, <1>2, <1>3 DEF Pair, SynsAfterContact, WhileAsking, WhileReplying, InSync,
        NoHalfCloseOf, Active
<1>. QED
  BY <1>4, <1>5 DEF Both

\* handle_packet_listen: a socket in SYN_RECEIVED for the SYN v at the head.
LEMMA SingleReply ==
    ASSUME NEW x, NEW v, NEW Q, NEW R, NEW C, R \subseteq Q, v \in Q,
           Got(x, v), Has(v, "SYN"),
           NewNumber(x, Q), Replies(x), x.sock.recv_seq = v.segment.seq + 1
    PROVE  Single(x, R, C)
<1>1. /\ ~Asks(x) /\ ~Runs(x)
      /\ x.id.src = x.id.dst => ~Knows(x, x)
  BY DEF Asks, Replies, Runs, Knows, NewNumber, PassesFor, Got, Has
<1>2. /\ ~Answered(x, R) /\ FinsAreOld(x, R)
      /\ \A u \in R : ~OwnSyn(x, u)
  BY NewSocketAlone
<1>. QED
  BY <1>1, <1>2 DEF Single, OwnSynsFirst, AsksFirst, RepliesFirst, NeverWithItself, NewNumber

LEMMA BothReply ==
    ASSUME NEW x, NEW f, NEW v, NEW Q, NEW B, NEW R, NEW C, Mates(x, f),
           Took(v, Q, B, R, C), Got(x, v), Has(v, "SYN"),
           NewNumber(x, Q), Replies(x), x.sock.recv_seq = v.segment.seq + 1,
           Single(f, Q, B), Unrelated(x, f)
    PROVE  Both(x, f, R)
<1>1. ~Asks(x) /\ ~Runs(x) /\ Synced(x) /\ x.sock.state # "FIN_WAIT_2"
  BY DEF Asks, Replies, Runs, Synced
<1>2. /\ ~Answered(x, R)
      /\ \A u \in R : ~OwnSyn(x, u)
  BY NewSocketAlone DEF Took
<1>3. ~Knows(f, x)
  BY DEF Unrelated, Knows, Mates
<1>4. Sent(f, v) /\ (Knows(x, f) <=> OwnSyn(f, v))
  BY DEF Got, Sent, Mates, OwnSyn, Knows
<1>5. SynsAfterContact(f, x, R)
  BY <1>4 DEF SynsAfterContact, Single, OwnSynsFirst, OnlyOwnSyns, Took
<1>6. Asks(f) /\ Knows(x, f) => NoAcks(f, R)
  BY <1>4 DEF Single, AsksFirst, Active, NoAcks, Took
<1>7. Active(f) /\ ~Knows(x, f) => ~Answered(f, R)
  BY <1>4 DEF Single, Answered, OnlyOwnSyns, Took
<1>8. WhileAsking(f, x, R)
  BY <1>1, <1>2, <1>6, <1>7 DEF WhileAsking, Active
<1>9. WhileReplying(f, x, R)
  BY <1>1, <1>2, <1>3 DEF WhileReplying
<1>10. WhileAsking(x, f, R) /\ WhileReplying(x, f, R)
  BY <1>1, <1>2, <1>3 DEF WhileAsking, WhileReplying
<1>11. SynsAfterContact(x, f, R)
  BY <1>3 DEF SynsAfterContact
<1>12. NoHalfCloseOf(x, f, R) /\ NoHalfCloseOf(f, x, R)
  BY <1>1, <1>2, <1>3 DEF NoHalfCloseOf
<1>. QED
  BY <1>1, <1>5, <1>8, <1>9, <1>10, <1>11, <1>12 DEF Both, Pair, InSync


----------------------------------------------------------------------------
(* One manager: t is its table and q its in-packet fifo.                   *)

\* e is a connection, and not between a pair of addresses in H: those where a
\* number was repeated.
IsConnection(e, H) == e # Free /\ ~BoundOnly(e.id) /\ Between(e.id) \notin H

\* No two connections have the same id.
Connections(t, Q, B, H) == \A r \in Row : IsConnection(t[r], H) =>
    /\ Single(t[r], Q, B)
    /\ \A s \in Row : r # s /\ IsConnection(t[s], H) =>
            /\ t[r].id # t[s].id
            /\ Mates(t[r], t[s]) => Both(t[r], t[s], Q)

\* Connections are local and no user data is on its way.
Good(m, t, q, H) ==
    /\ \A r \in Row : t[r] # Free => StaysLocal(t[r]) /\ t[r].sock.send_window = <<>>
    /\ \A v \in InFlight(q) : v.src.ip = m /\ v.segment.data = <<>>
    /\ Connections(t, InFlight(q), Ahead(q), H)

LEMMA QueueTail ==
    ASSUME NEW q \in Seq(Envelope), q # <<>>
    PROVE  /\ Tail(q) \in Seq(Envelope)
           /\ Head(q) \in Envelope
           /\ Took(Head(q), InFlight(q), Ahead(q), InFlight(Tail(q)), Ahead(Tail(q)))
<1>1. /\ Tail(q) \in Seq(Envelope) /\ Head(q) \in Envelope /\ Head(q) = q[1]
      /\ Len(q) \in Nat /\ Len(q) # 0 /\ Len(Tail(q)) = Len(q) - 1
      /\ \A i \in 1 .. Len(Tail(q)) : Tail(q)[i] = q[i + 1]
  BY HeadTailProperties
<1>. DEFINE w == Tail(q)
            n == Len(q)
<1>2. /\ n \in Nat /\ n # 0 /\ 1 \in 1 .. n /\ Len(w) = n - 1
      /\ \A i \in 1 .. Len(w) : i + 1 \in 1 .. n /\ w[i] = q[i + 1] /\ 1 < i + 1
  BY <1>1
<1>. HIDE DEF w, n
<1>3. InFlight(w) \subseteq InFlight(q) /\ Head(q) \in InFlight(q)
  BY <1>1, <1>2 DEF InFlight, n
<1>4. Ahead(w) \subseteq Ahead(q)
  <2>. SUFFICES ASSUME NEW b \in Ahead(w) PROVE b \in Ahead(q)
    OBVIOUS
  <2>1. PICK i \in 1 .. Len(w), j \in 1 .. Len(w) : i < j /\ b = <<w[i], w[j]>>
    BY DEF Ahead
  <2>2. i + 1 < j + 1
    BY <1>2, <2>1
  <2>3. b = <<q[i + 1], q[j + 1]>> /\ i + 1 \in 1 .. Len(q) /\ j + 1 \in 1 .. Len(q)
    BY <1>2, <2>1 DEF n
  <2>4. b \in InFlight(q) \X InFlight(q)
    BY <2>3 DEF InFlight
  <2>. QED
    BY <2>2, <2>3, <2>4 DEF Ahead
<1>5. ASSUME NEW u \in InFlight(w) PROVE <<Head(q), u>> \in Ahead(q)
  <2>1. PICK i \in 1 .. Len(w) : u = w[i]
    BY DEF InFlight
  <2>2. /\ 1 \in 1 .. Len(q) /\ i + 1 \in 1 .. Len(q) /\ 1 < i + 1
        /\ <<Head(q), u>> = <<q[1], q[i + 1]>>
    BY <1>1, <1>2, <2>1 DEF n
  <2>3. <<Head(q), u>> \in InFlight(q) \X InFlight(q)
    BY <1>3, <1>5
  <2>. QED
    BY <2>2, <2>3 DEF Ahead
<1>. QED
  BY <1>1, <1>3, <1>4, <1>5 DEF Took, w

LEMMA QueueAppend ==
    ASSUME NEW q \in Seq(Envelope), NEW v \in Envelope
    PROVE  /\ InFlight(Append(q, v)) = InFlight(q) \union {v}
           /\ Behind(Ahead(q), Ahead(Append(q, v)), InFlight(q), v)
<1>. DEFINE w == Append(q, v)
<1>1. /\ Len(q) \in Nat /\ Len(w) = Len(q) + 1 /\ w[Len(q) + 1] = v
      /\ \A i \in 1 .. Len(q) : w[i] = q[i]
  OBVIOUS
<1>2. \A i : i \in 1 .. Len(w) <=> (i \in 1 .. Len(q) \/ i = Len(q) + 1)
  BY <1>1
<1>. HIDE DEF w
<1>3. InFlight(w) = InFlight(q) \union {v}
  BY <1>1, <1>2 DEF InFlight
<1>4. ASSUME NEW a, NEW b, <<a, b>> \in Ahead(w), b # v
      PROVE  a \in InFlight(q) /\ b \in InFlight(q) /\ <<a, b>> \in Ahead(q)
  <2>1. PICK i \in 1 .. Len(w), j \in 1 .. Len(w) : i < j /\ <<a, b>> = <<w[i], w[j]>>
    BY <1>4 DEF Ahead
  <2>2. a = w[i] /\ b = w[j]
    BY <2>1
  <2>3. j \in 1 .. Len(q)
    BY <1>1, <1>2, <1>4, <2>2
  <2>4. i \in 1 .. Len(q)
    BY <1>1, <2>1, <2>3
  <2>5. a = q[i] /\ b = q[j]
    BY <1>1, <2>2, <2>3, <2>4
  <2>6. a \in InFlight(q) /\ b \in InFlight(q)
    BY <2>3, <2>4, <2>5 DEF InFlight
  <2>. QED
    BY <2>1, <2>3, <2>4, <2>5, <2>6 DEF Ahead
<1>. QED
  BY <1>3, <1>4 DEF Behind, w

\* The partners of a connection are different addresses: a connection with
\* itself would have its own id twice.
LEMMA ConnectedTwice ==
    ASSUME NEW e \in Entry, NEW f \in Entry, e.id # f.id
    PROVE  /\ Mates(e, f) => e.id.src # e.id.dst
           /\ Mates(e, f) => Mates(f, e)
           /\ \A v : ~(Sent(e, v) /\ Sent(f, v))
           /\ \A v : Sent(e, v) /\ Got(f, v) => Mates(e, f)
<1>1. e.id = [src |-> e.id.src, dst |-> e.id.dst] /\ f.id = [src |-> f.id.src, dst |-> f.id.dst]
  BY DEF Entry, Id
<1>2. e.id.src = f.id.src /\ e.id.dst = f.id.dst => e.id = f.id
  BY <1>1
<1>. QED
  BY <1>2 DEF Mates, Sent, Got

LEMMA PutConnection ==
    ASSUME NEW H, NEW t, t \in [Row -> Entry \union {Free}], NEW r \in Row, NEW x,
           NEW Q, NEW B, NEW R, NEW C, R \subseteq Q, C \subseteq B, Connections(t, Q, B, H),
           IsConnection(x, H) =>
                /\ Single(x, R, C)
                /\ \A s \in Row : s # r /\ IsConnection(t[s], H) =>
                        /\ x.id # t[s].id
                        /\ Mates(x, t[s]) => Both(x, t[s], R)
    PROVE  Connections([t EXCEPT ![r] = x], R, C, H)
<1>. DEFINE u == [t EXCEPT ![r] = x]
<1>1. u[r] = x /\ \A s \in Row : s # r => u[s] = t[s]
  OBVIOUS
<1>. HIDE DEF u
<1>2. \A s \in Row : IsConnection(t[s], H) => Single(t[s], R, C)
  BY SinglePop DEF Connections
<1>3. \A a, b \in Row : a # b /\ IsConnection(t[a], H) /\ IsConnection(t[b], H) =>
            /\ t[a].id # t[b].id
            /\ Mates(t[a], t[b]) => Both(t[a], t[b], R)
  BY BothPop DEF Connections
<1>4. \A e, f : Mates(e, f) /\ Both(f, e, R) => Both(e, f, R) /\ Mates(f, e)
  BY DEF Mates, Both
<1>5. ASSUME NEW a \in Row, IsConnection(u[a], H) PROVE Single(u[a], R, C)
  BY <1>1, <1>2, <1>5
<1>6. ASSUME NEW a \in Row, NEW b \in Row, a # b, IsConnection(u[a], H), IsConnection(u[b], H)
      PROVE  u[a].id # u[b].id /\ (Mates(u[a], u[b]) => Both(u[a], u[b], R))
  <2>1. CASE a # r /\ b # r
    BY <1>1, <1>3, <1>6, <2>1
  <2>2. CASE a = r
    BY <1>1, <1>6, <2>2
  <2>3. CASE b = r
    <3>1. Mates(u[a], u[b]) => Mates(u[b], u[a])
      BY DEF Mates
    <3>. QED
      BY <1>1, <1>4, <1>6, <2>3, <3>1
  <2>. QED
    BY <2>1, <2>2, <2>3
<1>. QED
  BY <1>5, <1>6 DEF Connections, u


----------------------------------------------------------------------------
(* The steps of one manager.                                               *)

Rows == [Row -> Entry \union {Free}]

LEMMA GoodPop ==
    ASSUME NEW H, NEW m, NEW t \in Rows, NEW q \in Seq(Envelope), q # <<>>, Good(m, t, q, H)
    PROVE  Good(m, t, Tail(q), H)
<1>1. InFlight(Tail(q)) \subseteq InFlight(q) /\ Ahead(Tail(q)) \subseteq Ahead(q)
  BY QueueTail DEF Took
<1>2. Connections(t, InFlight(Tail(q)), Ahead(Tail(q)), H)
  BY <1>1, SinglePop, BothPop DEF Good, Connections
<1>. QED
  BY <1>1, <1>2 DEF Good

LEMMA GoodSend ==
    ASSUME NEW H, NEW m, NEW t \in Rows, NEW q \in Seq(Envelope), Good(m, t, q, H),
           NEW r \in Row, IsConnection(t[r], H), NEW v \in Envelope, Sends(t[r], v),
           v.src.ip = m, v.segment.data = <<>>
    PROVE  Good(m, t, Append(q, v), H)
<1>. DEFINE e == t[r]
            Q == InFlight(q)
            B == Ahead(q)
            R == InFlight(Append(q, v))
            C == Ahead(Append(q, v))
<1>1. R = Q \union {v} /\ Behind(B, C, Q, v)
  BY QueueAppend
<1>2. \A s \in Row : IsConnection(t[s], H) => t[s] \in Entry
  BY DEF IsConnection, Rows
<1>3. Sent(e, v) /\ e \in Entry
  BY <1>2 DEF Sends
<1>. HIDE DEF Q, B, R, C, e
<1>4. Connections(t, Q, B, H)
  BY DEF Good, Q, B
<1>5. ASSUME NEW s \in Row, IsConnection(t[s], H), s # r
      PROVE  /\ t[s].id # e.id /\ ~Sent(t[s], v)
             /\ Mates(t[s], e) \/ ~Got(t[s], v)
  BY <1>2, <1>3, <1>4, <1>5, ConnectedTwice DEF Connections, e
<1>6. ASSUME NEW s \in Row, IsConnection(t[s], H) PROVE Single(t[s], R, C)
  <2>1. Single(t[s], Q, B) /\ t[s] \in Entry
    BY <1>2, <1>4, <1>6 DEF Connections
  <2>2. CASE s = r
    BY <1>1, <2>1, <2>2, SingleSend DEF e
  <2>3. CASE s # r /\ Mates(t[s], e)
    <3>1. Both(t[s], e, Q) /\ t[s].id.src # t[s].id.dst
      BY <1>3, <1>4, <1>6, <2>1, <2>3, ConnectedTwice DEF Connections, e
    <3>. QED
      BY <1>1, <2>1, <2>3, <3>1, SingleGets DEF e
  <2>4. CASE s # r /\ ~Mates(t[s], e)
    BY <1>1, <1>5, <1>6, <2>1, <2>4, SingleOther
  <2>. QED
    BY <2>2, <2>3, <2>4
<1>7. ASSUME NEW a \in Row, NEW b \in Row, a # b, IsConnection(t[a], H), IsConnection(t[b], H),
             Mates(t[a], t[b])
      PROVE  Both(t[a], t[b], R)
  <2>1. /\ Both(t[a], t[b], Q) /\ t[a] \in Entry /\ t[b] \in Entry
        /\ t[a].id # t[b].id /\ Mates(t[b], t[a])
        /\ t[a].id.src # t[a].id.dst /\ t[b].id.src # t[b].id.dst
    BY <1>2, <1>4, <1>7, ConnectedTwice DEF Connections
  <2>2. Both(t[b], t[a], Q)
    BY <2>1 DEF Both
  <2>3. CASE a = r
    BY <1>1, <1>7, <2>1, <2>3, BothSend DEF e
  <2>4. CASE b = r
    <3>1. Both(t[b], t[a], R)
      BY <1>1, <2>1, <2>2, <2>4, BothSend DEF e
    <3>. QED
      BY <3>1 DEF Both
  <2>5. CASE a # r /\ b # r
    <3>1. ~Got(t[a], v)
      <4>1. ~Sent(t[b], v)
        BY <1>5, <1>7, <2>5
      <4>. QED
        BY <1>7, <4>1 DEF Got, Sent, Mates
    <3>. QED
      BY <1>1, <1>5, <1>7, <2>1, <2>5, <3>1, BothOther
  <2>. QED
    BY <2>3, <2>4, <2>5
<1>8. Connections(t, R, C, H)
  BY <1>4, <1>6, <1>7 DEF Connections
<1>9. \A u \in R : u.src.ip = m /\ u.segment.data = <<>>
  BY <1>1 DEF Good, Q
<1>. QED
  BY <1>8, <1>9 DEF Good, R, C

\* A segment between two addresses of which nothing is said.
LEMMA GoodSendBetween ==
    ASSUME NEW H, NEW m, NEW t \in Rows, NEW q \in Seq(Envelope), Good(m, t, q, H),
           NEW r \in Row, Between(t[r].id) \in H, NEW v \in Envelope, Sends(t[r], v),
           v.src.ip = m, v.segment.data = <<>>
    PROVE  Good(m, t, Append(q, v), H)
<1>. DEFINE Q == InFlight(q)
            B == Ahead(q)
            R == InFlight(Append(q, v))
            C == Ahead(Append(q, v))
<1>1. R = Q \union {v} /\ Behind(B, C, Q, v)
  BY QueueAppend
<1>. HIDE DEF Q, B, R, C
<1>2. Connections(t, Q, B, H)
  BY DEF Good, Q, B
<1>3. Between(t[r].id) = {v.src, v.dst}
  BY DEF Sends, Sent, Between
<1>4. ASSUME NEW s \in Row, IsConnection(t[s], H) PROVE ~Sent(t[s], v) /\ ~Got(t[s], v)
  <2>1. Between(t[s].id) # {v.src, v.dst}
    BY <1>3, <1>4 DEF IsConnection
  <2>. QED
    BY <2>1 DEF Sent, Got, Between
<1>5. ASSUME NEW s \in Row, IsConnection(t[s], H) PROVE Single(t[s], R, C)
  BY <1>1, <1>2, <1>4, <1>5, SingleOther DEF Connections
<1>6. ASSUME NEW a \in Row, NEW b \in Row, a # b, IsConnection(t[a], H), IsConnection(t[b], H),
             Mates(t[a], t[b])
      PROVE  Both(t[a], t[b], R)
  BY <1>1, <1>2, <1>4, <1>6, BothOther DEF Connections
<1>7. Connections(t, R, C, H)
  BY <1>2, <1>5, <1>6 DEF Connections
<1>8. \A u \in R : u.src.ip = m /\ u.segment.data = <<>>
  BY <1>1 DEF Good, Q
<1>. QED
  BY <1>7, <1>8 DEF Good, R, C

LEMMA GoodSent ==
    ASSUME NEW H, NEW m, NEW t \in Rows, NEW q \in Seq(Envelope), Good(m, t, q, H),
           NEW r \in Row, t[r] # Free, ~BoundOnly(t[r].id), NEW v \in Envelope, Sends(t[r], v),
           v.src.ip = m, v.segment.data = <<>>
    PROVE  Good(m, t, Append(q, v), H)
BY GoodSend, GoodSendBetween DEF IsConnection

\* What a row may hold, whatever it is.
PlainRow(x) == x = Free \/ (StaysLocal(x) /\ x.sock.send_window = <<>>)

LEMMA GoodPut ==
    ASSUME NEW H, NEW m, NEW t \in Rows, NEW q \in Seq(Envelope), Good(m, t, q, H),
           NEW r \in Row, NEW x \in Entry \union {Free}, PlainRow(x),
           NEW w \in Seq(Envelope), InFlight(w) \subseteq InFlight(q), Ahead(w) \subseteq Ahead(q),
           IsConnection(x, H) =>
                /\ Single(x, InFlight(w), Ahead(w))
                /\ \A s \in Row : s # r /\ IsConnection(t[s], H) =>
                        /\ x.id # t[s].id
                        /\ Mates(x, t[s]) => Both(x, t[s], InFlight(w))
    PROVE  [t EXCEPT ![r] = x] \in Rows /\ Good(m, [t EXCEPT ![r] = x], w, H)
<1>1. Connections([t EXCEPT ![r] = x], InFlight(w), Ahead(w), H)
  <2>. DEFINE Q == InFlight(q)
              B == Ahead(q)
              R == InFlight(w)
              C == Ahead(w)
  <2>1. Connections(t, Q, B, H)
    BY DEF Good
  <2>. HIDE DEF Q, B, R, C
  <2>2. R \subseteq Q /\ C \subseteq B
    BY DEF Q, B, R, C
  <2>3. IsConnection(x, H) =>
                /\ Single(x, R, C)
                /\ \A s \in Row : s # r /\ IsConnection(t[s], H) =>
                        /\ x.id # t[s].id
                        /\ Mates(x, t[s]) => Both(x, t[s], R)
    BY DEF R, C
  <2>4. Connections([t EXCEPT ![r] = x], R, C, H)
    BY <2>1, <2>2, <2>3, PutConnection DEF Rows
  <2>. QED
    BY <2>4 DEF R, C
<1>2. \A s \in Row : [t EXCEPT ![r] = x][s] = IF s = r THEN x ELSE t[s]
  BY DEF Rows
<1>. QED
  BY <1>1, <1>2 DEF Good, PlainRow, Rows

\* A socket without a partner, a socket that is gone, and one that leaves.
LEMMA GoodFade ==
    ASSUME NEW H, NEW m, NEW t \in Rows, NEW q \in Seq(Envelope), Good(m, t, q, H),
           NEW r \in Row, NEW x \in Entry \union {Free}, PlainRow(x),
           IsConnection(x, H) => IsConnection(t[r], H) /\ Fades(t[r], x, InFlight(q))
    PROVE  [t EXCEPT ![r] = x] \in Rows /\ Good(m, [t EXCEPT ![r] = x], q, H)
<1>. DEFINE Q == InFlight(q)
            B == Ahead(q)
<1>1. Connections(t, Q, B, H)
  BY DEF Good
<1>2. ASSUME IsConnection(x, H)
      PROVE  /\ Single(x, Q, B)
             /\ \A s \in Row : s # r /\ IsConnection(t[s], H) =>
                        /\ x.id # t[s].id
                        /\ Mates(x, t[s]) => Both(x, t[s], Q)
  <2>1. IsConnection(t[r], H) /\ Fades(t[r], x, Q)
    BY <1>2
  <2>. HIDE DEF Q, B
  <2>2. Single(x, Q, B)
    BY <2>1 DEF Fades, Single
  <2>3. ASSUME NEW s \in Row, s # r, IsConnection(t[s], H)
        PROVE  x.id # t[s].id /\ (Mates(x, t[s]) => Both(x, t[s], Q))
    <3>1. /\ t[r].id # t[s].id /\ Single(t[s], Q, B)
          /\ Mates(t[r], t[s]) => Both(t[r], t[s], Q)
      BY <1>1, <2>1, <2>3 DEF Connections
    <3>2. x.id = t[r].id
      BY <2>1 DEF Fades, SameSide
    <3>3. Mates(x, t[s]) => Mates(t[r], t[s])
      BY <3>2 DEF Mates
    <3>. QED
      BY <2>1, <3>1, <3>2, <3>3, BothFade
  <2>. QED
    BY <2>2, <2>3
<1>. QED
  BY <1>2, GoodPut

\* An answered SYN_SENT becomes ESTABLISHED.
LEMMA GoodConnect ==
    ASSUME NEW H, NEW m, NEW t \in Rows, NEW q \in Seq(Envelope), q # <<>>, Good(m, t, q, H),
           NEW r \in Row, t[r] # Free, NEW x \in Entry, PlainRow(x),
           Connects(t[r], x, Head(q))
    PROVE  [t EXCEPT ![r] = x] \in Rows /\ Good(m, [t EXCEPT ![r] = x], Tail(q), H)
<1>. DEFINE Q == InFlight(q)
            B == Ahead(q)
            R == InFlight(Tail(q))
            C == Ahead(Tail(q))
            v == Head(q)
<1>1. Connections(t, Q, B, H)
  BY DEF Good
<1>2. Took(v, Q, B, R, C) /\ Tail(q) \in Seq(Envelope)
  BY QueueTail
<1>. HIDE DEF Q, B, R, C
<1>3. ASSUME IsConnection(t[r], H) PROVE Single(x, R, C)
  <2>1. Single(t[r], Q, B)
    BY <1>1, <1>3 DEF Connections
  <2>. HIDE DEF v
  <2>2. Connects(t[r], x, v)
    BY DEF v
  <2>. QED
    BY <1>2, <2>1, <2>2, SingleConnects
<1>4. ASSUME IsConnection(t[r], H), NEW s \in Row, s # r, IsConnection(t[s], H)
      PROVE  x.id # t[s].id /\ (Mates(x, t[s]) => Both(x, t[s], R))
  <2>1. /\ t[r].id # t[s].id /\ Single(t[s], Q, B) /\ Single(t[r], Q, B)
        /\ Mates(t[r], t[s]) => Both(t[r], t[s], Q)
    BY <1>1, <1>4 DEF Connections
  <2>2. x.id = t[r].id
    BY DEF Connects, SameSide
  <2>3. Mates(x, t[s]) => Mates(t[r], t[s])
    BY <2>2 DEF Mates
  <2>4. Connects(t[r], x, v)
    OBVIOUS
  <2>. HIDE DEF v
  <2>. QED
    BY <1>2, <2>1, <2>2, <2>3, <2>4, BothConnect
<1>5. R \subseteq Q /\ C \subseteq B
  BY <1>2 DEF Took
<1>6. IsConnection(x, H) => IsConnection(t[r], H)
  BY DEF Connects, SameSide, IsConnection
<1>. QED
  BY <1>2, <1>3, <1>4, <1>5, <1>6, GoodPut DEF Q, B, R, C

\* An answered SYN_RECEIVED becomes ESTABLISHED.
LEMMA GoodAccept ==
    ASSUME NEW H, NEW m, NEW t \in Rows, NEW q \in Seq(Envelope), Good(m, t, q, H),
           NEW r \in Row, t[r] # Free, NEW x \in Entry, PlainRow(x),
           Accepts(t[r], x, InFlight(q))
    PROVE  [t EXCEPT ![r] = x] \in Rows /\ Good(m, [t EXCEPT ![r] = x], q, H)
<1>. DEFINE Q == InFlight(q)
            B == Ahead(q)
<1>1. Connections(t, Q, B, H) /\ Accepts(t[r], x, Q)
  BY DEF Good
<1>. HIDE DEF Q, B
<1>2. ASSUME IsConnection(t[r], H) PROVE Single(x, Q, B)
  BY <1>1, <1>2, SingleAccepts DEF Connections
<1>3. ASSUME IsConnection(t[r], H), NEW s \in Row, s # r, IsConnection(t[s], H)
      PROVE  x.id # t[s].id /\ (Mates(x, t[s]) => Both(x, t[s], Q))
  <2>1. t[r].id # t[s].id /\ (Mates(t[r], t[s]) => Both(t[r], t[s], Q))
    BY <1>1, <1>3 DEF Connections
  <2>2. x.id = t[r].id
    BY <1>1 DEF Accepts, SameSide
  <2>3. Mates(x, t[s]) => Mates(t[r], t[s])
    BY <2>2 DEF Mates
  <2>. QED
    BY <1>1, <2>1, <2>2, <2>3, BothAccept
<1>4. IsConnection(x, H) => IsConnection(t[r], H)
  BY <1>1 DEF Accepts, SameSide, IsConnection
<1>. QED
  BY <1>2, <1>3, <1>4, GoodPut DEF Q, B


\* No connection expects the number of x, and no segment under way has it.
Fresh(x, t, q) ==
    /\ NewNumber(x, InFlight(q))
    /\ \A s \in Row : t[s] # Free => Unrelated(x, t[s])

\* A socket in SYN_SENT for an id that no connection has.
LEMMA GoodAsk ==
    ASSUME NEW H, NEW m, NEW t \in Rows, NEW q \in Seq(Envelope), Good(m, t, q, H),
           NEW r \in Row, NEW x \in Entry, PlainRow(x),
           Asks(x), x.sock.recv_seq = 0, IsConnection(x, H) => Fresh(x, t, q),
           \A s \in Row : t[s] # Free => t[s].id # x.id
    PROVE  [t EXCEPT ![r] = x] \in Rows /\ Good(m, [t EXCEPT ![r] = x], q, H)
<1>. DEFINE Q == InFlight(q)
            B == Ahead(q)
<1>1. Connections(t, Q, B, H) /\ (IsConnection(x, H) => NewNumber(x, Q))
  BY DEF Good, Fresh
<1>. HIDE DEF Q, B
<1>2. ASSUME IsConnection(x, H) PROVE Single(x, Q, B)
  BY <1>1, <1>2, SingleAsk
<1>3. ASSUME IsConnection(x, H), NEW s \in Row, s # r, IsConnection(t[s], H)
      PROVE  x.id # t[s].id /\ (Mates(x, t[s]) => Both(x, t[s], Q))
  <2>1. t[s] # Free /\ Single(t[s], Q, B)
    BY <1>1, <1>3 DEF Connections, IsConnection
  <2>2. Unrelated(x, t[s])
    BY <1>3, <2>1 DEF Fresh
  <2>. QED
    BY <1>1, <1>3, <2>1, <2>2, BothAsk
<1>. QED
  BY <1>2, <1>3, GoodPut DEF Q, B

\* A socket in SYN_RECEIVED for the SYN at the head of the queue.
LEMMA GoodReply ==
    ASSUME NEW H, NEW m, NEW t \in Rows, NEW q \in Seq(Envelope), q # <<>>, Good(m, t, q, H),
           NEW r \in Row, NEW x \in Entry, PlainRow(x),
           Got(x, Head(q)), Has(Head(q), "SYN"),
           Replies(x), x.sock.recv_seq = Head(q).segment.seq + 1,
           IsConnection(x, H) => Fresh(x, t, q),
           \A s \in Row : t[s] # Free => t[s].id # x.id
    PROVE  [t EXCEPT ![r] = x] \in Rows /\ Good(m, [t EXCEPT ![r] = x], Tail(q), H)
<1>. DEFINE Q == InFlight(q)
            B == Ahead(q)
            R == InFlight(Tail(q))
            C == Ahead(Tail(q))
            v == Head(q)
<1>1. Connections(t, Q, B, H) /\ (IsConnection(x, H) => NewNumber(x, Q))
  BY DEF Good, Fresh
<1>2. Took(v, Q, B, R, C) /\ Tail(q) \in Seq(Envelope)
  BY QueueTail
<1>3. Got(x, v) /\ Has(v, "SYN") /\ x.sock.recv_seq = v.segment.seq + 1
  OBVIOUS
<1>. HIDE DEF Q, B, R, C, v
<1>4. v \in Q /\ R \subseteq Q /\ C \subseteq B
  BY <1>2 DEF Took
<1>5. ASSUME IsConnection(x, H) PROVE Single(x, R, C)
  BY <1>1, <1>3, <1>4, <1>5, SingleReply
<1>6. ASSUME IsConnection(x, H), NEW s \in Row, s # r, IsConnection(t[s], H)
      PROVE  x.id # t[s].id /\ (Mates(x, t[s]) => Both(x, t[s], R))
  <2>1. t[s] # Free /\ Single(t[s], Q, B)
    BY <1>1, <1>6 DEF Connections, IsConnection
  <2>2. Unrelated(x, t[s])
    BY <1>6, <2>1 DEF Fresh
  <2>. QED
    BY <1>1, <1>2, <1>3, <1>6, <2>1, <2>2, BothReply
<1>. QED
  BY <1>2, <1>4, <1>5, <1>6, GoodPut DEF Q, B, R, C

----------------------------------------------------------------------------
(* All managers.                                                           *)

Handshakes == Typed /\ \A m \in Ip : Good(m, table[m], net[m], repeated)

LEMMA Parts ==
    ASSUME Handshakes, NEW m \in Ip
    PROVE  /\ Typed /\ NetLocal(net)
           /\ table[m] \in Rows /\ net[m] \in Seq(Envelope)
           /\ Good(m, table[m], net[m], repeated)
           /\ \A r \in Used(m) : /\ table[m][r] \in Entry /\ PlainRow(table[m][r])
                                 /\ table[m][r].id.src.ip = m
<1>1. Typed /\ Good(m, table[m], net[m], repeated)
  BY DEF Handshakes
<1>2. NetLocal(net)
  BY DEF NetLocal, Handshakes, Good, InFlight
<1>3. table[m] \in Rows /\ net[m] \in Seq(Envelope)
  BY <1>1 DEF Typed, TableOK, NetType, Rows
<1>. QED
  BY <1>1, <1>2, <1>3, UsedRow DEF RowOK, Good, PlainRow, Used

\* What is said of fewer connections.
LEMMA GoodOfFewer ==
    ASSUME NEW H, NEW K, NEW m, NEW t, NEW q, Good(m, t, q, H),
           \A r \in Row : IsConnection(t[r], K) => IsConnection(t[r], H)
    PROVE  Good(m, t, q, K)
BY DEF Good, Connections

\* A pair of addresses is forgotten only when no socket is left between them.
LEMMA NotForgotten ==
    ASSUME Remember, NEW m \in Ip, NEW r \in Row, IsConnection(table'[m][r], repeated')
    PROVE  IsConnection(table'[m][r], repeated \union repeated')
<1>1. table'[m][r] \in AllSockets'
  BY DEF AllSockets, Sockets, Used, IsConnection
<1>2. Between(table'[m][r].id) \in repeated => Between(table'[m][r].id) \in repeated'
  BY <1>1 DEF Remember
<1>. QED
  BY <1>2 DEF IsConnection

\* A step of one manager.
LEMMA StepOfWith ==
    ASSUME Handshakes, Typed', Remember, NEW m \in Ip,
           \A n \in Ip : n # m => table'[n] = table[n] /\ net'[n] = net[n],
           NEW H, H \subseteq repeated \union repeated', Good(m, table'[m], net'[m], H)
    PROVE  Handshakes'
<1>1. ASSUME NEW n \in Ip PROVE Good(n, table'[n], net'[n], repeated')
  <2>1. PICK K : K \subseteq repeated \union repeated' /\ Good(n, table'[n], net'[n], K)
    BY DEF Handshakes
  <2>2. \A r \in Row : IsConnection(table'[n][r], repeated') => IsConnection(table'[n][r], K)
    BY <2>1, NotForgotten DEF IsConnection
  <2>. QED
    BY <2>1, <2>2, GoodOfFewer
<1>. QED
  BY <1>1 DEF Handshakes

LEMMA StepOf ==
    ASSUME Handshakes, Typed', Remember, NEW m \in Ip,
           \A n \in Ip : n # m => table'[n] = table[n] /\ net'[n] = net[n],
           Good(m, table'[m], net'[m], repeated)
    PROVE  Handshakes'
BY StepOfWith

LEMMA StepOfNobody ==
    ASSUME Handshakes, Typed', Remember, UNCHANGED <<table, net>>
    PROVE  Handshakes'
BY DEF Handshakes, Remember


\* One row changes, or none, and nothing is sent to another manager.
LEMMA RowStep ==
    ASSUME Handshakes, Typed', Remember, NEW m \in Ip, NEW r \in Row, NEW x,
           table' = PutRow(table, m, r, x),
           \A n \in Ip : n # m => net'[n] = net[n],
           Good(m, [table[m] EXCEPT ![r] = x], net'[m], repeated)
    PROVE  Handshakes'
<1>1. table \in [Ip -> [Row -> Entry \union {Free}]]
  BY DEF Handshakes, Typed, TableOK
<1>2. table'[m] = [table[m] EXCEPT ![r] = x] /\ \A n \in Ip : n # m => table'[n] = table[n]
  BY <1>1 DEF PutRow
<1>. QED
  BY <1>2, StepOf

LEMMA PoppedQueue ==
    ASSUME Handshakes, NEW m \in Ip, net[m] # <<>>
    PROVE  /\ Popped(m)[m] = Tail(net[m])
           /\ \A n \in Ip : n # m => Popped(m)[n] = net[n]
           /\ Popped(m) \in [Ip -> Seq(Envelope)]
           /\ First(m) = Head(net[m]) /\ First(m) \in Envelope
           /\ First(m) \in InFlight(net[m])
           /\ First(m).src.ip = m /\ First(m).segment.data = <<>>
           /\ Good(m, table[m], Tail(net[m]), repeated)
<1>1. /\ net \in [Ip -> Seq(Envelope)] /\ net[m] \in Seq(Envelope)
      /\ table[m] \in Rows /\ Good(m, table[m], net[m], repeated)
  BY Parts DEF Typed, NetType
<1>2. Tail(net[m]) \in Seq(Envelope) /\ Head(net[m]) \in Envelope /\ Head(net[m]) \in InFlight(net[m])
  BY <1>1, QueueTail DEF Took
<1>3. Good(m, table[m], Tail(net[m]), repeated)
  BY <1>1, GoodPop
<1>. QED
  BY <1>1, <1>2, <1>3 DEF Popped, First, Good

\* A segment to an address of the same machine goes to the end of the queue of
\* the manager, one to nobody nowhere.
Packet(id, dst, p) == [src |-> id.src, dst |-> dst, segment |-> p]

\* The queues w are the queues n with v at the end of that of m.
Posted(n, w, m, v) == w[m] = Append(n[m], v) /\ \A k \in Ip : k # m => w[k] = n[k]

LEMMA SendHere ==
    ASSUME NEW n \in [Ip -> Seq(Envelope)], NEW m \in Ip, NEW id \in Id, id.src.ip = m,
           NEW dst \in Addr \union {NoAddr}, dst # NoAddr => dst.ip = m,
           NEW p \in Segment
    PROVE  \/ Send(n, id, dst, <<p>>) = n
           \/ /\ dst # NoAddr /\ Packet(id, dst, p) \in Envelope
              /\ Posted(n, Send(n, id, dst, <<p>>), m, Packet(id, dst, p))
<1>. DEFINE v == [src |-> id.src, dst |-> dst, segment |-> p]
            q == [i \in DOMAIN <<p>> |-> [src |-> id.src, dst |-> dst, segment |-> <<p>>[i]]]
<1>1. CASE ~CanSend(dst)
  BY <1>1 DEF Send
<1>2. CASE CanSend(dst)
  <2>1. dst # NoAddr /\ dst \in Addr /\ dst.ip = m /\ v \in Envelope
    BY <1>2, RecordTypes DEF CanSend, Envelope
  <2>2. q = <<v>>
    OBVIOUS
  <2>3. Send(n, id, dst, <<p>>) = [n EXCEPT ![m] = n[m] \o <<v>>]
    BY <1>2, <2>1, <2>2 DEF Send
  <2>4. n[m] \o <<v>> = Append(n[m], v)
    <3>. HIDE DEF v
    <3>. QED
      BY <2>1
  <2>5. Posted(n, [n EXCEPT ![m] = Append(n[m], v)], m, v)
    BY <2>1 DEF Posted
  <2>. QED
    BY <2>1, <2>3, <2>4, <2>5 DEF Packet
<1>. QED
  BY <1>1, <1>2

LEMMA SendNothing ==
    ASSUME NEW n \in [Ip -> Seq(Envelope)], NEW id, NEW dst
    PROVE  Send(n, id, dst, <<>>) = n
<1>. DEFINE q == [i \in DOMAIN <<>> |-> [src |-> id.src, dst |-> dst, segment |-> <<>>[i]]]
<1>1. q = <<>>
  OBVIOUS
<1>2. Send(n, id, dst, <<>>) = IF CanSend(dst) THEN [n EXCEPT ![dst.ip] = @ \o <<>>] ELSE n
  BY <1>1 DEF Send
<1>3. ASSUME dst.ip \in Ip PROVE n[dst.ip] \o <<>> = n[dst.ip]
  BY <1>3
<1>. QED
  BY <1>2, <1>3

----------------------------------------------------------------------------
(* Segments that are ignored, and segments that a timer sends.             *)

LEMMA PopHandshakes ==
    ASSUME Handshakes, Typed', Remember, NEW m \in Ip, net[m] # <<>>, net' = Popped(m), UNCHANGED table
    PROVE  Handshakes'
<1>1. Good(m, table[m], net'[m], repeated) /\ \A n \in Ip : n # m => net'[n] = net[n]
  BY PoppedQueue
<1>. QED
  BY <1>1, StepOf

\* e, the socket in row r, sends v; x is what it has become.
LEMMA EmitGood ==
    ASSUME Handshakes, NEW m \in Ip, NEW r \in Used(m),
           NEW s \in Socket, NEW flags \in SUBSET Flag, Emit(m, r, s, flags),
           Sends(table[m][r], Packet(table[m][r].id, table[m][r].id.dst,
                                     construct_packet(s, <<>>, flags)))
    PROVE  /\ Good(m, table[m], net'[m], repeated) /\ net'[m] \in Seq(Envelope)
           /\ \A n \in Ip : n # m => net'[n] = net[n]
           /\ InFlight(net[m]) \subseteq InFlight(net'[m])
<1>. DEFINE e == table[m][r]
            p == construct_packet(s, <<>>, flags)
            v == Packet(e.id, e.id.dst, p)
<1>1. /\ r \in Row /\ e # Free /\ e.id \in Id /\ e.id.src.ip = m /\ StaysLocal(e)
      /\ net \in [Ip -> Seq(Envelope)] /\ net[m] \in Seq(Envelope) /\ table[m] \in Rows
      /\ Good(m, table[m], net[m], repeated)
  BY Parts, UsedRow DEF Typed, NetType, RowOK, PlainRow
<1>2. p \in Segment /\ p.data = <<>>
  BY SegmentTypes DEF construct_packet
<1>3. e.id.dst \in Addr \union {NoAddr} /\ (e.id.dst # NoAddr => e.id.dst.ip = m)
  BY <1>1, RecordTypes DEF StaysLocal
<1>4. net' = Send(net, e.id, e.id.dst, <<p>>)
  BY DEF Emit
<1>. HIDE DEF p
<1>5. \/ net' = net
      \/ e.id.dst # NoAddr /\ v \in Envelope /\ Posted(net, net', m, v)
  <2>. DEFINE id == e.id
              dst == e.id.dst
  <2>1. /\ id \in Id /\ id.src.ip = m /\ dst \in Addr \union {NoAddr}
        /\ dst # NoAddr => dst.ip = m
        /\ net \in [Ip -> Seq(Envelope)]
    BY <1>1, <1>3
  <2>2. dst = e.id.dst /\ v = Packet(id, dst, p)
    OBVIOUS
  <2>3. p \in Segment
    BY <1>2
  <2>. HIDE DEF id, dst, v, e
  <2>4. \/ Send(net, id, dst, <<p>>) = net
        \/ /\ dst # NoAddr /\ Packet(id, dst, p) \in Envelope
           /\ Posted(net, Send(net, id, dst, <<p>>), m, Packet(id, dst, p))
    BY <2>1, <2>3, SendHere
  <2>5. net' = Send(net, id, dst, <<p>>)
    BY <1>4 DEF id, dst
  <2>. QED
    BY <2>2, <2>4, <2>5
<1>6. CASE net' = net
  BY <1>1, <1>6
<1>7. CASE e.id.dst # NoAddr /\ v \in Envelope /\ Posted(net, net', m, v)
  <2>1. ~BoundOnly(e.id) /\ Sends(e, v)
    BY <1>1, <1>7 DEF BoundOnly, p
  <2>2. v.src.ip = m /\ v.segment.data = <<>>
    BY <1>1, <1>2 DEF Packet
  <2>3. net'[m] = Append(net[m], v) /\ \A n \in Ip : n # m => net'[n] = net[n]
    BY <1>7 DEF Posted
  <2>. HIDE DEF v
  <2>4. Good(m, table[m], Append(net[m], v), repeated)
    BY <1>1, <1>7, <2>1, <2>2, GoodSent
  <2>5. InFlight(net[m]) \subseteq InFlight(Append(net[m], v)) /\ Append(net[m], v) \in Seq(Envelope)
    BY <1>1, <1>7, QueueAppend
  <2>. QED
    BY <2>3, <2>4, <2>5
<1>. QED
  BY <1>5, <1>6, <1>7

LEMMA ResendHandshakes ==
    ASSUME Handshakes, Typed', Remember, NEW m \in Ip, NEW r \in Row, ResendStep(m, r)
    PROVE  Handshakes'
<1>1. PICK state \in TCPState, back \in {0, 1}, flags \in SUBSET Flag :
        /\ Resend(m, r, state, flags, back)
        /\ "SYN" \in flags => back = 1 /\ state \in {"SYN_SENT", "SYN_RECEIVED"}
        /\ "ACK" \in flags => state # "SYN_SENT"
        /\ "FIN" \in flags => state \in {"FIN_WAIT_1", "LAST_ACK"}
  BY DEF ResendStep, ResendSyn, ResendSynAck, SendWindow, ResendFin, ResendFinAck, Flag,
         TCPState
<1>. DEFINE old == table[m][r].sock
            s == [old EXCEPT !.send_seq = @ - back]
            p == construct_packet(s, <<>>, flags)
            v == Packet(table[m][r].id, table[m][r].id.dst, p)
<1>2. r \in Used(m) /\ old.state = state /\ Emit(m, r, s, flags) /\ UNCHANGED table
  BY <1>1 DEF Resend, InState, Used
<1>3. old \in Socket /\ old.send_seq \in Int
  BY <1>2, UsedRow DEF Handshakes, Socket
<1>. HIDE DEF old
<1>4. old.send_seq - back \in Int
  BY <1>3
<1>5. s \in Socket /\ s.send_seq = old.send_seq - back /\ s.recv_seq = old.recv_seq
  BY <1>3, <1>4 DEF Socket
<1>6. p.flags = flags /\ p.seq = old.send_seq - back /\ p.ack = old.recv_seq
  BY <1>5 DEF construct_packet
<1>. HIDE DEF s, p
<1>7. back = 1 => p.seq + 1 = old.send_seq
  BY <1>3, <1>6
<1>8. Sends(table[m][r], v)
  BY <1>1, <1>2, <1>6, <1>7 DEF Sends, Sent, Has, Asks, Replies, Active, Synced, Runs, old,
         Packet
<1>9. Emit(m, r, s, flags) /\ Sends(table[m][r], Packet(table[m][r].id, table[m][r].id.dst,
                                                   construct_packet(s, <<>>, flags)))
  BY <1>2, <1>8 DEF p
<1>10. Good(m, table[m], net'[m], repeated) /\ \A n \in Ip : n # m => net'[n] = net[n]
  BY <1>2, <1>5, <1>9, EmitGood
<1>. QED
  BY <1>2, <1>10, StepOf

----------------------------------------------------------------------------
(* A socket that stays in its row and is on its way out.                   *)

\* The same socket with state and recv_seq set.
LEMMA FadedSocket ==
    ASSUME NEW e \in Entry, NEW Q, NEW s \in Socket,
           s.send_seq = e.sock.send_seq, s.recv_seq = e.sock.recv_seq,
           s.state \notin {"SYN_SENT", "SYN_RECEIVED", "ESTABLISHED", "FIN_WAIT_2"}
    PROVE  Fades(e, WithSock(e, s), Q)
BY DEF Fades, SameSide, WithSock, Active, Synced, Asks, Replies, Runs

LEMMA PlainSocket ==
    ASSUME Handshakes, NEW m \in Ip, NEW r \in Used(m), NEW s \in Socket, s.send_window = <<>>
    PROVE  /\ WithSock(table[m][r], s) \in Entry
           /\ PlainRow(WithSock(table[m][r], s))
           /\ WithSock(table[m][r], s).id = table[m][r].id
           /\ WithSock(table[m][r], s).sock = s
           /\ table[m][r] \in Entry /\ table[m][r].sock \in Socket /\ table[m][r].id \in Id
           /\ table[m][r].id.src.ip = m /\ table[m][r].sock.send_window = <<>>
           /\ IsConnection(WithSock(table[m][r], s), repeated) => IsConnection(table[m][r], repeated)
           /\ r \in Row /\ table[m] \in Rows /\ net[m] \in Seq(Envelope)
           /\ Good(m, table[m], net[m], repeated)
<1>1. /\ r \in Row /\ table[m][r] # Free /\ table[m][r].id \in Id /\ table[m][r] \in Entry
      /\ table[m][r].sock \in Socket
      /\ StaysLocal(table[m][r]) /\ table[m][r].sock.send_window = <<>>
      /\ table[m][r].id.src.ip = m
      /\ table[m] \in Rows /\ net[m] \in Seq(Envelope) /\ Good(m, table[m], net[m], repeated)
  BY Parts, UsedRow DEF PlainRow
<1>2. WithSock(table[m][r], s) \in Entry
  BY <1>1, RecordTypes DEF WithSock
<1>3. WithSock(table[m][r], s).id = table[m][r].id /\ WithSock(table[m][r], s).sock = s
  BY DEF WithSock
<1>. QED
  BY <1>1, <1>2, <1>3 DEF PlainRow, StaysLocal, IsConnection

\* The socket in row r with another state.
InNewState(m, r, state) == [table[m][r].sock EXCEPT !.state = state]

SetState(m, r, state) == table' = [table EXCEPT ![m][r].sock.state = state]

LEMMA StateChange ==
    ASSUME Handshakes, NEW m \in Ip, NEW r \in Used(m), NEW state \in TCPState,
           SetState(m, r, state),
           NEW s, s = InNewState(m, r, state)
    PROVE  /\ table' = PutRow(table, m, r, WithSock(table[m][r], s))
           /\ s \in Socket /\ s.state = state /\ s.send_window = <<>>
           /\ s.send_seq = table[m][r].sock.send_seq /\ s.recv_seq = table[m][r].sock.recv_seq
<1>1. table[m][r].sock \in Socket /\ table[m][r].sock.send_window = <<>>
  BY Parts, UsedRow DEF PlainRow, Used
<1>2. /\ s \in Socket /\ s.state = state /\ s.send_window = <<>>
      /\ s.send_seq = table[m][r].sock.send_seq /\ s.recv_seq = table[m][r].sock.recv_seq
  BY <1>1 DEF Socket, InNewState
<1>3. [table[m][r] EXCEPT !.sock.state = state] = [table[m][r] EXCEPT !.sock = s]
  BY DEF InNewState
<1>4. table' = [table EXCEPT ![m][r].sock = s]
  BY <1>3 DEF SetState
<1>5. Typed
  BY DEF Handshakes
<1>6. table' = PutRow(table, m, r, WithSock(table[m][r], s))
  BY ZenonT(60), <1>4, <1>5, SetSocket
<1>. QED
  BY <1>2, <1>6

\* The state of the socket in row r becomes state, after the queue of its
\* manager has changed.
LEMMA StateGood ==
    ASSUME Handshakes, Typed', Remember, NEW m \in Ip, NEW r \in Used(m), NEW state \in TCPState,
           state \notin {"SYN_SENT", "SYN_RECEIVED", "ESTABLISHED", "FIN_WAIT_2"},
           SetState(m, r, state),
           net'[m] \in Seq(Envelope), Good(m, table[m], net'[m], repeated),
           \A n \in Ip : n # m => net'[n] = net[n]
    PROVE  Handshakes'
<1>. DEFINE s == InNewState(m, r, state)
            x == WithSock(table[m][r], s)
<1>. HIDE DEF s
<1>0. s = InNewState(m, r, state)
  BY DEF s
<1>1. /\ table' = PutRow(table, m, r, x)
      /\ s \in Socket /\ s.state = state /\ s.send_window = <<>>
      /\ s.send_seq = table[m][r].sock.send_seq /\ s.recv_seq = table[m][r].sock.recv_seq
  BY <1>0, StateChange
<1>2. /\ x \in Entry /\ PlainRow(x) /\ (IsConnection(x, repeated) => IsConnection(table[m][r], repeated))
      /\ table[m][r] \in Entry /\ r \in Row /\ table[m] \in Rows
  BY <1>1, PlainSocket
<1>3. Fades(table[m][r], x, InFlight(net'[m]))
  BY <1>1, <1>2, FadedSocket
<1>. HIDE DEF x
<1>. DEFINE q == net'[m]
<1>4. Good(m, [table[m] EXCEPT ![r] = x], q, repeated)
  <2>1. q \in Seq(Envelope) /\ Good(m, table[m], q, repeated) /\ Fades(table[m][r], x, InFlight(q))
    BY <1>3
  <2>. HIDE DEF q
  <2>. QED
    BY <1>2, <2>1, GoodFade
<1>. QED
  BY <1>1, <1>2, <1>4, RowStep

LEMMA ResetHandshakes ==
    ASSUME Handshakes, Typed', Remember, NEW m \in Ip, HandleReset(m)
    PROVE  Handshakes'
<1>1. net[m] # <<>> /\ net' = Popped(m)
  BY DEF HandleReset, HasPacket
<1>2. PICK r \in Receivers(m, First(m)) : SetState(m, r, "CLOSED")
  BY DEF HandleReset, SetState
<1>3. r \in Used(m) /\ "CLOSED" \in TCPState
  BY ReceiverIsUsed DEF TCPState
<1>4. /\ net'[m] \in Seq(Envelope) /\ Good(m, table[m], net'[m], repeated)
      /\ \A n \in Ip : n # m => net'[n] = net[n]
  BY <1>1, PoppedQueue
<1>. QED
  BY <1>2, <1>3, <1>4, StateGood

LEMMA TimerHandshakes ==
    ASSUME Handshakes, Typed', Remember, NEW m \in Ip, NEW r \in Row,
           GiveUp(m, r) \/ TimeWaitToClosed(m, r)
    PROVE  Handshakes'
<1>1. r \in Used(m)
  BY DEF GiveUp, TimeWaitToClosed, InState, Used
<1>2. CASE GiveUp(m, r)
  <2>1. /\ Emit(m, r, table[m][r].sock, {"RST"}) /\ {"RST"} \in SUBSET Flag
        /\ SetState(m, r, "TIME_WAIT")
        /\ "TIME_WAIT" \in TCPState
    BY <1>2 DEF GiveUp, SetState, Flag, TCPState
  <2>2. table[m][r].sock \in Socket
    BY <1>1, UsedRow DEF Handshakes
  <2>3. Sends(table[m][r], Packet(table[m][r].id, table[m][r].id.dst,
                                  construct_packet(table[m][r].sock, <<>>, {"RST"})))
    BY DEF Sends, Sent, Has, Packet, construct_packet
  <2>4. /\ net'[m] \in Seq(Envelope) /\ Good(m, table[m], net'[m], repeated)
        /\ \A n \in Ip : n # m => net'[n] = net[n]
    BY <1>1, <2>1, <2>2, <2>3, EmitGood
  <2>. QED
    BY <1>1, <2>1, <2>4, StateGood
<1>3. CASE TimeWaitToClosed(m, r)
  <2>1. /\ SetState(m, r, "CLOSED") /\ "CLOSED" \in TCPState
        /\ net' = net
    BY <1>3 DEF TimeWaitToClosed, SetState, TCPState
  <2>2. /\ net'[m] \in Seq(Envelope) /\ Good(m, table[m], net'[m], repeated)
        /\ \A n \in Ip : n # m => net'[n] = net[n]
    BY <2>1, Parts
  <2>. QED
    BY <1>1, <2>1, <2>2, StateGood
<1>. QED
  BY <1>2, <1>3

\* Nothing is left to send, so that the FIN has the number of the socket itself.
LEMMA NothingToSend ==
    ASSUME NEW s \in Socket, s.send_window = <<>>, NEW state \in TCPState
    PROVE  LET t == [s EXCEPT !.state = state, !.send_seq = @ + Len(s.send_window)] IN
           /\ t \in Socket /\ t.state = state /\ t.send_window = <<>>
           /\ t.send_seq = s.send_seq /\ t.recv_seq = s.recv_seq
<1>1. s.send_seq \in Int /\ Len(s.send_window) = 0
  BY DEF Socket
<1>2. s.send_seq + Len(s.send_window) = s.send_seq
  BY <1>1
<1>. QED
  BY <1>1, <1>2 DEF Socket

LEMMA LastAckHandshakes ==
    ASSUME Handshakes, Typed', Remember, NEW m \in Ip, NEW r \in Row, CloseWaitToLastAck(m, r)
    PROVE  Handshakes'
<1>. DEFINE e == table[m][r]
            s == [e.sock EXCEPT !.state = "LAST_ACK", !.send_seq = @ + Len(e.sock.send_window)]
            x == WithSock(e, s)
<1>1. r \in Used(m) /\ table' = [table EXCEPT ![m][r].sock = s] /\ net' = net
  BY DEF CloseWaitToLastAck, InState, Used
<1>2. /\ s \in Socket /\ s.state = "LAST_ACK" /\ s.send_window = <<>>
      /\ s.send_seq = e.sock.send_seq /\ s.recv_seq = e.sock.recv_seq
  <2>1. e.sock \in Socket /\ e.sock.send_window = <<>> /\ "LAST_ACK" \in TCPState
    BY <1>1, Parts, UsedRow DEF PlainRow, Used, TCPState
  <2>. HIDE DEF e
  <2>. QED
    BY <2>1, NothingToSend
<1>. HIDE DEF s
<1>3. Typed
  BY DEF Handshakes
<1>4. table' = PutRow(table, m, r, x)
  BY ZenonT(60), <1>1, <1>3, SetSocket
<1>5. /\ x \in Entry /\ PlainRow(x) /\ (IsConnection(x, repeated) => IsConnection(e, repeated))
      /\ e \in Entry /\ r \in Row /\ table[m] \in Rows /\ net[m] \in Seq(Envelope)
      /\ Good(m, table[m], net[m], repeated)
  BY <1>1, <1>2, PlainSocket
<1>6. Fades(e, x, InFlight(net[m]))
  BY <1>2, <1>5, FadedSocket
<1>. HIDE DEF x
<1>7. Good(m, [table[m] EXCEPT ![r] = x], net[m], repeated)
  BY <1>5, <1>6, GoodFade
<1>. QED
  BY <1>1, <1>4, <1>5, <1>7, RowStep

\* A close takes the bound id back while the connection is still opening, so
\* that the socket is no connection any more.
LEMMA CloseCommandHandshakes ==
    ASSUME Handshakes, Typed', Remember, NEW m \in Ip, NEW r \in Row, HandleCloseCommand(m, r)
    PROVE  Handshakes'
<1>. DEFINE e == table[m][r]
            s == [e.sock EXCEPT !.state = "FIN_WAIT_1", !.send_seq = @ + Len(e.sock.send_window)]
            x == [id |-> IdForFifo(e), sock |-> s]
<1>1. r \in Used(m) /\ table' = PutRow(table, m, r, x) /\ net' = net
  <2>1. r \in Used(m) /\ table' = [table EXCEPT ![m][r] = x] /\ net' = net
    BY DEF HandleCloseCommand
  <2>. HIDE DEF x
  <2>. QED
    BY <2>1 DEF PutRow
<1>2. /\ s \in Socket /\ s.state = "FIN_WAIT_1" /\ s.send_window = <<>>
      /\ s.send_seq = e.sock.send_seq /\ s.recv_seq = e.sock.recv_seq
  <2>1. e.sock \in Socket /\ e.sock.send_window = <<>> /\ "FIN_WAIT_1" \in TCPState
    BY <1>1, Parts, UsedRow DEF PlainRow, Used, TCPState
  <2>. HIDE DEF e
  <2>. QED
    BY <2>1, NothingToSend
<1>. HIDE DEF s
<1>3. /\ WithSock(e, s) \in Entry /\ PlainRow(WithSock(e, s))
      /\ IsConnection(WithSock(e, s), repeated) => IsConnection(e, repeated)
      /\ e \in Entry /\ r \in Row /\ table[m] \in Rows /\ net[m] \in Seq(Envelope)
      /\ Good(m, table[m], net[m], repeated) /\ e.id \in Id
  BY <1>1, <1>2, PlainSocket
<1>4. Fades(e, WithSock(e, s), InFlight(net[m]))
  BY <1>2, <1>3, FadedSocket
<1>5. /\ x \in Entry /\ PlainRow(x)
      /\ IsConnection(x, repeated) => IsConnection(e, repeated) /\ Fades(e, x, InFlight(net[m]))
  <2>1. CASE e.sock.state = "SYN_SENT"
    <3>1. x.id = BoundId(e.id.src) /\ x.sock = s
      BY <2>1 DEF IdForFifo
    <3>2. e.id.src \in Addr /\ x.id \in Id /\ BoundOnly(x.id)
      BY <1>3, <3>1, RecordTypes
    <3>3. x \in Entry
      BY <1>2, <3>2, RecordTypes
    <3>. HIDE DEF x
    <3>4. PlainRow(x)
      BY <1>2, <3>1, <3>2 DEF PlainRow, StaysLocal, BoundOnly
    <3>. QED
      BY <3>2, <3>3, <3>4 DEF IsConnection
  <2>2. CASE e.sock.state # "SYN_SENT"
    <3>1. x = WithSock(e, s)
      BY <2>2 DEF IdForFifo, WithSock
    <3>. QED
      BY <1>3, <1>4, <3>1
  <2>. QED
    BY <2>1, <2>2
<1>. HIDE DEF x
<1>6. Good(m, [table[m] EXCEPT ![r] = x], net[m], repeated)
  BY <1>3, <1>5, GoodFade
<1>. QED
  BY <1>1, <1>3, <1>6, RowStep

LEMMA ClosedSocketHandshakes ==
    ASSUME Handshakes, Typed', Remember, NEW m \in Ip, NEW r \in Row, HandleClosedSocket(m, r)
    PROVE  Handshakes'
<1>1. table' = PutRow(table, m, r, Free) /\ net' = net
  BY HandleClosedSocketEffect DEF Handshakes, HandleClosedSocket
<1>2. table[m] \in Rows /\ net[m] \in Seq(Envelope) /\ Good(m, table[m], net[m], repeated)
  BY Parts
<1>3. Good(m, [table[m] EXCEPT ![r] = Free], net[m], repeated)
  BY <1>2, GoodFade DEF PlainRow, IsConnection
<1>. QED
  BY <1>1, <1>3, RowStep


----------------------------------------------------------------------------
(* Segments for a connection.                                              *)

LEMMA IgnoreHandshakes ==
    ASSUME Handshakes, Typed', Remember, NEW m \in Ip, IgnorePacket(m)
    PROVE  Handshakes'
BY PopHandshakes DEF IgnorePacket, HasPacket

\* A socket that is set to itself.
LEMMA SameSocket ==
    ASSUME Typed, NEW m \in Ip, NEW r \in Used(m)
    PROVE  PutRow(table, m, r, WithSock(table[m][r], table[m][r].sock)) = table
<1>1. table[m][r] \in Entry /\ r \in Row /\ table \in [Ip -> [Row -> Entry \union {Free}]]
  BY UsedRow DEF RowOK, Typed, TableOK
<1>2. WithSock(table[m][r], table[m][r].sock) = table[m][r]
  BY <1>1 DEF WithSock, Entry
<1>. QED
  BY <1>1, <1>2 DEF PutRow

\* A segment p without data makes t of a socket s that has nothing to send.
Leaves(s, p, t) ==
    /\ t \in Socket /\ t.send_window = <<>> /\ t.send_seq = s.send_seq
    /\ t.state \notin {"SYN_SENT", "SYN_RECEIVED", "ESTABLISHED"}
    /\ t.recv_seq = s.recv_seq \/ ("FIN" \in p.flags /\ t.recv_seq = p.seq + 1)
    /\ t.state = "FIN_WAIT_2" =>
            s.state = "FIN_WAIT_2" \/ ("ACK" \in p.flags /\ "FIN" \notin p.flags
                                        /\ p.ack # s.send_seq)

Acknowledgement(t) == construct_packet(t, <<>>, {"ACK"})

Outcome(s, p, result) ==
    \/ result.sock = s /\ result.reply = <<>>
    \/ /\ Leaves(s, p, result.sock)
       /\ result.reply = <<>> \/ result.reply = <<Acknowledgement(result.sock)>>

LEMMA EstablishedOutcome ==
    ASSUME NEW s \in Socket, s.send_window = <<>>, NEW p \in Segment, p.data = <<>>
    PROVE  Outcome(s, p, handle_packet_established(s, p, FALSE))
<1>1. s.send_seq \in Int /\ p.ack \in Int /\ Len(s.send_window) = 0
  BY DEF Socket, Segment
<1>2. s.send_seq + Len(s.send_window) = s.send_seq
  BY <1>1
<1>3. CASE "SYN" \in p.flags
  BY <1>3 DEF handle_packet_established, Ignore, Result, Outcome
<1>4. CASE "SYN" \notin p.flags /\ "FIN" \in p.flags
  <2>. DEFINE t == [s EXCEPT !.state = "CLOSE_WAIT", !.recv_seq = p.seq + 1,
                             !.send_seq = @ + Len(s.send_window)]
  <2>1. p.seq + 1 \in Int /\ "CLOSE_WAIT" \in TCPState
    BY DEF Segment, TCPState
  <2>2. /\ t \in Socket /\ t.send_window = <<>> /\ t.send_seq = s.send_seq
        /\ t.state = "CLOSE_WAIT" /\ t.recv_seq = p.seq + 1
    BY <1>1, <1>2, <2>1 DEF Socket
  <2>3. /\ handle_packet_established(s, p, FALSE).sock = t
        /\ handle_packet_established(s, p, FALSE).reply = <<>>
    BY <1>4 DEF handle_packet_established, Ignore, Result
  <2>. HIDE DEF t
  <2>. QED
    BY <1>4, <2>2, <2>3 DEF Outcome, Leaves
<1>5. CASE "SYN" \notin p.flags /\ "FIN" \notin p.flags
  <2>1. AckedBytes(s, p.ack) = 0
    BY <1>1 DEF AckedBytes
  <2>2. SubSeq(s.send_window, 1, Len(s.send_window)) = s.send_window
    BY <1>1
  <2>3. Acknowledge(s, p.ack) = s
    <3>1. Acknowledge(s, p.ack) =
            [s EXCEPT !.send_window = SubSeq(s.send_window, 0 + 1, Len(s.send_window)),
                      !.send_seq = s.send_seq + 0]
      BY ZenonT(60), <2>1 DEF Acknowledge
    <3>2. 0 + 1 = 1 /\ s.send_seq + 0 = s.send_seq
      BY <1>1
    <3>3. Acknowledge(s, p.ack) = [s EXCEPT !.send_window = s.send_window,
                                            !.send_seq = s.send_seq]
      BY ZenonT(60), <2>2, <3>1, <3>2
    <3>. QED
      BY <3>3 DEF Socket
  <2>4. handle_packet_established(s, p, FALSE) = Ignore(s)
    BY <1>5, <2>3 DEF handle_packet_established
  <2>5. Ignore(s).sock = s /\ Ignore(s).reply = <<>>
    BY DEF Ignore, Result
  <2>. QED
    BY <2>4, <2>5 DEF Outcome
<1>. QED
  BY <1>3, <1>4, <1>5

LEMMA ClosingOutcome ==
    ASSUME NEW s \in Socket, s.send_window = <<>>, NEW p \in Segment
    PROVE  /\ s.state = "FIN_WAIT_1" => Outcome(s, p, handle_packet_fin_wait_1(s, p))
           /\ s.state = "FIN_WAIT_2" => Outcome(s, p, handle_packet_fin_wait_2(s, p))
           /\ s.state = "CLOSING" => Outcome(s, p, handle_packet_closing(s, p))
           /\ s.state = "LAST_ACK" => Outcome(s, p, handle_packet_last_ack(s, p))
<1>1. ASSUME NEW r, NEW states, GoodResult(r, states), AfterClose(s, p, r),
             states \intersect {"SYN_SENT", "SYN_RECEIVED", "ESTABLISHED"} = {},
             r.sock.state = "FIN_WAIT_2" =>
                s.state = "FIN_WAIT_2" \/ ("ACK" \in p.flags /\ "FIN" \notin p.flags
                                            /\ p.ack # s.send_seq)
      PROVE  Outcome(s, p, r)
  BY <1>1 DEF GoodResult, AfterClose, Outcome, Leaves, Acknowledgement
<1>2. CASE s.state = "FIN_WAIT_1"
  <2>. DEFINE r == handle_packet_fin_wait_1(s, p)
              states == {"FIN_WAIT_1", "FIN_WAIT_2", "CLOSING", "TIME_WAIT"}
  <2>1. GoodResult(r, states) /\ AfterClose(s, p, r)
    BY <1>2, ClosingStates
  <2>2. p.ack \in Int /\ s.send_seq \in Int
    BY DEF Segment, Socket
  <2>3. r.sock.state = "FIN_WAIT_2" =>
                "ACK" \in p.flags /\ "FIN" \notin p.flags /\ p.ack # s.send_seq
    <3>1. CASE "FIN" \in p.flags
      <4>. DEFINE u == [s EXCEPT !.recv_seq = p.seq + 1]
                  state == IF AcksFin(s, p) THEN "TIME_WAIT" ELSE "CLOSING"
      <4>1. r.sock = [u EXCEPT !.state = state]
        BY <3>1 DEF handle_packet_fin_wait_1, Goto, Result
      <4>2. u \in Socket
        BY DEF Segment, Socket
      <4>3. state # "FIN_WAIT_2"
        OBVIOUS
      <4>. HIDE DEF u, state
      <4>4. r.sock.state = state
        BY <4>1, <4>2 DEF Socket
      <4>. QED
        BY <4>3, <4>4
    <3>2. CASE "FIN" \notin p.flags /\ AcksFin(s, p)
      BY <2>2, <3>2 DEF AcksFin
    <3>3. CASE "FIN" \notin p.flags /\ ~AcksFin(s, p)
      BY <1>2, <3>3 DEF handle_packet_fin_wait_1, Ignore, Result
    <3>. QED
      BY <3>1, <3>2, <3>3
  <2>4. states \intersect {"SYN_SENT", "SYN_RECEIVED", "ESTABLISHED"} = {}
    OBVIOUS
  <2>. HIDE DEF r, states
  <2>5. Outcome(s, p, r)
    BY <1>1, <2>1, <2>3, <2>4
  <2>. QED
    BY <1>2, <2>5 DEF r
<1>3. CASE s.state = "FIN_WAIT_2"
  BY <1>1, <1>3, ClosingStates
<1>4. CASE s.state = "CLOSING"
  <2>1. GoodResult(handle_packet_closing(s, p), {"CLOSING", "TIME_WAIT"})
    BY <1>4, ClosingStates
  <2>2. handle_packet_closing(s, p).sock.state # "FIN_WAIT_2"
    BY <2>1 DEF GoodResult
  <2>. QED
    BY <1>1, <1>4, <2>1, <2>2, ClosingStates
<1>5. CASE s.state = "LAST_ACK"
  <2>1. GoodResult(handle_packet_last_ack(s, p), {"LAST_ACK", "CLOSED"})
    BY <1>5, ClosingStates
  <2>2. handle_packet_last_ack(s, p).sock.state # "FIN_WAIT_2"
    BY <2>1 DEF GoodResult
  <2>. QED
    BY <1>1, <1>5, <2>1, <2>2, ClosingStates
<1>. QED
  BY <1>2, <1>3, <1>4, <1>5


\* The segment v moves a connection that is not opening, or leaves it alone.
LEMMA ConnectedOutcome ==
    ASSUME Handshakes, NEW m \in Ip, NEW r \in Row, HandleConnected(m, r)
    PROVE  /\ r \in Used(m) /\ net[m] # <<>> /\ table[m][r].id = ConnectionId(First(m))
           /\ ~BoundOnly(table[m][r].id) /\ First(m).segment \in Segment
           /\ \E result : /\ Outcome(table[m][r].sock, First(m).segment, result)
                          /\ table' = PutRow(table, m, r, WithSock(table[m][r], result.sock))
                          /\ net' = Send(Popped(m), table[m][r].id, First(m).src, result.reply)
<1>. DEFINE e == table[m][r]
            p == First(m).segment
            result == CASE e.sock.state = "ESTABLISHED" ->
                                handle_packet_established(e.sock, p, FALSE)
                        [] e.sock.state = "FIN_WAIT_1" -> handle_packet_fin_wait_1(e.sock, p)
                        [] e.sock.state = "FIN_WAIT_2" -> handle_packet_fin_wait_2(e.sock, p)
                        [] e.sock.state = "CLOSING" -> handle_packet_closing(e.sock, p)
                        [] e.sock.state = "LAST_ACK" -> handle_packet_last_ack(e.sock, p)
            old == {"ESTABLISHED", "FIN_WAIT_1", "FIN_WAIT_2", "CLOSING", "LAST_ACK"}
<1>1. /\ ForConnection(m, r, old)
      /\ table' = [table EXCEPT ![m][r].sock = result.sock]
      /\ net' = Send(Popped(m), e.id, First(m).src, result.reply)
  BY DEF HandleConnected
<1>2. Typed
  BY DEF Handshakes
<1>3. /\ r \in Used(m) /\ e.sock \in Socket /\ e.sock.state \in old /\ ~BoundOnly(e.id)
      /\ p \in Segment /\ e.id = ConnectionId(First(m)) /\ net[m] # <<>>
  <2>. HIDE DEF old
  <2>. QED
    BY <1>1, <1>2, ConnectionRow
<1>4. e.sock.send_window = <<>> /\ p.data = <<>>
  <2>1. e # Free /\ PlainRow(e)
    BY <1>3, Parts, UsedRow
  <2>. QED
    BY <1>3, <2>1, PoppedQueue DEF PlainRow
<1>5. Outcome(e.sock, p, result)
  <2>1. CASE e.sock.state = "ESTABLISHED"
    <3>1. result = handle_packet_established(e.sock, p, FALSE)
      BY <2>1
    <3>. HIDE DEF result, e, p
    <3>. QED
      BY <1>3, <1>4, <3>1, EstablishedOutcome
  <2>2. CASE e.sock.state = "FIN_WAIT_1"
    <3>1. result = handle_packet_fin_wait_1(e.sock, p)
      BY <2>2
    <3>. HIDE DEF result, e, p
    <3>. QED
      BY <1>3, <1>4, <2>2, <3>1, ClosingOutcome
  <2>3. CASE e.sock.state = "FIN_WAIT_2"
    <3>1. result = handle_packet_fin_wait_2(e.sock, p)
      BY <2>3
    <3>. HIDE DEF result, e, p
    <3>. QED
      BY <1>3, <1>4, <2>3, <3>1, ClosingOutcome
  <2>4. CASE e.sock.state = "CLOSING"
    <3>1. result = handle_packet_closing(e.sock, p)
      BY <2>4
    <3>. HIDE DEF result, e, p
    <3>. QED
      BY <1>3, <1>4, <2>4, <3>1, ClosingOutcome
  <2>5. CASE e.sock.state = "LAST_ACK"
    <3>1. result = handle_packet_last_ack(e.sock, p)
      BY <2>5
    <3>. HIDE DEF result, e, p
    <3>. QED
      BY <1>3, <1>4, <2>5, <3>1, ClosingOutcome
  <2>. QED
    BY <1>3, <2>1, <2>2, <2>3, <2>4, <2>5
<1>. HIDE DEF result
<1>6. table' = PutRow(table, m, r, WithSock(e, result.sock))
  <2>. DEFINE t == result.sock
  <2>1. table' = [table EXCEPT ![m][r].sock = t] /\ r \in Used(m)
    BY <1>1, <1>3
  <2>. HIDE DEF t
  <2>2. table' = PutRow(table, m, r, WithSock(table[m][r], t))
    BY ZenonT(60), <1>2, <2>1, SetSocket
  <2>. QED
    BY <2>2 DEF t
<1>. QED
  BY <1>1, <1>3, <1>5, <1>6

LEMMA ConnectedHandshakes ==
    ASSUME Handshakes, Typed', Remember, NEW m \in Ip, NEW r \in Row, HandleConnected(m, r)
    PROVE  Handshakes'
<1>. DEFINE e == table[m][r]
            v == First(m)
            Q == InFlight(net[m])
            w == Tail(net[m])
<1>1. /\ r \in Used(m) /\ net[m] # <<>> /\ e.id = ConnectionId(v) /\ ~BoundOnly(e.id)
      /\ v.segment \in Segment
  BY ConnectedOutcome
<1>2. PICK result : /\ Outcome(e.sock, v.segment, result)
                    /\ table' = PutRow(table, m, r, WithSock(e, result.sock))
                    /\ net' = Send(Popped(m), e.id, v.src, result.reply)
  BY ConnectedOutcome
<1>3. /\ Popped(m)[m] = w /\ (\A n \in Ip : n # m => Popped(m)[n] = net[n])
      /\ Popped(m) \in [Ip -> Seq(Envelope)]
      /\ v \in Envelope /\ v \in Q /\ v.src.ip = m
  BY <1>1, PoppedQueue
<1>4. Typed
  BY DEF Handshakes
<1>5. CASE result.sock = e.sock /\ result.reply = <<>>
  <2>1. net' = Popped(m)
    BY <1>2, <1>3, <1>5, SendNothing
  <2>2. UNCHANGED table
    BY <1>1, <1>2, <1>4, <1>5, SameSocket
  <2>. QED
    BY <1>1, <2>1, <2>2, PopHandshakes
<1>6. CASE /\ Leaves(e.sock, v.segment, result.sock)
           /\ result.reply = <<>> \/ result.reply = <<Acknowledgement(result.sock)>>
  <2>. DEFINE t == result.sock
              x == WithSock(e, t)
              T == [table[m] EXCEPT ![r] = x]
              p == Acknowledgement(t)
              u == Packet(e.id, v.src, p)
  <2>1. Leaves(e.sock, v.segment, t) /\ t \in Socket /\ t.send_window = <<>>
    BY <1>6 DEF Leaves
  <2>. HIDE DEF t
  <2>2. /\ x \in Entry /\ PlainRow(x) /\ x.id = e.id /\ x.sock = t
        /\ e \in Entry /\ e.id.src.ip = m /\ e.id \in Id
        /\ r \in Row /\ table[m] \in Rows /\ net[m] \in Seq(Envelope)
        /\ Good(m, table[m], net[m], repeated)
    BY <1>1, <2>1, PlainSocket
  <2>. HIDE DEF x
  <2>3. /\ x # Free /\ ~BoundOnly(x.id)
        /\ IsConnection(x, repeated) => IsConnection(e, repeated)
    BY <1>1, <2>2, NetworkAssumption DEF IsConnection, Entry
  <2>4. e.id.src = v.dst /\ e.id.dst = v.src
    BY <1>1 DEF ConnectionId
  <2>5. Fades(e, x, Q)
    <3>1. SameSide(e, x) /\ ~Active(x)
      BY <2>1, <2>2 DEF Leaves, SameSide, Active, Synced, Asks, Replies, Runs
    <3>2. Got(e, v)
      BY <2>4 DEF Got
    <3>. QED
      BY <1>3, <2>1, <2>2, <3>1, <3>2 DEF Leaves, Fades, Has
  <2>6. T \in Rows /\ Good(m, T, net[m], repeated)
    BY <2>2, <2>3, <2>5, GoodFade
  <2>7. Good(m, T, w, repeated) /\ w \in Seq(Envelope)
    <3>. HIDE DEF T
    <3>. QED
      BY <1>1, <2>2, <2>6, GoodPop, QueueTail
  <2>8. /\ Good(m, T, net'[m], repeated)
        /\ \A n \in Ip : n # m => net'[n] = net[n]
    <3>1. CASE net' = Popped(m)
      BY <1>3, <2>7, <3>1
    <3>2. CASE u \in Envelope /\ Posted(Popped(m), net', m, u)
      <4>1. T[r] = x
        BY <2>2 DEF Rows
      <4>2. Sends(x, u)
        BY <2>1, <2>2, <2>4 DEF Sends, Sent, Has, Packet, Acknowledgement, construct_packet,
              Leaves, Asks
      <4>3. u.src.ip = m /\ u.segment.data = <<>>
        BY <2>2 DEF Packet, Acknowledgement, construct_packet
      <4>4. net'[m] = Append(w, u) /\ \A n \in Ip : n # m => net'[n] = net[n]
        BY <1>3, <3>2 DEF Posted
      <4>. HIDE DEF T, u, w
      <4>5. Good(m, T, Append(w, u), repeated)
        BY <2>2, <2>3, <2>6, <2>7, <3>2, <4>1, <4>2, <4>3, GoodSent
      <4>. QED
        BY <4>4, <4>5
    <3>3. CASE result.reply = <<>>
      BY <1>2, <1>3, <3>1, <3>3, SendNothing
    <3>4. CASE result.reply = <<p>>
      <4>1. {"ACK"} \in SUBSET Flag /\ p \in Segment
        BY <2>1, SegmentTypes DEF Flag, Acknowledgement
      <4>2. net' = Send(Popped(m), e.id, v.src, <<p>>)
        BY <1>2, <3>4
      <4>3. v.src \in Addr \union {NoAddr}
        BY <1>3 DEF Envelope
      <4>. HIDE DEF p, v, e
      <4>4. \/ Send(Popped(m), e.id, v.src, <<p>>) = Popped(m)
            \/ /\ Packet(e.id, v.src, p) \in Envelope
               /\ Posted(Popped(m), Send(Popped(m), e.id, v.src, <<p>>), m,
                         Packet(e.id, v.src, p))
        BY <1>3, <2>2, <4>1, <4>3, SendHere
      <4>. QED
        BY <3>1, <3>2, <4>2, <4>4
    <3>. QED
      BY <1>6, <3>3, <3>4 DEF t
  <2>9. table' = PutRow(table, m, r, x)
    BY <1>2 DEF x, t
  <2>. QED
    BY <2>2, <2>8, <2>9, RowStep
<1>. QED
  BY <1>2, <1>5, <1>6 DEF Outcome


\* An answer to its SYN establishes a socket in SYN_SENT.
LEMMA SynSentHandshakes ==
    ASSUME Handshakes, Typed', Remember, NEW m \in Ip, NEW r \in Row, HandleSynSent(m, r)
    PROVE  Handshakes'
<1>. DEFINE e == table[m][r]
            p == First(m).segment
            told == Creatable(EndFifos(e.id)) /\ Connectors(BoundId(e.id.src)) # {}
            t == handle_packet_syn_sent(e.sock, p, told).sock
            x == WithSock(e, t)
<1>1. /\ ForConnection(m, r, {"SYN_SENT"}) /\ net' = Popped(m)
      /\ table' = [table EXCEPT ![m][r].sock = t]
  BY DEF HandleSynSent
<1>2. Typed
  BY DEF Handshakes
<1>3. /\ r \in Used(m) /\ e.sock \in Socket /\ e.sock.state = "SYN_SENT" /\ ~BoundOnly(e.id)
      /\ p \in Segment /\ e.id = ConnectionId(First(m)) /\ net[m] # <<>>
  BY <1>1, <1>2, ConnectionRow
<1>4. t = e.sock \/ ( /\ Has(First(m), "SYN") /\ Has(First(m), "ACK")
                      /\ p.ack = e.sock.send_seq
                      /\ t \in Socket /\ t.state = "ESTABLISHED" /\ t.recv_seq = p.seq + 1
                      /\ t.send_seq = e.sock.send_seq
                      /\ t.send_window = e.sock.send_window )
  <2>1. p.seq + 1 \in Int /\ "ESTABLISHED" \in TCPState
    BY <1>3 DEF Segment, TCPState
  <2>. HIDE DEF told, e
  <2>. QED
    BY <1>3, <2>1 DEF handle_packet_syn_sent, Goto, Ignore, Result, Socket, Has
<1>. HIDE DEF t
<1>5. table' = PutRow(table, m, r, x)
  BY ZenonT(60), <1>1, <1>2, <1>3, SetSocket
<1>6. CASE t = e.sock
  <2>1. UNCHANGED table
    BY <1>2, <1>3, <1>5, <1>6, SameSocket
  <2>. QED
    BY <1>1, <1>3, <2>1, PopHandshakes
<1>7. CASE /\ Has(First(m), "SYN") /\ Has(First(m), "ACK") /\ p.ack = e.sock.send_seq
           /\ t \in Socket /\ t.state = "ESTABLISHED" /\ t.recv_seq = p.seq + 1
           /\ t.send_seq = e.sock.send_seq
           /\ t.send_window = e.sock.send_window
  <2>1. t.send_window = <<>>
    <3>1. e # Free /\ PlainRow(e)
      BY <1>3, Parts, UsedRow DEF Used
    <3>. QED
      BY <1>7, <3>1 DEF PlainRow
  <2>2. /\ x \in Entry /\ PlainRow(x) /\ x.id = e.id /\ x.sock = t
        /\ e \in Entry
        /\ r \in Row /\ table[m] \in Rows /\ net[m] \in Seq(Envelope)
        /\ Good(m, table[m], net[m], repeated)
    BY <1>3, <1>7, <2>1, PlainSocket
  <2>. HIDE DEF x
  <2>3. e # Free
    BY <2>2, NetworkAssumption DEF Entry
  <2>4. Got(e, First(m))
    BY <1>3 DEF Got, ConnectionId
  <2>5. Connects(e, x, First(m))
    BY <1>3, <1>7, <2>2, <2>4 DEF Connects, SameSide, Asks, Runs, Answers
  <2>6. First(m) = Head(net[m])
    BY DEF First
  <2>7. Good(m, [table[m] EXCEPT ![r] = x], Tail(net[m]), repeated)
    BY <1>3, <2>2, <2>3, <2>5, <2>6, GoodConnect
  <2>8. Good(m, [table[m] EXCEPT ![r] = x], net'[m], repeated) /\ \A n \in Ip : n # m => net'[n] = net[n]
    BY <1>1, <1>3, <2>7, PoppedQueue
  <2>. QED
    BY <1>5, <2>2, <2>8, RowStep
<1>. QED
  BY <1>4, <1>6, <1>7

\* The acknowledgement of its SYN/ACK establishes a socket in SYN_RECEIVED.
LEMMA SynReceivedHandshakes ==
    ASSUME Handshakes, Typed', Remember, NEW m \in Ip, NEW r \in Row, HandleSynReceived(m, r)
    PROVE  Handshakes'
<1>. DEFINE e == table[m][r]
            p == First(m).segment
            told == {a \in App : call[a].op = "accept" /\ call[a].id = BoundId(e.id.src)
                                 /\ <<"accept", BoundId(e.id.src)>> \in fifos} # {}
            t == handle_packet_syn_received(e.sock, p, told).sock
            x == WithSock(e, t)
<1>1. /\ ForConnection(m, r, {"SYN_RECEIVED"}) /\ net' = Popped(m)
      /\ table' = [table EXCEPT ![m][r].sock = t]
  BY DEF HandleSynReceived
<1>2. Typed
  BY DEF Handshakes
<1>3. /\ r \in Used(m) /\ e.sock \in Socket /\ e.sock.state = "SYN_RECEIVED"
      /\ ~BoundOnly(e.id)
      /\ p \in Segment /\ e.id = ConnectionId(First(m)) /\ net[m] # <<>>
  BY <1>1, <1>2, ConnectionRow
<1>4. t = e.sock \/ ( /\ Has(First(m), "ACK") /\ p.ack = e.sock.send_seq
                      /\ t \in Socket /\ t.state = "ESTABLISHED"
                      /\ t.recv_seq = e.sock.recv_seq
                      /\ t.send_seq = e.sock.send_seq
                      /\ t.send_window = e.sock.send_window )
  <2>1. "ESTABLISHED" \in TCPState
    BY DEF TCPState
  <2>. HIDE DEF told, e
  <2>. QED
    BY <1>3, <2>1 DEF handle_packet_syn_received, Goto, Ignore, Result, Socket, Has
<1>. HIDE DEF t
<1>5. table' = PutRow(table, m, r, x)
  BY ZenonT(60), <1>1, <1>2, <1>3, SetSocket
<1>6. CASE t = e.sock
  <2>1. UNCHANGED table
    BY <1>2, <1>3, <1>5, <1>6, SameSocket
  <2>. QED
    BY <1>1, <1>3, <2>1, PopHandshakes
<1>7. CASE /\ Has(First(m), "ACK") /\ p.ack = e.sock.send_seq
           /\ t \in Socket /\ t.state = "ESTABLISHED" /\ t.recv_seq = e.sock.recv_seq
           /\ t.send_seq = e.sock.send_seq
           /\ t.send_window = e.sock.send_window
  <2>1. t.send_window = <<>>
    <3>1. e # Free /\ PlainRow(e)
      BY <1>3, Parts, UsedRow DEF Used
    <3>. QED
      BY <1>7, <3>1 DEF PlainRow
  <2>2. /\ x \in Entry /\ PlainRow(x) /\ x.id = e.id /\ x.sock = t
        /\ e \in Entry
        /\ r \in Row /\ table[m] \in Rows /\ net[m] \in Seq(Envelope)
        /\ Good(m, table[m], net[m], repeated)
    BY <1>3, <1>7, <2>1, PlainSocket
  <2>. HIDE DEF x
  <2>3. e # Free
    BY <2>2, NetworkAssumption DEF Entry
  <2>4. Answered(e, InFlight(net[m]))
    <3>1. Answers(e, First(m))
      BY <1>3, <1>7 DEF Answers, Got, ConnectionId
    <3>. QED
      BY <1>3, <3>1, PoppedQueue DEF Answered
  <2>5. Accepts(e, x, InFlight(net[m]))
    BY <1>3, <1>7, <2>2, <2>4 DEF Accepts, SameSide, Replies, Runs
  <2>. DEFINE T == [table[m] EXCEPT ![r] = x]
  <2>6. T \in Rows /\ Good(m, T, net[m], repeated)
    BY <2>2, <2>3, <2>5, GoodAccept
  <2>7. Good(m, T, Tail(net[m]), repeated)
    <3>. HIDE DEF T
    <3>. QED
      BY <1>3, <2>2, <2>6, GoodPop
  <2>8. Good(m, T, net'[m], repeated) /\ \A n \in Ip : n # m => net'[n] = net[n]
    BY <1>1, <1>3, <2>7, PoppedQueue
  <2>. QED
    BY <1>5, <2>2, <2>8, RowStep
<1>. QED
  BY <1>4, <1>6, <1>7


----------------------------------------------------------------------------
(* New sockets.                                                            *)

\* The number of a new socket belongs to nobody else, unless it was repeated.
LEMMA DrawnIsFresh ==
    ASSUME Handshakes, Remember, NEW m \in Ip, NEW q \in Row, NEW x \in Entry, table'[m][q] = x,
           ~BoundOnly(x.id), x.id.src.ip = m, ~Present(m, x.id), Between(x.id) \notin repeated'
    PROVE  Fresh(x, table[m], net[m])
<1>1. x \in AllSockets'
  BY NetworkAssumption DEF AllSockets, Sockets, Used, Entry
<1>2. ASSUME NEW d \in AllSockets PROVE d.id # x.id
  <2>1. PICK n \in Ip : \E r \in Used(n) : d = table[n][r]
    BY DEF AllSockets, Sockets
  <2>2. CASE n = m
    BY <2>1, <2>2 DEF Present, RowsOf, Used
  <2>3. CASE n # m
    BY <2>1, <2>3, Parts
  <2>. QED
    BY <2>2, <2>3
<1>3. x \in Drawn /\ table' # table
  <2>1. x \in Drawn
    BY <1>1, <1>2 DEF Drawn
  <2>2. x \notin AllSockets
    BY <1>2
  <2>. QED
    BY <1>1, <2>1, <2>2 DEF AllSockets, Sockets, Used
<1>4. ~IsRepeat(x)
  BY <1>1, <1>3 DEF Remember
<1>5. NewNumber(x, InFlight(net[m]))
  BY <1>4 DEF IsRepeat, NewNumber
<1>6. ASSUME NEW s \in Row, table[m][s] # Free PROVE Unrelated(x, table[m][s])
  <2>1. table[m][s] \in AllSockets
    BY <1>6 DEF AllSockets, Sockets, Used
  <2>. QED
    BY <1>4, <2>1 DEF IsRepeat, Unrelated
<1>. QED
  BY <1>5, <1>6 DEF Fresh

LEMMA FreshBeside ==
    ASSUME NEW x, NEW t \in Rows, NEW q, Fresh(x, t, q), NEW r \in Row, NEW y,
           y # Free => Unrelated(x, y)
    PROVE  Fresh(x, [t EXCEPT ![r] = y], q)
BY DEF Fresh, Rows

\* A row changes, and then another one.
LEMMA TwoRowsStep ==
    ASSUME Handshakes, Typed', Remember, NEW m \in Ip, NEW r \in Row, NEW x, NEW q \in Row, NEW y,
           table' = PutRow(PutRow(table, m, r, x), m, q, y),
           NEW t, t = [table[m] EXCEPT ![r] = x],
           \A n \in Ip : n # m => net'[n] = net[n],
           Good(m, [t EXCEPT ![q] = y], net'[m], repeated \union repeated')
    PROVE  Handshakes'
<1>1. table \in [Ip -> [Row -> Entry \union {Free}]]
  BY DEF Handshakes, Typed, TableOK
<1>2. table'[m] = [t EXCEPT ![q] = y] /\ \A n \in Ip : n # m => table'[n] = table[n]
  BY <1>1 DEF PutRow
<1>. QED
  BY <1>2, StepOfWith

\* The bound socket of a program gives way to one in SYN_SENT.
LEMMA ConnectRequestHandshakes ==
    ASSUME Handshakes, Typed', Remember, Local, NEW a \in App, HandleConnectRequest(a)
    PROVE  Handshakes'
<1>. DEFINE m == Home[a].ip
            b == BoundId(Home[a])
            c == [src |-> Home[a], dst |-> Target[a]]
<1>1. /\ m \in Ip /\ c \in Id /\ ~BoundOnly(c) /\ c.src.ip = m /\ net' = net
      /\ \E r \in Used(m) :
           \/ UNCHANGED table
           \/ /\ ~Present(m, c)
              /\ \E q \in Row : \E s \in Socket :
                    /\ s.state = "SYN_SENT"
                    /\ s.recv_seq = 0
                    /\ s.send_window = table[m][r].sock.send_window
                    /\ table' = PutRow(PutRow(table, m, r, Free), m, q, [id |-> c, sock |-> s])
  <2>1. Typed
    BY DEF Handshakes
  <2>2. m \in Ip /\ c \in Id /\ ~BoundOnly(c) /\ net' = net
    BY ZenonT(60), <2>1, HandleConnectRequestEffect
  <2>3. c.src.ip = m
    OBVIOUS
  <2>4. PICK r \in Used(m) :
            \/ UNCHANGED table
            \/ /\ ~Present(m, c)
               /\ \E q \in Row : \E s \in Socket :
                    /\ s.state = "SYN_SENT"
                    /\ s.recv_seq = 0
                    /\ s.send_window = table[m][r].sock.send_window
                    /\ q = r \/ table[m][q] = Free
                    /\ table' = PutRow(PutRow(table, m, r, Free), m, q, [id |-> c, sock |-> s])
    BY ZenonT(60), <2>1, HandleConnectRequestEffect
  <2>. HIDE DEF m, b, c
  <2>. QED
    BY <2>2, <2>3, <2>4
<1>2. c.src = Home[a] /\ c.dst = Target[a] /\ (c.dst # NoAddr => c.dst.ip = c.src.ip)
  BY DEF Local
<1>. HIDE DEF m, b, c
<1>3. CASE UNCHANGED table
  BY <1>1, <1>3, StepOfNobody
<1>4. ASSUME NEW r \in Used(m), ~Present(m, c), NEW q \in Row, NEW s \in Socket,
             s.state = "SYN_SENT", s.recv_seq = 0,
             s.send_window = table[m][r].sock.send_window,
             table' = PutRow(PutRow(table, m, r, Free), m, q, [id |-> c, sock |-> s])
      PROVE  Handshakes'
  <2>. DEFINE t == [table[m] EXCEPT ![r] = Free]
              x == [id |-> c, sock |-> s]
              H == repeated \union repeated'
  <2>1. /\ table[m] \in Rows /\ net[m] \in Seq(Envelope) /\ Good(m, table[m], net[m], repeated)
        /\ r \in Row /\ table[m][r] # Free /\ PlainRow(table[m][r])
    BY <1>1, <1>4, Parts DEF Used
  <2>2. s.send_window = <<>>
    BY <1>4, <2>1 DEF PlainRow
  <2>3. x \in Entry /\ x.id = c /\ x.sock = s
    BY <1>1, RecordTypes
  <2>. HIDE DEF x
  <2>4. PlainRow(x) /\ Asks(x) /\ x.sock.recv_seq = 0
    BY <1>2, <1>4, <2>2, <2>3 DEF PlainRow, StaysLocal, Asks
  <2>5. t \in Rows /\ Good(m, t, net[m], H)
    <3>1. t \in Rows /\ Good(m, t, net[m], repeated)
      BY <2>1, GoodFade DEF PlainRow, IsConnection
    <3>. HIDE DEF t
    <3>. QED
      BY <3>1, GoodOfFewer DEF IsConnection
  <2>6. IsConnection(x, H) => Fresh(x, t, net[m])
    <3>1. table'[m][q] = x
      BY <1>1, <1>4, <2>1 DEF PutRow, Handshakes, Typed, TableOK, x
    <3>2. IsConnection(x, H) => Fresh(x, table[m], net[m])
      BY <1>1, <1>4, <2>3, <3>1, DrawnIsFresh DEF IsConnection
    <3>. QED
      BY <2>1, <3>2, FreshBeside
  <2>7. \A k \in Row : t[k] # Free => t[k].id # x.id
    BY <1>4, <2>1, <2>3 DEF Present, RowsOf, Used, Rows
  <2>8. t = [table[m] EXCEPT ![r] = Free]
    OBVIOUS
  <2>. HIDE DEF t
  <2>9. Good(m, [t EXCEPT ![q] = x], net[m], H)
    BY <1>4, <2>1, <2>3, <2>4, <2>5, <2>6, <2>7, GoodAsk
  <2>10. table' = PutRow(PutRow(table, m, r, Free), m, q, x)
    BY <1>4 DEF x
  <2>11. Good(m, [t EXCEPT ![q] = x], net'[m], H) /\ \A n \in Ip : n # m => net'[n] = net[n]
    BY <1>1, <2>9
  <2>. QED
    BY <1>1, <1>4, <2>1, <2>8, <2>10, <2>11, TwoRowsStep
<1>. QED
  BY <1>1, <1>3, <1>4

\* A listener takes a SYN: a connection in SYN_RECEIVED takes a free row.
LEMMA PacketListenHandshakes ==
    ASSUME Handshakes, Typed', Remember, NEW m \in Ip, handle_packet_listen(m)
    PROVE  Handshakes'
<1>. DEFINE c == SynId(m)
            v == First(m)
<1>1. Typed /\ NetLocal(net)
  BY Parts DEF Handshakes
<1>2. net[m] # <<>> /\ net' = Popped(m) /\ Has(v, "SYN")
  BY DEF handle_packet_listen, HasPacket, Has
<1>3. /\ c \in Id /\ ~BoundOnly(c) /\ c.src.ip = m /\ c.dst.ip = m /\ ~Present(m, c)
      /\ UNCHANGED table \/ Opens(m, c)
  BY <1>1, ListenEffect
<1>4. CASE UNCHANGED table
  BY <1>2, <1>4, PopHandshakes
<1>5. CASE Opens(m, c)
  <2>1. PICK r \in Used(m), q \in Row, u \in Socket, s \in Socket :
            /\ table[m][r].sock.state = "LISTEN" /\ table[m][r].id = BoundId(c.src)
            /\ table[m][q] = Free
            /\ u.send_window = table[m][r].sock.send_window
            /\ s.state = "SYN_RECEIVED" /\ s.recv_seq = v.segment.seq + 1
            /\ s.send_window = <<>>
            /\ table' = PutRow(PutRow(table, m, r, WithSock(table[m][r], u)),
                               m, q, [id |-> c, sock |-> s])
    BY <1>5 DEF Opens
  <2>. DEFINE y == WithSock(table[m][r], u)
              t == [table[m] EXCEPT ![r] = y]
              x == [id |-> c, sock |-> s]
              H == repeated \union repeated'
  <2>2. /\ table[m] \in Rows /\ net[m] \in Seq(Envelope) /\ Good(m, table[m], net[m], repeated)
        /\ r \in Row /\ table[m][r] # Free /\ PlainRow(table[m][r])
    BY Parts DEF Used
  <2>3. u.send_window = <<>>
    BY <2>1, <2>2 DEF PlainRow
  <2>4. y \in Entry /\ PlainRow(y) /\ y.id = BoundId(c.src)
    BY <2>1, <2>3, PlainSocket
  <2>. HIDE DEF y
  <2>5. ~IsConnection(y, repeated)
    BY <2>4 DEF IsConnection, BoundOnly, BoundId
  <2>6. t \in Rows /\ Good(m, t, net[m], H)
    <3>1. t \in Rows /\ Good(m, t, net[m], repeated)
      BY <2>2, <2>4, <2>5, GoodFade
    <3>. HIDE DEF t
    <3>. QED
      BY <3>1, GoodOfFewer DEF IsConnection
  <2>7. x \in Entry /\ x.id = c /\ x.sock = s
    BY <1>3, RecordTypes
  <2>8. c.src = v.dst /\ c.dst = v.src
    <3>1. v \in Envelope /\ v.src.ip = m
      BY <1>2, PoppedQueue
    <3>2. v.src = [ip |-> m, port |-> v.src.port]
      BY <3>1 DEF Envelope, Addr
    <3>. QED
      BY <3>2 DEF SynId
  <2>9. c # BoundId(c.src)
    BY <1>3 DEF BoundOnly, BoundId
  <2>. HIDE DEF x, c, v
  <2>10. /\ PlainRow(x) /\ Replies(x) /\ x.sock.recv_seq = v.segment.seq + 1
         /\ Got(x, v)
    BY <1>3, <2>1, <2>7, <2>8 DEF PlainRow, StaysLocal, Replies, Got
  <2>11. IsConnection(x, H) => Fresh(x, t, net[m])
    <3>1. table'[m][q] = x
      BY <2>1, <2>2 DEF PutRow, Handshakes, Typed, TableOK, x
    <3>2. IsConnection(x, H) => Fresh(x, table[m], net[m])
      BY <1>3, <2>7, <3>1, DrawnIsFresh DEF IsConnection
    <3>3. Unrelated(x, y)
      <4>1. y.id.dst = NoAddr /\ x.id.src \in Addr
        BY <2>4, <2>7, RecordTypes DEF BoundId, Entry
      <4>. QED
        BY <4>1, NetworkAssumption DEF Unrelated, Mates
    <3>. QED
      BY <2>2, <3>2, <3>3, FreshBeside
  <2>12. \A k \in Row : t[k] # Free => t[k].id # x.id
    BY <1>3, <2>2, <2>4, <2>7, <2>9 DEF Present, RowsOf, Used, Rows
  <2>13. t = [table[m] EXCEPT ![r] = y]
    OBVIOUS
  <2>. HIDE DEF t
  <2>14. v = Head(net[m])
    BY DEF v, First
  <2>15. Good(m, [t EXCEPT ![q] = x], Tail(net[m]), H)
    BY <1>2, <2>2, <2>6, <2>7, <2>10, <2>11, <2>12, <2>14, GoodReply
  <2>16. Good(m, [t EXCEPT ![q] = x], net'[m], H) /\ \A n \in Ip : n # m => net'[n] = net[n]
    BY <1>2, <2>15, PoppedQueue
  <2>17. table' = PutRow(PutRow(table, m, r, y), m, q, x)
    BY <2>1 DEF x, y
  <2>. QED
    BY <2>2, <2>13, <2>16, <2>17, TwoRowsStep
<1>. QED
  BY <1>3, <1>4, <1>5


----------------------------------------------------------------------------
(* Bound sockets, and managers that stop and start.                        *)

\* A row gets a socket without a partner.
LEMMA BoundHandshakes ==
    ASSUME Handshakes, Typed', Remember, NEW m \in Ip, NEW r \in Row, NEW x \in Entry,
           BoundOnly(x.id), x.sock.send_window = <<>>,
           table' = PutRow(table, m, r, x), net' = net
    PROVE  Handshakes'
<1>1. PlainRow(x) /\ ~IsConnection(x, repeated)
  BY DEF PlainRow, StaysLocal, BoundOnly, IsConnection
<1>2. table[m] \in Rows /\ net[m] \in Seq(Envelope) /\ Good(m, table[m], net[m], repeated)
  BY Parts
<1>3. Good(m, [table[m] EXCEPT ![r] = x], net'[m], repeated)
  BY <1>1, <1>2, GoodFade
<1>. QED
  BY <1>3, RowStep

LEMMA EmptyManager ==
    ASSUME NEW m
    PROVE  Good(m, [r \in Row |-> Free], <<>>, repeated)
BY DEF Good, Connections, IsConnection, InFlight

LEMMA EmptiedHandshakes ==
    ASSUME Handshakes, Typed', Remember, NEW m \in Ip,
           table' = [table EXCEPT ![m] = [r \in Row |-> Free]],
           net' = [net EXCEPT ![m] = <<>>]
    PROVE  Handshakes'
<1>1. /\ table'[m] = [r \in Row |-> Free] /\ net'[m] = <<>>
      /\ \A n \in Ip : n # m => table'[n] = table[n] /\ net'[n] = net[n]
  BY DEF Handshakes, Typed, TableOK, NetType
<1>. QED
  BY <1>1, EmptyManager, StepOf

LEMMA BindHandshakes ==
    ASSUME Handshakes, Typed', Remember, NEW a \in App, SocketBind(a)
    PROVE  Handshakes'
<1>. DEFINE m == Home[a].ip
            b == BoundId(Home[a])
            s == NewSocket("CLOSED", 0, 0)
<1>1. /\ m \in Ip /\ b \in Id /\ BoundOnly(b)
      /\ \/ UNCHANGED <<table, net, fifos, mgr, call, held>>
         \/ NewRow(m, b, s) /\ net' = net
         \/ ManagerStops(m, EndFifos(b))
  <2>1. Typed
    BY DEF Handshakes
  <2>2. LET n == Home[a].ip
            c == BoundId(Home[a]) IN
        /\ n \in Ip /\ c \in Id /\ BoundOnly(c)
        /\ \/ UNCHANGED <<table, net, fifos, mgr, call, held>>
           \/ NewRow(n, c, NewSocket("CLOSED", 0, 0)) /\ net' = net
           \/ ManagerStops(n, EndFifos(c))
    BY <2>1, SocketBindEffect
  <2>. QED
    BY <2>2
<1>2. s \in Socket /\ s.send_window = <<>>
  <2>1. "CLOSED" \in TCPState
    BY DEF TCPState
  <2>2. s \in Socket
    BY <2>1, NewSocketType
  <2>. QED
    BY <2>2 DEF NewSocket
<1>. HIDE DEF m, b, s
<1>3. CASE UNCHANGED <<table, net, fifos, mgr, call, held>>
  BY <1>3, StepOfNobody
<1>4. CASE NewRow(m, b, s) /\ net' = net
  <2>. DEFINE x == [id |-> b, sock |-> s]
  <2>1. PICK r \in Row : table' = PutRow(table, m, r, x)
    BY <1>4 DEF NewRow
  <2>2. x \in Entry /\ x.id = b /\ x.sock = s
    BY <1>1, <1>2, RecordTypes
  <2>. HIDE DEF x
  <2>. QED
    BY <1>1, <1>2, <1>4, <2>1, <2>2, BoundHandshakes
<1>5. CASE ManagerStops(m, EndFifos(b))
  BY <1>1, <1>5, EmptiedHandshakes DEF ManagerStops, StopManager
<1>. QED
  BY <1>1, <1>3, <1>4, <1>5

LEMMA ListenCallHandshakes ==
    ASSUME Handshakes, Typed', Remember, NEW a \in App, NEW id \in held[a], SocketListen(a, id)
    PROVE  Handshakes'
<1>. DEFINE m == id.src.ip
            r == getSocket(m, id)
            old == table[m][r].sock
            s(state) == [old EXCEPT !.state = state, !.max_connections = Backlog[a]]
<1>1. /\ id \in Id /\ BoundOnly(id) /\ m \in Ip /\ Present(m, id) /\ net' = net
      /\ \/ table' = [table EXCEPT ![m][r].sock = s("LISTEN")]
         \/ table' = [table EXCEPT ![m][r].sock = s("CLOSED")]
         \/ table' = table
  BY RecordTypes DEF SocketListen, Handshakes, Typed, HeldOK
<1>2. r \in Used(m) /\ table[m][r].id = id
  BY <1>1, GetSocket
<1>3. old \in Socket /\ old.send_window = <<>> /\ r \in Row
  <2>1. Typed /\ table[m][r] # Free /\ PlainRow(table[m][r])
    BY <1>1, <1>2, Parts DEF Used
  <2>. QED
    BY <1>1, <1>2, <2>1, UsedRow DEF PlainRow
<1>4. Backlog[a] \in Int
  BY NetworkAssumption
<1>5. ASSUME NEW state \in {"LISTEN", "CLOSED"},
             table' = [table EXCEPT ![m][r].sock = s(state)]
      PROVE  Handshakes'
  <2>. DEFINE t == s(state)
              x == WithSock(table[m][r], t)
  <2>1. state \in TCPState
    BY DEF TCPState
  <2>2. t \in Socket /\ t.send_window = <<>>
    <3>. HIDE DEF old
    <3>. QED
      BY <1>3, <1>4, <2>1 DEF Socket
  <2>3. table' = [table EXCEPT ![m][r].sock = t] /\ Typed
    BY <1>5 DEF Handshakes
  <2>. HIDE DEF t, m, r
  <2>4. table' = PutRow(table, m, r, x)
    <3>1. [table EXCEPT ![m][r].sock = t] = PutRow(table, m, r, WithSock(table[m][r], t))
      <4>1. m \in Ip /\ r \in Used(m) /\ Typed
        BY <1>1, <1>2, <2>3
      <4>. HIDE DEF old, s, x
      <4>. QED
        BY ZenonT(60), <4>1, SetSocket
    <3>. QED
      BY <2>3, <3>1
  <2>5. x \in Entry /\ x.id = id /\ x.sock = t
    BY <1>1, <1>2, <2>2, PlainSocket
  <2>. HIDE DEF x
  <2>. QED
    BY <1>1, <1>3, <2>2, <2>4, <2>5, BoundHandshakes
<1>6. CASE table' = table
  BY <1>1, <1>6, StepOfNobody
<1>. HIDE DEF s
<1>. QED
  BY <1>1, <1>5, <1>6

LEMMA ManagerLifeHandshakes ==
    ASSUME Handshakes, Typed', Remember, NEW m \in Ip,
           \/ TerminateManager(m) \/ StartManager(m) \/ StartAfterCrash(m)
    PROVE  Handshakes'
<1>1. CASE TerminateManager(m)
  BY <1>1, EmptiedHandshakes DEF TerminateManager, StopManager
<1>2. CASE StartManager(m)
  BY <1>2, StepOfNobody DEF StartManager
<1>3. CASE StartAfterCrash(m)
  BY <1>3, EmptiedHandshakes DEF StartAfterCrash
<1>. QED
  BY <1>1, <1>2, <1>3

LEMMA ProgramHandshakes ==
    ASSUME Handshakes, Typed', Remember, NEW a \in App, ProgramStep(a) \/ HandleDroppedRequest(a)
    PROVE  Handshakes'
<1>1. UNCHANGED <<table, net>>
  BY DEF ProgramStep, HandleDroppedRequest, ConnectReturn, ConnectTimeout, AcceptReturn,
         AcceptTimeout, SocketConnect, SocketAccept, SocketClose, SocketDestroy
<1>. QED
  BY <1>1, StepOfNobody

----------------------------------------------------------------------------
(* Theorems.                                                               *)

LEMMA InitHandshakes == HInit => Handshakes
<1>. SUFFICES ASSUME HInit PROVE Handshakes
  OBVIOUS
<1>1. \A m \in Ip : table[m] = [r \in Row |-> Free] /\ net[m] = <<>>
  BY DEF HInit, Init
<1>. QED
  BY <1>1, InitTyped, EmptyManager DEF Handshakes, HInit

LEMMA NextHandshakes ==
    ASSUME Local, Handshakes, [HNext]_hvars
    PROVE  Handshakes'
<1>1. Typed'
  BY NextTyped DEF Handshakes, HNext, hvars
<1>2. CASE UNCHANGED hvars
  BY <1>1, <1>2 DEF hvars, vars, Handshakes
<1>3. ASSUME Remember, NEW a \in App,
             \/ SocketBind(a) \/ HandleConnectRequest(a)
             \/ HandleDroppedRequest(a) \/ ProgramStep(a)
             \/ \E id \in held[a] : SocketListen(a, id)
      PROVE  Handshakes'
  BY <1>1, <1>3, BindHandshakes, ConnectRequestHandshakes, ProgramHandshakes,
     ListenCallHandshakes
<1>4. ASSUME Remember, NEW m \in Ip,
             \/ IgnorePacket(m) \/ (\E r \in Row : ResendStep(m, r))
             \/ HandleReset(m)
             \/ (\E r \in Row : HandleSynReceived(m, r) \/ HandleConnected(m, r))
             \/ handle_packet_listen(m)
             \/ (\E r \in Row : \/ HandleSynSent(m, r) \/ HandleCloseCommand(m, r)
                                \/ HandleClosedSocket(m, r) \/ GiveUp(m, r)
                                \/ CloseWaitToLastAck(m, r) \/ TimeWaitToClosed(m, r))
             \/ TerminateManager(m) \/ StartManager(m) \/ StartAfterCrash(m)
      PROVE  Handshakes'
  BY <1>1, <1>4, IgnoreHandshakes, ResendHandshakes, ResetHandshakes, SynReceivedHandshakes,
     ConnectedHandshakes, PacketListenHandshakes, SynSentHandshakes, CloseCommandHandshakes,
     ClosedSocketHandshakes, TimerHandshakes, LastAckHandshakes, ManagerLifeHandshakes
<1>. QED
  BY <1>2, <1>3, <1>4, StepCases DEF HNext

LEMMA AlwaysHandshakes ==
    ASSUME Local
    PROVE  HSpec => []Handshakes
BY InitHandshakes, NextHandshakes, PTL DEF HSpec

\* Two sockets connected to each other are in one table, and what the
\* invariant says of a pair is what the properties ask.
LEMMA HandshakesMeaning == Handshakes => EstablishedInSync /\ NoHalfClose
<1>. SUFFICES ASSUME Handshakes,
                     NEW m \in Ip, NEW n \in Ip, NEW r \in Used(m), NEW s \in Used(n),
                     Proper(table[m][r], table[n][s])
              PROVE  LET d == table[m][r]
                         e == table[n][s] IN
                     d.sock.state = "ESTABLISHED" =>
                        /\ e.sock.state = "ESTABLISHED" => d.sock.recv_seq = e.sock.send_seq
                        /\ d.sock.recv_seq = e.sock.send_seq => e.sock.state # "FIN_WAIT_2"
  BY DEF EstablishedInSync, NoHalfClose, Established, AllSockets, Sockets
<1>. DEFINE d == table[m][r]
            e == table[n][s]
<1>1. /\ d \in Entry /\ e \in Entry /\ d.id \in Id /\ e.id \in Id
      /\ d.id.src.ip = m /\ e.id.src.ip = n /\ StaysLocal(d)
      /\ d # Free /\ e # Free /\ r \in Row /\ s \in Row
  BY Parts, UsedRow DEF PlainRow
<1>2. /\ Mates(d, e) /\ d.id.dst = e.id.src /\ e.id.dst = d.id.src
      /\ d.id.src \in Addr /\ e.id.src \in Addr
  BY <1>1, RecordTypes DEF Mates, Proper
<1>3. m = n /\ IsConnection(d, repeated) /\ IsConnection(e, repeated)
  <2>1. m = n /\ ~BoundOnly(d.id) /\ ~BoundOnly(e.id)
    BY <1>1, <1>2, NetworkAssumption DEF StaysLocal, BoundOnly
  <2>2. Between(d.id) \notin repeated /\ Between(e.id) = Between(d.id)
    BY <1>2 DEF Proper, Between
  <2>. QED
    BY <1>1, <2>1, <2>2 DEF IsConnection
<1>4. /\ Single(d, InFlight(net[m]), Ahead(net[m]))
      /\ r # s => Both(d, e, InFlight(net[m]))
  BY <1>1, <1>2, <1>3, Parts DEF Good, Connections
<1>. HIDE DEF d, e
<1>5. CASE r # s
  BY <1>4, <1>5 DEF Both, Pair, InSync, NoHalfCloseOf, FinUnanswered, Runs, Knows, Synced, d, e
<1>6. CASE r = s
  <2>1. d = e
    BY <1>3, <1>6 DEF d, e
  <2>2. ~Runs(d)
    BY <1>2, <1>4, <2>1 DEF Single, NeverWithItself, Active, Synced
  <2>. QED
    BY <2>2 DEF Runs, d
<1>. QED
  BY <1>5, <1>6

\* Two sockets connected to each other and both ESTABLISHED agree on the
\* sequence numbers, whatever segments an earlier connection between the same
\* ports left in flight and whether or not managers restart: the handshake of
\* handle_packet_listen, handle_packet_syn_sent and handle_packet_syn_received.
\* The numbers are drawn as rand() draws them, so any two connections may have
\* the same; only a connection that got a number of an earlier one between the
\* same two addresses is left out.
THEOREM HandshakesAgree ==
    ASSUME Local
    PROVE  HSpec => []EstablishedInSync
BY AlwaysHandshakes, HandshakesMeaning, PTL

\* Under the same conditions handle_packet_fin_wait_1 never takes a segment for
\* the acknowledgement of a FIN that the ESTABLISHED other side has not seen.
THEOREM FinsAreNotMistaken ==
    ASSUME Local
    PROVE  HSpec => []NoHalfClose
BY AlwaysHandshakes, HandshakesMeaning, PTL
=============================================================================
