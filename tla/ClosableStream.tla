--------------------------- MODULE ClosableStream ---------------------------
(***************************************************************************)
(* What a connection promises until both ends are gone: each end gets a    *)
(* prefix of what the other wrote, nothing more once it is closed itself,  *)
(* and it is told that the connection is over only when the other end is   *)
(* closed.                                                                 *)
(***************************************************************************)
EXTENDS Naturals, Sequences

CONSTANTS
    End,
    Other       \* Other[e]: the end e is connected to

VARIABLES
    input,      \* input[e]: what e wrote
    output,     \* output[e]: what e got of what Other[e] wrote
    closed,     \* the ends that are closed
    told        \* the ends that know

vars == <<input, output, closed, told>>

Init ==
    /\ input = [e \in End |-> <<>>]
    /\ output = [e \in End |-> <<>>]
    /\ closed = {}
    /\ told = {}

Write(e) ==
    /\ Len(input[e]) <= Len(input'[e])
    /\ SubSeq(input'[e], 1, Len(input[e])) = input[e]
    /\ input' = [input EXCEPT ![e] = input'[e]]
    /\ UNCHANGED <<output, closed, told>>

\* An end gets the next piece of the stream.
Deliver(e) ==
    /\ e \notin closed
    /\ \E n \in Len(output[e]) + 1 .. Len(input[Other[e]]) :
        output' = [output EXCEPT ![e] = SubSeq(input[Other[e]], 1, n)]
    /\ UNCHANGED <<input, closed, told>>

\* One end closes, or both at once.
Close ==
    /\ \E S \in SUBSET End : closed' = closed \union S
    /\ UNCHANGED <<input, output, told>>

Tell(e) ==
    /\ Other[e] \in closed
    /\ told' = told \union {e}
    /\ UNCHANGED <<input, output, closed>>

Next == Close \/ \E e \in End : Write(e) \/ Deliver(e) \/ Tell(e)

Spec == Init /\ [][Next]_vars
=============================================================================
