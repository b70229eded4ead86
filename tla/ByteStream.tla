----------------------------- MODULE ByteStream -----------------------------
(***************************************************************************)
(* What a connection promises to its two applications: in each direction   *)
(* a reliable, ordered stream of bytes.  An end puts bytes into its        *)
(* stream, and the bytes come out at the other end in the order they were  *)
(* put in, none lost, none duplicated and none invented.                   *)
(***************************************************************************)
EXTENDS Naturals, Sequences

CONSTANTS Sender,       \* the sending ends, one stream each
          Byte

VARIABLES input,        \* input[e]: all bytes the application of e has sent
          output        \* output[e]: the bytes of e's stream that came out

vars == <<input, output>>

Init == /\ input = [e \in Sender |-> <<>>]
        /\ output = [e \in Sender |-> <<>>]

Extends(t, s) ==
    Len(s) <= Len(t) /\ \A i \in 1 .. Len(s) : t[i] = s[i]

Put(e) == /\ input'[e] \in Seq(Byte)
          /\ Extends(input'[e], input[e])
          /\ input' = [input EXCEPT ![e] = input'[e]]
          /\ UNCHANGED output

Get(e) == /\ output'[e] \in Seq(Byte)
          /\ Extends(output'[e], output[e])
          /\ Extends(input[e], output'[e])
          /\ output' = [output EXCEPT ![e] = output'[e]]
          /\ UNCHANGED input

Next == \E e \in Sender : Put(e) \/ Get(e)

Spec == Init /\ [][Next]_vars
=============================================================================
