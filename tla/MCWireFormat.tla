---------------------------- MODULE MCWireFormat ----------------------------
(***************************************************************************)
(* Instances of WireFormat for TLC: numbers of three digits, an int that   *)
(* ends at 213, as 2^31 - 1 has ten digits and is above 10^9.              *)
(***************************************************************************)
EXTENDS WireFormat

MCHome == <<65>>
MCSender == {<<65>>, <<66>>}

\* "", "7", "7a", "a7", " 7"
MCData == {<<>>, <<55>>, <<55, 97>>, <<97, 55>>, <<32, 55>>}

Segments(seqs, acks, flags, data) ==
    [src_port : {4}, dst_port : {5}, seq_num : seqs, ack_num : acks,
     flags : flags, data : data]

\* Data (ACK), SYN|ACK and FIN, and the SYN of a client; sums of two digits, of
\* three, and beyond an int.
MCSegments ==
    Segments({2, 60, 213}, {30}, {1}, MCData)
        \union Segments({2, 213}, {30}, {9, 2}, {<<>>})
        \union Segments({2}, {0}, {8}, {<<>>})
=============================================================================
