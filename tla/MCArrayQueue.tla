---------------------------- MODULE MCArrayQueue ----------------------------
(***************************************************************************)
(* An instance of ArrayQueue for TLC.                                      *)
(***************************************************************************)
EXTENDS ArrayQueue

CONSTANTS a, b

MCByte == {a, b, NUL}
=============================================================================
