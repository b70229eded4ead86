----------------------------- MODULE MCTeardown -----------------------------
(***************************************************************************)
(* Instances of Teardown for TLC.                                          *)
(***************************************************************************)
EXTENDS Teardown

CONSTANTS a, b

MCIsn == [client |-> 1, server |-> 4]

MCTwoBytes == [client |-> <<a, b>>, server |-> <<>>]
=============================================================================
