--------------------------- MODULE MCDataTransfer ---------------------------
(***************************************************************************)
(* Instances of DataTransfer for TLC.                                      *)
(***************************************************************************)
EXTENDS DataTransfer

CONSTANTS a, b

MCIsn == [client |-> 3, server |-> 7]

\* Two-way traffic; the client's message is longer than the windows.
MCDuplex == [client |-> <<a, b, a, b>>, server |-> <<b>>]

\* One-way traffic of more than one full segment and more than the send queue holds.
MCOneWay == [client |-> <<a, b, a>>, server |-> <<>>]
=============================================================================
