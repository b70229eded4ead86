----------------------------- MODULE MCHandshake -----------------------------
(***************************************************************************)
(* Handshake with the programs and addresses of MCNetworkManager.          *)
(***************************************************************************)
EXTENDS MCNetworkManager, Handshake
=============================================================================
