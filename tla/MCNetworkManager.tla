-------------------------- MODULE MCNetworkManager --------------------------
(***************************************************************************)
(* Instances of NetworkManager for TLC.  The server listens on port 80 of  *)
(* home; client and other both bind port 81 and connect to the server.     *)
(***************************************************************************)
EXTENDS NetworkManager, TLC

CONSTANTS server, client, other, home

At(ip, port) == [ip |-> ip, port |-> port]

MCHome == [a \in App |-> IF a = server THEN At(home, 80) ELSE At(home, 81)]
MCTarget == [a \in App |-> IF a = server THEN NoAddr ELSE At(home, 80)]

\* client and other are interchangeable.
ClientSymmetry == Permutations({client, other})

MCBacklog == [a \in App |-> 1]

MCBindOnce == [a \in App |-> 1]

\* The client closes, binds the same port and connects a second time.
MCRebind == [a \in App |-> IF a = client THEN 2 ELSE 1]
=============================================================================
