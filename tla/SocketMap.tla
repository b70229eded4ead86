----------------------------- MODULE SocketMap -----------------------------
(***************************************************************************)
(* What the socket table promises: a map from keys to sockets, of bounded  *)
(* size.  It is described by the key of each socket that is in it.         *)
(***************************************************************************)
EXTENDS Integers, FiniteSets

CONSTANTS SocketRef, Key, Null, MaxSockets

VARIABLES
    keyOf,      \* keyOf[s]: the key of s, Null when s is not in the map
    inserted    \* the answer to the last insertion

vars == <<keyOf, inserted>>

Present == {s \in SocketRef : keyOf[s] # Null}
KeysUsed == {keyOf[s] : s \in Present}
Full == Cardinality(Present) = MaxSockets

Init ==
    /\ keyOf = [s \in SocketRef |-> Null]
    /\ inserted = FALSE

\* A new key is refused exactly when it is in use or the map is full.
Insert(s, k) ==
    /\ keyOf[s] = Null
    /\ inserted' = (k \notin KeysUsed /\ ~Full)
    /\ keyOf' = IF k \notin KeysUsed /\ ~Full THEN [keyOf EXCEPT ![s] = k] ELSE keyOf

Remove(s) ==
    /\ keyOf[s] # Null
    /\ keyOf' = [keyOf EXCEPT ![s] = Null]
    /\ UNCHANGED inserted

\* A socket in the map gets another key that is not in use, in place or by
\* leaving the map and coming back, which is never refused.
Rekey(s, k) ==
    /\ keyOf[s] # Null
    /\ k \notin KeysUsed
    /\ keyOf' = [keyOf EXCEPT ![s] = k]
    /\ inserted' \in {inserted, TRUE}

\* The owner of the map goes away.
Clear ==
    /\ keyOf' = [s \in SocketRef |-> Null]
    /\ UNCHANGED inserted

Next == \/ Clear
        \/ \E s \in SocketRef :
            \/ Remove(s)
            \/ \E k \in Key : Insert(s, k) \/ Rekey(s, k)

Spec == Init /\ [][Next]_vars
=============================================================================
