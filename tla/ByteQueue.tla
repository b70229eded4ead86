----------------------------- MODULE ByteQueue -----------------------------
(***************************************************************************)
(* What the users of array_queue.c rely on: a bounded first-in-first-out   *)
(* queue of bytes.  The send window of TcpSocket is such a sequence.       *)
(***************************************************************************)
EXTENDS Naturals, Sequences

CONSTANTS Byte, NUL, Capacity

VARIABLES
    contents,       \* the bytes in the queue, oldest first
    returned        \* what the last call returned

Init == contents = <<>> /\ returned = NUL

\* A full queue refuses the byte and stays as it is.
Enqueue(e) ==
    \/ /\ Len(contents) < Capacity
       /\ contents' = Append(contents, e) /\ returned' = TRUE
    \/ /\ Len(contents) = Capacity
       /\ contents' = contents /\ returned' = FALSE

\* An empty queue answers NUL.
Dequeue ==
    \/ /\ contents # <<>>
       /\ contents' = Tail(contents) /\ returned' = Head(contents)
    \/ /\ contents = <<>>
       /\ contents' = contents /\ returned' = NUL

\* A step of a loop over the queue shows one of its bytes or ends the loop.
Look ==
    /\ contents' = contents
    /\ returned' = NUL \/ \E i \in 1 .. Len(contents) : returned' = contents[i]

Next == Dequeue \/ Look \/ \E e \in Byte : Enqueue(e)

Spec == Init /\ [][Next]_<<contents, returned>>
=============================================================================
