----------------------------- MODULE ArrayQueue -----------------------------
(***************************************************************************)
(* array_queue.c: the circular buffer behind a socket's send window, and   *)
(* the QUEUE_FOR_EACH loop of array_queue.h that cuts packets from it.     *)
(***************************************************************************)
EXTENDS Integers, Sequences

CONSTANTS
    Byte, NUL,                  \* NUL is QUEUE_EMPTY_ELEMENT
    DEFAULT_QUEUE_CAPACITY

ASSUME QueueAssumption ==
    /\ NUL \in Byte
    /\ DEFAULT_QUEUE_CAPACITY \in Nat \ {0}

VARIABLES
    head, tail, size, array, iterator,      \* struct Queue_t
    returned,       \* what the last call returned
    seen            \* history: what the loop under way has shown, <<>> if none

vars == <<head, tail, size, array, iterator, returned, seen>>

Index == 0 .. DEFAULT_QUEUE_CAPACITY - 1

\* QueueCreate
Init ==
    /\ head = 0 /\ tail = DEFAULT_QUEUE_CAPACITY - 1 /\ size = 0
    /\ array = [i \in Index |-> NUL]
    /\ iterator = 0
    /\ returned = NUL /\ seen = <<>>

Wrap(i) == IF i >= DEFAULT_QUEUE_CAPACITY THEN i - DEFAULT_QUEUE_CAPACITY ELSE i

QueueIsFull_OneTooMany == size > DEFAULT_QUEUE_CAPACITY
QueueIsFull == size = DEFAULT_QUEUE_CAPACITY
QueueIsEmpty == size = 0

enqueue(element) ==
    /\ seen' = <<>>
    /\ \/ /\ QueueIsFull
          /\ returned' = FALSE
          /\ UNCHANGED <<head, tail, size, array, iterator>>
       \/ /\ ~QueueIsFull
          /\ tail' = Wrap(tail + 1)
          /\ array' = [array EXCEPT ![tail'] = element]
          /\ size' = size + 1
          /\ returned' = TRUE
          /\ UNCHANGED <<head, iterator>>

dequeue ==
    /\ seen' = <<>>
    /\ \/ /\ QueueIsEmpty
          /\ returned' = NUL
          /\ UNCHANGED <<head, tail, size, array, iterator>>
       \/ /\ ~QueueIsEmpty
          /\ returned' = array[head]
          /\ array' = [array EXCEPT ![head] = NUL]
          /\ head' = Wrap(head + 1)
          /\ size' = size - 1
          /\ UNCHANGED <<tail, iterator>>

\* The loop ends at the first item equal to QUEUE_EMPTY_ELEMENT.
Show(item) ==
    /\ returned' = item
    /\ seen' = IF item = NUL THEN <<>> ELSE Append(seen, item)

QueueGetFirst ==
    /\ seen = <<>>
    /\ \/ QueueIsEmpty /\ Show(NUL) /\ UNCHANGED iterator
       \/ ~QueueIsEmpty /\ Show(array[head]) /\ iterator' = 0
    /\ UNCHANGED <<head, tail, size, array>>

AtEnd_OffByOne == iterator >= size
AtEnd_Early == iterator + 2 >= size
AtEnd == iterator + 1 >= size

QueueGetNext ==
    /\ seen # <<>>
    /\ \/ AtEnd /\ Show(NUL) /\ UNCHANGED iterator
       \/ /\ ~AtEnd
          /\ iterator' = iterator + 1
          /\ Show(array[Wrap(head + iterator')])
    /\ UNCHANGED <<head, tail, size, array>>

Next == dequeue \/ QueueGetFirst \/ QueueGetNext \/ \E e \in Byte : enqueue(e)

Spec == Init /\ [][Next]_vars

----------------------------------------------------------------------------
(* Properties.                                                             *)

\* The k-th byte of the queue, from 0, and the queue as a sequence.
Item(k) == array[Wrap(head + k)]
Contents == [k \in 1 .. size |-> Item(k - 1)]

\* The struct is well-formed: tail is where the last byte is, and every slot
\* outside the queue is QUEUE_EMPTY_ELEMENT.
QueueOK ==
    /\ head \in Index /\ tail \in Index /\ size \in 0 .. DEFAULT_QUEUE_CAPACITY
    /\ array \in [Index -> Byte]
    /\ iterator \in Index
    /\ tail = IF head + size = 0 THEN DEFAULT_QUEUE_CAPACITY - 1
              ELSE Wrap(head + size - 1)
    /\ \A k \in size .. DEFAULT_QUEUE_CAPACITY - 1 : Item(k) = NUL

\* A loop under way has shown the front of the queue, in order.
LoopShowsFront ==
    /\ seen \in Seq(Byte)
    /\ seen # <<>> =>
        /\ Len(seen) = iterator + 1
        /\ Len(seen) <= size
        /\ \A i \in 1 .. Len(seen) : seen[i] = Item(i - 1) /\ seen[i] # NUL

\* A loop ends only at the end of the queue or at a zero byte.
LoopEnds == [][seen # <<>> /\ returned' = NUL /\ UNCHANGED <<head, size>> =>
    Len(seen) = size \/ Item(Len(seen)) = NUL]_vars

Queue == INSTANCE ByteQueue WITH
    Capacity <- DEFAULT_QUEUE_CAPACITY, contents <- Contents

\* The circular buffer is a bounded first-in-first-out queue.
ImplementsByteQueue == Queue!Spec
=============================================================================
