-------------------------- MODULE ArrayQueueProofs --------------------------
(***************************************************************************)
(* Proofs about ArrayQueue, for every capacity and every set of bytes.     *)
(***************************************************************************)
EXTENDS ArrayQueue, TLAPS, SequenceTheorems

\* One subtraction brings any slot number that the code computes into range.
LEMMA WrapProperties ==
    ASSUME NEW i \in Nat, i < 2 * DEFAULT_QUEUE_CAPACITY
    PROVE  /\ Wrap(i) \in Index
           /\ i < DEFAULT_QUEUE_CAPACITY => Wrap(i) = i
           /\ i >= DEFAULT_QUEUE_CAPACITY => Wrap(i) = i - DEFAULT_QUEUE_CAPACITY
BY QueueAssumption DEF Wrap, Index

\* From one head, different offsets are different slots.
LEMMA WrapInjective ==
    ASSUME NEW h \in Index, NEW j \in Index, NEW k \in Index,
           Wrap(h + j) = Wrap(h + k)
    PROVE  j = k
BY QueueAssumption DEF Wrap, Index

\* Moving the head by one moves every offset by one.
LEMMA WrapNext ==
    ASSUME NEW h \in Index, NEW k \in Index
    PROVE  /\ k + 1 < DEFAULT_QUEUE_CAPACITY => Wrap(Wrap(h + 1) + k) = Wrap(h + (k + 1))
           /\ k + 1 = DEFAULT_QUEUE_CAPACITY => Wrap(Wrap(h + 1) + k) = h
BY QueueAssumption DEF Wrap, Index

\* The byte after the last one is the slot a new byte goes to.
LEMMA TailNext ==
    ASSUME QueueOK, ~QueueIsFull
    PROVE  Wrap(tail + 1) = Wrap(head + size)
BY QueueAssumption DEF QueueOK, QueueIsFull, Wrap, Index

LEMMA InitOK == Init => QueueOK /\ LoopShowsFront
<1>. SUFFICES ASSUME Init PROVE QueueOK /\ LoopShowsFront
  OBVIOUS
<1>1. \A k \in 0 .. DEFAULT_QUEUE_CAPACITY - 1 : Item(k) = NUL
  BY QueueAssumption, WrapProperties DEF Init, Item, Wrap, Index
<1>2. QueueOK
  BY <1>1, QueueAssumption DEF Init, QueueOK, Index
<1>. QED
  BY <1>2 DEF Init, LoopShowsFront

\* A byte accepted by enqueue is the new last one and the others stay.
LEMMA EnqueueEffect ==
    ASSUME QueueOK, NEW e \in Byte, enqueue(e), ~QueueIsFull
    PROVE  /\ size' = size + 1 /\ head' = head /\ iterator' = iterator
           /\ array' \in [Index -> Byte] /\ tail' = Wrap(head + size) /\ tail' \in Index
           /\ \A k \in Index : Item(k)' = IF k = size THEN e ELSE Item(k)
<1>1. /\ tail' = Wrap(head + size) /\ array' = [array EXCEPT ![tail'] = e]
      /\ size' = size + 1 /\ head' = head /\ iterator' = iterator
  BY TailNext DEF enqueue
<1>2. head \in Index /\ size \in Index /\ array \in [Index -> Byte]
  BY QueueAssumption DEF QueueOK, QueueIsFull, Index
<1>3. \A k \in Index : Wrap(head + k) \in Index
  BY <1>2, WrapProperties, QueueAssumption DEF Index
<1>4. Wrap(head + size) \in Index
  BY <1>2, <1>3
<1>5. \A k \in Index : k # size => Wrap(head + k) # Wrap(head + size)
  BY <1>2, WrapInjective
<1>6. array'[Wrap(head + size)] = e
  BY <1>1, <1>2, <1>4
<1>7. \A k \in Index : k # size => array'[Wrap(head + k)] = array[Wrap(head + k)]
  BY <1>1, <1>2, <1>3, <1>4, <1>5
<1>. QED
  BY <1>1, <1>2, <1>3, <1>4, <1>6, <1>7 DEF Item, Wrap

\* dequeue takes the first byte, clears its slot and moves the others up.
LEMMA DequeueEffect ==
    ASSUME QueueOK, dequeue, ~QueueIsEmpty
    PROVE  /\ size' = size - 1 /\ head' = Wrap(head + 1) /\ head' \in Index
           /\ tail' = tail /\ iterator' = iterator
           /\ array' \in [Index -> Byte] /\ returned' = Item(0)
           /\ \A k \in Index :
                 Item(k)' = IF k + 1 < DEFAULT_QUEUE_CAPACITY THEN Item(k + 1) ELSE NUL
<1>1. /\ size' = size - 1 /\ head' = Wrap(head + 1)
      /\ tail' = tail /\ iterator' = iterator
      /\ array' = [array EXCEPT ![head] = NUL] /\ returned' = array[head]
  BY DEF dequeue
<1>2. head \in Index /\ array \in [Index -> Byte] /\ NUL \in Byte
  BY QueueAssumption DEF QueueOK
<1>3. \A k \in Index : Wrap(head + k) \in Index
  BY <1>2, WrapProperties, QueueAssumption DEF Index
<1>4. Wrap(head + 1) \in Index
  BY <1>2, WrapProperties, QueueAssumption DEF Index
<1>5. array'[head] = NUL
  BY <1>1, <1>2
<1>6. Wrap(head + 0) = head /\ 0 \in Index
  BY <1>2, QueueAssumption DEF Wrap, Index
<1>7. ASSUME NEW k \in Index
      PROVE  array'[Wrap(head' + k)] =
                 IF k + 1 < DEFAULT_QUEUE_CAPACITY THEN array[Wrap(head + (k + 1))] ELSE NUL
  <2>1. CASE k + 1 < DEFAULT_QUEUE_CAPACITY
    <3>1. k + 1 \in Index /\ k + 1 # 0
      BY <2>1, QueueAssumption DEF Index
    <3>2. Wrap(head + (k + 1)) # head /\ Wrap(head + (k + 1)) \in Index
      BY <1>2, <1>3, <1>6, <3>1, WrapInjective
    <3>3. Wrap(head' + k) = Wrap(head + (k + 1))
      BY <1>1, <1>2, <2>1, WrapNext
    <3>. QED
      BY <1>1, <1>2, <2>1, <3>2, <3>3
  <2>2. CASE ~(k + 1 < DEFAULT_QUEUE_CAPACITY)
    <3>1. k + 1 = DEFAULT_QUEUE_CAPACITY
      BY <2>2, QueueAssumption DEF Index
    <3>2. Wrap(head' + k) = head
      BY <1>1, <1>2, <3>1, WrapNext
    <3>. QED
      BY <1>5, <2>2, <3>2
  <2>. QED
    BY <2>1, <2>2
<1>. QED
  BY <1>1, <1>2, <1>4, <1>6, <1>7 DEF Item, Wrap

LEMMA EnqueuePreserves ==
    ASSUME QueueOK, NEW e \in Byte, enqueue(e) PROVE QueueOK' /\ LoopShowsFront'
<1>1. LoopShowsFront'
  BY DEF enqueue, LoopShowsFront
<1>2. CASE QueueIsFull
  BY <1>1, <1>2 DEF enqueue, QueueOK, Item, Wrap
<1>3. CASE ~QueueIsFull
  <2>1. /\ head \in Index /\ size \in Index /\ iterator \in Index
    BY <1>3, QueueAssumption DEF QueueOK, QueueIsFull, Index
  <2>2. \A k \in size + 1 .. DEFAULT_QUEUE_CAPACITY - 1 : Item(k)' = NUL
    BY <1>3, <2>1, EnqueueEffect, QueueAssumption DEF QueueOK, Index
  <2>3. size' = size + 1 /\ head' = head /\ tail' = Wrap(head + size)
    BY <1>3, EnqueueEffect
  <2>4. tail' = IF head' + size' = 0 THEN DEFAULT_QUEUE_CAPACITY - 1
                ELSE Wrap(head' + size' - 1)
    BY <2>1, <2>3 DEF Wrap, Index
  <2>5. size' \in 0 .. DEFAULT_QUEUE_CAPACITY
    BY <2>1, <2>3, QueueAssumption DEF Index
  <2>. QED
    BY <1>1, <1>3, <2>1, <2>2, <2>3, <2>4, <2>5, EnqueueEffect DEF QueueOK, Wrap
<1>. QED
  BY <1>2, <1>3

LEMMA DequeuePreserves ==
    ASSUME QueueOK, dequeue PROVE QueueOK' /\ LoopShowsFront'
<1>1. LoopShowsFront'
  BY DEF dequeue, LoopShowsFront
<1>2. CASE QueueIsEmpty
  BY <1>1, <1>2 DEF dequeue, QueueOK, Item, Wrap
<1>3. CASE ~QueueIsEmpty
  <2>1. /\ head \in Index /\ size \in 1 .. DEFAULT_QUEUE_CAPACITY /\ iterator \in Index
    BY <1>3, QueueAssumption DEF QueueOK, QueueIsEmpty, Index
  <2>2. /\ size' = size - 1 /\ head' = Wrap(head + 1) /\ head' \in Index
        /\ tail' = tail /\ iterator' = iterator /\ array' \in [Index -> Byte]
    BY <1>3, DequeueEffect
  <2>3. \A k \in size' .. DEFAULT_QUEUE_CAPACITY - 1 : Item(k)' = NUL
    <3>. SUFFICES ASSUME NEW k \in size' .. DEFAULT_QUEUE_CAPACITY - 1
                  PROVE  Item(k)' = NUL
      OBVIOUS
    <3>1. k \in Index /\ k + 1 >= size /\ k + 1 \in Nat
      BY <2>1, <2>2, QueueAssumption DEF Index
    <3>2. k + 1 < DEFAULT_QUEUE_CAPACITY => Item(k + 1) = NUL
      BY <3>1, <2>1, QueueAssumption DEF QueueOK
    <3>. QED
      BY <1>3, <3>1, <3>2, DequeueEffect
  <2>4. tail = Wrap(head + size - 1)
    BY <2>1 DEF QueueOK, Index
  <2>5. tail' = IF head' + size' = 0 THEN DEFAULT_QUEUE_CAPACITY - 1
                ELSE Wrap(head' + size' - 1)
    BY <2>1, <2>2, <2>4, QueueAssumption DEF Wrap, Index
  <2>6. size' \in 0 .. DEFAULT_QUEUE_CAPACITY
    BY <2>1, <2>2, QueueAssumption
  <2>7. tail' \in Index
    BY <2>2 DEF QueueOK
  <2>. QED
    BY <1>1, <2>1, <2>2, <2>3, <2>5, <2>6, <2>7 DEF QueueOK, Wrap
<1>. QED
  BY <1>2, <1>3

\* A step of the loop shows the next byte of the queue or ends the loop.
LEMMA LookEffect ==
    ASSUME QueueOK, LoopShowsFront, QueueGetFirst \/ QueueGetNext
    PROVE  /\ UNCHANGED <<head, tail, size, array>> /\ iterator' \in Index
           /\ \/ returned' = NUL /\ seen' = <<>>
              \/ /\ returned' # NUL /\ returned' = Item(iterator')
                 /\ seen' = Append(seen, returned')
                 /\ iterator' = Len(seen) /\ iterator' < size
<1>1. CASE QueueGetFirst
  <2>1. size \in Nat /\ head \in Index /\ 0 \in Index
    BY QueueAssumption DEF QueueOK, Index
  <2>2. Item(0) = array[head]
    BY <2>1, QueueAssumption DEF Item, Wrap, Index
  <2>3. Len(<<>>) = 0
    OBVIOUS
  <2>. QED
    BY <1>1, <2>1, <2>2, <2>3 DEF QueueGetFirst, Show, QueueIsEmpty, QueueOK
<1>2. CASE QueueGetNext
  <2>1. size \in 0 .. DEFAULT_QUEUE_CAPACITY /\ iterator \in Index /\ Len(seen) = iterator + 1
    BY <1>2 DEF QueueOK, LoopShowsFront, QueueGetNext
  <2>2. CASE AtEnd
    BY <1>2, <2>1, <2>2 DEF QueueGetNext, Show
  <2>3. CASE ~AtEnd
    <3>1. /\ iterator' = iterator + 1 /\ Show(array[Wrap(head + iterator')])
          /\ UNCHANGED <<head, tail, size, array>>
      BY <1>2, <2>3 DEF QueueGetNext
    <3>2. iterator' < size /\ iterator' \in Index
      BY <2>1, <2>3, <3>1, QueueAssumption DEF AtEnd, Index
    <3>. QED
      BY <2>1, <3>1, <3>2 DEF Show, Item
  <2>. QED
    BY <2>2, <2>3
<1>. QED
  BY <1>1, <1>2

LEMMA LookPreserves ==
    ASSUME QueueOK, LoopShowsFront, QueueGetFirst \/ QueueGetNext
    PROVE  QueueOK' /\ LoopShowsFront'
<1>1. UNCHANGED <<head, tail, size, array>> /\ iterator' \in Index
  BY LookEffect
<1>2. QueueOK'
  BY <1>1 DEF QueueOK, Item, Wrap
<1>3. CASE returned' = NUL /\ seen' = <<>>
  BY <1>2, <1>3 DEF LoopShowsFront
<1>4. CASE /\ returned' # NUL /\ returned' = Item(iterator')
           /\ seen' = Append(seen, returned')
           /\ iterator' = Len(seen) /\ iterator' < size
  <2>0. iterator' \in Nat
    BY <1>1, QueueAssumption DEF Index
  <2>1. seen \in Seq(Byte) /\ size \in Nat
    BY DEF LoopShowsFront, QueueOK
  <2>2. returned' \in Byte
    <3>1. Wrap(head + iterator') \in Index
      BY <1>1, WrapProperties, QueueAssumption DEF QueueOK, Index
    <3>. QED
      BY <3>1, <1>4 DEF Item, QueueOK
  <2>3. /\ seen' \in Seq(Byte) /\ Len(seen') = iterator' + 1
        /\ \A i \in 1 .. iterator' : seen'[i] = seen[i]
        /\ seen'[iterator' + 1] = returned'
    BY <1>4, <2>0, <2>1, <2>2
  <2>4. \A i \in 1 .. iterator' : seen[i] = Item(i - 1) /\ seen[i] # NUL
    BY <1>4, <2>0, <2>1 DEF LoopShowsFront
  <2>5. ASSUME NEW n \in Nat, n = iterator', NEW i \in 1 .. n + 1
        PROVE  seen'[i] = Item(i - 1) /\ seen'[i] # NUL
    <3>1. CASE i \in 1 .. n
      BY <2>3, <2>4, <2>5, <3>1
    <3>2. CASE i = n + 1
      <4>1. i - 1 = n
        BY <3>2
      <4>. QED
        BY <1>4, <2>3, <2>5, <3>2, <4>1, Zenon
    <3>. QED
      BY <3>1, <3>2
  <2>6. \A k : Item(k)' = Item(k)
    BY <1>1 DEF Item, Wrap
  <2>. QED
    BY <1>1, <1>2, <1>4, <2>0, <2>1, <2>3, <2>5, <2>6 DEF LoopShowsFront
<1>. QED
  BY <1>3, <1>4, LookEffect

\* The circular buffer is always well-formed, and a loop always shows its front
\* bytes in order, for every capacity (array_queue.c).
THEOREM StructInvariance == Spec => [](QueueOK /\ LoopShowsFront)
<1>1. QueueOK /\ LoopShowsFront /\ [Next]_vars => (QueueOK /\ LoopShowsFront)'
  <2>. SUFFICES ASSUME QueueOK, LoopShowsFront, [Next]_vars
                PROVE  QueueOK' /\ LoopShowsFront'
    OBVIOUS
  <2>1. CASE dequeue
    BY <2>1, DequeuePreserves
  <2>2. CASE QueueGetFirst \/ QueueGetNext
    BY <2>2, LookPreserves
  <2>3. ASSUME NEW e \in Byte, enqueue(e) PROVE QueueOK' /\ LoopShowsFront'
    BY <2>3, EnqueuePreserves
  <2>4. CASE UNCHANGED vars
    BY <2>4 DEF vars, QueueOK, LoopShowsFront, Item, Wrap
  <2>. QED
    BY <2>1, <2>2, <2>3, <2>4 DEF Next
<1>. QED
  BY <1>1, InitOK, PTL DEF Spec

\* QueueOK for every capacity: no call leaves head, tail and size at odds.
THEOREM StructWellFormed == Spec => []QueueOK
BY StructInvariance, PTL

\* LoopShowsFront for every capacity: QUEUE_FOR_EACH never skips, repeats or
\* invents a byte.
THEOREM LoopOrder == Spec => []LoopShowsFront
BY StructInvariance, PTL

----------------------------------------------------------------------------

LEMMA ContentsProperties ==
    ASSUME QueueOK
    PROVE  /\ Contents \in Seq(Byte) /\ Len(Contents) = size /\ size \in Nat
           /\ \A k \in 1 .. size : Contents[k] = Item(k - 1)
<1>1. size \in Nat /\ size <= DEFAULT_QUEUE_CAPACITY
  BY QueueAssumption DEF QueueOK
<1>2. \A k \in 1 .. size : Item(k - 1) \in Byte
  BY <1>1, WrapProperties, QueueAssumption DEF QueueOK, Item, Index
<1>3. Contents \in [1 .. size -> Byte]
  BY <1>2 DEF Contents
<1>4. Contents \in Seq(Byte)
  BY <1>1, <1>3, SeqDef
<1>. QED
  BY <1>1, <1>3, <1>4, LenProperties DEF Contents

LEMMA EnqueueRefined ==
    ASSUME QueueOK, QueueOK', NEW e \in Byte, enqueue(e) PROVE Queue!Enqueue(e)
<1>1. CASE QueueIsFull
  <2>1. UNCHANGED Contents
    BY <1>1 DEF enqueue, Contents, Item, Wrap
  <2>. QED
    BY <1>1, <2>1, ContentsProperties DEF enqueue, QueueIsFull, Queue!Enqueue
<1>2. CASE ~QueueIsFull
  <2>1. size < DEFAULT_QUEUE_CAPACITY /\ size \in Nat /\ returned' = TRUE
    <3>1. size < DEFAULT_QUEUE_CAPACITY /\ size \in Nat
      BY <1>2, QueueAssumption DEF QueueOK, QueueIsFull
    <3>2. returned' = TRUE
      BY <1>2, Zenon DEF enqueue
    <3>. QED
      BY <3>1, <3>2
  <2>2. /\ size' = size + 1
        /\ \A k \in Index : Item(k)' = IF k = size THEN e ELSE Item(k)
    BY <1>2, EnqueueEffect
  <2>3. /\ Contents' \in Seq(Byte) /\ Len(Contents') = size + 1
        /\ \A k \in 1 .. size + 1 : Contents'[k] = Item(k - 1)'
    <3>1. (/\ Contents \in Seq(Byte) /\ Len(Contents) = size /\ size \in Nat
           /\ \A k \in 1 .. size : Contents[k] = Item(k - 1))'
      BY ContentsProperties, PTL
    <3>. QED
      BY <3>1, <2>2
  <2>4. /\ Contents \in Seq(Byte) /\ Len(Contents) = size
        /\ \A k \in 1 .. size : Contents[k] = Item(k - 1)
    BY ContentsProperties
  <2>5. DEFINE t == Append(Contents, e)
  <2>6. /\ t \in Seq(Byte) /\ Len(t) = size + 1
        /\ \A k \in 1 .. size : t[k] = Contents[k]
        /\ t[size + 1] = e
    BY <2>1, <2>4
  <2>7. \A k \in 1 .. size + 1 : Contents'[k] = t[k]
    <3>. HIDE DEF t
    <3>. SUFFICES ASSUME NEW k \in 1 .. size + 1 PROVE Contents'[k] = t[k]
      OBVIOUS
    <3>1. k - 1 \in Index /\ (k - 1 = size <=> k = size + 1)
      BY <2>1, QueueAssumption DEF Index
    <3>2. CASE k = size + 1
      BY <2>2, <2>3, <2>6, <3>1, <3>2, Zenon
    <3>3. CASE k \in 1 .. size
      BY <2>1, <2>2, <2>3, <2>4, <2>6, <3>1, <3>3
    <3>. QED
      BY <2>1, <3>2, <3>3
  <2>8. Contents' = t
    <3>. HIDE DEF t
    <3>. QED
      BY <2>3, <2>6, <2>7, SeqEqual
  <2>. QED
    BY <2>1, <2>4, <2>8 DEF Queue!Enqueue
<1>. QED
  BY <1>1, <1>2

LEMMA DequeueRefined ==
    ASSUME QueueOK, QueueOK', dequeue PROVE Queue!Dequeue
<1>1. CASE QueueIsEmpty
  <2>1. UNCHANGED Contents
    BY <1>1 DEF dequeue, Contents, Item, Wrap
  <2>2. Contents = <<>>
    BY <1>1, ContentsProperties, EmptySeq DEF QueueIsEmpty
  <2>. QED
    BY <1>1, <2>1, <2>2 DEF dequeue, Queue!Dequeue
<1>2. CASE ~QueueIsEmpty
  <2>1. size \in Nat /\ size > 0 /\ size <= DEFAULT_QUEUE_CAPACITY
    BY <1>2 DEF QueueOK, QueueIsEmpty
  <2>2. /\ size' = size - 1 /\ returned' = Item(0)
        /\ \A k \in Index :
              Item(k)' = IF k + 1 < DEFAULT_QUEUE_CAPACITY THEN Item(k + 1) ELSE NUL
    BY <1>2, DequeueEffect
  <2>3. /\ Contents' \in Seq(Byte) /\ Len(Contents') = size - 1
        /\ \A k \in 1 .. size - 1 : Contents'[k] = Item(k - 1)'
    <3>1. (/\ Contents \in Seq(Byte) /\ Len(Contents) = size /\ size \in Nat
           /\ \A k \in 1 .. size : Contents[k] = Item(k - 1))'
      BY ContentsProperties, PTL
    <3>. QED
      BY <3>1, <2>2
  <2>4. /\ Contents \in Seq(Byte) /\ Len(Contents) = size
        /\ \A k \in 1 .. size : Contents[k] = Item(k - 1)
    BY ContentsProperties
  <2>5. Contents # <<>>
    BY <2>1, <2>4
  <2>6. /\ Tail(Contents) \in Seq(Byte) /\ Len(Tail(Contents)) = size - 1
        /\ \A k \in 1 .. size - 1 : Tail(Contents)[k] = Contents[k + 1]
    BY <2>4, <2>5, HeadTailProperties
  <2>7. ASSUME NEW k \in 1 .. size - 1 PROVE Contents'[k] = Tail(Contents)[k]
    <3>1. /\ k - 1 \in Index /\ (k - 1) + 1 = k /\ k < DEFAULT_QUEUE_CAPACITY
          /\ k + 1 \in 1 .. size /\ (k + 1) - 1 = k
      BY <2>1, QueueAssumption DEF Index
    <3>2. Contents'[k] = Item(k)
      BY <2>2, <2>3, <3>1, Zenon
    <3>3. Tail(Contents)[k] = Item(k)
      BY <2>4, <2>6, <3>1, Zenon
    <3>. QED
      BY <3>2, <3>3
  <2>8. Contents' = Tail(Contents)
    BY <2>3, <2>6, <2>7, SeqEqual
  <2>9. Head(Contents) = Item(0)
    BY <2>1, <2>4, <2>5
  <2>. QED
    BY <2>2, <2>5, <2>8, <2>9 DEF Queue!Dequeue
<1>. QED
  BY <1>1, <1>2

LEMMA LookRefined ==
    ASSUME QueueOK, LoopShowsFront, QueueGetFirst \/ QueueGetNext PROVE Queue!Look
<1>1. UNCHANGED <<head, size, array>> /\ iterator' \in Index
  BY LookEffect
<1>2. UNCHANGED Contents
  BY <1>1 DEF Contents, Item, Wrap
<1>3. CASE returned' = NUL
  BY <1>2, <1>3 DEF Queue!Look
<1>4. CASE returned' = Item(iterator') /\ iterator' < size
  <2>1. PICK n \in Index : n = iterator'
    BY <1>1
  <2>2. n + 1 \in 1 .. size /\ (n + 1) - 1 = n
    <3>1. n \in Nat /\ n < size /\ size \in Nat
      BY <1>4, <2>1, QueueAssumption DEF Index, QueueOK
    <3>. QED
      BY <3>1
  <2>3. Contents[n + 1] = Item(n) /\ n + 1 \in 1 .. Len(Contents)
    BY <2>2, ContentsProperties
  <2>. QED
    BY <1>2, <1>4, <2>1, <2>3 DEF Queue!Look
<1>. QED
  BY <1>3, <1>4, LookEffect

\* For every capacity, array_queue.c is a bounded first-in-first-out queue,
\* and a loop over it leaves it as it was.
THEOREM QueueRefinement == Spec => ImplementsByteQueue
<1>1. Init => Queue!Init
  <2>. SUFFICES ASSUME Init PROVE Queue!Init
    OBVIOUS
  <2>1. QueueOK /\ size = 0 /\ returned = NUL
    BY InitOK DEF Init
  <2>2. Contents = <<>>
    BY <2>1, ContentsProperties, EmptySeq
  <2>. QED
    BY <2>1, <2>2 DEF Queue!Init
<1>2. QueueOK /\ LoopShowsFront /\ QueueOK' /\ [Next]_vars
        => [Queue!Next]_<<Contents, returned>>
  <2>. SUFFICES ASSUME QueueOK, LoopShowsFront, QueueOK', [Next]_vars
                PROVE  [Queue!Next]_<<Contents, returned>>
    OBVIOUS
  <2>1. CASE dequeue
    BY <2>1, DequeueRefined DEF Queue!Next
  <2>2. CASE QueueGetFirst \/ QueueGetNext
    BY <2>2, LookRefined DEF Queue!Next
  <2>3. ASSUME NEW e \in Byte, enqueue(e) PROVE Queue!Next
    BY <2>3, EnqueueRefined DEF Queue!Next
  <2>4. CASE UNCHANGED vars
    BY <2>4 DEF vars, Contents, Item, Wrap
  <2>. QED
    BY <2>1, <2>2, <2>3, <2>4 DEF Next
<1>. QED
  BY <1>1, <1>2, StructInvariance, PTL DEF Spec, ImplementsByteQueue, Queue!Spec
=============================================================================
