-------------------------- MODULE SpscQueueProofs --------------------------
(***************************************************************************)
(* Proofs about SpscQueue for every _size, every width of Int and every    *)
(* number of elements, under the two conditions the runs single out.       *)
(***************************************************************************)
EXTENDS SpscQueue, ModLemmas, SequenceTheorems

(* Offsets never wrap, or they wrap in step with the slots: _size divides  *)
(* 2^w.  The begin() of the C++11 class stands no wrap at all.             *)
WrapSafe ==
  /\ IntMod % Size = 0 \/ N < IntMod
  /\ Cpp11 => N < IntMod

(* The inductive invariant.  The visible offsets trail those of the        *)
(* processes that own them, and the producer is never a lap ahead.         *)
OffsetsOrdered ==
  /\ head <= chead
  /\ chead <= tail
  /\ tail <= ptail
  /\ ptail <= head + Size

(* A process past its first test keeps what it tested for.                 *)
TestStillHolds ==
  /\ ppc = "check" => ptail < N
  /\ ppc \in {"write", "push"} => ptail < N /\ ptail < head + Size
  /\ cpc = "check" => chead < N
  /\ cpc \in {"begin", "load", "pop"} => chead < tail

(* The invisible tail stores are those between the two views of the tail.  *)
TailsPending ==
  \A n \in 0 .. N : TailStore(n) \in pend <=> tail < n /\ n <= ptail

(* Offset n has been written by the producer.                              *)
Issued(n) == n < ptail \/ (n = ptail /\ ppc = "push")

(* An invisible element is one whose push is invisible too: that is what   *)
(* the fence of push_back is for.                                          *)
DataPending == \A n \in 0 .. N : DataStore(n) \in pend => tail <= n /\ Issued(n)

(* A written element that has not been popped is in its slot or on its     *)
(* way there, and a slot holds nothing else.                               *)
DataKept ==
  \A n \in 0 .. N : head <= n /\ Issued(n) =>
    DataStore(n) \in pend \/ data[Slot(n)] = n

DataOwned ==
  \A s \in 0 .. Size-1 : data[s] # Raw => Slot(data[s]) = s /\ Issued(data[s])

IInv ==
  /\ TypeOK
  /\ OffsetsOrdered
  /\ TestStillHolds
  /\ TailsPending
  /\ DataPending
  /\ DataKept
  /\ DataOwned
  /\ FifoDelivery
  /\ NoNullDeref

-----------------------------------------------------------------------------
(* The accessors of the queue, while it is not overrun.  An offset below   *)
(* the wrap is stored as it is.                                            *)
LEMMA WordSmall ==
  ASSUME NEW n \in Nat, n < IntMod
  PROVE  Word(n) = n
BY QueueConstants DEF Word

(* size() is the number of elements in the queue, unless they are 2^w or   *)
(* more.                                                                   *)
LEMMA SizeExact ==
  ASSUME NEW t \in Nat, NEW h \in Nat, h <= t, t - h < IntMod
  PROVE  SizeOf(t, h) = t - h
<1>1. IntMod \in Nat \ {0} /\ t \in Int /\ h \in Int
  BY QueueConstants
<1>2. ((t % IntMod) - (h % IntMod)) % IntMod = t - h
  BY <1>1, ModDiff
<1> QED
  BY <1>2 DEF SizeOf, Word

(* end() returns null exactly when every slot is taken.                    *)
LEMMA EndExact ==
  ASSUME NEW t \in Nat, NEW h \in Nat, h <= t, t - h <= Size
  PROVE  EndIsNull(t, h) <=> t - h = Size
<1>1. SizeOf(t, h) = t - h
  BY SizeExact, QueueConstants
<1> QED
  BY <1>1, QueueConstants DEF EndIsNull

(* begin() returns null exactly when the queue is empty; that of the C++11 *)
(* class only before the first wrap.                                       *)
LEMMA BeginExact ==
  ASSUME NEW t \in Nat, NEW h \in Nat, h <= t, t - h <= Size,
         Cpp11 => t < IntMod
  PROVE  BeginIsNull(t, h) <=> t = h
<1>1. CASE Cpp11
  BY <1>1, WordSmall, QueueConstants DEF BeginIsNull
<1>2. CASE ~Cpp11
  <2>1. ASSUME h < t PROVE h % IntMod # t % IntMod
    <3>1. IntMod \in Nat \ {0} /\ t \in Int /\ h \in Int /\ t - h < IntMod
      BY QueueConstants
    <3> QED
      BY <2>1, <3>1, ModDiffer
  <2> QED
    BY <1>2, <2>1 DEF BeginIsNull, Word
<1> QED
  BY <1>1, <1>2

(* Every offset has a slot inside _data, and offsets less than _size apart *)
(* have different ones, provided that the slots do not jump at the wrap.   *)
LEMMA SlotInRange ==
  ASSUME NEW n \in Nat
  PROVE  Slot(n) \in 0 .. Size-1
BY DivMod, QueueConstants DEF Slot, Word

LEMMA SlotsDiffer ==
  ASSUME NEW a \in Nat, NEW b \in Nat, a < b, b - a < Size,
         IntMod % Size = 0 \/ b < IntMod
  PROVE  Slot(a) # Slot(b)
<1>1. Size \in Nat \ {0} /\ IntMod \in Nat \ {0}
  BY QueueConstants
<1> QED
  BY <1>1, RingDiffer DEF Slot, Word

-----------------------------------------------------------------------------
(* The invariant makes the tests of end() and begin() exact.               *)
LEMMA TestsExact ==
  ASSUME IInv, WrapSafe
  PROVE  /\ EndIsNull(ptail, head) <=> ptail = head + Size
         /\ BeginIsNull(tail, chead) <=> tail = chead
<1>1. /\ ptail \in Nat /\ head \in Nat /\ head <= ptail /\ ptail - head <= Size
      /\ tail \in Nat /\ chead \in Nat /\ chead <= tail /\ tail - chead <= Size
      /\ tail <= N
  BY LoopBound, QueueConstants DEF IInv, TypeOK, OffsetsOrdered
<1>2. EndIsNull(ptail, head) <=> ptail - head = Size
  BY <1>1, EndExact
<1>3. Cpp11 => tail < IntMod
  BY <1>1, LoopBound, QueueConstants DEF WrapSafe
<1>4. BeginIsNull(tail, chead) <=> tail = chead
  BY <1>1, <1>3, BeginExact
<1> QED
  BY <1>1, <1>2, <1>4, QueueConstants

(* The elements of the queue have slots of their own.                      *)
LEMMA OwnSlots ==
  ASSUME WrapSafe, NEW a \in 0 .. N, NEW b \in 0 .. N,
         a # b, a - b < Size, b - a < Size
  PROVE  Slot(a) # Slot(b)
<1>1. CASE a < b
  <2>1. IntMod % Size = 0 \/ b < IntMod
    BY LoopBound, QueueConstants DEF WrapSafe
  <2> QED
    BY <1>1, <2>1, LoopBound, SlotsDiffer
<1>2. CASE b < a
  <2>1. IntMod % Size = 0 \/ a < IntMod
    BY LoopBound, QueueConstants DEF WrapSafe
  <2> QED
    BY <1>2, <2>1, LoopBound, SlotsDiffer
<1> QED
  BY <1>1, <1>2, LoopBound

(* Only the producer's stores are pending, and they differ from each       *)
(* other.                                                                  *)
LEMMA StoresDiffer ==
  ASSUME NEW m, NEW n
  PROVE  /\ DataStore(m) # TailStore(n)
         /\ DataStore(m) = DataStore(n) <=> m = n
         /\ TailStore(m) = TailStore(n) <=> m = n
         /\ DataStore(m).kind = "data" /\ DataStore(m).n = m
         /\ TailStore(m).kind = "tail" /\ TailStore(m).n = m
BY DEF DataStore, TailStore

(* factory() leaves an empty queue that satisfies the invariant.           *)
LEMMA InitInv ==
  ASSUME Init
  PROVE  IInv
<1>1. /\ 0 \in 0 .. N /\ Size \in Nat \ {0}
  BY LoopBound, QueueConstants
<1>2. TypeOK
  BY <1>1 DEF Init, TypeOK
<1>3. OffsetsOrdered /\ TestStillHolds
  BY <1>1, LoopBound DEF Init, OffsetsOrdered, TestStillHolds
<1>4. TailsPending /\ DataPending
  BY <1>1, LoopBound DEF Init, TailsPending, DataPending
<1>5. DataKept /\ DataOwned
  BY <1>1, LoopBound DEF Init, DataKept, DataOwned, Issued
<1>6. FifoDelivery /\ NoNullDeref
  BY DEF Init, FifoDelivery, NoNullDeref
<1> QED
  BY <1>2, <1>3, <1>4, <1>5, <1>6 DEF IInv

(* Steps of the producer.                                                  *)
LEMMA ProducerInv ==
  ASSUME IInv, WrapSafe, Producer
  PROVE  IInv'
<1> USE LoopBound, QueueConstants
<1>1. CASE PCheck
  <2>1. ptail < head + Size
    BY <1>1, TestsExact DEF PCheck, IInv, TypeOK, OffsetsOrdered
  <2>2. TypeOK' /\ OffsetsOrdered'
    BY <1>1 DEF PCheck, consumerVars, IInv, TypeOK, OffsetsOrdered
  <2>3. TestStillHolds' /\ FifoDelivery' /\ NoNullDeref'
    BY <1>1, <2>1 DEF PCheck, consumerVars, IInv, TestStillHolds, FifoDelivery,
       NoNullDeref
  <2>4. TailsPending' /\ DataPending' /\ DataKept' /\ DataOwned'
    BY <1>1 DEF PCheck, IInv, TailsPending, DataPending, DataKept, DataOwned,
       Issued
  <2> QED
    BY <2>2, <2>3, <2>4 DEF IInv
<1>2. CASE PWrite
  <2>1. ptail < head + Size /\ ptail < N
    BY <1>2 DEF PWrite, IInv, TestStillHolds
  <2>2. /\ ppc' = "push" /\ pend' = pend \cup {DataStore(ptail)}
        /\ UNCHANGED <<tail, head, data, ptail, chead, cpc, got>>
    BY <1>2, <2>1, TestsExact DEF PWrite, consumerVars, IInv, TypeOK
  <2>3. ptail \in 0 .. N
    BY DEF IInv, TypeOK
  <2>4. TypeOK'
    BY <2>2, <2>3 DEF IInv, TypeOK, Store
  <2>5. OffsetsOrdered' /\ TestStillHolds' /\ FifoDelivery' /\ NoNullDeref'
    BY <1>2, <2>1, <2>2 DEF PWrite, IInv, OffsetsOrdered, TestStillHolds,
       FifoDelivery, NoNullDeref
  <2>6. TailsPending'
    BY <2>2, StoresDiffer DEF IInv, TailsPending
  <2>7. \A n \in 0 .. N : Issued(n)' <=> Issued(n) \/ n = ptail
    BY <1>2, <2>2 DEF PWrite, Issued
  <2>8. DataPending'
    BY <2>2, <2>3, <2>7, StoresDiffer
    DEF IInv, TypeOK, OffsetsOrdered, DataPending
  <2>9. DataKept'
    BY <2>2, <2>3, <2>7, StoresDiffer DEF IInv, DataKept
  <2>10. DataOwned'
    BY <2>2, <2>7 DEF IInv, TypeOK, DataOwned
  <2> QED
    BY <2>4, <2>5, <2>6, <2>8, <2>9, <2>10 DEF IInv
<1>3. CASE PPush
  <2>1. ptail < head + Size /\ ptail < N
    BY <1>3 DEF PPush, IInv, TestStillHolds
  <2>2. /\ ptail' = ptail + 1 /\ pend' = pend \cup {TailStore(ptail + 1)}
        /\ ppc' = IF ptail + 1 < N THEN "check" ELSE "done"
        /\ UNCHANGED <<tail, head, data, chead, cpc, got>>
    BY <1>3 DEF PPush, consumerVars
  <2>3. ptail \in 0 .. N /\ ptail + 1 \in 0 .. N
    BY <2>1 DEF IInv, TypeOK
  <2>4. TypeOK'
    BY <2>2, <2>3 DEF IInv, TypeOK, Store
  <2>5. OffsetsOrdered'
    BY <2>1, <2>2, <2>3 DEF IInv, TypeOK, OffsetsOrdered
  <2>6. TestStillHolds' /\ FifoDelivery' /\ NoNullDeref'
    BY <2>2 DEF IInv, TestStillHolds, FifoDelivery, NoNullDeref
  <2>7. TailsPending'
    BY <2>2, <2>3, StoresDiffer DEF IInv, TypeOK, OffsetsOrdered, TailsPending
  <2>8. \A n \in 0 .. N : Issued(n)' <=> Issued(n)
    BY <1>3, <2>2, <2>3 DEF PPush, Issued
  <2>9. DataPending'
    BY <2>2, <2>8, StoresDiffer DEF IInv, DataPending
  <2>10. DataKept'
    BY <2>2, <2>8, StoresDiffer DEF IInv, DataKept
  <2>11. DataOwned'
    BY <2>2, <2>8 DEF IInv, TypeOK, DataOwned
  <2> QED
    BY <2>4, <2>5, <2>6, <2>7, <2>9, <2>10, <2>11 DEF IInv
<1> QED
  BY <1>1, <1>2, <1>3 DEF Producer

(* Stores of the producer that become visible.                             *)
LEMMA PublishInv ==
  ASSUME IInv, WrapSafe, NEW s \in pend, Publish(s)
  PROVE  IInv'
<1> USE LoopBound, QueueConstants
<1>1. PICK n \in 0 .. N : s = DataStore(n) \/ s = TailStore(n)
  BY DEF IInv, TypeOK, Store
<1>2. /\ pend' = pend \ {s}
      /\ UNCHANGED <<head, ptail, ppc, chead, cpc, got>>
  BY DEF Publish, producerVars, consumerVars
<1>3. \A m \in 0 .. N : Issued(m)' <=> Issued(m)
  BY <1>2 DEF Issued
<1>4. CASE s = DataStore(n)
  <2>1. data' = [data EXCEPT ![Slot(n)] = n] /\ tail' = tail
    BY <1>4, StoresDiffer DEF Publish
  <2>2. Slot(n) \in 0 .. Size-1
    BY SlotInRange
  <2>3. TypeOK'
    BY <1>2, <2>1, <2>2 DEF IInv, TypeOK
  <2>4. OffsetsOrdered' /\ TestStillHolds' /\ FifoDelivery' /\ NoNullDeref'
    BY <1>2, <2>1
    DEF IInv, OffsetsOrdered, TestStillHolds, FifoDelivery, NoNullDeref
  <2>5. TailsPending'
    BY <1>2, <1>4, <2>1, StoresDiffer DEF IInv, TailsPending
  <2>6. DataPending'
    BY <1>2, <1>3, <2>1 DEF IInv, DataPending
  <2>7. tail <= n /\ Issued(n)
    BY <1>4 DEF IInv, DataPending
  <2>8. DataKept'
    <3>1. SUFFICES ASSUME NEW m \in 0 .. N, head <= m, Issued(m),
                          DataStore(m) \notin pend'
                   PROVE  data'[Slot(m)] = m
      BY <1>2, <1>3 DEF DataKept
    <3>2. CASE m = n
      BY <2>1, <2>2, <3>2 DEF IInv, TypeOK
    <3>3. CASE m # n
      <4>1. m < head + Size /\ n < head + Size /\ head <= n
        BY <2>7, <3>1 DEF Issued, IInv, TypeOK, OffsetsOrdered, TestStillHolds
      <4>2. Slot(m) # Slot(n)
        BY <3>1, <3>3, <4>1, OwnSlots DEF IInv, TypeOK
      <4>3. DataStore(m) \notin pend
        BY <1>2, <1>4, <3>1, <3>3, StoresDiffer
      <4>4. data[Slot(m)] = m
        BY <3>1, <4>3 DEF IInv, DataKept
      <4> QED
        BY <2>1, <4>2, <4>4, SlotInRange DEF IInv, TypeOK
    <3> QED
      BY <3>2, <3>3
  <2>9. DataOwned'
    <3>1. SUFFICES ASSUME NEW i \in 0 .. Size-1, data'[i] # Raw
                   PROVE  Slot(data'[i]) = i /\ Issued(data[i])'
      BY DEF DataOwned
    <3>2. CASE i = Slot(n)
      BY <1>2, <2>1, <2>2, <2>7, <3>2 DEF IInv, TypeOK, Issued
    <3>3. CASE i # Slot(n)
      <4>1. data'[i] = data[i] /\ data[i] \in 0 .. N
        BY <2>1, <3>1, <3>3 DEF IInv, TypeOK
      <4> QED
        BY <1>2, <3>1, <4>1 DEF IInv, DataOwned, Issued
    <3> QED
      BY <3>2, <3>3
  <2> QED
    BY <2>3, <2>4, <2>5, <2>6, <2>8, <2>9 DEF IInv
<1>5. CASE s = TailStore(n)
  <2>1. tail' = n /\ data' = data
    BY <1>5, StoresDiffer DEF Publish
  <2>2. tail < n /\ n <= ptail
    BY <1>5 DEF IInv, TailsPending
  <2>3. \A m \in 0 .. N : TailStore(m) \in pend => n <= m
    BY <1>5, StoresDiffer DEF Publish, Ordered, Epoch
  <2>4. \A m \in 0 .. N : DataStore(m) \in pend => n <= m
    BY <1>5, StoresDiffer DEF Publish, Ordered, Epoch
  <2>5. n = tail + 1
    <3>1. tail + 1 \in 0 .. N /\ tail + 1 <= ptail
      BY <2>2 DEF IInv, TypeOK
    <3>2. TailStore(tail + 1) \in pend
      BY <3>1 DEF IInv, TypeOK, TailsPending
    <3> QED
      BY <2>2, <2>3, <3>1, <3>2 DEF IInv, TypeOK
  <2>6. TypeOK'
    BY <1>2, <2>1 DEF IInv, TypeOK
  <2>7. OffsetsOrdered' /\ TestStillHolds'
    BY <1>2, <2>1, <2>2
    DEF IInv, TypeOK, OffsetsOrdered, TestStillHolds
  <2>8. FifoDelivery' /\ NoNullDeref'
    BY <1>2 DEF IInv, FifoDelivery, NoNullDeref
  <2>9. TailsPending'
    BY <1>2, <1>5, <2>1, <2>2, <2>5, StoresDiffer DEF IInv, TypeOK, TailsPending
  <2>10. DataPending'
    BY <1>2, <1>3, <2>1, <2>4 DEF IInv, DataPending
  <2>11. DataKept'
    BY <1>2, <1>3, <1>5, <2>1, StoresDiffer DEF IInv, DataKept
  <2>12. DataOwned'
    BY <1>3, <2>1 DEF IInv, TypeOK, DataOwned
  <2> QED
    BY <2>6, <2>7, <2>8, <2>9, <2>10, <2>11, <2>12 DEF IInv
<1> QED
  BY <1>1, <1>4, <1>5

(* Steps of the consumer.                                                  *)
LEMMA ConsumerInv ==
  ASSUME IInv, WrapSafe, Consumer \/ PublishHead
  PROVE  IInv'
<1> USE LoopBound, QueueConstants
<1>1. CASE CCheck
  <2>1. chead < tail
    BY <1>1, TestsExact DEF CCheck, IInv, TypeOK, OffsetsOrdered
  <2>2. /\ cpc' = "begin"
        /\ UNCHANGED <<tail, head, data, pend, ptail, ppc, chead, got>>
    BY <1>1 DEF CCheck, producerVars
  <2> QED
    BY <1>1, <2>1, <2>2 DEF CCheck, IInv, TypeOK, OffsetsOrdered, TestStillHolds,
       TailsPending, DataPending, DataKept, DataOwned, Issued, FifoDelivery,
       NoNullDeref
<1>2. CASE CBegin
  <2>1. chead < tail
    BY <1>2 DEF CBegin, IInv, TestStillHolds
  <2>2. /\ cpc' = "load"
        /\ UNCHANGED <<tail, head, data, pend, ptail, ppc, chead, got>>
    BY <1>2, <2>1, TestsExact DEF CBegin, producerVars, IInv, TypeOK
  <2> QED
    BY <1>2, <2>1, <2>2 DEF CBegin, IInv, TypeOK, OffsetsOrdered, TestStillHolds,
       TailsPending, DataPending, DataKept, DataOwned, Issued, FifoDelivery,
       NoNullDeref
<1>3. CASE CLoad
  <2>1. chead \in 0 .. N /\ chead < tail /\ head <= chead /\ tail <= ptail
    BY <1>3 DEF CLoad, IInv, TypeOK, OffsetsOrdered, TestStillHolds
  <2>2. DataStore(chead) \notin pend /\ Issued(chead)
    BY <2>1 DEF IInv, TypeOK, DataPending, Issued
  <2>3. data[Slot(chead)] = chead
    BY <2>1, <2>2 DEF IInv, DataKept
  <2>4. /\ got' = chead /\ cpc' = "pop"
        /\ UNCHANGED <<tail, head, data, pend, ptail, ppc, chead>>
    BY <1>3, <2>3 DEF CLoad, producerVars
  <2>5. TypeOK' /\ OffsetsOrdered' /\ TestStillHolds'
    BY <1>3, <2>1, <2>4 DEF CLoad, IInv, TypeOK, OffsetsOrdered, TestStillHolds
  <2>6. TailsPending' /\ DataPending' /\ DataKept' /\ DataOwned'
    BY <2>4 DEF IInv, TailsPending, DataPending, DataKept, DataOwned, Issued
  <2>7. FifoDelivery' /\ NoNullDeref'
    BY <1>3, <2>4 DEF CLoad, IInv, FifoDelivery, NoNullDeref
  <2> QED
    BY <2>5, <2>6, <2>7 DEF IInv
<1>4. CASE CPop
  <2>1. chead < tail /\ tail <= N /\ tail <= ptail /\ head <= chead
    BY <1>4 DEF CPop, IInv, TypeOK, OffsetsOrdered, TestStillHolds
  <2>2. /\ chead' = chead + 1
        /\ cpc' = IF chead + 1 < N THEN "check" ELSE "done"
        /\ UNCHANGED <<tail, head, data, pend, ptail, ppc, got>>
    BY <1>4 DEF CPop, producerVars, IInv, FifoDelivery
  <2>3. TypeOK' /\ OffsetsOrdered' /\ TestStillHolds'
    BY <2>1, <2>2 DEF IInv, TypeOK, OffsetsOrdered, TestStillHolds
  <2>4. TailsPending' /\ DataPending' /\ DataKept' /\ DataOwned'
    BY <2>2 DEF IInv, TailsPending, DataPending, DataKept, DataOwned, Issued
  <2>5. FifoDelivery' /\ NoNullDeref'
    BY <2>2 DEF IInv, FifoDelivery, NoNullDeref
  <2> QED
    BY <2>3, <2>4, <2>5 DEF IInv
<1>5. CASE PublishHead
  <2>1. /\ head < chead /\ head' = head + 1
        /\ UNCHANGED <<tail, data, pend, ptail, ppc, chead, cpc, got>>
    BY <1>5 DEF PublishHead, producerVars, consumerVars
  <2>2. TypeOK' /\ OffsetsOrdered' /\ TestStillHolds'
    BY <2>1 DEF IInv, TypeOK, OffsetsOrdered, TestStillHolds
  <2>3. TailsPending' /\ DataPending' /\ DataOwned'
    BY <2>1 DEF IInv, TailsPending, DataPending, DataOwned, Issued
  <2>4. DataKept'
    BY <2>1 DEF IInv, TypeOK, DataKept, Issued
  <2>5. FifoDelivery' /\ NoNullDeref'
    BY <2>1 DEF IInv, FifoDelivery, NoNullDeref
  <2> QED
    BY <2>2, <2>3, <2>4, <2>5 DEF IInv
<1> QED
  BY <1>1, <1>2, <1>3, <1>4, <1>5 DEF Consumer

(* The invariant is inductive.                                             *)
LEMMA StepInv ==
  ASSUME IInv, WrapSafe, [Next]_vars
  PROVE  IInv'
<1>1. CASE Producer
  BY <1>1, ProducerInv
<1>2. CASE Consumer
  BY <1>2, ConsumerInv
<1>3. CASE Memory
  BY <1>3, PublishInv, ConsumerInv DEF Memory
<1>4. CASE UNCHANGED vars
  BY <1>4 DEF vars, IInv, TypeOK, OffsetsOrdered, TestStillHolds, TailsPending,
     DataPending, DataKept, DataOwned, Issued, FifoDelivery, NoNullDeref
<1> QED
  BY <1>1, <1>2, <1>3, <1>4 DEF Next, Terminated

-----------------------------------------------------------------------------
(* The invariant holds throughout.                                         *)
THEOREM Invariance == ASSUME WrapSafe PROVE Spec => []IInv
<1>1. Init => IInv
  BY InitInv
<1>2. IInv /\ [Next]_vars => IInv'
  BY StepInv
<1> QED
  BY <1>1, <1>2, PTL DEF Spec

(* Every variable keeps its type, in particular no process goes past the   *)
(* common bound of the two loops.                                          *)
THEOREM TypeCorrect == ASSUME WrapSafe PROVE Spec => []TypeOK
<1>1. IInv => TypeOK
  BY DEF IInv
<1> QED
  BY <1>1, Invariance, PTL

(* The consumer gets every element once and in order, for any size, width  *)
(* and number of elements.                                                 *)
THEOREM DeliveryCorrect == ASSUME WrapSafe PROVE Spec => []FifoDelivery
<1>1. IInv => FifoDelivery
  BY DEF IInv
<1> QED
  BY <1>1, Invariance, PTL

(* No call of end() or begin() that the loops leave unchecked is null.     *)
THEOREM NeverNull == ASSUME WrapSafe PROVE Spec => []NoNullDeref
<1>1. IInv => NoNullDeref
  BY DEF IInv
<1> QED
  BY <1>1, Invariance, PTL

(* begin() finds an element whenever the consumer can see one.             *)
THEOREM BeginCorrect == ASSUME WrapSafe PROVE Spec => []BeginFindsOldest
<1>1. IInv => BeginFindsOldest
  BY TestsExact, LoopBound DEF IInv, TypeOK, OffsetsOrdered, BeginFindsOldest
<1> QED
  BY <1>1, Invariance, PTL

(* No step writes over a slot before the pop of its element is visible.    *)
LEMMA OverwriteStep ==
  ASSUME IInv, WrapSafe, [Next]_vars, NEW i \in 0 .. Size-1, data'[i] # data[i]
  PROVE  data[i] = Raw \/ data[i] < head
<1> USE LoopBound, QueueConstants
<1>1. PICK s \in pend : Publish(s)
  BY DEF Next, Producer, Consumer, Memory, Terminated, PCheck, PWrite, PPush,
     CCheck, CBegin, CLoad, CPop, PublishHead, vars
<1>2. PICK n \in 0 .. N : s = DataStore(n)
  BY <1>1 DEF Publish, IInv, TypeOK, Store, TailStore
<1>3. data' = [data EXCEPT ![Slot(n)] = n]
  BY <1>1, <1>2, StoresDiffer DEF Publish
<1>4. i = Slot(n) /\ data[i] # n
  BY <1>3 DEF IInv, TypeOK
<1>5. tail <= n /\ Issued(n)
  BY <1>2 DEF IInv, DataPending
<1>6. SUFFICES ASSUME data[i] # Raw, data[i] >= head
               PROVE  FALSE
  BY DEF IInv, TypeOK, Raw
<1>7. data[i] \in 0 .. N /\ Slot(data[i]) = i /\ Issued(data[i])
  BY <1>6 DEF IInv, TypeOK, DataOwned
<1>8. /\ head <= n /\ n < head + Size
      /\ head <= data[i] /\ data[i] < head + Size
  BY <1>5, <1>6, <1>7
  DEF Issued, IInv, TypeOK, OffsetsOrdered, TestStillHolds
<1>9. Slot(data[i]) # Slot(n)
  <2>1. head \in Nat
    BY DEF IInv, TypeOK
  <2> QED
    BY <1>4, <1>7, <1>8, <2>1, OwnSlots
<1> QED
  BY <1>4, <1>7, <1>9

(* No slot is written over before the producer sees the pop of its         *)
(* element, whenever the wrap is safe.                                     *)
THEOREM OverwriteCorrect == ASSUME WrapSafe PROVE Spec => NoUnreadOverwrite
<1>1. IInv /\ [Next]_vars =>
        [\A s \in 0 .. Size-1 :
           data'[s] # data[s] => data[s] = Raw \/ data[s] < head]_vars
  BY OverwriteStep
<1> QED
  BY <1>1, Invariance, PTL DEF Spec, NoUnreadOverwrite

-----------------------------------------------------------------------------
(* The offsets from a up to b, b excluded, as a sequence.                  *)
Numbers(a, b) == [j \in 1 .. b - a |-> a + j - 1]

(* Such a sequence has one element per offset.                             *)
LEMMA NumbersSeq ==
  ASSUME NEW a \in Nat, NEW b \in Nat, a <= b
  PROVE  Numbers(a, b) \in Seq(Nat) /\ Len(Numbers(a, b)) = b - a
BY DEF Numbers

(* A push appends the next offset.                                         *)
LEMMA NumbersAppend ==
  ASSUME NEW a \in Nat, NEW b \in Nat, a <= b
  PROVE  Append(Numbers(a, b), b) = Numbers(a, b + 1)
<1>1. Numbers(a, b) \in Seq(Nat) /\ Len(Numbers(a, b)) = b - a
  BY NumbersSeq
<1>2. Numbers(a, b + 1) \in Seq(Nat) /\ Len(Numbers(a, b + 1)) = b + 1 - a
  BY NumbersSeq
<1>3. /\ Append(Numbers(a, b), b) \in Seq(Nat)
      /\ Len(Append(Numbers(a, b), b)) = b + 1 - a
  BY <1>1
<1>4. \A j \in 1 .. b + 1 - a :
        Append(Numbers(a, b), b)[j] = Numbers(a, b + 1)[j]
  BY <1>1 DEF Numbers
<1> QED
  BY <1>2, <1>3, <1>4, SeqEqual

(* A pop removes the first offset.                                         *)
LEMMA NumbersTail ==
  ASSUME NEW a \in Nat, NEW b \in Nat, a < b
  PROVE  /\ Numbers(a, b) # <<>>
         /\ Head(Numbers(a, b)) = a
         /\ Tail(Numbers(a, b)) = Numbers(a + 1, b)
<1>1. Numbers(a, b) \in Seq(Nat) /\ Len(Numbers(a, b)) = b - a
  BY NumbersSeq
<1>2. Numbers(a + 1, b) \in Seq(Nat) /\ Len(Numbers(a + 1, b)) = b - a - 1
  BY NumbersSeq
<1>3. Numbers(a, b) # <<>> /\ Head(Numbers(a, b)) = a
  BY <1>1 DEF Numbers
<1>4. /\ Tail(Numbers(a, b)) \in Seq(Nat)
      /\ Len(Tail(Numbers(a, b))) = b - a - 1
      /\ \A j \in 1 .. b - a - 1 :
           Tail(Numbers(a, b))[j] = Numbers(a, b)[j + 1]
  BY <1>1, <1>3, HeadTailProperties
<1>5. \A j \in 1 .. b - a - 1 :
        Tail(Numbers(a, b))[j] = Numbers(a + 1, b)[j]
  BY <1>4 DEF Numbers
<1> QED
  BY <1>2, <1>3, <1>4, <1>5, SeqEqual

(* The abstract queue holds the offsets of the unread elements.            *)
LEMMA UnreadNumbers ==
  ASSUME IInv
  PROVE  /\ taken \in Nat /\ taken <= tail /\ tail \in Nat
         /\ tail <= taken + Size
         /\ Unread = Numbers(taken, tail)
<1> USE LoopBound, QueueConstants
<1>1. /\ taken \in Nat /\ head <= taken /\ taken <= tail /\ tail \in Nat
      /\ tail <= N /\ tail <= ptail /\ ptail <= head + Size /\ head \in Nat
  BY DEF IInv, TypeOK, OffsetsOrdered, TestStillHolds, taken
<1>2. ASSUME NEW k \in taken .. tail-1 PROVE data[Slot(k)] = k
  <2>1. k \in 0 .. N /\ head <= k /\ k < ptail /\ k < tail
    BY <1>1 DEF IInv, TypeOK
  <2>2. DataStore(k) \notin pend
    BY <2>1 DEF IInv, TypeOK, DataPending
  <2> QED
    BY <2>1, <2>2 DEF IInv, DataKept, Issued
<1>3. \A j \in 1 .. tail - taken : data[Slot(taken + j - 1)] = taken + j - 1
  BY <1>1, <1>2
<1>4. tail <= taken + Size
  BY <1>1 DEF IInv, TypeOK
<1> QED
  BY <1>1, <1>3, <1>4 DEF Unread, Numbers

(* The same of the next state.                                             *)
LEMMA UnreadNumbersNext ==
  IInv' => /\ taken' \in Nat /\ tail' \in Nat
           /\ tail' <= taken' + Size
           /\ Unread' = Numbers(taken', tail')
<1>1. IInv => /\ taken \in Nat /\ tail \in Nat
              /\ tail <= taken + Size
              /\ Unread = Numbers(taken, tail)
  BY UnreadNumbers
<1>2. IInv' => (/\ taken \in Nat /\ tail \in Nat
                /\ tail <= taken + Size
                /\ Unread = Numbers(taken, tail))'
  BY <1>1, PTL
<1> QED
  BY <1>2

(* Every step is a push, a pop or nothing to the abstract queue.           *)
LEMMA RefinementStep ==
  ASSUME IInv, WrapSafe, [Next]_vars
  PROVE  [Fifo!Next]_(Fifo!vars)
<1> USE LoopBound, QueueConstants
<1>1. IInv'
  BY StepInv
<1>2. /\ taken \in Nat /\ taken <= tail /\ tail \in Nat
      /\ tail <= taken + Size
      /\ Unread = Numbers(taken, tail)
  BY UnreadNumbers
<1>3. /\ taken' \in Nat /\ tail' \in Nat
      /\ tail' <= taken' + Size
      /\ Unread' = Numbers(taken', tail')
  BY <1>1, UnreadNumbersNext
<1>4. ASSUME UNCHANGED <<taken, tail, got>> PROVE UNCHANGED Fifo!vars
  BY <1>2, <1>3, <1>4 DEF Fifo!vars
<1>5. CASE Producer
  BY <1>4, <1>5 DEF Producer, PCheck, PWrite, PPush, consumerVars, taken
<1>6. CASE CCheck \/ CBegin \/ CPop
  BY <1>4, <1>6 DEF CCheck, CBegin, CPop, taken, IInv, FifoDelivery
<1>7. CASE PublishHead
  BY <1>4, <1>7 DEF PublishHead, consumerVars, taken
<1>8. CASE CLoad
  <2>1. /\ taken' = taken + 1 /\ tail' = tail /\ got' = taken /\ taken < tail
    <3>1. chead \in 0 .. N /\ chead < tail /\ head <= chead /\ tail <= ptail
      BY <1>8 DEF CLoad, IInv, TypeOK, OffsetsOrdered, TestStillHolds
    <3>2. got' = chead'
      BY <1>1, <1>8 DEF CLoad, IInv, FifoDelivery
    <3> QED
      BY <1>8, <3>1, <3>2 DEF CLoad, taken
  <2>2. /\ Unread # <<>> /\ Head(Unread) = taken
        /\ Tail(Unread) = Numbers(taken + 1, tail)
    BY <1>2, <2>1, NumbersTail
  <2>3. Unread' = Numbers(taken + 1, tail)
    BY <1>3, <2>1
  <2> QED
    BY <2>1, <2>2, <2>3 DEF Fifo!Next, Fifo!Get
<1>9. ASSUME NEW s \in pend, Publish(s) PROVE [Fifo!Next]_(Fifo!vars)
  <2>1. UNCHANGED <<taken, got>>
    BY <1>9 DEF Publish, consumerVars, taken
  <2>2. CASE tail' = tail
    BY <1>4, <2>1, <2>2
  <2>3. CASE tail' # tail
    <3>1. PICK n \in 0 .. N : s = TailStore(n) /\ tail' = n
      BY <1>9, <2>3, StoresDiffer DEF Publish, IInv, TypeOK, Store
    <3>2. n = tail + 1
      <4>1. tail < n /\ n <= ptail
        BY <3>1 DEF IInv, TailsPending
      <4>2. \A m \in 0 .. N : TailStore(m) \in pend => n <= m
        BY <1>9, <3>1, StoresDiffer DEF Publish, Ordered, Epoch
      <4>3. tail + 1 \in 0 .. N /\ tail + 1 <= ptail
        BY <4>1 DEF IInv, TypeOK
      <4> QED
        BY <4>1, <4>2, <4>3 DEF IInv, TypeOK, TailsPending
    <3>3. Unread' = Append(Unread, tail)
      BY <1>2, <1>3, <2>1, <3>1, <3>2, NumbersAppend
    <3>4. tail < taken + Size
      BY <1>2, <1>3, <2>1, <3>1, <3>2
    <3>5. Len(Unread) < Size
      BY <1>2, <3>4, NumbersSeq
    <3> QED
      BY <2>1, <3>1, <3>2, <3>3, <3>5 DEF Fifo!Next, Fifo!Put
  <2> QED
    BY <2>2, <2>3
<1>10. CASE UNCHANGED vars
  BY <1>4, <1>10 DEF vars, taken
<1> QED
  BY <1>5, <1>6, <1>7, <1>8, <1>9, <1>10
  DEF Next, Consumer, Memory, Terminated

(* The queue in shared memory, with its buffered stores and wrapping       *)
(* offsets, implements the bounded FIFO.                                   *)
THEOREM Refinement == ASSUME WrapSafe PROVE Spec => ImplementsFifo
<1>1. Init => Fifo!Init
  <2>1. SUFFICES ASSUME Init PROVE Fifo!Init
    OBVIOUS
  <2>2. taken = 0 /\ tail = 0 /\ got = -1
    BY <2>1 DEF Init, taken, Raw
  <2>3. Unread = <<>>
    BY <2>2 DEF Unread
  <2> QED
    BY <2>2, <2>3 DEF Fifo!Init
<1>2. IInv /\ [Next]_vars => [Fifo!Next]_(Fifo!vars)
  BY RefinementStep
<1> QED
  BY <1>1, <1>2, Invariance, PTL DEF Spec, ImplementsFifo, Fifo!Spec

=============================================================================
