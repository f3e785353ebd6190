---------------------------- MODULE QueueProofs ----------------------------
(***************************************************************************)
(* Proofs about the two models of a queue that has more than one way to be *)
(* pushed to, for every _size, every width of Int and every number of      *)
(* elements.                                                               *)
(*                                                                         *)
(* MpscQueue, with Spec: how far any number of producers can overrun the   *)
(* queue together, and that the elements of producers that claim and write *)
(* at the same time do not get lost.                                       *)
(*                                                                         *)
(* QueuePrograms, with ProgramSpec, and QueueApi below it: what the queue  *)
(* holds after any calls, what at() finds, what a reader that catches up   *)
(* finds, and that no program fails.                                       *)
(*                                                                         *)
(* Both are about the members of CircularQueue and use the same lemmas on  *)
(* its slots and offsets.                                                  *)
(***************************************************************************)
EXTENDS MpscQueue, QueuePrograms, ModLemmas, FiniteSetTheorems, SequenceTheorems

(* The most elements an overrun queue holds fits Int; with fewer bits      *)
(* end() would find an overrun queue empty.  In a build that loads         *)
(* _head_offset first, a producer that waits between the two loads while   *)
(* a whole turn of Int goes by finds the same; there the offsets must not  *)
(* wrap.                                                                   *)
OverrunFits ==
  /\ Size + Cardinality(Producers) <= IntMod
  /\ "head" \in LoadsFirst => Total < IntMod

(* Offsets wrap in step with the slots, or not at all.                     *)
WrapSafe == IntMod % Size = 0 \/ Total <= IntMod

-----------------------------------------------------------------------------
(* Where a producer can be.                                                *)
Places == LoadsFirst \cup {"check", "claim", "write", "done"}

(* What the variables hold.                                                *)
Typed ==
  /\ tail \in Nat
  /\ head \in Nat
  /\ chead \in Nat
  /\ data \in [0 .. Size-1 -> Elements]
  /\ pend \subseteq [by : Producers, at : Nat, nr : 0 .. M-1]
  /\ ppc \in [Producers -> Places]
  /\ loaded \in [Producers -> Nat]
  /\ claim \in [Producers -> Nat]
  /\ pushed \in [Producers -> 0 .. M]
  /\ owner \in [0 .. Total-1 -> Elements]
  /\ inUse \in BOOLEAN
  /\ cpc \in {"check", "load", "pop", "done"}

(* A producer that is not through has elements left.                       *)
ElementsLeft == \A p \in Producers : ppc[p] # "done" => pushed[p] < M

(* The visible head trails the consumer's, which trails the tail, and the  *)
(* consumer pops what begin() found.                                       *)
OffsetsOrdered ==
  /\ head <= chead
  /\ chead <= tail
  /\ cpc \in {"load", "pop"} => chead < tail

Base == Typed /\ ElementsLeft /\ OffsetsOrdered

-----------------------------------------------------------------------------
(* The elements an offset was handed out for: as many as offsets.          *)
Handed == {e \in Producers \X (0 .. M-1) :
             e[2] < pushed[e[1]] \/ (e[2] = pushed[e[1]] /\ ppc[e[1]] = "write")}

Counted == Cardinality(Handed) = tail

(* A producer looks at an offset that was there before.                    *)
LoadsOld ==
  \A p \in Producers :
    /\ ppc[p] = "tail" => loaded[p] <= tail
    /\ ppc[p] = "head" => loaded[p] <= head

(* The producers that may still claim an offset although _head_offset is   *)
(* no further than n and there are n + _size of them: they were told that  *)
(* there is room, or have loaded the tail before it got there.             *)
Late(n) ==
  {p \in Producers : \/ ppc[p] = "claim"
                     \/ ppc[p] = "tail" /\ loaded[p] < n + Size}

(* They and those that have already are fewer than all, because the one    *)
(* that brought the tail there had to load it anew.                        *)
RoomPromised ==
  \A n \in Nat : head <= n /\ n + Size <= tail =>
    tail - (n + Size) + Cardinality(Late(n)) <= Cardinality(Producers) - 1

BInv == Base /\ Counted /\ LoadsOld /\ RoomPromised

(* A producer writes its element to the offset it claimed for it, and an   *)
(* invisible store is the last one of its producer.                        *)
ClaimsOwned ==
  \A p \in Producers : ppc[p] = "write" =>
    claim[p] < tail /\ owner[claim[p]] = Element(p, pushed[p])

StoresOwned ==
  \A s \in pend :
    /\ ppc[s.by] # "write"
    /\ s.at = claim[s.by]
    /\ s.nr + 1 = pushed[s.by]
    /\ s.at < tail
    /\ owner[s.at] = Element(s.by, s.nr)

(* An element in a slot has been written and its store is visible.         *)
DataLanded ==
  \A x \in 0 .. Size-1 : \A p \in Producers : \A n \in Nat :
    data[x] = Element(p, n) =>
      n < pushed[p] /\ \A s \in pend : s.by = p => s.nr # n

(* Offset k was claimed, its element is not in its slot yet.               *)
InFlight(o) ==
  \/ \E p \in Producers : ppc[p] = "write" /\ claim[p] = o
  \/ \E s \in pend : s.at = o

(* While no slot was handed out too early, the elements in flight are      *)
(* among the last _size ones, and the others of these are in their slots.  *)
LapKept ==
  ~inUse =>
    /\ tail - head <= Size
    /\ \A o \in Nat : InFlight(o) => tail - Size <= o
    /\ \A o \in Nat : o < tail /\ tail - Size <= o =>
         InFlight(o) \/ data[Slot(o)] = owner[o]

IInv ==
  /\ Base
  /\ Counted
  /\ ClaimsOwned
  /\ StoresOwned
  /\ DataLanded
  /\ LapKept

-----------------------------------------------------------------------------
(* What the assumptions say of the constants, ready to cite.               *)
LEMMA ConstantsTyped ==
  /\ Size \in Nat \ {0}
  /\ IntMod \in Nat \ {0}
  /\ M \in Nat
  /\ Cardinality(Producers) \in Nat
  /\ Total \in Nat
  /\ Raw \in Elements
  /\ \A p \in Producers : \A n \in Int : Element(p, n) # Raw
<1>1. Cardinality(Producers) \in Nat /\ M \in Nat
  BY ProducerConstants, FS_CardinalityType
<1>2. Total \in Nat
  BY <1>1 DEF Total
<1>3. \A p \in Producers : \A n \in Int : Element(p, n) # Raw
  <2> TAKE p \in Producers
  <2> TAKE n \in Int
  <2>1. Element(p, n).by = p /\ Raw.by = "nobody"
    BY DEF Element, Raw
  <2> QED
    BY <2>1, ProducerConstants
<1> QED
  BY <1>1, <1>2, <1>3, QueueConstants DEF Elements

(* Every offset has a slot inside _data.                                   *)
LEMMA SlotInRange ==
  ASSUME NEW n \in Nat
  PROVE  Slot(n) \in 0 .. Size-1
BY DivMod, QueueConstants DEF Slot, Word

(* Offsets less than _size apart have different ones, provided that the    *)
(* slots do not jump at the wrap.                                          *)
LEMMA SlotsDiffer ==
  ASSUME NEW a \in Nat, NEW b \in Nat, a < b, b - a < Size,
         IntMod % Size = 0 \/ b < IntMod
  PROVE  Slot(a) # Slot(b)
<1>1. Size \in Nat \ {0} /\ IntMod \in Nat \ {0}
  BY QueueConstants
<1> QED
  BY <1>1, RingDiffer DEF Slot, Word

(* Different elements differ in their producer or their number.            *)
LEMMA ElementInjective ==
  ASSUME NEW p, NEW q, NEW m, NEW n, Element(p, m) = Element(q, n)
  PROVE  p = q /\ m = n
<1>1. Element(p, m).by = p /\ Element(q, n).by = q
  BY DEF Element
<1>2. Element(p, m).nr = m /\ Element(q, n).nr = n
  BY DEF Element
<1> QED
  BY <1>1, <1>2

(* begin() returns no slot when the offsets are the same.                  *)
LEMMA BeginFinds ==
  ASSUME NEW t \in Nat, NEW h \in Nat, h <= t, ~BeginIsNull(t, h)
  PROVE  h < t
<1>1. CASE h = t
  <2>1. Word(h) \in Int
    BY QueueConstants, DivMod DEF Word
  <2> QED
    BY <1>1, <2>1 DEF BeginIsNull
<1> QED
  BY <1>1

(* Some of the producers are finitely many, and no more than all.          *)
LEMMA SubsetCounted ==
  ASSUME NEW S \in SUBSET Producers
  PROVE  /\ IsFiniteSet(S)
         /\ Cardinality(S) \in Nat
         /\ Cardinality(S) <= Cardinality(Producers)
BY ProducerConstants, FS_Subset, FS_CardinalityType

-----------------------------------------------------------------------------
(* The start is well typed and its offsets are ordered.                    *)
LEMMA BaseInit == Init => Base
<1> SUFFICES ASSUME Init PROVE Base
  OBVIOUS
<1>1. Typed
  <2>1. data \in [0 .. Size-1 -> Elements] /\ owner \in [0 .. Total-1 -> Elements]
    BY ConstantsTyped DEF Init
  <2>2. ppc \in [Producers -> Places] /\ loaded \in [Producers -> Nat]
    BY DEF Init, Places
  <2>3. /\ claim \in [Producers -> Nat]
        /\ pushed \in [Producers -> 0 .. M]
    BY ConstantsTyped DEF Init
  <2>4. pend \subseteq [by : Producers, at : Nat, nr : 0 .. M-1]
    BY DEF Init
  <2> QED
    BY <2>1, <2>2, <2>3, <2>4 DEF Init, Typed
<1>2. OffsetsOrdered
  BY DEF Init, OffsetsOrdered
<1>3. ElementsLeft
  BY ConstantsTyped DEF Init, ElementsLeft
<1> QED
  BY <1>1, <1>2, <1>3 DEF Base

(* So is what every step leads to.                                         *)
LEMMA BaseStep == Base /\ [Next]_vars => Base'
<1> SUFFICES ASSUME Base, [Next]_vars PROVE Base'
  OBVIOUS
<1> USE DEF Base
<1>1. ASSUME NEW p \in Producers, PLoad(p) \/ PCheck(p) PROVE Base'
  <2>1. /\ ppc'[p] \in Places \ {"write", "done"} /\ ppc[p] # "done"
        /\ \A q \in Producers \ {p} : ppc'[q] = ppc[q]
        /\ ppc' \in [Producers -> Places] /\ loaded' \in [Producers -> Nat]
    <3>1. CASE PLoad(p)
      BY <3>1, ProducerConstants DEF PLoad, Typed, Places
    <3>2. CASE PCheck(p)
      BY <3>2, ConstantsTyped DEF PCheck, Typed, Places
    <3> QED
      BY <1>1, <3>1, <3>2
  <2>2. UNCHANGED <<tail, head, data, pend, claim, pushed, owner, inUse, chead, cpc>>
    BY <1>1 DEF PLoad, PCheck, consumerVars
  <2>3. Typed'
    BY <2>1, <2>2 DEF Typed
  <2>4. OffsetsOrdered'
    BY <2>2 DEF OffsetsOrdered
  <2>5. ElementsLeft'
    BY <2>1, <2>2 DEF ElementsLeft
  <2> QED
    BY <2>3, <2>4, <2>5
<1>2. ASSUME NEW p \in Producers, PClaim(p) PROVE Base'
  <2>1. owner' \in [0 .. Total-1 -> Elements]
    <3>1. pushed[p] \in 0 .. M-1
      <4>1. ppc[p] = "claim"
        BY <1>2 DEF PClaim
      <4>2. pushed[p] \in 0 .. M /\ pushed[p] < M
        BY <4>1 DEF Typed, ElementsLeft
      <4> QED
        BY <4>2, ConstantsTyped
    <3>2. Element(p, pushed[p]) \in Elements
      BY <3>1 DEF Elements
    <3> QED
      BY <1>2, <3>2 DEF PClaim, Typed
  <2>2. Typed'
    BY <1>2, <2>1 DEF PClaim, Typed, Places, consumerVars
  <2>3. OffsetsOrdered' /\ ElementsLeft'
    BY <1>2 DEF PClaim, OffsetsOrdered, ElementsLeft, consumerVars, Typed
  <2> QED
    BY <2>2, <2>3
<1>3. ASSUME NEW p \in Producers, PWrite(p) PROVE Base'
  <2>1. pushed[p] \in 0 .. M-1
    <3>1. ppc[p] = "write"
      BY <1>3 DEF PWrite
    <3>2. pushed[p] \in 0 .. M /\ pushed[p] < M
      BY <3>1 DEF Typed, ElementsLeft
    <3> QED
      BY <3>2, ConstantsTyped
  <2>2. pend' \subseteq [by : Producers, at : Nat, nr : 0 .. M-1]
    <3> DEFINE s == [by |-> p, at |-> claim[p], nr |-> pushed[p]]
    <3>1. s \in [by : Producers, at : Nat, nr : 0 .. M-1]
      BY <2>1 DEF Typed
    <3> QED
      BY <1>3, <3>1 DEF PWrite, Typed
  <2>3. pushed' \in [Producers -> 0 .. M]
    BY <1>3, <2>1, ConstantsTyped DEF PWrite, Typed
  <2>4. Typed'
    BY <1>3, <2>2, <2>3 DEF PWrite, Typed, Places, consumerVars
  <2>5. OffsetsOrdered'
    BY <1>3 DEF PWrite, OffsetsOrdered, consumerVars
  <2>6. ElementsLeft'
    BY <1>3, <2>1, ConstantsTyped DEF PWrite, ElementsLeft, Typed
  <2> QED
    BY <2>4, <2>5, <2>6
<1>4. ASSUME NEW s \in pend, Publish(s) PROVE Base'
  <2>1. s \in [by : Producers, at : Nat, nr : 0 .. M-1]
    BY DEF Typed
  <2>2. data' \in [0 .. Size-1 -> Elements]
    <3>1. Element(s.by, s.nr) \in Elements
      BY <2>1 DEF Elements
    <3> QED
      BY <1>4, <3>1 DEF Publish, Typed
  <2>3. Typed'
    BY <1>4, <2>2 DEF Publish, Typed, consumerVars, producerVars
  <2>4. OffsetsOrdered' /\ ElementsLeft'
    BY <1>4 DEF Publish, OffsetsOrdered, ElementsLeft, consumerVars, producerVars
  <2> QED
    BY <2>3, <2>4
<1>5. ASSUME CCheck PROVE Base'
  <2>1. chead < tail
    BY <1>5, BeginFinds DEF CCheck, Typed, OffsetsOrdered
  <2>2. Typed'
    BY <1>5 DEF CCheck, Typed, producerVars
  <2>3. OffsetsOrdered' /\ ElementsLeft'
    BY <1>5, <2>1 DEF CCheck, OffsetsOrdered, ElementsLeft, producerVars
  <2> QED
    BY <2>2, <2>3
<1>6. ASSUME CLoad PROVE Base'
  <2>1. Typed'
    BY <1>6 DEF CLoad, Typed, producerVars
  <2>2. OffsetsOrdered' /\ ElementsLeft'
    BY <1>6 DEF CLoad, OffsetsOrdered, ElementsLeft, producerVars
  <2> QED
    BY <2>1, <2>2
<1>7. ASSUME CPop PROVE Base'
  <2>1. Typed'
    BY <1>7 DEF CPop, Typed, producerVars
  <2>2. OffsetsOrdered' /\ ElementsLeft'
    BY <1>7 DEF CPop, OffsetsOrdered, ElementsLeft, producerVars, Typed
  <2> QED
    BY <2>1, <2>2
<1>8. ASSUME PublishHead PROVE Base'
  <2>1. Typed'
    BY <1>8 DEF PublishHead, Typed, producerVars, consumerVars
  <2>2. OffsetsOrdered' /\ ElementsLeft'
    BY <1>8 DEF PublishHead, OffsetsOrdered, ElementsLeft, producerVars,
                consumerVars, Typed
  <2> QED
    BY <2>1, <2>2
<1>9. ASSUME UNCHANGED vars PROVE Base'
  BY <1>9 DEF vars, producerVars, consumerVars, Typed, OffsetsOrdered, ElementsLeft
<1> QED
  BY <1>1, <1>2, <1>3, <1>4, <1>5, <1>6, <1>7, <1>8, <1>9
     DEF Next, Producer, Consumer, Memory, Terminated

(* end() changes nothing but where its caller is.                          *)
LEMMA LooksOnly ==
  ASSUME Base, NEW p \in Producers, PLoad(p) \/ PCheck(p)
  PROVE  /\ \A q \in Producers : ppc'[q] = "write" <=> ppc[q] = "write"
         /\ UNCHANGED <<tail, head, data, pend, claim, pushed, owner, inUse>>
<1>1. CASE PLoad(p)
  BY <1>1, ProducerConstants DEF PLoad, Base, Typed
<1>2. CASE PCheck(p)
  BY <1>2 DEF PCheck, Base, Typed
<1> QED
  BY <1>1, <1>2

-----------------------------------------------------------------------------
(* Every offset handed out is that of another element.                     *)
LEMMA ProductCounted ==
  /\ IsFiniteSet(Producers \X (0 .. M-1))
  /\ Cardinality(Producers \X (0 .. M-1)) = Total
<1>1. IsFiniteSet(0 .. M-1) /\ Cardinality(0 .. M-1) = M
  <2>1. 0 \in Int /\ M-1 \in Int
    BY ConstantsTyped
  <2>2. /\ IsFiniteSet(0 .. M-1)
        /\ Cardinality(0 .. M-1) = IF 0 > M-1 THEN 0 ELSE M-1 - 0 + 1
    BY <2>1, FS_Interval
  <2> QED
    BY <2>2, ConstantsTyped
<1> QED
  BY <1>1, ProducerConstants, FS_Product DEF Total

(* Sets of elements are no larger than all the elements.                   *)
LEMMA HandedCounted ==
  ASSUME NEW S \in SUBSET (Producers \X (0 .. M-1))
  PROVE  /\ IsFiniteSet(S)
         /\ Cardinality(S) \in Nat
         /\ Cardinality(S) <= Total
BY ProductCounted, FS_Subset, FS_CardinalityType

(* No more offsets are handed out than there are elements.                 *)
LEMMA TailBounded ==
  ASSUME Base, Counted
  PROVE  tail <= Total
BY HandedCounted DEF Counted, Handed

(* At the start no offset has been handed out.                             *)
LEMMA CountedInit == Init => Counted
<1> SUFFICES ASSUME Init PROVE Counted
  OBVIOUS
<1>1. ASSUME NEW e \in Producers \X (0 .. M-1)
      PROVE  ~(e[2] < pushed[e[1]]) /\ ppc[e[1]] # "write"
  <2>1. e[1] \in Producers /\ e[2] \in 0 .. M-1
    OBVIOUS
  <2> QED
    BY <2>1, ConstantsTyped DEF Init
<1>2. Handed = {}
  BY <1>1 DEF Handed
<1> QED
  BY <1>2, FS_EmptySet DEF Init, Counted

(* A claim hands out the offset of one more element, and there is one.     *)
LEMMA ClaimCounted ==
  ASSUME Base, Counted, NEW p \in Producers, PClaim(p)
  PROVE  tail < Total /\ Counted'
<1> DEFINE e == <<p, pushed[p]>>
<1> USE DEF Base
<1>1. pushed[p] \in 0 .. M-1 /\ ppc[p] = "claim"
  <2>1. ppc[p] = "claim"
    BY DEF PClaim
  <2>2. pushed[p] \in 0 .. M /\ pushed[p] < M
    BY <2>1 DEF Typed, ElementsLeft
  <2> QED
    BY <2>1, <2>2, ConstantsTyped
<1>2. e \in Producers \X (0 .. M-1)
  BY <1>1
<1>3. e \notin Handed
  <2>1. e[1] = p /\ e[2] = pushed[p]
    OBVIOUS
  <2> QED
    BY <1>1, <2>1 DEF Handed
<1>4. Handed' = Handed \cup {e}
  <2>1. /\ \A q \in Producers \ {p} : ppc'[q] = ppc[q]
        /\ ppc'[p] = "write"
        /\ pushed' = pushed
    BY DEF PClaim, Typed
  <2>2. ASSUME NEW d \in Producers \X (0 .. M-1)
        PROVE  d \in Handed' <=> d \in Handed \cup {e}
    <3>1. d[1] \in Producers /\ d[2] \in 0 .. M-1 /\ d = <<d[1], d[2]>>
      OBVIOUS
    <3>2. CASE d[1] = p
      <4>1. d \in Handed' <=> d[2] < pushed[p] \/ d[2] = pushed[p]
        BY <2>1, <3>1, <3>2 DEF Handed
      <4>2. d \in Handed <=> d[2] < pushed[p]
        BY <1>1, <3>1, <3>2 DEF Handed
      <4>3. d = e <=> d[2] = pushed[p]
        BY <3>1, <3>2
      <4> QED
        BY <4>1, <4>2, <4>3
    <3>3. CASE d[1] # p
      <4>1. d \in Handed' <=> d \in Handed
        BY <2>1, <3>1, <3>3 DEF Handed
      <4>2. d # e
        BY <3>3
      <4> QED
        BY <4>1, <4>2
    <3> QED
      BY <3>2, <3>3
  <2>3. Handed' \subseteq Producers \X (0 .. M-1)
    BY DEF Handed
  <2>4. Handed \cup {e} \subseteq Producers \X (0 .. M-1)
    BY <1>2 DEF Handed
  <2> QED
    BY <2>2, <2>3, <2>4
<1>5. IsFiniteSet(Handed)
  BY HandedCounted DEF Handed
<1>6. Cardinality(Handed') = Cardinality(Handed) + 1
  BY <1>3, <1>4, <1>5, FS_AddElement
<1>7. Cardinality(Handed') <= Total
  <2>1. Handed \cup {e} \subseteq Producers \X (0 .. M-1)
    BY <1>2 DEF Handed
  <2> QED
    BY <1>4, <2>1, HandedCounted
<1>8. tail \in Nat /\ tail' = tail + 1
  BY DEF PClaim, Typed
<1> QED
  BY <1>6, <1>7, <1>8, ConstantsTyped DEF Counted

(* A write hands out nothing: the element counts as written.               *)
LEMMA WriteCounted ==
  ASSUME Base, Counted, NEW p \in Producers, PWrite(p)
  PROVE  Counted'
<1> USE DEF Base
<1>1. /\ pushed \in [Producers -> 0 .. M]
      /\ ppc \in [Producers -> Places]
  BY DEF Typed
<1>2. /\ \A q \in Producers \ {p} : ppc'[q] = ppc[q] /\ pushed'[q] = pushed[q]
      /\ ppc[p] = "write"
      /\ ppc'[p] # "write"
      /\ pushed'[p] = pushed[p] + 1
  BY <1>1 DEF PWrite
<1>3. ASSUME NEW d \in Producers \X (0 .. M-1)
      PROVE  d \in Handed' <=> d \in Handed
  <2>1. d[1] \in Producers /\ d[2] \in 0 .. M-1
    OBVIOUS
  <2>2. CASE d[1] = p
    <3>1. d \in Handed' <=> d[2] < pushed[p] + 1
      BY <1>2, <2>1, <2>2 DEF Handed
    <3>2. d \in Handed <=> d[2] < pushed[p] \/ d[2] = pushed[p]
      BY <1>2, <2>1, <2>2 DEF Handed
    <3>3. pushed[p] \in Int /\ d[2] \in Int
      BY <1>1, <2>1, ConstantsTyped
    <3> QED
      BY <3>1, <3>2, <3>3
  <2>3. CASE d[1] # p
    BY <1>2, <2>1, <2>3 DEF Handed
  <2> QED
    BY <2>2, <2>3
<1>4. Handed' \subseteq Producers \X (0 .. M-1) /\ Handed \subseteq Producers \X (0 .. M-1)
  BY DEF Handed
<1>5. Handed' = Handed
  BY <1>3, <1>4
<1> QED
  BY <1>5 DEF Counted, PWrite

(* Every step counts the offsets it hands out.                             *)
LEMMA CountedStep ==
  ASSUME Base, Counted, [Next]_vars
  PROVE  Counted'
<1>1. ASSUME NEW p \in Producers, PLoad(p) \/ PCheck(p) PROVE Counted'
  <2>1. /\ \A q \in Producers : ppc'[q] = "write" <=> ppc[q] = "write"
        /\ pushed' = pushed /\ tail' = tail
    BY <1>1, LooksOnly
  <2>2. Handed' = Handed
    <3>1. ASSUME NEW d \in Producers \X (0 .. M-1)
          PROVE  ppc'[d[1]] = "write" <=> ppc[d[1]] = "write"
      BY <2>1
    <3> QED
      BY <2>1, <3>1 DEF Handed
  <2> QED
    BY <2>1, <2>2 DEF Counted
<1>2. ASSUME pushed' = pushed, ppc' = ppc, tail' = tail PROVE Counted'
  BY <1>2 DEF Counted, Handed
<1>3. (\E s \in pend : Publish(s)) \/ PublishHead \/ Consumer \/ UNCHANGED vars
        => pushed' = pushed /\ ppc' = ppc /\ tail' = tail
  BY DEF Publish, PublishHead, Consumer, CCheck, CLoad, CPop, vars, producerVars
<1> QED
  BY <1>1, <1>2, <1>3, ClaimCounted, WriteCounted
     DEF Next, Producer, Memory, Terminated

-----------------------------------------------------------------------------
(* How far the producers overrun the queue: at the start, not at all.      *)
LEMMA RoomInit == Init => LoadsOld /\ RoomPromised
BY ConstantsTyped DEF Init, LoadsOld, RoomPromised

(* An offset that was loaded stays an old one.                             *)
LEMMA LoadsOldStep ==
  ASSUME Base, LoadsOld, [Next]_vars
  PROVE  LoadsOld'
<1> USE DEF Base
<1>1. ASSUME NEW p \in Producers, PLoad(p) PROVE LoadsOld'
  BY <1>1 DEF PLoad, LoadsOld, Typed
<1>2. ASSUME NEW p \in Producers, PCheck(p) PROVE LoadsOld'
  BY <1>2 DEF PCheck, LoadsOld, Typed
<1>3. ASSUME NEW p \in Producers, PClaim(p) PROVE LoadsOld'
  BY <1>3 DEF PClaim, LoadsOld, Typed
<1>4. ASSUME NEW p \in Producers, PWrite(p) PROVE LoadsOld'
  BY <1>4 DEF PWrite, LoadsOld, Typed
<1>5. CASE ppc' = ppc /\ loaded' = loaded /\ tail' = tail /\ head' \in {head, head + 1}
  BY <1>5 DEF LoadsOld, Typed
<1>6. (\E s \in pend : Publish(s)) \/ PublishHead \/ Consumer \/ UNCHANGED vars
        => ppc' = ppc /\ loaded' = loaded /\ tail' = tail /\ head' \in {head, head + 1}
  BY DEF Publish, PublishHead, Consumer, CCheck, CLoad, CPop, vars, producerVars
<1> QED
  BY <1>1, <1>2, <1>3, <1>4, <1>5, <1>6 DEF Next, Producer, Memory, Terminated

(* Whatever end() has loaded, and in which order, it finds a slot only     *)
(* with a tail that is short of a full queue.                              *)
LEMMA RoomFound ==
  ASSUME OverrunFits, BInv, NEW p \in Producers, PCheck(p), ppc'[p] = "claim"
  PROVE  \/ ppc[p] = "tail" /\ loaded[p] < head + Size
         \/ ppc[p] = "head" /\ tail < head + Size
<1> USE DEF BInv, Base
<1>1. /\ tail \in Nat /\ head \in Nat /\ head <= tail /\ loaded[p] \in Nat
      /\ Size \in Nat \ {0} /\ IntMod \in Nat \ {0}
      /\ Cardinality(Producers) \in Nat /\ Total \in Nat
  BY ConstantsTyped DEF Typed, OffsetsOrdered
<1>2. ASSUME NEW t \in Nat, NEW h \in Nat, h + Size <= t, t - h < IntMod
      PROVE  EndIsNull(t, h)
  <2>1. ((t % IntMod) - (h % IntMod)) % IntMod = t - h
    <3>1. /\ t \in Int /\ h \in Int /\ IntMod \in Nat \ {0}
          /\ h <= t /\ t - h < IntMod
      BY <1>1, <1>2
    <3> QED
      BY <3>1, ModDiff
  <2> QED
    BY <1>1, <1>2, <2>1 DEF EndIsNull, SizeOf, Word
<1>3. CASE ppc[p] = "tail"
  <2>1. ~EndIsNull(loaded[p], head)
    BY <1>3 DEF PCheck, Typed
  <2>2. CASE head + Size <= loaded[p]
    <3>1. loaded[p] <= tail
      BY <1>3 DEF LoadsOld
    <3>2. tail - (head + Size) + Cardinality(Late(head)) <= Cardinality(Producers) - 1
      BY <1>1, <2>2, <3>1 DEF RoomPromised
    <3>3. Cardinality(Late(head)) \in Nat
      BY SubsetCounted DEF Late
    <3>4. loaded[p] - head < IntMod
      BY <1>1, <3>1, <3>2, <3>3 DEF OverrunFits
    <3> QED
      BY <1>1, <1>2, <2>1, <2>2, <3>4
  <2> QED
    BY <1>1, <1>3, <2>2
<1>4. CASE ppc[p] = "head"
  <2>1. ~EndIsNull(tail, loaded[p])
    BY <1>4 DEF PCheck, Typed
  <2>2. "head" \in LoadsFirst
    BY <1>4 DEF Typed, Places
  <2>3. CASE head + Size <= tail
    <3>1. loaded[p] <= head
      BY <1>4 DEF LoadsOld
    <3>2. tail < IntMod
      BY <1>1, <2>2, TailBounded DEF OverrunFits
    <3> QED
      BY <1>1, <1>2, <2>1, <2>3, <3>1, <3>2
  <2> QED
    BY <1>1, <1>4, <2>3
<1> QED
  BY <1>3, <1>4 DEF PCheck

(* A load of a tail this far is not late, an answer was promised before,   *)
(* a claim uses up its promise, and a pop only raises what is full.        *)
LEMMA RoomStep ==
  ASSUME OverrunFits, BInv, [Next]_vars
  PROVE  RoomPromised'
<1> USE DEF BInv, Base
<1>1. /\ tail \in Nat /\ head \in Nat /\ head <= tail
      /\ Size \in Nat \ {0} /\ Cardinality(Producers) \in Nat
  BY ConstantsTyped DEF Typed, OffsetsOrdered
<1>2. ASSUME NEW n \in Nat
      PROVE  /\ IsFiniteSet(Late(n)) /\ Cardinality(Late(n)) \in Nat
             /\ IsFiniteSet(Late(n)') /\ Cardinality(Late(n)') \in Nat
             /\ Late(n) \in SUBSET Producers /\ Late(n)' \in SUBSET Producers
  <2>1. Late(n) \in SUBSET Producers /\ Late(n)' \in SUBSET Producers
    BY DEF Late
  <2> QED
    BY <2>1, SubsetCounted
<1>3. ASSUME tail' = tail, head' \in {head, head + 1},
             \A n \in Nat : head <= n /\ n + Size <= tail => Late(n)' \subseteq Late(n)
      PROVE  RoomPromised'
  <2> SUFFICES ASSUME NEW n \in Nat, head' <= n, n + Size <= tail'
               PROVE  tail' - (n + Size) + Cardinality(Late(n)')
                        <= Cardinality(Producers) - 1
    BY DEF RoomPromised
  <2>1. head <= n /\ n + Size <= tail
    BY <1>1, <1>3
  <2>2. Cardinality(Late(n)') <= Cardinality(Late(n))
    BY <1>2, <1>3, <2>1, FS_Subset
  <2>3. tail - (n + Size) + Cardinality(Late(n)) <= Cardinality(Producers) - 1
    BY <2>1 DEF RoomPromised
  <2> QED
    BY <1>1, <1>2, <1>3, <2>2, <2>3
<1>4. ASSUME NEW p \in Producers, PLoad(p) PROVE RoomPromised'
  <2>1. tail' = tail /\ head' = head
    BY <1>4 DEF PLoad
  <2>2. ASSUME NEW n \in Nat, head <= n, n + Size <= tail, NEW q \in Late(n)'
        PROVE  q \in Late(n)
    <3>1. q \in Producers
      BY DEF Late
    <3>2. CASE q = p
      <4>1. \/ ppc'[p] = "tail" /\ loaded'[p] = tail
            \/ ppc'[p] = "head"
        BY <1>4, ProducerConstants DEF PLoad, Typed
      <4> QED
        BY <1>1, <2>2, <3>2, <4>1 DEF Late
    <3>3. CASE q # p
      BY <1>4, <2>2, <3>1, <3>3 DEF PLoad, Typed, Late
    <3> QED
      BY <3>2, <3>3
  <2> QED
    BY <1>3, <2>1, <2>2
<1>5. ASSUME NEW p \in Producers, PCheck(p) PROVE RoomPromised'
  <2>1. tail' = tail /\ head' = head
    BY <1>5 DEF PCheck
  <2>2. ASSUME NEW n \in Nat, head <= n, n + Size <= tail, NEW q \in Late(n)'
        PROVE  q \in Late(n)
    <3>1. q \in Producers
      BY DEF Late
    <3>2. CASE q = p
      <4>1. ppc'[p] = "claim"
        BY <1>5, <2>2, <3>2 DEF PCheck, Typed, Late
      <4>2. \/ ppc[p] = "tail" /\ loaded[p] < head + Size
            \/ ppc[p] = "head" /\ tail < head + Size
        BY <1>5, <4>1, RoomFound
      <4>3. ppc[p] = "tail" /\ loaded[p] < n + Size
        BY <1>1, <2>2, <4>2 DEF Typed
      <4> QED
        BY <3>1, <3>2, <4>3 DEF Late
    <3>3. CASE q # p
      BY <1>5, <2>2, <3>1, <3>3 DEF PCheck, Typed, Late
    <3> QED
      BY <3>2, <3>3
  <2> QED
    BY <1>3, <2>1, <2>2
<1>6. ASSUME NEW p \in Producers, PClaim(p) PROVE RoomPromised'
  <2>1. tail' = tail + 1 /\ head' = head /\ loaded' = loaded
    BY <1>6 DEF PClaim
  <2> SUFFICES ASSUME NEW n \in Nat, head' <= n, n + Size <= tail'
               PROVE  tail' - (n + Size) + Cardinality(Late(n)')
                        <= Cardinality(Producers) - 1
    BY DEF RoomPromised
  <2>2. p \in Late(n)
    BY <1>6 DEF PClaim, Late
  <2>3. Late(n)' = Late(n) \ {p}
    <3>1. ASSUME NEW q \in Producers PROVE q \in Late(n)' <=> q \in Late(n) \ {p}
      BY <1>6, <2>1 DEF PClaim, Typed, Late
    <3>2. Late(n) \in SUBSET Producers /\ Late(n)' \in SUBSET Producers
      BY <1>2
    <3> QED
      BY <3>1, <3>2
  <2>4. Cardinality(Late(n)') = Cardinality(Late(n)) - 1
    BY <1>2, <2>2, <2>3, FS_RemoveElement
  <2>5. CASE n + Size <= tail
    <3>1. tail - (n + Size) + Cardinality(Late(n)) <= Cardinality(Producers) - 1
      BY <2>1, <2>5 DEF RoomPromised
    <3> QED
      BY <1>1, <1>2, <2>1, <2>4, <3>1
  <2>6. CASE n + Size = tail + 1
    <3>1. Cardinality(Late(n)) <= Cardinality(Producers)
      BY <1>2, SubsetCounted
    <3> QED
      BY <1>1, <1>2, <2>1, <2>4, <2>6, <3>1
  <2> QED
    BY <1>1, <2>1, <2>5, <2>6
<1>7. ASSUME NEW p \in Producers, PWrite(p) PROVE RoomPromised'
  <2>1. tail' = tail /\ head' = head /\ loaded' = loaded
    BY <1>7 DEF PWrite
  <2>2. ASSUME NEW n \in Nat, NEW q \in Late(n)'
        PROVE  q \in Late(n)
    BY <1>7, <2>1, <2>2 DEF PWrite, Typed, Late
  <2> QED
    BY <1>3, <2>1, <2>2
<1>8. CASE ppc' = ppc /\ loaded' = loaded /\ tail' = tail /\ head' \in {head, head + 1}
  <2>1. \A n \in Nat : Late(n)' = Late(n)
    BY <1>8 DEF Late
  <2> QED
    BY <1>3, <1>8, <2>1
<1>9. (\E s \in pend : Publish(s)) \/ PublishHead \/ Consumer \/ UNCHANGED vars
        => ppc' = ppc /\ loaded' = loaded /\ tail' = tail /\ head' \in {head, head + 1}
  BY DEF Publish, PublishHead, Consumer, CCheck, CLoad, CPop, vars, producerVars
<1> QED
  BY <1>4, <1>5, <1>6, <1>7, <1>8, <1>9 DEF Next, Producer, Memory, Terminated

(* Producers that claim on one answer of end() each overrun the queue by   *)
(* fewer slots than there are of them, however old the offsets are that    *)
(* end() had loaded.                                                       *)
THEOREM OverrunLimited == ASSUME OverrunFits PROVE Spec => []OverrunBounded
<1>1. Init => BInv
  BY BaseInit, CountedInit, RoomInit DEF BInv
<1>2. BInv /\ [Next]_vars => BInv'
  BY BaseStep, CountedStep, LoadsOldStep, RoomStep DEF BInv
<1>3. BInv => OverrunBounded
  <2> SUFFICES ASSUME BInv PROVE OverrunBounded
    OBVIOUS
  <2>1. /\ tail \in Nat /\ head \in Nat /\ Size \in Nat
        /\ Cardinality(Producers) \in Nat
    BY ConstantsTyped DEF BInv, Base, Typed
  <2>2. CASE head + Size <= tail
    <3>1. Cardinality(Late(head)) \in Nat
      BY SubsetCounted DEF Late
    <3> QED
      BY <2>1, <2>2, <3>1 DEF BInv, RoomPromised, OverrunBounded
  <2>3. CASE ~(head + Size <= tail)
    BY <2>1, <2>3 DEF OverrunBounded
  <2> QED
    BY <2>2, <2>3
<1> QED
  BY <1>1, <1>2, <1>3, PTL DEF Spec

-----------------------------------------------------------------------------
(* Whose element an offset is meant for, and which elements are in a slot. *)
Owned == ClaimsOwned /\ StoresOwned /\ DataLanded

(* An offset in flight has been handed out, and no slot holds its element. *)
LEMMA FlightOwned ==
  ASSUME Base, Owned, NEW o \in Nat, InFlight(o)
  PROVE  /\ o < tail
         /\ \A x \in 0 .. Size-1 : data[x] # owner[o]
<1> USE DEF Base
<1>1. CASE \E p \in Producers : ppc[p] = "write" /\ claim[p] = o
  <2>1. PICK p \in Producers : ppc[p] = "write" /\ claim[p] = o
    BY <1>1
  <2>2. o < tail /\ owner[o] = Element(p, pushed[p])
    BY <2>1 DEF Owned, ClaimsOwned
  <2>3. pushed[p] \in Nat
    BY DEF Typed
  <2>4. ASSUME NEW x \in 0 .. Size-1, data[x] = owner[o] PROVE FALSE
    <3>1. pushed[p] < pushed[p]
      BY <2>2, <2>3, <2>4 DEF Owned, DataLanded
    <3> QED
      BY <2>3, <3>1
  <2> QED
    BY <2>2, <2>4
<1>2. CASE \E s \in pend : s.at = o
  <2>1. PICK s \in pend : s.at = o
    BY <1>2
  <2>2. o < tail /\ owner[o] = Element(s.by, s.nr)
    BY <2>1 DEF Owned, StoresOwned
  <2>3. s.by \in Producers /\ s.nr \in Nat
    BY DEF Typed
  <2>4. ASSUME NEW x \in 0 .. Size-1, data[x] = owner[o] PROVE FALSE
    BY <2>2, <2>3, <2>4 DEF Owned, DataLanded
  <2> QED
    BY <2>2, <2>4
<1> QED
  BY <1>1, <1>2 DEF InFlight

(* At the start nothing is claimed or written.                             *)
LEMMA OwnedInit == Init => Owned
<1> SUFFICES ASSUME Init PROVE Owned
  OBVIOUS
<1>1. ClaimsOwned
  BY DEF Init, ClaimsOwned
<1>2. StoresOwned
  BY DEF Init, StoresOwned
<1>3. DataLanded
  BY ConstantsTyped DEF Init, DataLanded
<1> QED
  BY <1>1, <1>2, <1>3 DEF Owned

(* A claim by a producer without invisible stores touches no other's.      *)
LEMMA ClaimOwned ==
  ASSUME Base, Owned, Counted, NEW p \in Producers, PClaim(p)
  PROVE  Owned'
<1> USE DEF Base, Owned
<1>1. tail \in 0 .. Total-1
  BY ClaimCounted, ConstantsTyped DEF Typed
<1>2. /\ owner'[tail] = Element(p, pushed[p])
      /\ \A o \in Nat : o < tail => owner'[o] = owner[o]
      /\ claim'[p] = tail
      /\ ppc'[p] = "write"
      /\ \A q \in Producers \ {p} : claim'[q] = claim[q] /\ ppc'[q] = ppc[q]
      /\ tail' = tail + 1
      /\ pushed' = pushed /\ pend' = pend /\ data' = data
  <2>1. owner'[tail] = Element(p, pushed[p])
    BY <1>1 DEF PClaim, Typed
  <2>2. \A o \in Nat : o < tail => owner'[o] = owner[o]
    BY <1>1, ConstantsTyped DEF PClaim, Typed
  <2> QED
    BY <2>1, <2>2 DEF PClaim, Typed
<1>3. ClaimsOwned'
  <2>1. ASSUME NEW q \in Producers, ppc'[q] = "write"
        PROVE  claim'[q] < tail' /\ owner'[claim'[q]] = Element(q, pushed'[q])
    <3>1. CASE q = p
      BY <1>1, <1>2, <3>1
    <3>2. CASE q # p
      <4>1. claim[q] \in Nat /\ claim[q] < tail
            /\ owner[claim[q]] = Element(q, pushed[q])
        BY <1>2, <2>1, <3>2 DEF ClaimsOwned, Typed
      <4> QED
        BY <1>1, <1>2, <3>2, <4>1
    <3> QED
      BY <3>1, <3>2
  <2> QED
    BY <2>1 DEF ClaimsOwned
<1>4. StoresOwned'
  <2>1. ASSUME NEW s \in pend
        PROVE  /\ ppc'[s.by] # "write"
               /\ s.at = claim'[s.by]
               /\ s.nr + 1 = pushed[s.by]
               /\ s.at < tail'
               /\ owner'[s.at] = Element(s.by, s.nr)
    <3>1. s.by \in Producers \ {p} /\ s.at \in Nat
      BY DEF PClaim, Typed
    <3>2. /\ ppc[s.by] # "write"
          /\ s.at = claim[s.by]
          /\ s.nr + 1 = pushed[s.by]
          /\ s.at < tail
          /\ owner[s.at] = Element(s.by, s.nr)
      BY DEF StoresOwned
    <3> QED
      BY <1>1, <1>2, <3>1, <3>2
  <2> QED
    BY <1>2, <2>1 DEF StoresOwned
<1>5. DataLanded'
  BY <1>2 DEF DataLanded
<1> QED
  BY <1>3, <1>4, <1>5

(* The element written is the one its offset was claimed for.              *)
LEMMA WriteOwned ==
  ASSUME Base, Owned, NEW p \in Producers, PWrite(p)
  PROVE  Owned'
<1> DEFINE s == [by |-> p, at |-> claim[p], nr |-> pushed[p]]
<1> USE DEF Base, Owned
<1>1. /\ ppc[p] = "write" /\ ppc'[p] # "write"
      /\ pend' = pend \cup {s}
      /\ pushed[p] \in Nat
      /\ pushed'[p] = pushed[p] + 1
      /\ \A q \in Producers \ {p} : ppc'[q] = ppc[q] /\ pushed'[q] = pushed[q]
      /\ tail' = tail /\ claim' = claim /\ owner' = owner /\ data' = data
  BY DEF PWrite, Typed
<1>2. claim[p] < tail /\ owner[claim[p]] = Element(p, pushed[p])
  BY <1>1 DEF ClaimsOwned
<1>3. \A r \in pend : r.by \in Producers \ {p}
  BY <1>1 DEF StoresOwned, Typed
<1>4. s.by = p /\ s.at = claim[p] /\ s.nr = pushed[p]
  OBVIOUS
<1> HIDE DEF s
<1>5. ClaimsOwned'
  BY <1>1 DEF ClaimsOwned
<1>6. StoresOwned'
  <2>1. ASSUME NEW r \in pend'
        PROVE  /\ ppc'[r.by] # "write"
               /\ r.at = claim[r.by]
               /\ r.nr + 1 = pushed'[r.by]
               /\ r.at < tail
               /\ owner[r.at] = Element(r.by, r.nr)
    <3>1. CASE r = s
      BY <1>1, <1>2, <1>4, <3>1
    <3>2. CASE r \in pend
      BY <1>1, <1>3, <3>2 DEF StoresOwned
    <3> QED
      BY <1>1, <3>1, <3>2
  <2> QED
    BY <1>1, <2>1 DEF StoresOwned
<1>7. DataLanded'
  <2>1. ASSUME NEW x \in 0 .. Size-1, NEW q \in Producers, NEW n \in Nat,
               data[x] = Element(q, n)
        PROVE  n < pushed'[q] /\ \A r \in pend' : r.by = q => r.nr # n
    <3>1. n < pushed[q] /\ \A r \in pend : r.by = q => r.nr # n
      BY <2>1 DEF DataLanded
    <3>2. CASE q = p
      BY <1>1, <1>4, <3>1, <3>2
    <3>3. CASE q # p
      BY <1>1, <1>4, <3>1, <3>3
    <3> QED
      BY <3>2, <3>3
  <2> QED
    BY <1>1, <2>1 DEF DataLanded
<1> QED
  BY <1>5, <1>6, <1>7

(* The only store of its producer becomes visible.                         *)
LEMMA PublishOwned ==
  ASSUME Base, Owned, NEW s \in pend, Publish(s)
  PROVE  Owned'
<1> USE DEF Base, Owned
<1>1. s.by \in Producers /\ s.at \in Nat /\ s.nr \in Nat
  BY DEF Typed
<1>2. /\ pend' = pend \ {s}
      /\ ppc' = ppc /\ pushed' = pushed /\ claim' = claim
      /\ tail' = tail /\ owner' = owner
      /\ \A x \in 0 .. Size-1 :
           data'[x] = IF x = Slot(s.at) THEN Element(s.by, s.nr) ELSE data[x]
  BY DEF Publish, producerVars, Typed
<1>3. ClaimsOwned' /\ StoresOwned'
  BY <1>2 DEF ClaimsOwned, StoresOwned
<1>4. DataLanded'
  <2>1. ASSUME NEW x \in 0 .. Size-1, NEW q \in Producers, NEW n \in Nat,
               data'[x] = Element(q, n)
        PROVE  n < pushed[q] /\ \A r \in pend' : r.by = q => r.nr # n
    <3>1. CASE x = Slot(s.at)
      <4>1. Element(q, n) = Element(s.by, s.nr)
        BY <1>2, <2>1, <3>1
      <4>2. q = s.by /\ n = s.nr
        BY <4>1, ElementInjective
      <4>3. s.nr + 1 = pushed[s.by]
        BY DEF StoresOwned
      <4>4. ASSUME NEW r \in pend', r.by = s.by PROVE r.nr # s.nr
        <5>1. r \in pend /\ r # s
          BY <1>2
        <5>2. r.at = claim[r.by] /\ s.at = claim[s.by]
          BY <5>1 DEF StoresOwned
        <5>3. /\ r = [by |-> r.by, at |-> r.at, nr |-> r.nr]
              /\ s = [by |-> s.by, at |-> s.at, nr |-> s.nr]
          BY <5>1 DEF Typed
        <5> QED
          BY <4>4, <5>1, <5>2, <5>3
      <4> QED
        BY <1>1, <4>2, <4>3, <4>4
    <3>2. CASE x # Slot(s.at)
      BY <1>2, <2>1, <3>2 DEF DataLanded
    <3> QED
      BY <3>1, <3>2
  <2> QED
    BY <1>2, <2>1 DEF DataLanded
<1> QED
  BY <1>3, <1>4

(* Every step keeps who owns what.                                         *)
LEMMA OwnedStep ==
  ASSUME Base, Owned, Counted, [Next]_vars
  PROVE  Owned'
<1>1. ASSUME NEW p \in Producers, PLoad(p) \/ PCheck(p) PROVE Owned'
  <2>1. /\ \A q \in Producers : ppc'[q] = "write" <=> ppc[q] = "write"
        /\ tail' = tail /\ claim' = claim /\ owner' = owner
        /\ pushed' = pushed /\ pend' = pend /\ data' = data
    BY <1>1, LooksOnly
  <2>2. \A s \in pend : s.by \in Producers
    BY DEF Base, Typed
  <2> QED
    BY <2>1, <2>2 DEF Owned, ClaimsOwned, StoresOwned, DataLanded
<1>2. CASE UNCHANGED <<tail, data, pend, producerVars>>
  BY <1>2 DEF Owned, ClaimsOwned, StoresOwned, DataLanded, producerVars
<1>3. PublishHead \/ Consumer \/ UNCHANGED vars
        => UNCHANGED <<tail, data, pend, producerVars>>
  BY DEF PublishHead, Consumer, CCheck, CLoad, CPop, vars
<1> QED
  BY <1>1, <1>2, <1>3, ClaimOwned, WriteOwned, PublishOwned
     DEF Next, Producer, Memory, Terminated

-----------------------------------------------------------------------------
(* The elements of the last lap are in their slots or on their way.        *)
LEMMA LapInit == Init => LapKept
<1> SUFFICES ASSUME Init PROVE LapKept
  OBVIOUS
<1>1. \A o \in Nat : ~InFlight(o)
  BY DEF Init, InFlight
<1> QED
  BY <1>1, ConstantsTyped DEF Init, LapKept

(* The slot of the offset claimed was free: the element of the lap before  *)
(* has been read and was in the slot, so it was not in flight any more.    *)
LEMMA ClaimKeepsLap ==
  ASSUME Base, Counted, Owned, LapKept, NEW p \in Producers, PClaim(p)
  PROVE  LapKept'
<1> USE DEF Base
<1> SUFFICES ASSUME ~inUse' PROVE LapKept'
  BY DEF LapKept
<1>1. /\ tail \in Nat /\ head \in Nat /\ head <= tail
      /\ tail < Total
      /\ tail' = tail + 1 /\ head' = head /\ data' = data /\ pend' = pend
      /\ claim \in [Producers -> Nat]
      /\ ppc[p] = "claim" /\ ppc'[p] = "write" /\ claim'[p] = tail
      /\ \A q \in Producers \ {p} : ppc'[q] = ppc[q] /\ claim'[q] = claim[q]
      /\ ~inUse /\ ~StillInUse(tail)
      /\ Size \in Nat \ {0}
  <2>1. tail < Total /\ Size \in Nat \ {0}
    BY ClaimCounted, ConstantsTyped
  <2>2. /\ tail \in Nat /\ head \in Nat /\ head <= tail
        /\ claim \in [Producers -> Nat]
    BY DEF Typed, OffsetsOrdered
  <2>3. ~inUse /\ ~StillInUse(tail)
    BY DEF PClaim
  <2>4. /\ ppc[p] = "claim" /\ ppc'[p] = "write" /\ claim'[p] = tail
        /\ \A q \in Producers \ {p} : ppc'[q] = ppc[q] /\ claim'[q] = claim[q]
    BY DEF PClaim, Typed
  <2>5. tail' = tail + 1 /\ head' = head /\ data' = data /\ pend' = pend
    BY DEF PClaim
  <2> QED
    BY <2>1, <2>2, <2>3, <2>4, <2>5
<1>2. \A o \in Nat : o < tail => owner'[o] = owner[o]
  BY ConstantsTyped, <1>1 DEF PClaim, Typed
<1>3. /\ tail - head <= Size
      /\ \A o \in Nat : InFlight(o) => tail - Size <= o
      /\ \A o \in Nat : o < tail /\ tail - Size <= o =>
           InFlight(o) \/ data[Slot(o)] = owner[o]
  BY <1>1 DEF LapKept
<1>4. ASSUME NEW o \in Nat PROVE InFlight(o)' <=> InFlight(o) \/ o = tail
  <2>1. (\E q \in Producers : ppc'[q] = "write" /\ claim'[q] = o)
          <=> (\E q \in Producers : ppc[q] = "write" /\ claim[q] = o) \/ o = tail
    BY <1>1
  <2> QED
    BY <1>1, <2>1 DEF InFlight
<1>5. tail' - head' <= Size
  BY <1>1, <1>3 DEF StillInUse
<1>6. ASSUME NEW o \in Nat, InFlight(o) PROVE tail - Size < o
  <2>1. tail - Size <= o
    BY <1>3, <1>6
  <2>2. CASE o = tail - Size
    <3>1. data[Slot(tail)] = owner[tail - Size]
      BY <1>1, <2>2 DEF StillInUse
    <3>2. data[Slot(tail)] # owner[o]
      <4>1. Slot(tail) \in 0 .. Size-1
        BY <1>1, SlotInRange
      <4> QED
        BY <1>6, <4>1, FlightOwned
    <3> QED
      BY <2>2, <3>1, <3>2
  <2> QED
    BY <1>1, <2>1, <2>2
<1>7. \A o \in Nat : InFlight(o)' => tail' - Size <= o
  BY <1>1, <1>4, <1>6
<1>8. ASSUME NEW o \in Nat, o < tail', tail' - Size <= o
      PROVE  InFlight(o)' \/ data'[Slot(o)] = owner'[o]
  <2>1. CASE o = tail
    BY <1>4, <2>1
  <2>2. CASE o # tail
    <3>1. o < tail /\ tail - Size <= o
      BY <1>1, <1>8, <2>2
    <3> QED
      BY <1>1, <1>2, <1>3, <1>4, <3>1
  <2> QED
    BY <2>1, <2>2
<1> QED
  BY <1>5, <1>7, <1>8 DEF LapKept

(* The element stays in flight, as a store in place of a claim.            *)
LEMMA WriteKeepsLap ==
  ASSUME Base, LapKept, NEW p \in Producers, PWrite(p)
  PROVE  LapKept'
<1> DEFINE s == [by |-> p, at |-> claim[p], nr |-> pushed[p]]
<1>1. /\ ppc[p] = "write" /\ ppc'[p] # "write"
      /\ pend' = pend \cup {s}
      /\ \A q \in Producers \ {p} : ppc'[q] = ppc[q]
      /\ claim' = claim
      /\ UNCHANGED <<tail, head, data, owner, inUse>>
  BY DEF PWrite, Base, Typed
<1>2. s.at = claim[p]
  OBVIOUS
<1> HIDE DEF s
<1>3. ASSUME NEW o \in Nat PROVE InFlight(o)' <=> InFlight(o)
  <2>1. (\E r \in pend' : r.at = o) <=> (\E r \in pend : r.at = o) \/ claim[p] = o
    BY <1>1, <1>2
  <2>2. (\E q \in Producers : ppc[q] = "write" /\ claim[q] = o)
          <=> (\E q \in Producers : ppc'[q] = "write" /\ claim'[q] = o)
              \/ claim[p] = o
    BY <1>1
  <2> QED
    BY <2>1, <2>2 DEF InFlight
<1> QED
  BY <1>1, <1>3 DEF LapKept

(* A store becomes visible: it is in its slot, and in that of no other     *)
(* offset of the lap.                                                      *)
LEMMA PublishKeepsLap ==
  ASSUME WrapSafe, Base, Counted, Owned, LapKept, NEW s \in pend, Publish(s)
  PROVE  LapKept'
<1> USE DEF Base
<1> SUFFICES ASSUME ~inUse PROVE LapKept'
  BY DEF LapKept, Publish, producerVars
<1>1. /\ pend' = pend \ {s}
      /\ \A x \in 0 .. Size-1 :
           data'[x] = IF x = Slot(s.at) THEN Element(s.by, s.nr) ELSE data[x]
      /\ UNCHANGED <<tail, head, ppc, claim, owner, inUse>>
  BY DEF Publish, producerVars, consumerVars, Typed
<1>2. /\ tail - head <= Size
      /\ \A o \in Nat : InFlight(o) => tail - Size <= o
      /\ \A o \in Nat : o < tail /\ tail - Size <= o =>
           InFlight(o) \/ data[Slot(o)] = owner[o]
  BY DEF LapKept
<1>3. /\ s.at \in Nat /\ s.at < tail /\ tail - Size <= s.at
      /\ owner[s.at] = Element(s.by, s.nr)
  <2>1. s.at \in Nat /\ s.at < tail /\ owner[s.at] = Element(s.by, s.nr)
    BY DEF Owned, StoresOwned, Typed
  <2>2. InFlight(s.at)
    BY DEF InFlight
  <2> QED
    BY <1>2, <2>1, <2>2
<1>4. \A o \in Nat : InFlight(o)' => InFlight(o)
  BY <1>1 DEF InFlight
<1>5. ASSUME NEW o \in Nat, o < tail, tail - Size <= o
      PROVE  InFlight(o)' \/ data'[Slot(o)] = owner[o]
  <2>1. Slot(o) \in 0 .. Size-1
    BY SlotInRange
  <2>2. CASE o = s.at
    BY <1>1, <1>3, <2>1, <2>2
  <2>3. CASE o # s.at
    <3>1. Slot(o) # Slot(s.at)
      <4>1. /\ tail \in Nat /\ tail <= Total /\ Size \in Nat
            /\ IntMod % Size = 0 \/ Total <= IntMod
            /\ Total \in Nat /\ IntMod \in Nat
        BY TailBounded, ConstantsTyped DEF WrapSafe, Typed
      <4>2. IntMod % Size = 0 \/ (o < IntMod /\ s.at < IntMod)
        BY <1>3, <1>5, <4>1
      <4>3. CASE o < s.at
        <5>1. s.at - o < Size
          BY <1>3, <1>5, <4>1
        <5> QED
          BY <1>3, <4>2, <4>3, <5>1, SlotsDiffer
      <4>4. CASE s.at < o
        <5>1. o - s.at < Size
          BY <1>3, <1>5, <4>1
        <5> QED
          BY <1>3, <4>2, <4>4, <5>1, SlotsDiffer
      <4> QED
        BY <1>3, <2>3, <4>3, <4>4
    <3>2. data'[Slot(o)] = data[Slot(o)]
      BY <1>1, <2>1, <3>1
    <3>3. InFlight(o) => InFlight(o)'
      BY <1>1, <2>3 DEF InFlight
    <3> QED
      BY <1>2, <1>5, <3>2, <3>3
  <2> QED
    BY <2>2, <2>3
<1> QED
  BY <1>1, <1>2, <1>4, <1>5 DEF LapKept

(* Every step keeps the last lap.                                          *)
LEMMA LapStep ==
  ASSUME WrapSafe, Base, Counted, Owned, LapKept, [Next]_vars
  PROVE  LapKept'
<1>1. ASSUME NEW p \in Producers, PLoad(p) \/ PCheck(p) PROVE LapKept'
  <2>1. /\ \A q \in Producers : ppc'[q] = "write" <=> ppc[q] = "write"
        /\ UNCHANGED <<tail, head, data, pend, claim, owner, inUse>>
    BY <1>1, LooksOnly
  <2>2. \A o \in Nat : InFlight(o)' <=> InFlight(o)
    BY <2>1 DEF InFlight
  <2> QED
    BY <2>1, <2>2 DEF LapKept
<1>2. CASE UNCHANGED <<tail, data, pend, producerVars>> /\ head' \in {head, head + 1}
  <2>1. \A o \in Nat : InFlight(o)' <=> InFlight(o)
    BY <1>2 DEF InFlight, producerVars
  <2>2. tail \in Nat /\ head \in Nat /\ Size \in Nat
    BY ConstantsTyped DEF Base, Typed
  <2>3. tail' = tail /\ data' = data /\ owner' = owner /\ inUse' = inUse
    BY <1>2 DEF producerVars
  <2>4. ASSUME ~inUse
        PROVE  /\ tail' - head' <= Size
               /\ \A o \in Nat : InFlight(o)' => tail' - Size <= o
               /\ \A o \in Nat : o < tail' /\ tail' - Size <= o
                                 => InFlight(o)' \/ data'[Slot(o)] = owner'[o]
    <3>1. /\ tail - head <= Size
          /\ \A o \in Nat : InFlight(o) => tail - Size <= o
          /\ \A o \in Nat : o < tail /\ tail - Size <= o
                            => InFlight(o) \/ data[Slot(o)] = owner[o]
      BY <2>4 DEF LapKept
    <3>2. tail' - head' <= Size
      BY <1>2, <2>2, <2>3, <3>1
    <3> QED
      BY <2>1, <2>3, <3>1, <3>2
  <2> QED
    BY <2>3, <2>4 DEF LapKept
<1>3. PublishHead \/ Consumer \/ UNCHANGED vars
        => UNCHANGED <<tail, data, pend, producerVars>> /\ head' \in {head, head + 1}
  BY DEF PublishHead, Consumer, CCheck, CLoad, CPop, vars
<1> QED
  BY <1>1, <1>2, <1>3, ClaimKeepsLap, WriteKeepsLap, PublishKeepsLap
     DEF Next, Producer, Memory, Terminated

-----------------------------------------------------------------------------
(* Producers that claim and write at the same time lose no element unless  *)
(* a slot is handed out while still in use.                                *)
THEOREM ElementsKept == ASSUME WrapSafe PROVE Spec => []QuiescentComplete
<1>1. Init => IInv
  BY BaseInit, CountedInit, OwnedInit, LapInit DEF IInv, Owned
<1>2. IInv /\ [Next]_vars => IInv'
  <2> SUFFICES ASSUME IInv, [Next]_vars PROVE IInv'
    OBVIOUS
  <2>1. Base /\ Counted /\ Owned /\ LapKept
    BY DEF IInv, Owned
  <2>2. Base' /\ Counted' /\ Owned' /\ LapKept'
    BY <2>1, BaseStep, CountedStep, OwnedStep, LapStep
  <2> QED
    BY <2>2 DEF IInv, Owned
<1>3. IInv => QuiescentComplete
  <2> SUFFICES ASSUME IInv, \A p \in Producers : ppc[p] = "done", pend = {}, ~inUse,
                      NEW o \in head .. tail-1
               PROVE  data[Slot(o)] = owner[o]
    BY DEF QuiescentComplete
  <2>1. ~InFlight(o)
    BY DEF InFlight
  <2>2. tail \in Nat /\ head \in Nat /\ Size \in Nat
    BY ConstantsTyped DEF IInv, Base, Typed
  <2>3. tail - head <= Size
    BY DEF IInv, LapKept
  <2>4. o \in Nat /\ o < tail /\ tail - Size <= o
    BY <2>2, <2>3
  <2> QED
    BY <2>1, <2>4 DEF IInv, LapKept
<1> QED
  BY <1>1, <1>2, <1>3, PTL DEF Spec

-----------------------------------------------------------------------------
(***************************************************************************)
(* QueuePrograms: any caller of the queue, and the programs.               *)
(***************************************************************************)

(* The slots do not jump at the wrap of the offsets, or a caller pushes    *)
(* too few elements to get there.  The programs always do.                 *)
SlotsInStep == IntMod % Size = 0 \/ MaxPush < IntMod

(* The slots do not jump before offset n.                                  *)
InStep(n) == IntMod % Size = 0 \/ n < IntMod

(* No element is larger than the numbers that are counted or drawn.        *)
Largest == MaxPush + N + DefaultC

(* What the members hold, and that the history is as long as the offsets   *)
(* are apart, which is never a whole turn of Int.                          *)
QueueTyped ==
  /\ head \in Nat
  /\ tail \in head .. head + MaxBehind
  /\ data \in [0 .. Size-1 -> 0 .. Largest]
  /\ elems \in Seq(Int)
  /\ Len(elems) = tail - head
  /\ clobber \in Nat

CallerTyped ==
  /\ fresh \in 0 .. MaxPush
  /\ held \in Seq(Int) /\ Len(held) <= 1
  /\ behind \in 0 .. MaxBehind - Size
  /\ seen \in Nat

(* What no clobbering push has written over is in its slot.                *)
SparedKept ==
  \A n \in 1 .. Len(elems) : Spared(n) => data[Slot(head + n - 1)] = elems[n]

(* The element the reader has from begin() is still the oldest one.        *)
HeldOldest == held # <<>> => elems # <<>> /\ held[1] = elems[1]

(* A reader that catches up still has the head it measured from, and the   *)
(* tail has not come back behind the one it measured.                      *)
BehindMeasured ==
  behind > 0 => held = <<>> /\ seen - head = behind + Size /\ seen <= tail

ApiInv == QueueTyped /\ CallerTyped /\ HeldOldest /\ BehindMeasured

-----------------------------------------------------------------------------
(* What the assumptions say of the constants of the programs.              *)
LEMMA BoundsTyped ==
  /\ Size \in Nat \ {0} /\ IntMod \in Nat \ {0} /\ Size < IntMod
  /\ MaxPush \in Nat
  /\ MaxBehind \in Nat /\ Size <= MaxBehind /\ MaxBehind < IntMod
  /\ N \in Nat /\ N < IntMod
  /\ Offset \in Nat /\ 1 <= Offset /\ Offset <= Size /\ Offset <= N
  /\ DefaultC \in Nat \ {0}
  /\ Largest \in Nat
BY QueueConstants, ApiConstants, ProgramConstants, RandConstants DEF Largest

(* size() is exact: the offsets are less than a turn of Int apart.         *)
LEMMA SizeExact ==
  ASSUME QueueTyped
  PROVE  SizeOf(tail, head) = tail - head
<1>1. /\ tail \in Int /\ head \in Int /\ head <= tail /\ tail - head < IntMod
      /\ IntMod \in Nat \ {0}
  BY BoundsTyped DEF QueueTyped
<1>2. ((tail % IntMod) - (head % IntMod)) % IntMod = tail - head
  BY <1>1, ModDiff
<1> QED
  BY <1>2 DEF SizeOf, Word

(* So is empty().                                                          *)
LEMMA EmptyExact ==
  ASSUME QueueTyped
  PROVE  Empty <=> tail = head
<1>1. /\ tail \in Int /\ head \in Int /\ head <= tail /\ tail - head < IntMod
      /\ IntMod \in Nat \ {0}
  BY BoundsTyped DEF QueueTyped
<1>2. CASE head < tail
  <2>1. head % IntMod # tail % IntMod
    BY <1>1, <1>2, ModDiffer
  <2> QED
    BY <1>2, <2>1 DEF Empty, Word
<1>3. CASE head = tail
  BY <1>3 DEF Empty
<1> QED
  BY <1>1, <1>2, <1>3

-----------------------------------------------------------------------------
(* A stored element is the last one, in the slot of the old tail, and      *)
(* nothing else moves.                                                     *)
LEMMA StoreEffect ==
  ASSUME QueueTyped, NEW v \in 0 .. Largest, Store(v)
  PROVE  /\ head' = head /\ tail' = tail + 1
         /\ elems' \in Seq(Int)
         /\ Len(elems') = Len(elems) + 1
         /\ elems'[Len(elems) + 1] = v
         /\ \A n \in 1 .. Len(elems) : elems'[n] = elems[n]
         /\ data' \in [0 .. Size-1 -> 0 .. Largest]
         /\ data'[Slot(tail)] = v
         /\ \A s \in 0 .. Size-1 : s # Slot(tail) => data'[s] = data[s]
<1>1. elems \in Seq(Int) /\ v \in Int /\ elems' = Append(elems, v)
  BY BoundsTyped DEF QueueTyped, Store
<1>2. /\ elems' \in Seq(Int)
      /\ Len(elems') = Len(elems) + 1
      /\ elems'[Len(elems) + 1] = v
      /\ \A n \in 1 .. Len(elems) : elems'[n] = elems[n]
  BY <1>1, AppendProperties
<1>3. tail \in Nat
  BY BoundsTyped DEF QueueTyped
<1>4. Slot(tail) \in 0 .. Size-1
  BY <1>3, SlotInRange
<1>5. data \in [0 .. Size-1 -> 0 .. Largest] /\ data' = [data EXCEPT ![Slot(tail)] = v]
  BY DEF QueueTyped, Store
<1>6. /\ data' \in [0 .. Size-1 -> 0 .. Largest]
      /\ data'[Slot(tail)] = v
      /\ \A s \in 0 .. Size-1 : s # Slot(tail) => data'[s] = data[s]
  BY <1>4, <1>5
<1> QED
  BY <1>2, <1>6 DEF Store

(* It spares what is less than _size before it, and a push that writes     *)
(* further ahead than that counts as clobbering.                           *)
LEMMA StoreKeeps ==
  ASSUME QueueTyped, NEW v \in 0 .. Largest, Store(v),
         tail - head < MaxBehind,
         NEW c \in Nat, clobber' = c, clobber <= c,
         tail - head < Size \/ tail + 1 <= c
  PROVE  QueueTyped' /\ (SparedKept /\ InStep(tail) => SparedKept')
<1>1. /\ head' = head /\ tail' = tail + 1
      /\ elems' \in Seq(Int)
      /\ Len(elems') = Len(elems) + 1
      /\ elems'[Len(elems) + 1] = v
      /\ \A n \in 1 .. Len(elems) : elems'[n] = elems[n]
      /\ data' \in [0 .. Size-1 -> 0 .. Largest]
      /\ data'[Slot(tail)] = v
      /\ \A s \in 0 .. Size-1 : s # Slot(tail) => data'[s] = data[s]
  BY StoreEffect
<1>2. /\ head \in Nat /\ tail \in Nat /\ head <= tail
      /\ Len(elems) = tail - head /\ clobber \in Nat
      /\ Size \in Nat \ {0} /\ MaxBehind \in Nat
  BY BoundsTyped DEF QueueTyped
<1>3. QueueTyped'
  <2>1. tail' \in head' .. head' + MaxBehind /\ Len(elems') = tail' - head'
    BY <1>1, <1>2
  <2> QED
    BY <1>1, <1>2, <2>1 DEF QueueTyped
<1>4. ASSUME SparedKept, InStep(tail), NEW n \in 1 .. Len(elems'), Spared(n)'
      PROVE  data'[Slot(head' + n - 1)] = elems'[n]
  <2>1. n \in 1 .. Len(elems) + 1 /\ c - Size <= head + n - 1
    BY <1>1, <1>4 DEF Spared
  <2>2. CASE n = Len(elems) + 1
    <3>1. head + n - 1 = tail
      BY <1>2, <2>2
    <3> QED
      BY <1>1, <2>2, <3>1
  <2>3. CASE n # Len(elems) + 1
    <3>1. n \in 1 .. Len(elems)
      BY <1>2, <2>1, <2>3
    <3>2. Spared(n)
      BY <1>2, <2>1 DEF Spared
    <3> DEFINE o == head + n - 1
    <3>3. o \in Nat /\ o < tail /\ tail - o < Size
      BY <1>2, <2>1, <2>3
    <3> HIDE DEF o
    <3>4. Slot(o) # Slot(tail)
      BY <1>2, <1>4, <3>3, SlotsDiffer DEF InStep
    <3>5. Slot(o) \in 0 .. Size-1
      BY <3>3, SlotInRange
    <3>6. data'[Slot(o)] = data[Slot(o)]
      BY <1>1, <3>4, <3>5
    <3>7. data[Slot(o)] = elems[n]
      BY <1>4, <3>2, <3>1 DEF SparedKept, o
    <3> QED
      BY <1>1, <3>1, <3>6, <3>7 DEF o
  <2> QED
    BY <2>2, <2>3
<1> QED
  BY <1>3, <1>4 DEF SparedKept

(* Taking some elements from the front keeps the others.                   *)
LEMMA FrontKeeps ==
  ASSUME QueueTyped, NEW n \in Nat, n <= Len(elems),
         head' = head + n, elems' = SubSeq(elems, n + 1, Len(elems)),
         UNCHANGED <<tail, data, clobber>>
  PROVE  /\ QueueTyped' /\ (SparedKept => SparedKept')
         /\ \A m \in 1 .. Len(elems') : elems'[m] = elems[n + m]
<1>1. /\ head \in Nat /\ tail \in Nat /\ head <= tail /\ tail <= head + MaxBehind
      /\ Len(elems) = tail - head /\ Len(elems) \in Nat /\ clobber \in Nat
      /\ Size \in Nat \ {0} /\ MaxBehind \in Nat
      /\ elems \in Seq(Int) /\ data \in [0 .. Size-1 -> 0 .. Largest]
  BY BoundsTyped DEF QueueTyped
<1>2. \A m \in n + 1 .. Len(elems) : elems[m] \in Int
  BY <1>1, ElementOfSeq
<1>3. /\ elems' \in Seq(Int)
      /\ Len(elems') = IF n + 1 <= Len(elems) THEN Len(elems) - (n + 1) + 1 ELSE 0
      /\ \A m \in 1 .. Len(elems) - (n + 1) + 1 : elems'[m] = elems[(n + 1) + m - 1]
  BY <1>1, <1>2, SubSeqProperties
<1>4. Len(elems') = Len(elems) - n
  BY <1>1, <1>3
<1>5. \A m \in 1 .. Len(elems') : elems'[m] = elems[n + m]
  BY <1>1, <1>3, <1>4
<1>6. QueueTyped'
  <2>1. /\ head' \in Nat /\ tail' \in head' .. head' + MaxBehind
        /\ Len(elems') = tail' - head'
    BY <1>1, <1>4
  <2> QED
    BY <1>1, <1>3, <2>1 DEF QueueTyped
<1>7. ASSUME SparedKept, NEW m \in 1 .. Len(elems'), Spared(m)'
      PROVE  data'[Slot(head' + m - 1)] = elems'[m]
  <2>1. n + m \in 1 .. Len(elems) /\ head' + m - 1 = head + (n + m) - 1
    BY <1>1, <1>4
  <2>2. Spared(n + m)
    BY <1>1, <1>7, <2>1 DEF Spared
  <2>3. data[Slot(head + (n + m) - 1)] = elems[n + m]
    BY <1>7, <2>1, <2>2 DEF SparedKept
  <2> QED
    BY <1>5, <2>1, <2>3
<1> QED
  BY <1>5, <1>6, <1>7 DEF SparedKept

(* pop_front() takes one.                                                  *)
LEMMA PopFrontKeeps ==
  ASSUME QueueTyped, elems # <<>>, PopFront
  PROVE  /\ QueueTyped' /\ (SparedKept => SparedKept')
         /\ \A m \in 1 .. Len(elems') : elems'[m] = elems[1 + m]
<1>1. elems \in Seq(Int) /\ Len(elems) \in Nat \ {0}
  BY EmptySeq DEF QueueTyped
<1>2. elems' = SubSeq(elems, 1 + 1, Len(elems))
  BY <1>1, TailIsSubSeq DEF PopFront
<1>3. /\ 1 \in Nat /\ 1 <= Len(elems) /\ head' = head + 1
      /\ UNCHANGED <<tail, data, clobber>>
  BY <1>1 DEF PopFront
<1>4. /\ QueueTyped' /\ (SparedKept => SparedKept')
      /\ \A m \in 1 .. Len(elems') : elems'[m] = elems[1 + m]
  BY <1>2, <1>3, FrontKeeps
<1> QED
  BY <1>4

(* Taking the last element keeps the others.                               *)
LEMMA PopBackKeeps ==
  ASSUME QueueTyped, head < tail, PopBack
  PROVE  /\ QueueTyped' /\ (SparedKept => SparedKept')
         /\ \A m \in 1 .. Len(elems') : elems'[m] = elems[m]
<1>1. /\ head \in Nat /\ tail \in Nat /\ head <= tail /\ tail <= head + MaxBehind
      /\ Len(elems) = tail - head /\ Len(elems) \in Nat /\ clobber \in Nat
      /\ Size \in Nat \ {0} /\ MaxBehind \in Nat
      /\ elems \in Seq(Int) /\ data \in [0 .. Size-1 -> 0 .. Largest]
  BY BoundsTyped DEF QueueTyped
<1>2. \A m \in 1 .. Len(elems)-1 : elems[m] \in Int
  BY <1>1, ElementOfSeq
<1>3. elems' = SubSeq(elems, 1, Len(elems)-1) /\ tail' = tail - 1
      /\ head' = head /\ data' = data /\ clobber' = clobber
  BY DEF PopBack
<1>4. /\ elems' \in Seq(Int)
      /\ Len(elems') = IF 1 <= Len(elems)-1 THEN (Len(elems)-1) - 1 + 1 ELSE 0
      /\ \A m \in 1 .. (Len(elems)-1) - 1 + 1 : elems'[m] = elems[1 + m - 1]
  BY <1>1, <1>2, <1>3, SubSeqProperties
<1>5. Len(elems') = Len(elems) - 1
  BY <1>1, <1>4
<1>6. \A m \in 1 .. Len(elems') : elems'[m] = elems[m]
  BY <1>1, <1>4, <1>5
<1>7. QueueTyped'
  <2>1. tail' \in head' .. head' + MaxBehind /\ Len(elems') = tail' - head'
    BY <1>1, <1>3, <1>5
  <2> QED
    BY <1>1, <1>3, <1>4, <2>1 DEF QueueTyped
<1>8. ASSUME SparedKept, NEW m \in 1 .. Len(elems'), Spared(m)'
      PROVE  data'[Slot(head' + m - 1)] = elems'[m]
  <2>1. m \in 1 .. Len(elems)
    BY <1>1, <1>5
  <2>2. Spared(m)
    BY <1>3, <1>8 DEF Spared
  <2> QED
    BY <1>3, <1>6, <1>8, <2>1, <2>2 DEF SparedKept
<1> QED
  BY <1>6, <1>7, <1>8 DEF SparedKept

(* The queue has an element exactly if the offsets differ.                 *)
LEMMA ElemsNonEmpty ==
  ASSUME QueueTyped
  PROVE  (elems # <<>>) <=> head < tail
<1>1. /\ head \in Nat /\ tail \in Nat /\ head <= tail
      /\ elems \in Seq(Int) /\ Len(elems) = tail - head
  BY BoundsTyped DEF QueueTyped
<1>2. (elems # <<>>) <=> Len(elems) # 0
  BY <1>1, EmptySeq
<1> QED
  BY <1>1, <1>2

(* begin() returns a slot only if there is an element.                     *)
LEMMA BeginHasElement ==
  ASSUME QueueTyped, ~BeginIsNull(tail, head)
  PROVE  head < tail
<1>1. head \in Nat /\ tail \in Nat /\ head <= tail
  BY BoundsTyped DEF QueueTyped
<1> QED
  BY <1>1, BeginFinds

-----------------------------------------------------------------------------
(* Every push of any caller keeps the invariant: it leaves the oldest      *)
(* element where it is, and only a clobbering one needs that it is spared. *)
LEMMA StoreKeepsApi ==
  ASSUME ApiInv, NEW v \in 0 .. Largest, Store(v),
         tail - head < MaxBehind,
         NEW c \in Nat, clobber' = c, clobber <= c,
         tail - head < Size \/ tail + 1 <= c,
         UNCHANGED readerVars
  PROVE  /\ QueueTyped' /\ HeldOldest' /\ BehindMeasured'
         /\ SparedKept /\ InStep(tail) => SparedKept'
<1>1. QueueTyped' /\ (SparedKept /\ InStep(tail) => SparedKept')
  BY StoreKeeps DEF ApiInv
<1>2. /\ head' = head /\ tail' = tail + 1
      /\ elems' \in Seq(Int)
      /\ Len(elems') = Len(elems) + 1
      /\ \A n \in 1 .. Len(elems) : elems'[n] = elems[n]
  BY StoreEffect DEF ApiInv
<1>3. held' = held /\ behind' = behind /\ seen' = seen
  BY DEF readerVars
<1>4. HeldOldest'
  <2>1. SUFFICES ASSUME held # <<>> PROVE elems' # <<>> /\ held[1] = elems'[1]
    BY <1>3 DEF HeldOldest
  <2>2. elems # <<>> /\ held[1] = elems[1]
    BY <2>1 DEF ApiInv, HeldOldest
  <2>3. elems \in Seq(Int) /\ Len(elems) \in Nat \ {0}
    BY <2>2, EmptySeq DEF ApiInv, QueueTyped
  <2>4. Len(elems') # 0
    BY <1>2, <2>3
  <2>5. elems' # <<>>
    BY <2>4
  <2>6. elems'[1] = elems[1]
    BY <1>2, <2>3
  <2> QED
    BY <2>2, <2>5, <2>6
<1>5. BehindMeasured'
  <2>1. SUFFICES ASSUME behind > 0
                 PROVE  held = <<>> /\ seen - head = behind + Size /\ seen <= tail'
    BY <1>2, <1>3 DEF BehindMeasured
  <2>2. held = <<>> /\ seen - head = behind + Size /\ seen <= tail
    BY <2>1 DEF ApiInv, BehindMeasured
  <2>3. seen \in Nat /\ tail \in Nat
    BY BoundsTyped DEF ApiInv, QueueTyped, CallerTyped
  <2> QED
    BY <1>2, <2>2, <2>3
<1> QED
  BY <1>1, <1>4, <1>5

(* A push through end() has room for its element.                          *)
LEMMA PushBackHasRoom ==
  ASSUME QueueTyped, NEW v, PushBack(v)
  PROVE  /\ tail - head < Size /\ tail - head < MaxBehind
         /\ Store(v) /\ clobber' = clobber
<1>1. /\ head \in Nat /\ tail \in Nat /\ Size \in Nat
      /\ MaxBehind \in Nat /\ Size <= MaxBehind
  BY BoundsTyped DEF QueueTyped
<1>2. ~(tail - head >= Size)
  BY SizeExact DEF PushBack, EndIsNull
<1> QED
  BY <1>1, <1>2 DEF PushBack

(* A clobbering push records how far it went.                              *)
LEMMA ClobberRecorded ==
  ASSUME QueueTyped, NEW v, PushClobber(v)
  PROVE  /\ Store(v)
         /\ clobber' \in Nat /\ clobber <= clobber' /\ tail + 1 <= clobber'
         /\ clobber <= tail => clobber' = tail + 1
<1>1. tail \in Nat /\ clobber \in Nat
  BY BoundsTyped DEF QueueTyped
<1>2. clobber' = IF tail + 1 > clobber THEN tail + 1 ELSE clobber
  BY DEF PushClobber
<1> PICK c : c = clobber'
  OBVIOUS
<1>3. c \in Nat /\ clobber <= c /\ tail + 1 <= c /\ (clobber <= tail => c = tail + 1)
  BY <1>1, <1>2
<1> QED
  BY <1>3 DEF PushClobber

-----------------------------------------------------------------------------
(* What any caller may do, in any order, keeps the invariant.              *)
LEMMA CallKeeps ==
  ASSUME ApiInv, tail <= fresh, Call
  PROVE  /\ ApiInv' /\ tail' <= fresh'
         /\ SlotsInStep /\ SparedKept => SparedKept'
<1> DEFINE CallResult == /\ ApiInv' /\ tail' <= fresh'
                         /\ SlotsInStep /\ SparedKept => SparedKept'
<1> USE DEF ApiInv
<1>1. /\ head \in Nat /\ tail \in Nat /\ head <= tail /\ tail <= head + MaxBehind
      /\ Len(elems) = tail - head /\ elems \in Seq(Int) /\ clobber \in Nat
      /\ data \in [0 .. Size-1 -> 0 .. Largest]
  BY BoundsTyped DEF QueueTyped
<1>2. /\ fresh \in Nat /\ fresh <= MaxPush
      /\ held \in Seq(Int) /\ Len(held) <= 1
      /\ behind \in Nat /\ behind <= MaxBehind - Size /\ seen \in Nat
  BY BoundsTyped DEF CallerTyped
<1>3. fresh < MaxPush => fresh + 1 \in 0 .. Largest /\ (SlotsInStep => InStep(tail))
  <2>1. SUFFICES ASSUME fresh < MaxPush
                 PROVE  fresh + 1 \in 0 .. Largest /\ (SlotsInStep => InStep(tail))
    OBVIOUS
  <2>2. fresh + 1 \in 0 .. Largest
    BY <1>2, <2>1, BoundsTyped DEF Largest
  <2>3. tail < MaxPush
    BY <1>1, <1>2, <2>1, BoundsTyped
  <2>4. ASSUME MaxPush < IntMod PROVE InStep(tail)
    <3>1. tail < IntMod
      BY <1>1, <2>3, <2>4, BoundsTyped
    <3> QED
      BY <3>1 DEF InStep
  <2>5. ASSUME IntMod % Size = 0 PROVE InStep(tail)
    BY <2>5 DEF InStep
  <2> QED
    BY <2>2, <2>4, <2>5 DEF SlotsInStep
<1>4. ASSUME CallPush PROVE CallResult
  <2>1. /\ fresh < MaxPush /\ fresh' = fresh + 1 /\ PushBack(fresh + 1)
        /\ UNCHANGED readerVars
    BY <1>4 DEF CallPush
  <2>2. /\ tail - head < Size /\ tail - head < MaxBehind
        /\ Store(fresh + 1) /\ clobber' = clobber
    BY <2>1, PushBackHasRoom
  <2>3. fresh + 1 \in 0 .. Largest /\ (SlotsInStep => InStep(tail)) /\ clobber <= clobber
    BY <1>1, <1>3, <2>1
  <2>4. /\ QueueTyped' /\ HeldOldest' /\ BehindMeasured'
        /\ SlotsInStep /\ SparedKept => SparedKept'
    BY <1>1, <2>1, <2>2, <2>3, StoreKeepsApi
  <2>5. fresh' \in 0 .. MaxPush
    BY <1>2, <2>1, BoundsTyped
  <2>6. CallerTyped'
    BY <2>1, <2>5 DEF CallerTyped, readerVars
  <2>7. tail' = tail + 1
    BY <2>2 DEF Store
  <2> QED
    BY <1>1, <1>2, <2>1, <2>4, <2>6, <2>7
<1>5. ASSUME CallPushClobber PROVE CallResult
  <2>1. /\ fresh < MaxPush /\ fresh' = fresh + 1 /\ PushClobber(fresh + 1)
        /\ tail - head < MaxBehind /\ UNCHANGED readerVars
    BY <1>5 DEF CallPushClobber
  <2>2. /\ Store(fresh + 1)
        /\ clobber' \in Nat /\ clobber <= clobber' /\ tail + 1 <= clobber'
    BY <2>1, ClobberRecorded
  <2>3. fresh + 1 \in 0 .. Largest /\ (SlotsInStep => InStep(tail))
    BY <1>3, <2>1
  <2>4. PICK c \in Nat : clobber' = c /\ clobber <= c /\ tail + 1 <= c
    BY <2>2
  <2>5. /\ QueueTyped' /\ HeldOldest' /\ BehindMeasured'
        /\ SlotsInStep /\ SparedKept => SparedKept'
    BY <2>1, <2>2, <2>3, <2>4, StoreKeepsApi
  <2>6. fresh' \in 0 .. MaxPush
    BY <1>2, <2>1, BoundsTyped
  <2>7. CallerTyped'
    BY <2>1, <2>6 DEF CallerTyped, readerVars
  <2>8. tail' = tail + 1
    BY <2>2 DEF Store
  <2> QED
    BY <1>1, <1>2, <2>1, <2>5, <2>7, <2>8
<1>6. ASSUME CallPopBack PROVE CallResult
  <2>1. /\ Len(held) < tail - head /\ behind = 0 /\ PopBack
        /\ fresh' = fresh /\ held' = held /\ behind' = behind /\ seen' = seen
    BY <1>1, <1>2, <1>6 DEF CallPopBack, readerVars
  <2>2. Len(held) \in Nat /\ (held # <<>> => Len(held) # 0)
    BY <1>2, EmptySeq
  <2>3. head < tail
    BY <1>1, <2>1, <2>2
  <2>4. /\ QueueTyped' /\ (SparedKept => SparedKept')
        /\ \A m \in 1 .. Len(elems') : elems'[m] = elems[m]
    BY <2>1, <2>3, PopBackKeeps
  <2>5. head' = head /\ tail' = tail - 1
    BY <2>1 DEF PopBack
  <2>6. elems' \in Seq(Int) /\ Len(elems') = tail - 1 - head
    BY <2>4, <2>5 DEF QueueTyped
  <2>7. HeldOldest'
    <3>1. SUFFICES ASSUME held # <<>> PROVE elems' # <<>> /\ held[1] = elems'[1]
      BY <2>1 DEF HeldOldest
    <3>2. tail - 1 - head > 0
      BY <1>1, <2>1, <2>2, <3>1
    <3>3. elems' # <<>> /\ 1 \in 1 .. Len(elems')
      BY <1>1, <2>6, <3>2
    <3> QED
      BY <2>4, <3>1, <3>3 DEF HeldOldest
  <2>8. BehindMeasured'
    BY <2>1 DEF BehindMeasured
  <2>9. CallerTyped'
    BY <2>1 DEF CallerTyped
  <2> QED
    BY <1>1, <1>2, <2>1, <2>4, <2>5, <2>7, <2>8, <2>9
<1>7. ASSUME CallBegin PROVE CallResult
  <2>1. /\ held = <<>> /\ behind = 0 /\ held' = <<elems[1]>>
        /\ UNCHANGED <<tail, head, data, elems, clobber, fresh, behind, seen>>
    BY <1>7 DEF CallBegin, queueVars
  <2>2. head < tail
    BY <1>7, BeginHasElement DEF CallBegin
  <2>3. elems # <<>>
    BY <2>2, ElemsNonEmpty
  <2>4. 1 \in 1 .. Len(elems)
    BY <1>1, <2>2
  <2>5. elems[1] \in Int
    BY <1>1, <2>4, ElementOfSeq
  <2>6. held' \in Seq(Int) /\ Len(held') = 1
    BY <2>1, <2>5
  <2>7. CallerTyped'
    BY <2>1, <2>6 DEF CallerTyped
  <2>8. QueueTyped'
    BY <2>1 DEF QueueTyped
  <2>9. SparedKept => SparedKept'
    BY <2>1 DEF SparedKept, Spared
  <2>10. HeldOldest'
    BY <2>1, <2>3 DEF HeldOldest
  <2>11. BehindMeasured'
    BY <2>1 DEF BehindMeasured
  <2> QED
    BY <2>1, <2>7, <2>8, <2>9, <2>10, <2>11
<1>8. ASSUME CallPopFront PROVE CallResult
  <2>1. /\ held # <<>> /\ PopFront /\ held' = <<>>
        /\ fresh' = fresh /\ behind' = behind /\ seen' = seen
    BY <1>8 DEF CallPopFront
  <2>2. elems # <<>>
    BY <2>1 DEF HeldOldest
  <2>3. QueueTyped' /\ (SparedKept => SparedKept')
    BY <2>1, <2>2, PopFrontKeeps
  <2>4. behind = 0
    BY <1>2, <2>1 DEF BehindMeasured
  <2>5. CallerTyped'
    BY <1>2, <2>1, EmptySeq DEF CallerTyped
  <2>6. HeldOldest' /\ BehindMeasured'
    BY <2>1, <2>4 DEF HeldOldest, BehindMeasured
  <2>7. tail' = tail
    BY <2>1 DEF PopFront
  <2> QED
    BY <2>1, <2>3, <2>5, <2>6, <2>7
<1>9. ASSUME CallSize PROVE CallResult
  <2>1. /\ held = <<>> /\ behind' = (tail - head) - Size /\ tail - head > Size
        /\ seen' = tail
        /\ UNCHANGED <<tail, head, data, elems, clobber, fresh, held>>
    BY <1>9, SizeExact DEF CallSize, queueVars
  <2>2. /\ behind' \in 0 .. MaxBehind - Size
        /\ tail - head = ((tail - head) - Size) + Size
    BY <1>1, <2>1, BoundsTyped
  <2>3. CallerTyped'
    BY <1>1, <2>1, <2>2 DEF CallerTyped
  <2>4. QueueTyped'
    BY <2>1 DEF QueueTyped
  <2>5. SparedKept => SparedKept'
    BY <2>1 DEF SparedKept, Spared
  <2>6. HeldOldest'
    BY <2>1 DEF HeldOldest
  <2>7. BehindMeasured'
    <3>1. tail <= tail
      BY <1>1
    <3> QED
      BY <2>1, <2>2, <3>1 DEF BehindMeasured
  <2> QED
    BY <2>1, <2>3, <2>4, <2>5, <2>6, <2>7
<1>10. ASSUME CallPopNFront PROVE CallResult
  <2>1. /\ behind > 0 /\ PopNFront(behind) /\ behind' = 0
        /\ fresh' = fresh /\ held' = held /\ seen' = seen
    BY <1>10 DEF CallPopNFront
  <2>2. held = <<>> /\ seen - head = behind + Size /\ seen <= tail
    BY <2>1 DEF BehindMeasured
  <2>3. behind \in Nat /\ behind <= Len(elems)
    BY <1>1, <1>2, <2>2, BoundsTyped
  <2>4. /\ head' = head + behind /\ elems' = SubSeq(elems, behind + 1, Len(elems))
        /\ UNCHANGED <<tail, data, clobber>>
    BY <2>1 DEF PopNFront
  <2>5. QueueTyped' /\ (SparedKept => SparedKept')
    BY <2>3, <2>4, FrontKeeps
  <2>6. 0 \in 0 .. MaxBehind - Size
    BY BoundsTyped
  <2>7. CallerTyped'
    BY <2>1, <2>6 DEF CallerTyped
  <2>8. HeldOldest' /\ BehindMeasured'
    BY <2>1, <2>2 DEF HeldOldest, BehindMeasured
  <2> QED
    BY <2>1, <2>4, <2>5, <2>7, <2>8
<1> QED
  BY <1>4, <1>5, <1>6, <1>7, <1>8, <1>9, <1>10 DEF Call

(* A word is one of Int.                                                   *)
LEMMA WordTyped ==
  ASSUME NEW n \in Nat
  PROVE  Word(n) \in Nat /\ Word(n) < IntMod
<1>1. IntMod \in Nat \ {0}
  BY BoundsTyped
<1>2. n % IntMod \in 0 .. IntMod-1
  BY <1>1, DivMod
<1> QED
  BY <1>1, <1>2 DEF Word

(* While no wrap comes between two offsets, their words count as they do.  *)
LEMMA WordBetween ==
  ASSUME NEW s \in Nat, NEW t \in Nat, s <= t, t - s < IntMod,
         Word(s) <= Word(t),
         NEW n \in Nat, n <= t - s
  PROVE  Word(s + n) = Word(s) + n /\ Word(t) - Word(s) = t - s
<1> PICK a \in Nat, b \in Nat : a = Word(s) /\ b = Word(t)
  BY WordTyped
<1>1. a <= b
  OBVIOUS
<1>2. IntMod \in Nat \ {0} /\ b < IntMod /\ s \in Int /\ t \in Int
  BY BoundsTyped, WordTyped
<1>3. PICK q \in Int : s = IntMod * q + a
  BY <1>2, DivMod DEF Word
<1>4. (b - a) % IntMod = t - s
  <2>1. ((t % IntMod) - (s % IntMod)) % IntMod = t - s
    BY <1>2, ModDiff
  <2> QED
    BY <2>1 DEF Word
<1>5. PICK d \in 0 .. IntMod-1 : d = b - a
  BY <1>1, <1>2
<1>6. (IntMod * 0 + d) % IntMod = d
  BY <1>2, ModUnique
<1>7. IntMod * 0 + d = d
  BY <1>2
<1>8. b - a = t - s
  BY <1>4, <1>5, <1>6, <1>7
<1>9. a + n \in 0 .. IntMod-1
  BY <1>2, <1>8
<1>10. (IntMod * q + (a + n)) % IntMod = a + n
  BY <1>2, <1>9, ModUnique
<1>11. PICK p \in Int : p = IntMod * q
  BY <1>2
<1>12. IntMod * q + (a + n) = s + n
  BY <1>3, <1>9, <1>11
<1> QED
  BY <1>8, <1>10, <1>12 DEF Word

(* The invariant says what the queue holds.                                *)
LEMMA ApiInvIntact == ApiInv /\ SparedKept => Intact
<1> SUFFICES ASSUME ApiInv, SparedKept PROVE Intact
  OBVIOUS
<1> USE DEF ApiInv
<1>1. /\ head \in Nat /\ tail \in Nat /\ head <= tail
      /\ Len(elems) = tail - head /\ elems \in Seq(Int)
  BY BoundsTyped DEF QueueTyped
<1>2. DOMAIN elems = 1 .. Len(elems)
  BY <1>1, LenProperties
<1>3. \A n \in DOMAIN elems : Spared(n) => data[Slot(head + n - 1)] = elems[n]
  BY <1>2 DEF SparedKept
<1>4. Empty <=> elems = <<>>
  BY <1>1, EmptyExact, ElemsNonEmpty
<1>5. ~Empty => 1 \in DOMAIN elems /\ Len(elems) \in DOMAIN elems
  BY <1>1, <1>2, EmptyExact
<1>6. head + 1 - 1 = head /\ head + Len(elems) - 1 = tail - 1
  BY <1>1
<1>7. ~Empty /\ Spared(1) => Front = elems[1]
  BY <1>3, <1>5, <1>6 DEF Front
<1>8. ~Empty /\ Spared(Len(elems)) => Back = elems[Len(elems)]
  BY <1>3, <1>5, <1>6 DEF Back
<1> QED
  BY <1>1, <1>3, <1>4, <1>7, <1>8 DEF Intact, HeldOldest

(* As long as the tail has not wrapped before the head, the words of the   *)
(* elements are those from the head to the tail.                           *)
LEMMA LiveBetween ==
  ASSUME QueueTyped, Word(head) <= Word(tail), NEW x \in Nat
  PROVE  x \in Live <=> Word(head) <= x /\ x < Word(tail)
<1>1. /\ head \in Nat /\ tail \in Nat /\ head <= tail /\ tail - head < IntMod
      /\ Len(elems) = tail - head /\ IntMod \in Nat \ {0}
  BY BoundsTyped DEF QueueTyped
<1>2. PICK a \in Nat, b \in Nat : a = Word(head) /\ b = Word(tail)
  BY <1>1, WordTyped
<1>3. ASSUME NEW n \in Nat, n <= tail - head
      PROVE  Word(head + n) = a + n /\ b - a = tail - head
  <2>1. /\ Word(head + n) = Word(head) + n
        /\ Word(tail) - Word(head) = tail - head
    BY <1>1, <1>3, WordBetween
  <2> QED
    BY <1>2, <2>1
<1>4. b - a = tail - head
  <2>1. 0 \in Nat /\ 0 <= tail - head
    BY <1>1
  <2> QED
    BY <1>3, <2>1
<1>5. ASSUME x \in Live PROVE a <= x /\ x < b
  <2>1. PICK n \in 1 .. Len(elems) : x = Word(head + n - 1)
    BY <1>5 DEF Live
  <2>2. n - 1 \in Nat /\ n - 1 <= tail - head /\ n - 1 < tail - head
    BY <1>1
  <2>3. head + n - 1 = head + (n - 1)
    BY <1>1
  <2>4. x = a + (n - 1)
    BY <1>3, <2>1, <2>2, <2>3
  <2> QED
    BY <1>1, <1>2, <1>4, <2>2, <2>4
<1>6. ASSUME a <= x, x < b PROVE x \in Live
  <2> DEFINE n == x - a + 1
  <2>1. n \in 1 .. Len(elems) /\ n - 1 \in Nat /\ n - 1 <= tail - head
    BY <1>1, <1>2, <1>4, <1>6, SMTT(30)
  <2>2. head + n - 1 = head + (n - 1) /\ a + (n - 1) = x
    BY <1>1, <1>2
  <2> HIDE DEF n
  <2>3. Word(head + n - 1) = x
    BY <1>3, <2>1, <2>2
  <2> QED
    BY <2>1, <2>3 DEF Live
<1> QED
  BY <1>2, <1>5, <1>6

(* So at() refuses and finds what it should.                               *)
LEMMA ApiInvAtExact == ApiInv /\ SparedKept => AtExact
<1> SUFFICES ASSUME ApiInv, SparedKept, NEW x \in 0 .. IntMod-1
             PROVE  /\ AtThrows(x) <=> x \notin Live \/ Word(tail) < Word(head)
                    /\ \A n \in DOMAIN elems :
                         Word(head + n - 1) = x /\ Spared(n) => At(x) = elems[n]
  BY DEF AtExact
<1> USE DEF ApiInv
<1>1. /\ head \in Nat /\ tail \in Nat /\ IntMod \in Nat \ {0}
      /\ elems \in Seq(Int)
  BY BoundsTyped DEF QueueTyped
<1>2. x \in Nat
  BY <1>1
<1>3. PICK a \in Nat, b \in Nat : a = Word(head) /\ b = Word(tail)
  BY <1>1, WordTyped
<1>4. AtThrows(x) <=> x < a \/ b <= x
  BY <1>2, <1>3 DEF AtThrows
<1>5. AtThrows(x) <=> x \notin Live \/ Word(tail) < Word(head)
  <2>1. b < a => (AtThrows(x) <=> x \notin Live \/ Word(tail) < Word(head))
    <3>1. SUFFICES ASSUME b < a
                   PROVE  AtThrows(x) <=> x \notin Live \/ Word(tail) < Word(head)
      OBVIOUS
    <3>2. Word(tail) < Word(head)
      BY <1>3, <3>1
    <3>3. x < a \/ b <= x
      BY <1>2, <1>3, <3>1
    <3> QED
      BY <1>4, <3>2, <3>3
  <2>2. a <= b => (AtThrows(x) <=> x \notin Live \/ Word(tail) < Word(head))
    <3>1. SUFFICES ASSUME a <= b
                   PROVE  AtThrows(x) <=> x \notin Live \/ Word(tail) < Word(head)
      OBVIOUS
    <3>2. ~(Word(tail) < Word(head))
      BY <1>3, <3>1
    <3>3. x \in Live <=> a <= x /\ x < b
      BY <1>2, <1>3, <3>1, LiveBetween
    <3>4. (x < a \/ b <= x) <=> ~(a <= x /\ x < b)
      BY <1>2, <1>3
    <3> QED
      BY <1>4, <3>2, <3>3, <3>4
  <2> QED
    BY <1>3, <2>1, <2>2
<1>6. ASSUME NEW n \in DOMAIN elems, Word(head + n - 1) = x, Spared(n)
      PROVE  At(x) = elems[n]
  <2>1. n \in 1 .. Len(elems)
    BY <1>1, LenProperties
  <2>2. data[Slot(head + n - 1)] = elems[n]
    BY <1>6, <2>1 DEF SparedKept
  <2> QED
    BY <1>6, <2>2 DEF At, Slot
<1> QED
  BY <1>5, <1>6

-----------------------------------------------------------------------------
(* The programs.  Where each of them may be:                               *)
ProgramTyped ==
  /\ prog \in Programs \cup {"any"}
  /\ i \in 0 .. N /\ j \in 0 .. N /\ k \in (0 .. N) \cup (1 .. Size) /\ l \in 0 .. Size
  /\ prog = "any" => pc = "fill"
  /\ prog \in {"test1", "test1Atomic"} =>
       pc \in {"fill", "loop", "at", "turn", "push", "passed"}
  /\ prog = "test2" => pc \in {"fill", "loop", "turn", "push", "passed"}
  /\ prog = "test1Mapped" => pc \in {"fill", "reopen", "loop", "turn", "push", "passed"}
  /\ prog \in {"test3", "test4"} => pc \in {"fill", "loop", "drain", "refill", "passed"}

(* A program is alone with its queue: its counters are the offsets, and it *)
(* never writes over an element.                                           *)
Alone ==
  prog # "any" =>
    /\ held = <<>> /\ behind = 0
    /\ tail = i
    /\ head = IF pc = "push" THEN j + 1 ELSE j
    /\ tail - head <= Size
    /\ clobber <= tail

(* test1 and test2 keep OFFSET elements in the queue, and turn only before *)
(* the last one; test3 and test4 pop and push as often as was drawn.       *)
LoopsOrdered ==
  prog # "any" =>
    /\ pc = "fill" => j = 0 /\ i <= Offset
    /\ pc \in {"reopen", "at", "turn", "push"} => i - j = Offset
    /\ pc = "loop" /\ prog \notin {"test3", "test4"} => i - j = Offset
    /\ pc \in {"at", "turn", "push"} => i < N
    /\ pc = "at" => j <= k /\ k <= i
    /\ pc \in {"drain", "refill"} => k \in 1 .. Size /\ l <= k

(* The elements are those the program counts or draws, in order, and       *)
(* where they were put.                                                    *)
ElementsInOrder ==
  prog # "any" =>
    /\ SparedKept
    /\ \A n \in 1 .. Len(elems) : elems[n] = Nth(head + n - 1)

LoopInv == ProgramTyped /\ Alone /\ LoopsOrdered

(* No caller has more elements in the queue than it ever pushed.           *)
FreshAhead == prog = "any" => tail <= fresh

(* As long as the slots do not jump, any caller finds what is spared.      *)
CallerKept == prog = "any" /\ SlotsInStep => SparedKept

ProgramInv == ApiInv /\ LoopInv /\ ElementsInOrder /\ FreshAhead /\ CallerKept

-----------------------------------------------------------------------------
(* rand() after put_seed(n) is in the range of the generator, whatever     *)
(* overflows on the way.                                                   *)
LEMMA RandomTyped ==
  ASSUME NEW n \in Nat
  PROVE  Random(n) \in 0 .. DefaultC-1
<1> DEFINE g == PutSeed(DefaultGenerator, n)
           y == Remainder(IntOf(DefaultA * n + DefaultB), DefaultC)
<1>1. /\ DefaultA \in Nat /\ DefaultB \in Nat /\ DefaultC \in Nat \ {0}
      /\ RandMod \in Nat \ {0}
  BY RandConstants
<1>2. PICK p \in Int : p = DefaultA * n + DefaultB
  BY <1>1
<1>3. p % RandMod \in Int /\ RandMod \div 2 \in Int
  BY <1>1, DivMod
<1>4. IntOf(p) \in Int
  BY <1>1, <1>3 DEF IntOf
<1>5. PICK z \in Int : z = IntOf(p)
  BY <1>4
<1>6. (-z) % DefaultC \in 0 .. DefaultC-1 /\ z % DefaultC \in 0 .. DefaultC-1
  <2>1. -z \in Int
    OBVIOUS
  <2> QED
    BY <1>1, <2>1, DivMod
<1>7. y \in Int /\ (IF y < 0 THEN -y ELSE y) \in 0 .. DefaultC-1
  <2>1. y = Remainder(z, DefaultC)
    BY <1>2, <1>5
  <2>2. CASE z < 0
    <3>1. PICK r \in 0 .. DefaultC-1 : r = (-z) % DefaultC
      BY <1>6
    <3>2. y = -r
      BY <2>1, <2>2, <3>1 DEF Remainder
    <3> HIDE DEF y
    <3> QED
      BY <1>1, <3>2
  <2>3. CASE ~(z < 0)
    <3>1. PICK r \in 0 .. DefaultC-1 : r = z % DefaultC
      BY <1>6
    <3>2. y = r
      BY <2>1, <2>3, <3>1 DEF Remainder
    <3> HIDE DEF y
    <3> QED
      BY <1>1, <3>2
  <2> QED
    BY <2>2, <2>3
<1>8. g = [a |-> DefaultA, b |-> DefaultB, c |-> DefaultC, seed |-> n, x |-> n]
  BY DEF PutSeed, DefaultGenerator, Generator
<1>9. Random(n) = IF y < 0 THEN -y ELSE y
  BY <1>8 DEF Random, Rand, Iterate
<1> QED
  BY <1>7, <1>9

(* Every element a program pushes is of the range of the others.           *)
LEMMA NthTyped ==
  ASSUME NEW n \in Nat, n < N
  PROVE  Nth(n) \in 0 .. Largest
<1>1. Random(n) \in 0 .. DefaultC-1
  BY RandomTyped
<1> PICK r : r = Random(n)
  OBVIOUS
<1>2. r \in 0 .. Largest /\ n \in 0 .. Largest
  BY <1>1, BoundsTyped DEF Largest
<1> QED
  BY <1>2 DEF Nth

(* An offset that has not wrapped is its own word.                         *)
LEMMA WordSmall ==
  ASSUME NEW n \in Nat, n < IntMod
  PROVE  Word(n) = n
<1>1. IntMod \in Nat \ {0} /\ n \in 0 .. IntMod-1
  BY BoundsTyped
<1>2. (IntMod * 0 + n) % IntMod = n
  BY <1>1, ModUnique
<1>3. IntMod * 0 + n = n
  BY <1>1
<1> QED
  BY <1>2, <1>3 DEF Word

-----------------------------------------------------------------------------
(* In a program nothing is ever written over.                              *)
LEMMA ProgramSpares ==
  ASSUME ApiInv, Alone, ElementsInOrder, prog # "any"
  PROVE  \A n \in 1 .. Len(elems) : data[Slot(head + n - 1)] = elems[n]
<1>1. /\ head \in Nat /\ tail \in Nat /\ clobber \in Nat /\ Size \in Nat
      /\ tail - head <= Size /\ clobber <= tail
      /\ Len(elems) = tail - head
  BY BoundsTyped DEF ApiInv, QueueTyped, Alone
<1> TAKE n \in 1 .. Len(elems)
<1>2. n \in Nat /\ 1 <= n
  BY <1>1
<1>3. Spared(n)
  BY <1>1, <1>2 DEF Spared
<1> QED
  BY <1>3 DEF ElementsInOrder, SparedKept

(* A push of a program finds a slot, and keeps the queue in order.         *)
LEMMA ProgramPush ==
  ASSUME ApiInv, ProgramTyped, Alone, ElementsInOrder,
         prog \in Programs, i < N, tail - head < Size, Push,
         UNCHANGED <<fresh, readerVars, prog>>
  PROVE  /\ ApiInv' /\ ElementsInOrder'
         /\ head' = head /\ tail' = tail + 1 /\ clobber' <= tail + 1
<1>1. prog # "any" /\ prog' = prog
  BY DEF Programs
<1>2. /\ i \in Nat /\ tail = i /\ clobber <= tail
      /\ tail \in Nat /\ head \in Nat /\ clobber \in Nat /\ head <= tail
      /\ Len(elems) = tail - head
  BY <1>1, BoundsTyped DEF Alone, ProgramTyped, ApiInv, QueueTyped
<1>3. Nth(i) \in 0 .. Largest
  BY <1>2, NthTyped
<1>4. tail - head < MaxBehind /\ InStep(tail)
  BY <1>2, BoundsTyped DEF InStep
<1>5. PICK c \in Nat : /\ clobber' = c /\ clobber <= c /\ Store(Nth(i))
                       /\ c <= tail + 1
  <2>1. CASE prog = "test1Atomic"
    <3>1. PushClobber(Nth(i))
      BY <2>1 DEF Push, AtomicPush
    <3>2. /\ Store(Nth(i)) /\ clobber' \in Nat /\ clobber <= clobber'
          /\ clobber' = tail + 1
      BY <1>2, <3>1, ClobberRecorded DEF ApiInv
    <3> QED
      BY <1>2, <3>2
  <2>2. CASE prog # "test1Atomic"
    <3>1. PushBack(Nth(i))
      BY <2>2 DEF Push
    <3>2. Store(Nth(i)) /\ clobber' = clobber
      BY <3>1 DEF PushBack
    <3> QED
      BY <1>2, <3>2
  <2> QED
    BY <2>1, <2>2
<1>6. QueueTyped' /\ SparedKept' /\ HeldOldest' /\ BehindMeasured'
  <2>1. SparedKept
    BY <1>1 DEF ElementsInOrder
  <2> QED
    BY <1>3, <1>4, <1>5, <2>1, StoreKeepsApi
<1>7. CallerTyped'
  BY DEF CallerTyped, ApiInv, readerVars
<1>8. /\ head' = head /\ tail' = tail + 1
      /\ Len(elems') = Len(elems) + 1
      /\ elems'[Len(elems) + 1] = Nth(i)
      /\ \A n \in 1 .. Len(elems) : elems'[n] = elems[n]
  BY <1>3, <1>5, StoreEffect DEF ApiInv
<1>9. \A n : Nth(n)' = Nth(n)
  BY <1>1 DEF Nth
<1>10. ASSUME NEW n \in 1 .. Len(elems') PROVE elems'[n] = Nth(head + n - 1)
  <2>1. n \in 1 .. Len(elems) + 1
    BY <1>8
  <2>2. CASE n = Len(elems) + 1
    <3>1. head + n - 1 = i
      BY <1>2, <2>2
    <3> QED
      BY <1>8, <2>2, <3>1
  <2>3. CASE n # Len(elems) + 1
    <3>1. n \in 1 .. Len(elems)
      BY <1>2, <2>1, <2>3
    <3> QED
      BY <1>1, <1>8, <3>1 DEF ElementsInOrder
  <2> QED
    BY <2>2, <2>3
<1>11. ElementsInOrder'
  BY <1>6, <1>8, <1>9, <1>10 DEF ElementsInOrder
<1> QED
  BY <1>5, <1>6, <1>7, <1>8, <1>11 DEF ApiInv

(* A pop of a program takes the oldest element.                            *)
LEMMA ProgramPop ==
  ASSUME ApiInv, Alone, ElementsInOrder,
         prog \in Programs, head < tail, PopFront,
         UNCHANGED <<fresh, readerVars, prog>>
  PROVE  /\ ApiInv' /\ ElementsInOrder'
         /\ head' = head + 1 /\ tail' = tail /\ clobber' = clobber
<1>1. prog # "any" /\ prog' = prog
  BY DEF Programs
<1>2. /\ held = <<>> /\ behind = 0
      /\ tail \in Nat /\ head \in Nat /\ Len(elems) = tail - head
  BY <1>1, BoundsTyped DEF Alone, ApiInv, QueueTyped
<1>3. elems # <<>>
  BY ElemsNonEmpty DEF ApiInv
<1>4. /\ QueueTyped' /\ SparedKept'
      /\ \A n \in 1 .. Len(elems') : elems'[n] = elems[1 + n]
  BY <1>1, <1>3, PopFrontKeeps DEF ApiInv, ElementsInOrder
<1>5. head' = head + 1 /\ tail' = tail /\ clobber' = clobber
  BY DEF PopFront
<1>6. CallerTyped' /\ HeldOldest' /\ BehindMeasured'
  BY <1>2 DEF ApiInv, CallerTyped, HeldOldest, BehindMeasured, readerVars
<1>7. Len(elems') = tail - (head + 1)
  BY <1>4, <1>5 DEF QueueTyped
<1>8. \A n : Nth(n)' = Nth(n)
  BY <1>1 DEF Nth
<1>9. ASSUME NEW n \in 1 .. Len(elems') PROVE elems'[n] = Nth((head + 1) + n - 1)
  <2>1. 1 + n \in 1 .. Len(elems) /\ head + (1 + n) - 1 = (head + 1) + n - 1
    BY <1>2, <1>7
  <2>2. elems[1 + n] = Nth(head + (1 + n) - 1)
    BY <1>1, <2>1 DEF ElementsInOrder
  <2> QED
    BY <1>4, <2>1, <2>2
<1>10. ElementsInOrder'
  BY <1>4, <1>5, <1>8, <1>9 DEF ElementsInOrder
<1> QED
  BY <1>4, <1>5, <1>6, <1>10 DEF ApiInv

(* A step that only counts leaves the queue alone.                         *)
LEMMA ProgramLooks ==
  ASSUME ApiInv, ElementsInOrder,
         UNCHANGED <<queueVars, fresh, readerVars, prog>>
  PROVE  /\ ApiInv' /\ ElementsInOrder'
         /\ head' = head /\ tail' = tail /\ clobber' = clobber
<1>1. /\ tail' = tail /\ head' = head /\ data' = data /\ elems' = elems
      /\ clobber' = clobber /\ fresh' = fresh /\ held' = held
      /\ behind' = behind /\ seen' = seen /\ prog' = prog
  BY DEF queueVars, readerVars
<1>2. QueueTyped' /\ CallerTyped'
  BY <1>1 DEF ApiInv, QueueTyped, CallerTyped
<1>3. SparedKept => SparedKept'
  BY <1>1 DEF SparedKept, Spared
<1>4. HeldOldest' /\ BehindMeasured'
  BY <1>1 DEF ApiInv, HeldOldest, BehindMeasured
<1>5. ElementsInOrder'
  BY <1>1, <1>3 DEF ElementsInOrder, Nth
<1> QED
  BY <1>1, <1>2, <1>4, <1>5 DEF ApiInv

(* What a program finds at begin() is the element it expects.              *)
LEMMA ProgramMatches ==
  ASSUME ApiInv, ProgramTyped, Alone, ElementsInOrder,
         prog \in Programs, pc # "push", head < tail
  PROVE  Matches
<1>1. prog # "any"
  BY DEF Programs
<1>2. /\ head = j /\ tail = i /\ i \in Nat /\ j \in Nat /\ i <= N
      /\ Len(elems) = tail - head
  BY <1>1, BoundsTyped DEF Alone, ProgramTyped, ApiInv, QueueTyped
<1>3. head \in Nat /\ tail \in Nat /\ head < IntMod /\ tail < IntMod
  BY <1>2, BoundsTyped
<1>4. Word(head) = head /\ Word(tail) = tail
  BY <1>3, WordSmall
<1>5. ~BeginIsNull(tail, head)
  BY <1>3, <1>4 DEF BeginIsNull
<1>6. 1 \in 1 .. Len(elems) /\ head + 1 - 1 = head
  BY <1>2
<1>7. Front = elems[1]
  BY <1>1, <1>6, ProgramSpares DEF Front
<1>8. elems[1] = Nth(head)
  BY <1>1, <1>6 DEF ElementsInOrder
<1> QED
  BY <1>2, <1>5, <1>7, <1>8 DEF Matches

(* And so is what test1 finds at at(k).                                    *)
LEMMA ProgramLooksUp ==
  ASSUME ApiInv, ProgramTyped, Alone, ElementsInOrder,
         prog \in {"test1", "test1Atomic"}, pc = "at", j <= k, k < i
  PROVE  ~AtThrows(k) /\ At(k) = k
<1>1. prog # "any"
  OBVIOUS
<1>2. /\ head = j /\ tail = i /\ i \in Nat /\ j \in Nat /\ i <= N
      /\ Len(elems) = tail - head
  BY <1>1, BoundsTyped DEF Alone, ProgramTyped, ApiInv, QueueTyped
<1>3. k \in Nat
  BY BoundsTyped DEF ProgramTyped
<1>4. /\ head \in Nat /\ tail \in Nat /\ head < IntMod /\ tail < IntMod
      /\ k < IntMod /\ head <= k /\ k < tail
  BY <1>2, <1>3, BoundsTyped
<1>5. Word(head) = head /\ Word(tail) = tail /\ Word(k) = k
  BY <1>3, <1>4, WordSmall
<1>6. ~AtThrows(k)
  <2>1. ~(k < head) /\ ~(k >= tail)
    BY <1>3, <1>4
  <2> QED
    BY <1>5, <2>1 DEF AtThrows
<1>7. PICK n \in 1 .. Len(elems) : head + n - 1 = k
  <2>1. k - head + 1 \in 1 .. Len(elems) /\ head + (k - head + 1) - 1 = k
    BY <1>2, <1>3, <1>4
  <2> QED
    BY <2>1
<1>8. data[Slot(k)] = elems[n]
  BY <1>1, <1>7, ProgramSpares
<1>9. elems[n] = Nth(k) /\ Nth(k) = k
  BY <1>1, <1>7 DEF ElementsInOrder, Nth
<1> QED
  BY <1>5, <1>6, <1>8, <1>9 DEF At, Slot

-----------------------------------------------------------------------------
(* The counters as the invariant has them, ready to cite.                  *)
LEMMA ProgramCounts ==
  ASSUME ApiInv, LoopInv, prog \in Programs
  PROVE  /\ prog # "any"
         /\ held = <<>> /\ behind = 0
         /\ i \in Nat /\ j \in Nat /\ k \in Nat /\ l \in Nat
         /\ i <= N /\ j <= N /\ l <= Size
         /\ tail = i /\ (pc # "push" => head = j) /\ (pc = "push" => head = j + 1)
         /\ head \in Nat /\ head <= tail /\ tail - head <= Size
         /\ clobber \in Nat /\ clobber <= tail
         /\ SizeOf(tail, head) = tail - head
<1>1. prog # "any"
  BY DEF Programs
<1>2. SizeOf(tail, head) = tail - head
  BY SizeExact DEF ApiInv
<1>3. clobber \in Nat /\ head \in Nat /\ head <= tail
  BY BoundsTyped DEF ApiInv, QueueTyped
<1>4. i \in Nat /\ j \in Nat /\ k \in Nat /\ l \in Nat /\ i <= N /\ j <= N /\ l <= Size
  BY BoundsTyped DEF LoopInv, ProgramTyped
<1> QED
  BY <1>1, <1>2, <1>3, <1>4 DEF LoopInv, Alone

(* The first elements fill the queue as far as OFFSET.                     *)
LEMMA FillStep ==
  ASSUME ApiInv, LoopInv, ElementsInOrder, prog \in Programs, Fill,
         UNCHANGED <<fresh, readerVars, prog>>
  PROVE  ApiInv' /\ LoopInv' /\ ElementsInOrder'
<1> USE DEF LoopInv
<1>1. /\ prog # "any" /\ held = <<>> /\ behind = 0
      /\ i \in Nat /\ j \in Nat /\ i <= N /\ tail = i
      /\ clobber \in Nat /\ head = j /\ pc = "fill"
      /\ j = 0 /\ i <= Offset
  BY ProgramCounts DEF Fill, LoopsOrdered
<1>2. held' = held /\ behind' = behind /\ prog' = prog
  BY DEF readerVars
<1>3. CASE i < Offset
  <2>1. Push /\ i' = i + 1 /\ pc' = pc /\ j' = j /\ k' = k /\ l' = l
    BY <1>3 DEF Fill
  <2>2. i < N /\ tail - head < Size
    BY <1>1, <1>3, BoundsTyped
  <2>3. /\ ApiInv' /\ ElementsInOrder'
        /\ head' = head /\ tail' = tail + 1 /\ clobber' <= tail + 1
    BY <2>1, <2>2, ProgramPush
  <2>4. i + 1 \in 0 .. N /\ i + 1 <= Offset /\ i + 1 - 0 <= Size
    BY <1>1, <1>3, BoundsTyped
  <2>5. ProgramTyped'
    BY <1>2, <2>1, <2>4 DEF ProgramTyped
  <2>6. Alone'
    BY <1>1, <1>2, <2>1, <2>3, <2>4 DEF Alone
  <2>7. LoopsOrdered'
    BY <1>1, <1>2, <2>1, <2>4 DEF LoopsOrdered
  <2> QED
    BY <2>3, <2>5, <2>6, <2>7
<1>4. CASE ~(i < Offset)
  <2>1. /\ pc' = IF prog = "test1Mapped" THEN "reopen" ELSE "loop"
        /\ UNCHANGED queueVars /\ i' = i /\ j' = j /\ k' = k /\ l' = l
    BY <1>4 DEF Fill, loopVars
  <2>2. /\ ApiInv' /\ ElementsInOrder'
        /\ head' = head /\ tail' = tail /\ clobber' = clobber
    BY <2>1, ProgramLooks
  <2>3. i - j = Offset
    BY <1>1, <1>4, BoundsTyped
  <2>4. ProgramTyped'
    <3>1. CASE prog = "test1Mapped"
      BY <1>1, <1>2, <2>1, <3>1 DEF ProgramTyped
    <3>2. CASE prog # "test1Mapped"
      <4>1. pc' = "loop"
        BY <2>1, <3>2
      <4> QED
        BY <1>1, <1>2, <2>1, <3>2, <4>1 DEF ProgramTyped
    <3> QED
      BY <3>1, <3>2
  <2>5. Alone'
    BY <1>1, <1>2, <2>1, <2>2 DEF Alone
  <2>6. LoopsOrdered'
    BY <1>1, <1>2, <2>1, <2>3 DEF LoopsOrdered
  <2> QED
    BY <2>2, <2>4, <2>5, <2>6
<1> QED
  BY <1>3, <1>4

(* To open the file again changes nothing.                                 *)
LEMMA ReopenStep ==
  ASSUME ApiInv, LoopInv, ElementsInOrder, prog = "test1Mapped", Reopen,
         UNCHANGED <<fresh, readerVars, prog>>
  PROVE  ApiInv' /\ LoopInv' /\ ElementsInOrder'
<1> USE DEF LoopInv
<1>1. /\ pc = "reopen" /\ pc' = "loop"
      /\ UNCHANGED queueVars /\ i' = i /\ j' = j /\ k' = k /\ l' = l
      /\ held' = held /\ behind' = behind /\ prog' = prog
  BY DEF Reopen, loopVars, readerVars
<1>2. /\ ApiInv' /\ ElementsInOrder'
      /\ head' = head /\ tail' = tail /\ clobber' = clobber
  BY <1>1, ProgramLooks
<1>3. ProgramTyped'
  BY <1>1 DEF ProgramTyped
<1>4. Alone'
  BY <1>1, <1>2 DEF Alone
<1>5. LoopsOrdered'
  BY <1>1 DEF LoopsOrdered
<1> QED
  BY <1>2, <1>3, <1>4, <1>5

(* test1 and test2 have an element at the head of their loop, and it is    *)
(* the one they expect.                                                    *)
LEMMA LoopStep ==
  ASSUME ApiInv, LoopInv, ElementsInOrder,
         prog \in {"test1", "test1Atomic", "test1Mapped", "test2"}, Loop,
         UNCHANGED <<fresh, readerVars, prog>>
  PROVE  ApiInv' /\ LoopInv' /\ ElementsInOrder'
<1> USE DEF LoopInv
<1>1. prog \in Programs /\ prog # "any"
  BY DEF Programs
<1>2. /\ held = <<>> /\ behind = 0
      /\ i \in Nat /\ j \in Nat /\ i <= N /\ tail = i
      /\ head = j /\ pc = "loop" /\ i - j = Offset
  BY <1>1, ProgramCounts DEF Loop, LoopsOrdered
<1>3. held' = held /\ behind' = behind /\ prog' = prog
  BY DEF readerVars
<1>4. Matches
  <2>1. head < tail
    BY <1>2, BoundsTyped
  <2> QED
    BY <1>1, <1>2, <2>1, ProgramMatches
<1>5. UNCHANGED queueVars /\ i' = i /\ j' = j /\ l' = l
  BY <1>4 DEF Loop, loopVars
<1>6. /\ ApiInv' /\ ElementsInOrder'
      /\ head' = head /\ tail' = tail /\ clobber' = clobber
  BY <1>5, ProgramLooks
<1>7. CASE i < N
  <2>1. k' = j /\ pc' = IF prog \in {"test2", "test1Mapped"} THEN "turn" ELSE "at"
    <3>1. ~(i >= N)
      BY <1>2, <1>7, BoundsTyped
    <3> QED
      BY <1>4, <3>1 DEF Loop
  <2>2. j <= i /\ j \in 0 .. N
    BY <1>2, BoundsTyped
  <2>3. ProgramTyped'
    BY <1>3, <1>5, <2>1, <2>2 DEF ProgramTyped
  <2>4. Alone'
    BY <1>1, <1>2, <1>3, <1>5, <1>6, <2>1 DEF Alone
  <2>5. LoopsOrdered'
    BY <1>2, <1>3, <1>5, <1>7, <2>1, <2>2 DEF LoopsOrdered
  <2> QED
    BY <1>6, <2>3, <2>4, <2>5
<1>8. CASE ~(i < N)
  <2>1. k' = k /\ pc' = "passed"
    BY <1>8, <1>4 DEF Loop, loopVars
  <2>2. ProgramTyped'
    BY <1>3, <1>5, <2>1 DEF ProgramTyped
  <2>3. Alone'
    BY <1>1, <1>2, <1>3, <1>5, <1>6, <2>1 DEF Alone
  <2>4. LoopsOrdered'
    BY <2>1 DEF LoopsOrdered
  <2> QED
    BY <1>6, <2>2, <2>3, <2>4
<1> QED
  BY <1>7, <1>8

(* test1 finds every element at its place.                                 *)
LEMMA LookAtStep ==
  ASSUME ApiInv, LoopInv, ElementsInOrder,
         prog \in {"test1", "test1Atomic"}, LookAt,
         UNCHANGED <<fresh, readerVars, prog>>
  PROVE  ApiInv' /\ LoopInv' /\ ElementsInOrder'
<1> USE DEF LoopInv
<1>1. prog \in Programs /\ prog # "any"
  BY DEF Programs
<1>2. /\ held = <<>> /\ behind = 0
      /\ i \in Nat /\ j \in Nat /\ k \in Nat /\ i <= N /\ tail = i
      /\ head = j /\ pc = "at" /\ i - j = Offset /\ i < N
      /\ j <= k /\ k <= i /\ SizeOf(tail, head) = tail - head
  BY <1>1, ProgramCounts DEF LookAt, LoopsOrdered
<1>3. held' = held /\ behind' = behind /\ prog' = prog
  BY DEF readerVars
<1>4. j + SizeOf(tail, head) = i
  BY <1>2
<1>5. k < i => ~AtThrows(k) /\ At(k) = k
  BY <1>2, ProgramLooksUp
<1>6. \/ k < i /\ k' = k + 1 /\ pc' = pc /\ UNCHANGED <<queueVars, i, j, l>>
      \/ pc' = "turn" /\ k' = k /\ UNCHANGED <<queueVars, i, j, l>>
  BY <1>4, <1>5 DEF LookAt, loopVars
<1>7. UNCHANGED queueVars /\ i' = i /\ j' = j /\ l' = l
  BY <1>6
<1>8. /\ ApiInv' /\ ElementsInOrder'
      /\ head' = head /\ tail' = tail /\ clobber' = clobber
  BY <1>7, ProgramLooks
<1>9. pc' \in {"at", "turn"}
  BY <1>2, <1>6
<1>10. PICK n \in Nat : k' = n /\ j <= n /\ n <= i
  BY <1>2, <1>6
<1>11. n \in 0 .. N
  BY <1>2, <1>10, BoundsTyped
<1>12. ProgramTyped'
  BY <1>3, <1>7, <1>9, <1>10, <1>11 DEF ProgramTyped
<1>13. Alone'
  BY <1>1, <1>2, <1>3, <1>7, <1>8, <1>9 DEF Alone
<1>14. LoopsOrdered'
  BY <1>2, <1>3, <1>7, <1>9, <1>10 DEF LoopsOrdered
<1> QED
  BY <1>8, <1>12, <1>13, <1>14

(* One element is popped ...                                               *)
LEMMA TurnStep ==
  ASSUME ApiInv, LoopInv, ElementsInOrder,
         prog \in {"test1", "test1Atomic", "test1Mapped", "test2"}, Turn,
         UNCHANGED <<fresh, readerVars, prog>>
  PROVE  ApiInv' /\ LoopInv' /\ ElementsInOrder'
<1> USE DEF LoopInv
<1>1. prog \in Programs /\ prog # "any"
  BY DEF Programs
<1>2. /\ held = <<>> /\ behind = 0
      /\ i \in Nat /\ j \in Nat /\ i <= N /\ tail = i
      /\ head = j /\ pc = "turn" /\ i - j = Offset /\ i < N
      /\ tail - head <= Size /\ clobber <= tail
  BY <1>1, ProgramCounts DEF Turn, LoopsOrdered
<1>3. /\ held' = held /\ behind' = behind /\ prog' = prog
      /\ PopFront /\ pc' = "push" /\ i' = i /\ j' = j /\ k' = k /\ l' = l
  BY DEF readerVars, Turn, loopVars
<1>4. head < tail /\ tail - (head + 1) <= Size
  BY <1>2, BoundsTyped
<1>5. /\ ApiInv' /\ ElementsInOrder'
      /\ head' = head + 1 /\ tail' = tail /\ clobber' = clobber
  BY <1>1, <1>3, <1>4, ProgramPop
<1>6. ProgramTyped'
  BY <1>3 DEF ProgramTyped
<1>7. Alone'
  BY <1>2, <1>3, <1>4, <1>5 DEF Alone
<1>8. LoopsOrdered'
  BY <1>2, <1>3 DEF LoopsOrdered
<1> QED
  BY <1>5, <1>6, <1>7, <1>8

(* ... and one pushed, for which there is always a slot.                   *)
LEMMA TurnPushStep ==
  ASSUME ApiInv, LoopInv, ElementsInOrder,
         prog \in {"test1", "test1Atomic", "test1Mapped", "test2"}, TurnPush,
         UNCHANGED <<fresh, readerVars, prog>>
  PROVE  ApiInv' /\ LoopInv' /\ ElementsInOrder'
<1> USE DEF LoopInv
<1>1. prog \in Programs /\ prog # "any"
  BY DEF Programs
<1>2. /\ held = <<>> /\ behind = 0
      /\ i \in Nat /\ j \in Nat /\ i <= N /\ tail = i /\ head \in Nat
      /\ head = j + 1 /\ pc = "push" /\ i - j = Offset /\ i < N
      /\ SizeOf(tail, head) = tail - head
  BY <1>1, ProgramCounts DEF TurnPush, LoopsOrdered
<1>3. held' = held /\ behind' = behind /\ prog' = prog
  BY DEF readerVars
<1>4. /\ tail - head < Size /\ ~(tail - head >= Size)
      /\ (tail + 1) - head <= Size
      /\ i + 1 \in 0 .. N /\ j + 1 \in 0 .. N /\ (i + 1) - (j + 1) = Offset
  BY <1>2, BoundsTyped
<1>5. ~EndIsNull(tail, head)
  BY <1>2, <1>4 DEF EndIsNull
<1>6. /\ Push /\ i' = i + 1 /\ j' = j + 1 /\ pc' = "loop" /\ k' = k /\ l' = l
  BY <1>5 DEF TurnPush
<1>7. /\ ApiInv' /\ ElementsInOrder'
      /\ head' = head /\ tail' = tail + 1 /\ clobber' <= tail + 1
  BY <1>1, <1>2, <1>4, <1>6, ProgramPush
<1>8. ProgramTyped'
  BY <1>3, <1>4, <1>6 DEF ProgramTyped
<1>9. Alone'
  BY <1>2, <1>3, <1>4, <1>6, <1>7 DEF Alone
<1>10. LoopsOrdered'
  BY <1>3, <1>4, <1>6 DEF LoopsOrdered
<1> QED
  BY <1>7, <1>8, <1>9, <1>10

(* test3 and test4 draw how often they pop or push.                        *)
LEMMA DrawStep ==
  ASSUME ApiInv, LoopInv, ElementsInOrder, prog \in {"test3", "test4"},
         pc # "push", NEW next \in {"drain", "refill"}, Draw(next),
         UNCHANGED <<fresh, readerVars, prog>>
  PROVE  ApiInv' /\ LoopInv' /\ ElementsInOrder'
<1> USE DEF LoopInv
<1>1. prog \in Programs /\ prog # "any"
  BY DEF Programs
<1>2. /\ held' = held /\ behind' = behind /\ prog' = prog
      /\ k' \in 1 .. Size /\ l' = 0 /\ pc' = next
      /\ UNCHANGED queueVars /\ i' = i /\ j' = j
  BY DEF readerVars, Draw
<1>3. /\ ApiInv' /\ ElementsInOrder'
      /\ head' = head /\ tail' = tail /\ clobber' = clobber
  BY <1>2, ProgramLooks
<1>4. PICK n \in 1 .. Size : k' = n
  BY <1>2
<1>5. 0 <= n /\ 0 \in 0 .. Size
  BY BoundsTyped
<1>6. ProgramTyped'
  BY <1>2, <1>4, <1>5 DEF ProgramTyped
<1>7. Alone'
  BY <1>1, <1>2, <1>3 DEF Alone
<1>8. LoopsOrdered'
  BY <1>2, <1>4, <1>5 DEF LoopsOrdered
<1> QED
  BY <1>3, <1>6, <1>7, <1>8

(* The heads of their loops.                                               *)
LEMMA DrawLoopStep ==
  ASSUME ApiInv, LoopInv, ElementsInOrder, prog \in {"test3", "test4"}, DrawLoop,
         UNCHANGED <<fresh, readerVars, prog>>
  PROVE  ApiInv' /\ LoopInv' /\ ElementsInOrder'
<1>1. pc = "loop"
  BY DEF DrawLoop
<1>2. CASE Draw("drain")
  BY <1>1, <1>2, DrawStep
<1>3. CASE pc' = "passed" /\ UNCHANGED <<queueVars, loopVars>>
  <2>1. prog # "any"
    OBVIOUS
  <2>2. /\ held' = held /\ behind' = behind /\ prog' = prog
        /\ UNCHANGED queueVars /\ i' = i /\ j' = j /\ k' = k /\ l' = l
    BY <1>3 DEF readerVars, loopVars
  <2>3. /\ ApiInv' /\ ElementsInOrder'
        /\ head' = head /\ tail' = tail /\ clobber' = clobber
    BY <2>2, ProgramLooks
  <2>4. ProgramTyped'
    BY <1>3, <2>2 DEF LoopInv, ProgramTyped
  <2>5. Alone'
    BY <1>1, <1>3, <2>1, <2>2, <2>3 DEF LoopInv, Alone
  <2>6. LoopsOrdered'
    BY <1>3 DEF LoopsOrdered
  <2> QED
    BY <2>3, <2>4, <2>5, <2>6 DEF LoopInv
<1> QED
  BY <1>2, <1>3 DEF DrawLoop

(* They pop what they expect ...                                           *)
LEMMA DrainStep ==
  ASSUME ApiInv, LoopInv, ElementsInOrder, prog \in {"test3", "test4"}, Drain,
         UNCHANGED <<fresh, readerVars, prog>>
  PROVE  ApiInv' /\ LoopInv' /\ ElementsInOrder'
<1> USE DEF LoopInv
<1>1. prog \in Programs /\ prog # "any"
  BY DEF Programs
<1>2. /\ held = <<>> /\ behind = 0
      /\ i \in Nat /\ j \in Nat /\ k \in Nat /\ l \in Nat /\ i <= N /\ tail = i
      /\ head = j /\ pc = "drain" /\ l <= Size
      /\ tail - head <= Size /\ clobber <= tail
  BY <1>1, ProgramCounts DEF Drain
<1>3. held' = held /\ behind' = behind /\ prog' = prog
  BY DEF readerVars
<1>4. k \in 1 .. Size /\ l <= k
  BY <1>1, <1>2 DEF LoopsOrdered
<1>5. CASE l < k /\ ~BeginIsNull(tail, head)
  <2>1. head < tail
    BY <1>5, BeginHasElement DEF ApiInv
  <2>2. Matches
    BY <1>1, <1>2, <2>1, ProgramMatches
  <2>3. PopFront /\ j' = j + 1 /\ l' = l + 1 /\ pc' = pc /\ i' = i /\ k' = k
    BY <1>5, <2>2 DEF Drain
  <2>4. /\ ApiInv' /\ ElementsInOrder'
        /\ head' = head + 1 /\ tail' = tail /\ clobber' = clobber
    BY <1>1, <2>1, <2>3, ProgramPop
  <2>5. /\ j + 1 \in 0 .. N /\ l + 1 \in 0 .. Size /\ l + 1 <= k
        /\ tail - (head + 1) <= Size
    BY <1>2, <1>4, <1>5, <2>1, BoundsTyped
  <2>6. ProgramTyped'
    BY <1>3, <2>3, <2>5 DEF ProgramTyped
  <2>7. Alone'
    BY <1>2, <1>3, <2>3, <2>4, <2>5 DEF Alone
  <2>8. LoopsOrdered'
    BY <1>2, <1>3, <1>4, <2>3, <2>5 DEF LoopsOrdered
  <2> QED
    BY <2>4, <2>6, <2>7, <2>8
<1>6. CASE ~(l < k /\ ~BeginIsNull(tail, head))
  <2>1. Draw("refill")
    BY <1>6 DEF Drain
  <2> QED
    BY <1>2, <2>1, DrawStep
<1> QED
  BY <1>5, <1>6

(* ... and push where end() has a slot.                                    *)
LEMMA RefillStep ==
  ASSUME ApiInv, LoopInv, ElementsInOrder, prog \in {"test3", "test4"}, Refill,
         UNCHANGED <<fresh, readerVars, prog>>
  PROVE  ApiInv' /\ LoopInv' /\ ElementsInOrder'
<1> USE DEF LoopInv
<1>1. prog \in Programs /\ prog # "any"
  BY DEF Programs
<1>2. /\ held = <<>> /\ behind = 0
      /\ i \in Nat /\ j \in Nat /\ k \in Nat /\ l \in Nat /\ i <= N /\ tail = i
      /\ head = j /\ pc = "refill" /\ l <= Size
      /\ SizeOf(tail, head) = tail - head
  BY <1>1, ProgramCounts DEF Refill
<1>3. held' = held /\ behind' = behind /\ prog' = prog
  BY DEF readerVars
<1>4. k \in 1 .. Size /\ l <= k
  BY <1>1, <1>2 DEF LoopsOrdered
<1>5. CASE l < k /\ i < N /\ ~EndIsNull(tail, head)
  <2>1. ~(tail - head >= Size)
    BY <1>2, <1>5 DEF EndIsNull
  <2>2. /\ tail - head < Size /\ (tail + 1) - head <= Size
        /\ i + 1 \in 0 .. N /\ l + 1 \in 0 .. Size /\ l + 1 <= k
    BY <1>2, <1>4, <1>5, <2>1, BoundsTyped
  <2>3. Push /\ i' = i + 1 /\ l' = l + 1 /\ pc' = pc /\ j' = j /\ k' = k
    BY <1>5 DEF Refill
  <2>4. /\ ApiInv' /\ ElementsInOrder'
        /\ head' = head /\ tail' = tail + 1 /\ clobber' <= tail + 1
    BY <1>1, <1>5, <2>2, <2>3, ProgramPush
  <2>5. ProgramTyped'
    BY <1>3, <2>2, <2>3 DEF ProgramTyped
  <2>6. Alone'
    BY <1>2, <1>3, <2>2, <2>3, <2>4 DEF Alone
  <2>7. LoopsOrdered'
    BY <1>2, <1>3, <1>4, <2>2, <2>3 DEF LoopsOrdered
  <2> QED
    BY <2>4, <2>5, <2>6, <2>7
<1>6. CASE ~(l < k /\ i < N /\ ~EndIsNull(tail, head))
  <2>1. pc' = "loop" /\ UNCHANGED queueVars /\ i' = i /\ j' = j /\ k' = k /\ l' = l
    BY <1>6 DEF Refill, loopVars
  <2>2. /\ ApiInv' /\ ElementsInOrder'
        /\ head' = head /\ tail' = tail /\ clobber' = clobber
    BY <2>1, ProgramLooks
  <2>3. ProgramTyped'
    BY <1>3, <2>1 DEF ProgramTyped
  <2>4. Alone'
    BY <1>1, <1>2, <1>3, <2>1, <2>2 DEF Alone
  <2>5. LoopsOrdered'
    BY <1>3, <2>1 DEF LoopsOrdered
  <2> QED
    BY <2>2, <2>3, <2>4, <2>5
<1> QED
  BY <1>5, <1>6

-----------------------------------------------------------------------------
(* The start.                                                              *)
LEMMA ProgramInvInit == ProgramInit => ProgramInv
<1> SUFFICES ASSUME ProgramInit PROVE ProgramInv
  OBVIOUS
<1>1. /\ tail = 0 /\ head = 0 /\ data = [s \in 0 .. Size-1 |-> 0]
      /\ elems = <<>> /\ clobber = 0 /\ fresh = 0 /\ held = <<>> /\ behind = 0
      /\ seen = 0 /\ prog \in Programs \cup {"any"} /\ pc = "fill"
      /\ i = 0 /\ j = 0 /\ k = 0 /\ l = 0
  BY DEF ProgramInit, ApiInit, Construct
<1>2. <<>> \in Seq(Int) /\ Len(<<>>) = 0
  BY EmptySeq
<1>3. /\ 0 \in 0 .. MaxBehind /\ 0 \in 0 .. Largest /\ 0 \in 0 .. MaxPush
      /\ 0 \in 0 .. MaxBehind - Size /\ 0 \in 0 .. N /\ 0 \in 0 .. Size
      /\ 0 <= Offset /\ 0 - 0 <= Size
  BY BoundsTyped
<1>4. QueueTyped
  <2>1. data \in [0 .. Size-1 -> 0 .. Largest]
    BY <1>1, <1>3
  <2>2. Len(elems) = tail - head /\ elems \in Seq(Int)
    BY <1>1, <1>2
  <2>3. tail \in head .. head + MaxBehind
    <3>1. 0 \in 0 .. 0 + MaxBehind
      BY BoundsTyped
    <3> QED
      BY <1>1, <3>1
  <2> QED
    BY <1>1, <2>1, <2>2, <2>3 DEF QueueTyped
<1>5. CallerTyped
  BY <1>1, <1>2, <1>3 DEF CallerTyped
<1>6. SparedKept
  BY <1>1, <1>2 DEF SparedKept
<1>7. HeldOldest /\ BehindMeasured
  BY <1>1 DEF HeldOldest, BehindMeasured
<1>8. ProgramTyped
  BY <1>1, <1>3 DEF ProgramTyped
<1>9. Alone /\ LoopsOrdered
  BY <1>1, <1>3 DEF Alone, LoopsOrdered
<1>10. ElementsInOrder
  BY <1>1, <1>2, <1>6 DEF ElementsInOrder
<1>11. FreshAhead /\ CallerKept
  BY <1>1, <1>6 DEF FreshAhead, CallerKept
<1> QED
  BY <1>4, <1>5, <1>7, <1>8, <1>9, <1>10, <1>11 DEF ProgramInv, ApiInv, LoopInv

(* Every step of a program.                                                *)
LEMMA RunKeeps ==
  ASSUME ProgramInv, Run
  PROVE  ProgramInv'
<1>1. ApiInv /\ LoopInv /\ ElementsInOrder
  BY DEF ProgramInv
<1>2. UNCHANGED <<fresh, readerVars, prog>>
  BY DEF Run
<1>3. ASSUME prog \in {"test1", "test1Atomic", "test1Mapped", "test2"}
      PROVE  ApiInv' /\ LoopInv' /\ ElementsInOrder'
  <2>1. prog \in Programs
    BY <1>3 DEF Programs
  <2>2. \/ Fill \/ Loop \/ Turn \/ TurnPush
        \/ prog \in {"test1", "test1Atomic"} /\ LookAt
        \/ prog = "test1Mapped" /\ Reopen
    BY <1>3 DEF Run, Test1, Test1Atomic, Test1Mapped, Test2, Test3, Test4, Test1Steps
  <2> QED
    BY <1>1, <1>2, <1>3, <2>1, <2>2, FillStep, LoopStep, TurnStep, TurnPushStep,
       LookAtStep, ReopenStep
<1>4. ASSUME prog \in {"test3", "test4"}
      PROVE  ApiInv' /\ LoopInv' /\ ElementsInOrder'
  <2>1. prog \in Programs
    BY <1>4 DEF Programs
  <2>2. Fill \/ DrawLoop \/ Drain \/ Refill
    BY <1>4 DEF Run, Test1, Test1Atomic, Test1Mapped, Test2, Test3, Test4
  <2> QED
    BY <1>1, <1>2, <1>4, <2>1, <2>2, FillStep, DrawLoopStep, DrainStep, RefillStep
<1>5. prog \in Programs
  BY DEF Run, Test1, Test1Atomic, Test1Mapped, Test2, Test3, Test4, Programs
<1>6. ApiInv' /\ LoopInv' /\ ElementsInOrder'
  BY <1>3, <1>4, <1>5 DEF Programs
<1>7. FreshAhead' /\ CallerKept'
  BY <1>2, <1>5 DEF FreshAhead, CallerKept, Programs
<1> QED
  BY <1>6, <1>7 DEF ProgramInv

(* Every step of a program, and every call of any caller, keeps the        *)
(* invariant.                                                              *)
LEMMA ProgramInvStep ==
  ASSUME ProgramInv, [ProgramNext]_programVars
  PROVE  ProgramInv'
<1>1. CASE Run
  BY <1>1, RunKeeps
<1>2. CASE CallAny
  <2>1. /\ prog = "any" /\ Call /\ prog' = prog /\ pc' = pc
        /\ i' = i /\ j' = j /\ k' = k /\ l' = l
    BY <1>2 DEF CallAny, loopVars
  <2>2. /\ ApiInv' /\ tail' <= fresh'
        /\ SlotsInStep /\ SparedKept => SparedKept'
    BY <2>1, CallKeeps DEF ProgramInv, FreshAhead
  <2>3. ProgramTyped'
    BY <2>1 DEF ProgramInv, LoopInv, ProgramTyped
  <2>4. Alone' /\ LoopsOrdered' /\ ElementsInOrder'
    BY <2>1 DEF Alone, LoopsOrdered, ElementsInOrder
  <2>5. FreshAhead'
    BY <2>2 DEF FreshAhead
  <2>6. CallerKept'
    BY <2>1, <2>2 DEF ProgramInv, CallerKept, SlotsInStep
  <2> QED
    BY <2>2, <2>3, <2>4, <2>5, <2>6 DEF ProgramInv, LoopInv
<1>3. CASE UNCHANGED programVars
  <2>1. /\ UNCHANGED <<queueVars, fresh, readerVars, prog>>
        /\ pc' = pc /\ i' = i /\ j' = j /\ k' = k /\ l' = l
        /\ tail' = tail /\ head' = head /\ clobber' = clobber
        /\ held' = held /\ behind' = behind /\ fresh' = fresh /\ prog' = prog
    BY <1>3 DEF programVars, apiVars, loopVars, queueVars, readerVars
  <2>2. ApiInv' /\ ElementsInOrder'
    BY <2>1, ProgramLooks DEF ProgramInv
  <2>3. ProgramTyped'
    BY <2>1 DEF ProgramInv, LoopInv, ProgramTyped
  <2>4. Alone'
    BY <2>1 DEF ProgramInv, LoopInv, Alone
  <2>5. LoopsOrdered'
    BY <2>1 DEF ProgramInv, LoopInv, LoopsOrdered
  <2>6. FreshAhead'
    BY <2>1 DEF ProgramInv, FreshAhead
  <2>7. SparedKept => SparedKept'
    BY <2>1 DEF SparedKept, Spared, queueVars
  <2>8. CallerKept'
    BY <2>1, <2>7 DEF ProgramInv, CallerKept, SlotsInStep
  <2> QED
    BY <2>2, <2>3, <2>4, <2>5, <2>6, <2>8 DEF ProgramInv, LoopInv
<1> QED
  BY <1>1, <1>2, <1>3 DEF ProgramNext

(* The inductive invariant of the queue's functions and of the programs,   *)
(* for every _size, every width of Int, every number of calls and of       *)
(* elements, and both classes.                                             *)
THEOREM ProgramInvariance == ProgramSpec => []ProgramInv
<1>1. ProgramInit => ProgramInv
  BY ProgramInvInit
<1>2. ProgramInv /\ [ProgramNext]_programVars => ProgramInv'
  BY ProgramInvStep
<1> QED
  BY <1>1, <1>2, PTL DEF ProgramSpec

-----------------------------------------------------------------------------
(* What the invariant says of the slots, of either kind of caller.         *)
LEMMA InvSpares == SlotsInStep /\ ProgramInv => SparedKept
BY DEF ProgramInv, CallerKept, ElementsInOrder

(* The state of the queue and of its programs is well typed: the reader is *)
(* never further behind than the writer was told, no counter of a program  *)
(* passes N or _size, and no element is negative or larger than the        *)
(* generator's range and the counters allow.                               *)
THEOREM ProgramTypeCorrect == ProgramSpec => []ProgramTypeOK
<1>1. ProgramInv => ProgramTypeOK
  <2> SUFFICES ASSUME ProgramInv PROVE ProgramTypeOK
    OBVIOUS
  <2>1. head \in Nat /\ tail \in head .. head + MaxBehind
    BY DEF ProgramInv, ApiInv, QueueTyped
  <2>2. \A s \in 0 .. Size-1 : data[s] \in 0 .. (MaxPush + N + DefaultC)
    BY DEF ProgramInv, ApiInv, QueueTyped, Largest
  <2>3. fresh \in 0 .. MaxPush /\ behind \in 0 .. MaxBehind - Size
    BY DEF ProgramInv, ApiInv, CallerTyped
  <2>4. /\ i \in 0 .. N /\ j \in 0 .. N
        /\ k \in (0 .. N) \cup (1 .. Size) /\ l \in 0 .. Size
    BY DEF ProgramInv, LoopInv, ProgramTyped
  <2>5. pc \in {"fill", "reopen", "loop", "at", "turn", "push", "drain", "refill",
                "passed", "failed"}
    BY DEF ProgramInv, LoopInv, ProgramTyped, Programs
  <2> QED
    BY <2>1, <2>2, <2>3, <2>4, <2>5 DEF ProgramTypeOK
<1> QED
  BY <1>1, ProgramInvariance, PTL

(* No check of a test program has failed.                                  *)
ProgramsHold == pc # "failed"

(* No program ever fails: what it finds at begin() and at at() is what it  *)
(* pushed, and end() has a slot where it needs one, whatever rand() draws. *)
THEOREM ProgramsNeverFail == ProgramSpec => []ProgramsHold
<1>1. ProgramInv => ProgramsHold
  BY DEF ProgramInv, LoopInv, ProgramTyped, Programs, ProgramsHold
<1> QED
  BY <1>1, ProgramInvariance, PTL

(* The queue holds what its callers pushed and did not pop, in order, but  *)
(* for what a clobbering push wrote over.                                  *)
THEOREM QueueIntact == ASSUME SlotsInStep PROVE ProgramSpec => []Intact
<1>1. ProgramInv => Intact
  BY InvSpares, ApiInvIntact DEF ProgramInv
<1> QED
  BY <1>1, ProgramInvariance, PTL

(* at() finds the elements of the queue by their words, and refuses any    *)
(* other word, and every word while only the tail has wrapped.             *)
THEOREM AtIsExact == ASSUME SlotsInStep PROVE ProgramSpec => []AtExact
<1>1. ProgramInv => AtExact
  BY InvSpares, ApiInvAtExact DEF ProgramInv
<1> QED
  BY <1>1, ProgramInvariance, PTL

-----------------------------------------------------------------------------
(* Only a reader that catches up is behind before a step and not after it. *)
LEMMA OnlyCatchUp ==
  ASSUME ProgramInv, [ProgramNext]_programVars, behind > 0, behind' = 0
  PROVE  CallPopNFront
<1>1. behind # 0
  BY BoundsTyped DEF ProgramInv, ApiInv, CallerTyped
<1>2. ~Run
  BY <1>1 DEF Run, readerVars
<1>3. ~UNCHANGED programVars
  BY <1>1 DEF programVars, apiVars, readerVars
<1>4. Call
  BY <1>2, <1>3 DEF ProgramNext, CallAny
<1> QED
  BY <1>1, <1>4 DEF Call, CallPush, CallPushClobber, CallPopBack, CallBegin,
                    CallPopFront, CallSize, readerVars

(* And it finds a full queue, of which nothing has been written over.      *)
LEMMA CatchUpFull ==
  ASSUME ApiInv, SparedKept, CallPopNFront, tail = seen, clobber <= tail
  PROVE  /\ tail' - head' = Size
         /\ data'[Slot(head')] = elems'[1]
         /\ \A n \in 1 .. Size : data'[Slot(head' + n - 1)] = elems[behind + n]
<1> USE DEF ApiInv
<1>1. /\ head \in Nat /\ tail \in Nat /\ head <= tail
      /\ Len(elems) = tail - head /\ clobber \in Nat
      /\ Size \in Nat \ {0} /\ behind \in Nat /\ behind > 0
      /\ tail - head = behind + Size
  BY BoundsTyped DEF QueueTyped, CallerTyped, BehindMeasured, CallPopNFront
<1>2. /\ head' = head + behind /\ elems' = SubSeq(elems, behind + 1, Len(elems))
      /\ tail' = tail /\ data' = data /\ clobber' = clobber
  BY DEF CallPopNFront, PopNFront
<1>3. behind <= Len(elems)
  BY <1>1
<1>4. /\ QueueTyped' /\ SparedKept'
      /\ \A n \in 1 .. Len(elems') : elems'[n] = elems[behind + n]
  BY <1>1, <1>2, <1>3, FrontKeeps
<1>5. Len(elems') = Size
  BY <1>1, <1>2, <1>4 DEF QueueTyped
<1>6. ASSUME NEW n \in 1 .. Size
      PROVE  data'[Slot(head' + n - 1)] = elems'[n] /\ elems'[n] = elems[behind + n]
  <2>1. clobber - Size <= (head + behind) + n - 1
    BY <1>1
  <2>2. Spared(n)'
    BY <1>2, <2>1 DEF Spared
  <2> QED
    BY <1>4, <1>5, <2>2 DEF SparedKept
<1>7. 1 \in 1 .. Size /\ head' + 1 - 1 = head' /\ tail' - head' = Size
  BY <1>1, <1>2
<1> QED
  BY <1>6, <1>7

(* A reader that skips as many elements as size() is too large finds a     *)
(* full queue of elements that are all there.                              *)
THEOREM CatchingUp == ASSUME SlotsInStep PROVE ProgramSpec => CatchUpFinds
<1>1. ProgramInv /\ [ProgramNext]_programVars => [CatchUpStep]_apiVars
  <2> SUFFICES ASSUME ProgramInv, [ProgramNext]_programVars,
                      behind > 0, behind' = 0, tail = seen, clobber <= tail
               PROVE  /\ tail' - head' = Size
                      /\ data'[Slot(head')] = elems'[1]
                      /\ \A n \in 1 .. Size :
                           data'[Slot(head' + n - 1)] = elems[behind + n]
    BY DEF CatchUpStep
  <2>1. CallPopNFront
    BY OnlyCatchUp
  <2>2. ApiInv /\ SparedKept
    BY InvSpares DEF ProgramInv
  <2> QED
    BY <2>1, <2>2, CatchUpFull
<1>2. ProgramSpec => [][CatchUpStep]_apiVars
  BY <1>1, ProgramInvariance, PTL DEF ProgramSpec
<1> QED
  BY <1>2 DEF CatchUpFinds

=============================================================================
