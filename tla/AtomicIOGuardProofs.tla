------------------------- MODULE AtomicIOGuardProofs -------------------------
(***************************************************************************)
(* Proofs about AtomicIOGuard for every number of readers, words, writes   *)
(* and crashes and every width of the guards: unless a guard wrapped, a    *)
(* call of copy_to_rhs_reverse_order returns the record of one write, and  *)
(* it does so as if it had read the record at one instant.                 *)
(***************************************************************************)
EXTENDS AtomicIOGuard, ModLemmas

Pairs  == [front : Count, back : Count]
Places == Word \cup {0}
Stores == [loc : Places, val : Pairs]

Typed ==
  /\ guard \in Pairs
  /\ data \in Buffer
  /\ pend \subseteq Stores
  /\ local \in Pairs
  /\ wpc \in {"idle", "copy", "seal", "crashed"}
  /\ wi \in 1 .. NumWords + 1
  /\ rop \in [Readers -> {"init", "copy"}]
  /\ rpc \in [Readers -> {"idle", "load", "copy", "verify", "done"}]
  /\ rback \in [Readers -> Count]
  /\ ri \in [Readers -> 1 .. NumWords + 1]
  /\ buf \in [Readers -> Buffer]
  /\ vfront \in [Readers -> Count]
  /\ seen \in [Readers -> Buffer]

(* The record in memory: no word is from before the write of the back half *)
(* of its guard, or from after that of the front half.                     *)
Sandwich == \A w \in Word : guard.back <= data[w] /\ data[w] <= guard.front

(* A pending store is no older than what it will replace, and no newer     *)
(* than the writer's guard.                                                *)
PendNewer ==
  /\ guard.front <= local.front /\ guard.back <= local.back
  /\ local.back <= local.front
  /\ \A s \in pend :
       /\ s.val.back <= s.val.front /\ s.val.front <= local.front
       /\ s.loc \in Word => data[s.loc] <= s.val.front
       /\ s.loc = 0 => /\ guard.front <= s.val.front
                       /\ guard.back <= s.val.back
                       /\ s.val.back <= local.back

(* Of two guards, that stored later has the later back half.               *)
GuardsInOrder ==
  \A s, t \in pend :
    s.loc = 0 /\ t.loc = 0 /\ s.val.front <= t.val.front
    /\ Epoch(s) <= Epoch(t) => s.val.back <= t.val.back

(* The dirty guard of write v has been issued.                             *)
FrontIssued(v) ==
  \/ v <= guard.front
  \/ \E t \in pend : t.loc = 0 /\ t.val.front = v /\ t.val.back < v

(* Word w of write v has been issued, or a later one is in memory.         *)
WordIssued(w, v) == v <= data[w] \/ Store(w, v, v) \in pend

(* The fences: a word becomes visible after the dirty guard of its write,  *)
(* a guard after the words of the write its back half names.               *)
FrontBeforeWords == \A s \in pend : s.loc \in Word => FrontIssued(s.val.front)

WordsBeforeBack ==
  \A s \in pend : s.loc = 0 => \A w \in Word : WordIssued(w, s.val.back)

(* The words of the last complete write have been issued, and those of     *)
(* the write in progress before wi, all of them after its dirty guard.     *)
Progress ==
  /\ \A w \in Word : WordIssued(w, local.back)
  /\ wpc = "copy" => wi <= NumWords
  /\ wpc = "seal" => wi = NumWords + 1
  /\ wpc \in {"copy", "seal"} =>
       /\ local.back < local.front
       /\ FrontIssued(local.front)
       /\ \A w \in Word : w < wi => WordIssued(w, local.front)

WriterInv ==
  /\ Sandwich
  /\ PendNewer
  /\ GuardsInOrder
  /\ FrontBeforeWords
  /\ WordsBeforeBack
  /\ Progress

(* What reader r holds is no older than the back guard it started from,    *)
(* and no newer than memory.                                               *)
ReaderInv(r) ==
  /\ rpc[r] = "copy" => ri[r] <= NumWords
  /\ rpc[r] = "verify" => ri[r] = NumWords + 1
  /\ rpc[r] \in {"copy", "verify"} /\ rop[r] = "copy" =>
       /\ rback[r] <= guard.back
       /\ \A w \in Word : w < ri[r] => rback[r] <= buf[r][w] /\ buf[r][w] <= data[w]

IInv ==
  /\ Typed
  /\ WriterInv
  /\ \A r \in Readers : ReaderInv(r)
  /\ CopyTornOnlyIfWrapped

-----------------------------------------------------------------------------
LEMMA Domains ==
  /\ 0 \notin Word /\ Word \subseteq Nat /\ Places \subseteq Nat
  /\ 0 \in Count /\ Count \subseteq Nat /\ 0 \in Places /\ Word \subseteq Places
  /\ NumWords \in Nat /\ NumWords >= 1
BY GuardConstants DEF Word, Places, Count

(* The fields of a store.                                                  *)
LEMMA StoreFields ==
  ASSUME NEW l, NEW f, NEW b
  PROVE  /\ Store(l, f, b).loc = l
         /\ Store(l, f, b).val.front = f /\ Store(l, f, b).val.back = b
         /\ (l \in Places /\ f \in Count /\ b \in Count => Store(l, f, b) \in Stores)
BY DEF Store, Pair, Stores, Pairs

LEMMA PendFields ==
  ASSUME Typed, NEW s \in pend
  PROVE  /\ s \in Stores /\ s.loc \in Places /\ (s.loc = 0 \/ s.loc \in Word)
         /\ s.val \in Pairs
         /\ s.val.front \in Count /\ s.val.back \in Count
         /\ s.val.front \in Nat /\ s.val.back \in Nat
BY Domains DEF Typed, Stores, Pairs, Places

LEMMA Fields ==
  ASSUME Typed
  PROVE  /\ guard.front \in Count /\ guard.back \in Count
         /\ local.front \in Count /\ local.back \in Count
         /\ guard.front \in Nat /\ guard.back \in Nat
         /\ local.front \in Nat /\ local.back \in Nat
         /\ \A w \in Word : data[w] \in Count /\ data[w] \in Nat
         /\ wi \in Nat
<1>1. /\ guard.front \in Count /\ guard.back \in Count
      /\ local.front \in Count /\ local.back \in Count
  BY DEF Typed, Pairs
<1>2. \A w \in Word : data[w] \in Count
  BY DEF Typed, Buffer
<1>3. wi \in Nat
  BY GuardConstants DEF Typed
<1> QED
  BY <1>1, <1>2, <1>3, Domains

LEMMA TypedInit ==
  ASSUME Init
  PROVE  Typed
<1>1. 1 \in 1 .. NumWords + 1
  BY GuardConstants
<1>2. Fresh \in Pairs
  BY Domains DEF Fresh, Pair, Pairs
<1> QED
  BY <1>1, <1>2, Domains DEF Init, Typed, Buffer

(* Issuing a store leaves what was issued issued.                          *)
LEMMA IssuedStays ==
  ASSUME NEW s, pend' = pend \cup {s}, UNCHANGED <<guard, data>>
  PROVE  /\ \A v : FrontIssued(v) => FrontIssued(v)'
         /\ \A w, v : WordIssued(w, v) => WordIssued(w, v)'
BY DEF FrontIssued, WordIssued

(* Nothing a reader holds changes with a step of the writer that leaves    *)
(* memory alone.                                                           *)
LEMMA ReadersKept ==
  ASSUME \A r \in Readers : ReaderInv(r), CopyTornOnlyIfWrapped,
         UNCHANGED <<guard, data>>, UNCHANGED readerVars
  PROVE  (\A r \in Readers : ReaderInv(r))' /\ CopyTornOnlyIfWrapped'
BY DEF ReaderInv, CopyTornOnlyIfWrapped, Wrapped, readerVars

LEMMA InitInv ==
  ASSUME Init
  PROVE  IInv
<1>1. Typed
  BY TypedInit
<1>2. /\ guard.front = 0 /\ guard.back = 0 /\ local.front = 0 /\ local.back = 0
      /\ pend = {} /\ wpc = "idle" /\ \A w \in Word : data[w] = 0
  BY DEF Init, Fresh, Pair
<1>3. WriterInv
  BY <1>2
  DEF WriterInv, Sandwich, PendNewer, GuardsInOrder, FrontBeforeWords,
      WordsBeforeBack, Progress, WordIssued
<1>4. (\A r \in Readers : ReaderInv(r)) /\ CopyTornOnlyIfWrapped
  BY DEF Init, ReaderInv, CopyTornOnlyIfWrapped
<1> QED
  BY <1>1, <1>3, <1>4 DEF IInv

-----------------------------------------------------------------------------
(* The writer begins a write with a dirty guard.                           *)
LEMMA BeginStep ==
  ASSUME Typed, WriterInv, WBegin
  PROVE  Typed' /\ WriterInv'
<1>v. PICK v \in Count : v = local.front + 1 /\ local.front < v /\ v \in Nat
  BY Fields, GuardConstants DEF WBegin, Count
<1>b. PICK b \in Count : b = local.back
  BY Fields
<1> DEFINE n == Store(0, v, b)
<1>1. /\ wpc = "idle" /\ pend' = pend \cup {n} /\ wi' = 1 /\ wpc' = "copy"
      /\ UNCHANGED <<guard, data>> /\ UNCHANGED readerVars
      /\ local' = [local EXCEPT !.front = v]
  BY <1>v, <1>b DEF WBegin
<1>2. /\ v \in Count /\ b \in Count /\ v \in Nat /\ b \in Nat /\ b < v
      /\ local.front < v
  BY <1>v, <1>b, Fields, GuardConstants DEF Count, WriterInv, PendNewer
<1>3. local' \in Pairs /\ local'.front = v /\ local'.back = b
  BY <1>1, <1>2, <1>b DEF Typed, Pairs
<1>4. /\ n \in Stores /\ n.loc = 0 /\ n.val.front = v /\ n.val.back = b
      /\ n.loc \notin Word
  BY <1>2, StoreFields, Domains
<1> HIDE DEF n
<1>5. Typed'
  <2>1. 1 \in 1 .. NumWords + 1
    BY GuardConstants
  <2> QED
    BY <1>1, <1>3, <1>4, <2>1 DEF Typed, readerVars
<1>6. Sandwich'
  BY <1>1 DEF WriterInv, Sandwich
<1>7. PendNewer'
  <2>1. ASSUME NEW s \in pend, s.loc = 0 PROVE s.val.back <= b
    BY <1>b, <2>1 DEF WriterInv, PendNewer
  <2>2. /\ guard.front <= v /\ guard.back <= b
        /\ \A s \in pend : s.val.front <= v
    BY <1>b, <1>2, Fields, PendFields DEF WriterInv, PendNewer
  <2>3. /\ guard.front \in Nat /\ guard.back \in Nat
    BY Fields
  <2> QED
    BY <1>1, <1>2, <1>3, <1>4, <2>1, <2>2, <2>3 DEF WriterInv, PendNewer
<1>8. GuardsInOrder'
  <2>1. \A s \in pend : /\ s.val.front < v
                        /\ s.loc = 0 => s.val.back <= b
    BY <1>b, <1>2, Fields, PendFields DEF WriterInv, PendNewer
  <2>2. \A s \in pend : ~(v <= s.val.front)
    BY <1>2, <2>1, PendFields
  <2> QED
    BY <1>1, <1>2, <1>4, <2>1, <2>2 DEF WriterInv, GuardsInOrder, Epoch
<1>9. FrontBeforeWords'
  BY <1>1, <1>4, IssuedStays DEF WriterInv, FrontBeforeWords
<1>10. WordsBeforeBack'
  <2>1. \A w \in Word : WordIssued(w, b)
    BY <1>b DEF WriterInv, Progress
  <2> QED
    BY <1>1, <1>4, <2>1, IssuedStays DEF WriterInv, WordsBeforeBack
<1>11. Progress'
  <2>1. \A w \in Word : WordIssued(w, b)'
    BY <1>b, <1>1, IssuedStays DEF WriterInv, Progress
  <2>2. FrontIssued(v)'
    BY <1>1, <1>2, <1>4 DEF FrontIssued
  <2>3. \A w \in Word : ~(w < 1)
    BY DEF Word
  <2> QED
    BY <1>1, <1>2, <1>3, <2>1, <2>2, <2>3, Domains DEF Progress
<1> QED
  BY <1>5, <1>6, <1>7, <1>8, <1>9, <1>10, <1>11 DEF WriterInv

(* It stores one word.                                                     *)
LEMMA CopyStep ==
  ASSUME Typed, WriterInv, WCopy
  PROVE  Typed' /\ WriterInv'
<1>v. PICK v \in Count : v = local.front
  BY Fields
<1>k. PICK k \in 1 .. NumWords + 1 : k = wi
  BY DEF Typed
<1> DEFINE n == Store(k, v, v)
<1>1. /\ wpc = "copy" /\ pend' = pend \cup {n} /\ wi' = k + 1
      /\ wpc' = IF k = NumWords THEN "seal" ELSE "copy"
      /\ UNCHANGED <<guard, data, local>> /\ UNCHANGED readerVars
  BY <1>v, <1>k DEF WCopy
<1>2. /\ k \in Word /\ k \in Nat /\ v \in Count /\ v \in Nat
      /\ FrontIssued(v) /\ k # 0
  BY <1>v, <1>k, <1>1, Fields DEF WriterInv, Progress, Word
<1>3. /\ n \in Stores /\ n.loc = k /\ n.val.front = v /\ n.val.back = v
  BY <1>2, StoreFields, Domains
<1> HIDE DEF n
<1>4. Typed'
  <2>1. k + 1 \in 1 .. NumWords + 1
    BY <1>2, Domains DEF Word
  <2> QED
    BY <1>1, <1>3, <2>1 DEF Typed, readerVars
<1>5. Sandwich'
  BY <1>1 DEF WriterInv, Sandwich
<1>6. PendNewer'
  <2>1. data[k] <= v
    BY <1>v, <1>2, Fields DEF WriterInv, Sandwich, PendNewer
  <2> QED
    BY <1>v, <1>1, <1>2, <1>3, <2>1, Fields DEF WriterInv, PendNewer
<1>7. GuardsInOrder'
  BY <1>1, <1>2, <1>3 DEF WriterInv, GuardsInOrder, Epoch
<1>8. FrontBeforeWords'
  BY <1>1, <1>2, <1>3, IssuedStays DEF WriterInv, FrontBeforeWords
<1>9. WordsBeforeBack'
  BY <1>1, <1>2, <1>3, IssuedStays DEF WriterInv, WordsBeforeBack
<1>10. Progress'
  <2>1. /\ (\A w \in Word : WordIssued(w, local.back))'
        /\ FrontIssued(v)'
        /\ \A w \in Word : w < k => WordIssued(w, v)'
    BY <1>v, <1>k, <1>1, <1>2, IssuedStays DEF WriterInv, Progress
  <2>2. WordIssued(k, v)'
    BY <1>1 DEF WordIssued, n
  <2>3. \A w \in Word : w < k + 1 => w < k \/ w = k
    BY <1>2 DEF Word
  <2>4. k + 1 = NumWords + 1 \/ k + 1 <= NumWords
    BY <1>2, Domains DEF Word
  <2> QED
    BY <1>v, <1>k, <1>1, <1>2, <2>1, <2>2, <2>3, <2>4, Domains
    DEF WriterInv, Progress, Word
<1> QED
  BY <1>4, <1>5, <1>6, <1>7, <1>8, <1>9, <1>10 DEF WriterInv

(* It ends the write with a clean guard.                                   *)
LEMMA SealStep ==
  ASSUME Typed, WriterInv, WSeal
  PROVE  Typed' /\ WriterInv'
<1>v. PICK v \in Count : v = local.front
  BY Fields
<1> DEFINE n == Store(0, v, v)
<1>1. /\ wpc = "seal" /\ pend' = pend \cup {n} /\ wpc' = "idle"
      /\ UNCHANGED <<guard, data, wi>> /\ UNCHANGED readerVars
      /\ local' = [local EXCEPT !.back = v]
  BY <1>v DEF WSeal
<1>2. /\ v \in Count /\ v \in Nat /\ local.back < v
  BY <1>v, <1>1, Fields DEF WriterInv, Progress
<1>3. local' \in Pairs /\ local'.front = v /\ local'.back = v
  BY <1>v, <1>1, <1>2 DEF Typed, Pairs
<1>4. /\ n \in Stores /\ n.loc = 0 /\ n.val.front = v /\ n.val.back = v
      /\ n.loc \notin Word
  BY <1>2, StoreFields, Domains
<1> HIDE DEF n
<1>5. Typed'
  BY <1>1, <1>3, <1>4 DEF Typed, readerVars
<1>6. \A w \in Word : WordIssued(w, v)
  <2>1. \A w \in Word : w < NumWords + 1
    BY Domains DEF Word
  <2> QED
    BY <1>v, <1>1, <2>1 DEF WriterInv, Progress
<1>7. Sandwich'
  BY <1>1 DEF WriterInv, Sandwich
<1>8. /\ \A s \in pend : /\ s.val.back <= s.val.front /\ s.val.front <= v
                         /\ s.val.back <= v
      /\ guard.front <= v /\ guard.back <= v
  BY <1>v, <1>2, Fields, PendFields DEF WriterInv, PendNewer
<1>9. PendNewer'
  BY <1>1, <1>2, <1>3, <1>4, <1>8 DEF WriterInv, PendNewer
<1>10. GuardsInOrder'
  <2>1. ASSUME NEW s \in pend, s.loc = 0, v <= s.val.front, 2 * v <= Epoch(s)
        PROVE  v <= s.val.back
    BY <1>2, <1>8, <2>1, PendFields DEF Epoch
  <2>2. Epoch(n) = 2 * v
    BY <1>2, <1>4 DEF Epoch
  <2> QED
    BY <1>1, <1>2, <1>4, <1>8, <2>1, <2>2 DEF WriterInv, GuardsInOrder, Epoch
<1>11. FrontBeforeWords'
  BY <1>1, <1>4, IssuedStays DEF WriterInv, FrontBeforeWords
<1>12. WordsBeforeBack'
  BY <1>1, <1>4, <1>6, IssuedStays DEF WriterInv, WordsBeforeBack
<1>13. Progress'
  BY <1>1, <1>3, <1>6, IssuedStays DEF Progress
<1> QED
  BY <1>5, <1>7, <1>9, <1>10, <1>11, <1>12, <1>13 DEF WriterInv

(* It dies, and a new one loads the guard it finds.                        *)
LEMMA CrashStep ==
  ASSUME Typed, WriterInv, WCrash \/ WRestart
  PROVE  Typed' /\ WriterInv'
<1>1. CASE WCrash
  <2>1. wpc' = "crashed" /\ UNCHANGED <<guard, data, pend, local, wi>>
        /\ UNCHANGED readerVars
    BY <1>1 DEF WCrash
  <2>2. Typed'
    BY <2>1 DEF Typed, readerVars
  <2>3. Sandwich' /\ PendNewer' /\ GuardsInOrder'
    BY <2>1 DEF WriterInv, Sandwich, PendNewer, GuardsInOrder, Epoch
  <2>4. FrontBeforeWords' /\ WordsBeforeBack' /\ Progress'
    BY <2>1
    DEF WriterInv, FrontBeforeWords, WordsBeforeBack, Progress, FrontIssued,
        WordIssued
  <2> QED
    BY <2>2, <2>3, <2>4 DEF WriterInv
<1>2. CASE WRestart
  <2>1. /\ pend = {} /\ pend' = {} /\ local' = guard /\ wpc' = "idle"
        /\ UNCHANGED <<guard, data, wi>> /\ UNCHANGED readerVars
    BY <1>2 DEF WRestart
  <2>2. Typed'
    BY <2>1 DEF Typed, readerVars
  <2>3. guard.back <= guard.front
    BY Fields, Domains DEF WriterInv, Sandwich, Word
  <2>4. Sandwich' /\ PendNewer' /\ GuardsInOrder'
    BY <2>1, <2>3, Fields DEF WriterInv, Sandwich, PendNewer, GuardsInOrder
  <2>5. FrontBeforeWords' /\ WordsBeforeBack'
    BY <2>1 DEF FrontBeforeWords, WordsBeforeBack
  <2>6. Progress'
    BY <2>1 DEF WriterInv, Sandwich, Progress, WordIssued
  <2> QED
    BY <2>2, <2>4, <2>5, <2>6 DEF WriterInv
<1> QED
  BY <1>1, <1>2

-----------------------------------------------------------------------------
(* A store reaches memory: a guard after all that was issued before it, a  *)
(* word after the dirty guard of its write.                                *)
LEMMA PublishGuard ==
  ASSUME Typed, WriterInv, NEW s \in pend, Publish(s), s.loc = 0
  PROVE  /\ guard' = s.val /\ UNCHANGED data
         /\ guard.front <= s.val.front /\ guard.back <= s.val.back
         /\ \A w \in Word : s.val.back <= data[w] /\ data[w] <= s.val.front
<1>1. guard' = s.val /\ UNCHANGED data /\ Ordered(s)
  BY DEF Publish
<1>2. guard.front <= s.val.front /\ guard.back <= s.val.back
  BY DEF WriterInv, PendNewer
<1>3. ASSUME NEW w \in Word
      PROVE  s.val.back <= data[w] /\ data[w] <= s.val.front
  <2>1. data[w] <= s.val.front
    BY <1>2, Fields, PendFields DEF WriterInv, Sandwich
  <2>2. WordIssued(w, s.val.back)
    BY DEF WriterInv, WordsBeforeBack
  <2>3. Store(w, s.val.back, s.val.back) \notin pend
    <3>1. PICK b \in Count : b = s.val.back
      BY PendFields
    <3>2. SUFFICES ASSUME Store(w, b, b) \in pend PROVE FALSE
      BY <3>1
    <3>3. Epoch(Store(w, b, b)) = 2 * b - 1
      BY StoreFields, Domains DEF Epoch
    <3>4. /\ Epoch(s) <= 2 * b - 1 /\ b <= s.val.front
          /\ s.val.front \in Nat /\ b \in Nat
      BY <1>1, <3>1, <3>2, <3>3, PendFields DEF Ordered, WriterInv, PendNewer
    <3>5. Epoch(s) = IF s.val.front = b THEN 2 * s.val.front
                     ELSE 2 * s.val.front - 2
      BY <3>1, <3>4 DEF Epoch
    <3> QED
      BY <3>4, <3>5
  <2> QED
    BY <2>1, <2>2, <2>3 DEF WordIssued
<1> QED
  BY <1>1, <1>2, <1>3

LEMMA PublishWord ==
  ASSUME Typed, WriterInv, NEW s \in pend, Publish(s), s.loc # 0
  PROVE  /\ s.loc \in Word /\ UNCHANGED guard
         /\ data' = [data EXCEPT ![s.loc] = s.val.front]
         /\ data[s.loc] <= s.val.front /\ s.val.front <= guard.front
<1>1. /\ s.loc \in Word /\ UNCHANGED guard /\ Ordered(s)
      /\ data' = [data EXCEPT ![s.loc] = s.val.front]
  BY PendFields DEF Publish
<1>2. data[s.loc] <= s.val.front
  BY <1>1 DEF WriterInv, PendNewer
<1>3. FrontIssued(s.val.front)
  BY <1>1 DEF WriterInv, FrontBeforeWords
<1>4. ASSUME NEW t \in pend, t.loc = 0, t.val.front = s.val.front,
             t.val.back < s.val.front
      PROVE  FALSE
  <2>1. Epoch(s) <= Epoch(t)
    BY <1>1 DEF Ordered
  <2>2. /\ Epoch(s) = 2 * s.val.front - 1
        /\ Epoch(t) = 2 * s.val.front - 2
    BY <1>4, PendFields DEF Epoch
  <2> QED
    BY <2>1, <2>2, PendFields
<1> QED
  BY <1>1, <1>2, <1>3, <1>4 DEF FrontIssued

(* Memory only moves on.                                                   *)
LEMMA MemoryGrows ==
  ASSUME Typed, WriterInv, NEW s \in pend, Publish(s)
  PROVE  /\ Typed' /\ Sandwich'
         /\ guard.front <= guard'.front /\ guard.back <= guard'.back
         /\ \A w \in Word : data[w] <= data'[w]
         /\ pend' = pend \ {s} /\ Ordered(s)
         /\ UNCHANGED writerVars /\ UNCHANGED readerVars
<1>1. /\ pend' = pend \ {s} /\ Ordered(s)
      /\ UNCHANGED writerVars /\ UNCHANGED readerVars
  BY DEF Publish
<1>2. s.val \in Pairs /\ s.val.front \in Count
  BY PendFields
<1>3. CASE s.loc = 0
  <2>1. Typed'
    BY <1>1, <1>2, <1>3, PublishGuard DEF Typed, writerVars, readerVars
  <2> QED
    BY <1>1, <1>3, <2>1, PublishGuard, Fields DEF Sandwich
<1>4. CASE s.loc # 0
  <2>1. /\ s.loc \in Word /\ UNCHANGED guard
        /\ data' = [data EXCEPT ![s.loc] = s.val.front]
        /\ data[s.loc] <= s.val.front /\ s.val.front <= guard.front
    BY <1>4, PublishWord
  <2>2. Typed'
    BY <1>1, <1>2, <2>1 DEF Typed, Buffer, writerVars, readerVars
  <2>3. \A w \in Word : data'[w] = IF w = s.loc THEN s.val.front ELSE data[w]
    BY <2>1 DEF Typed, Buffer
  <2>4. \A w \in Word : data[w] <= data'[w]
    BY <2>1, <2>3, Fields
  <2>5. Sandwich'
    BY <1>2, <2>1, <2>3, Fields, PendFields DEF WriterInv, Sandwich
  <2> QED
    BY <1>1, <2>1, <2>2, <2>4, <2>5, Fields
<1> QED
  BY <1>3, <1>4

(* What was issued stays issued when a store reaches memory.               *)
LEMMA IssuedLasts ==
  ASSUME Typed, WriterInv, NEW s \in pend, Publish(s)
  PROVE  /\ \A v \in Nat : FrontIssued(v) => FrontIssued(v)'
         /\ \A w \in Word, v \in Nat : WordIssued(w, v) => WordIssued(w, v)'
<1>1. /\ guard.front <= guard'.front /\ pend' = pend \ {s}
      /\ \A w \in Word : data[w] <= data'[w]
      /\ guard.front \in Nat /\ guard'.front \in Nat
      /\ \A w \in Word : data[w] \in Nat /\ data'[w] \in Nat
  <2>1. Typed'
    BY MemoryGrows
  <2>2. guard'.front \in Nat /\ \A w \in Word : data'[w] \in Nat
    BY <2>1, Domains DEF Typed, Pairs, Buffer
  <2> QED
    BY <2>2, MemoryGrows, Fields
<1>2. ASSUME NEW v \in Nat, FrontIssued(v)
      PROVE  FrontIssued(v)'
  <2>1. CASE v <= guard.front
    BY <1>1, <2>1 DEF FrontIssued
  <2>2. CASE ~(v <= guard.front)
    <3>1. PICK t \in pend : t.loc = 0 /\ t.val.front = v /\ t.val.back < v
      BY <1>2, <2>2 DEF FrontIssued
    <3>2. CASE t = s
      <4>1. guard' = s.val
        BY <3>1, <3>2, PublishGuard
      <4> QED
        BY <3>1, <3>2, <4>1 DEF FrontIssued
    <3>3. CASE t # s
      BY <1>1, <3>1, <3>3 DEF FrontIssued
    <3> QED
      BY <3>2, <3>3
  <2> QED
    BY <2>1, <2>2
<1>3. ASSUME NEW w \in Word, NEW v \in Nat, WordIssued(w, v)
      PROVE  WordIssued(w, v)'
  <2>1. CASE v <= data[w]
    BY <1>1, <2>1 DEF WordIssued
  <2>2. CASE Store(w, v, v) \in pend /\ Store(w, v, v) # s
    BY <1>1, <2>2 DEF WordIssued
  <2>3. CASE Store(w, v, v) = s
    <3>1. s.loc = w /\ s.val.front = v /\ s.loc # 0
      BY <2>3, StoreFields, Domains
    <3>2. data' = [data EXCEPT ![w] = v]
      BY <3>1, PublishWord
    <3>3. data'[w] = v
      BY <3>2 DEF Typed, Buffer
    <3> QED
      BY <3>3 DEF WordIssued
  <2> QED
    BY <1>3, <2>1, <2>2, <2>3 DEF WordIssued
<1> QED
  BY <1>2, <1>3

LEMMA PublishStep ==
  ASSUME Typed, WriterInv, NEW s \in pend, Publish(s)
  PROVE  Typed' /\ WriterInv'
<1>1. /\ Typed' /\ Sandwich' /\ pend' = pend \ {s} /\ Ordered(s)
      /\ UNCHANGED <<local, wpc, wi>>
  BY MemoryGrows DEF writerVars
<1>2. PendNewer'
  <2>1. CASE s.loc = 0
    <3>1. guard' = s.val /\ UNCHANGED data
      BY <2>1, PublishGuard
    <3>2. /\ s.val.front <= local.front /\ s.val.back <= local.back
      BY <2>1 DEF WriterInv, PendNewer
    <3>3. ASSUME NEW t \in pend, t.loc = 0
          PROVE  s.val.front <= t.val.front /\ s.val.back <= t.val.back
      BY <1>1, <2>1, <3>3 DEF Ordered, WriterInv, GuardsInOrder
    <3> QED
      BY <1>1, <3>1, <3>2, <3>3 DEF WriterInv, PendNewer
  <2>2. CASE s.loc # 0
    <3>1. /\ s.loc \in Word /\ UNCHANGED guard
          /\ data' = [data EXCEPT ![s.loc] = s.val.front]
      BY <2>2, PublishWord
    <3>2. \A w \in Word : data'[w] = IF w = s.loc THEN s.val.front ELSE data[w]
      BY <3>1 DEF Typed, Buffer
    <3>3. \A t \in pend : t.loc = s.loc => s.val.front <= t.val.front
      BY <1>1 DEF Ordered
    <3> QED
      BY <1>1, <3>1, <3>2, <3>3 DEF WriterInv, PendNewer
  <2> QED
    BY <2>1, <2>2
<1>3. GuardsInOrder'
  BY <1>1 DEF WriterInv, GuardsInOrder, Epoch
<1>4. FrontBeforeWords'
  <2>1. \A t \in pend : t.loc \in Word => FrontIssued(t.val.front)'
    BY IssuedLasts, PendFields DEF WriterInv, FrontBeforeWords
  <2> QED
    BY <1>1, <2>1 DEF FrontBeforeWords
<1>5. WordsBeforeBack'
  <2>1. ASSUME NEW t \in pend, t.loc = 0, NEW w \in Word
        PROVE  WordIssued(w, t.val.back)'
    BY <2>1, IssuedLasts, PendFields DEF WriterInv, WordsBeforeBack
  <2> QED
    BY <1>1, <2>1 DEF WordsBeforeBack
<1>6. Progress'
  <2>1. PICK f \in Nat, b \in Nat : f = local.front /\ b = local.back
    BY Fields
  <2>2. \A w \in Word : WordIssued(w, b)'
    BY <2>1, IssuedLasts DEF WriterInv, Progress
  <2>3. wpc \in {"copy", "seal"} => FrontIssued(f)'
    BY <2>1, IssuedLasts DEF WriterInv, Progress
  <2>4. wpc \in {"copy", "seal"} => \A w \in Word : w < wi => WordIssued(w, f)'
    BY <2>1, IssuedLasts DEF WriterInv, Progress
  <2> QED
    BY <1>1, <2>1, <2>2, <2>3, <2>4 DEF WriterInv, Progress
<1> QED
  BY <1>1, <1>2, <1>3, <1>4, <1>5, <1>6 DEF WriterInv

-----------------------------------------------------------------------------
LEMMA Held ==
  ASSUME Typed, NEW r \in Readers
  PROVE  rback[r] \in Nat /\ \A w \in Word : buf[r][w] \in Nat
<1>1. rback[r] \in Count /\ buf[r] \in Buffer
  BY DEF Typed
<1>2. \A w \in Word : buf[r][w] \in Count
  BY <1>1 DEF Buffer
<1> QED
  BY <1>1, <1>2, Domains

(* What a reader holds stays between its back guard and memory.            *)
LEMMA ReadersPublish ==
  ASSUME Typed, WriterInv, \A r \in Readers : ReaderInv(r),
         CopyTornOnlyIfWrapped, NEW s \in pend, Publish(s)
  PROVE  (\A r \in Readers : ReaderInv(r))' /\ CopyTornOnlyIfWrapped'
<1>1. /\ guard.back <= guard'.back /\ \A w \in Word : data[w] <= data'[w]
      /\ UNCHANGED <<rop, rpc, rback, ri, buf, vfront, seen>> /\ Typed'
  BY MemoryGrows DEF readerVars
<1>2. /\ guard.back \in Nat /\ guard'.back \in Nat
      /\ \A w \in Word : data[w] \in Nat /\ data'[w] \in Nat
  BY <1>1, Fields, Domains DEF Typed, Pairs, Buffer
<1>3. ASSUME NEW r \in Readers PROVE ReaderInv(r)'
  <2>1. rback[r] \in Nat /\ \A w \in Word : buf[r][w] \in Nat
    BY Held
  <2>2. ReaderInv(r)
    OBVIOUS
  <2> QED
    BY <1>1, <1>2, <2>1, <2>2 DEF ReaderInv
<1> QED
  BY <1>1, <1>3 DEF CopyTornOnlyIfWrapped, Wrapped

(* A step of a reader that changes nothing of the others.                  *)
LEMMA OtherReaders ==
  ASSUME NEW r \in Readers, \A q \in Readers : ReaderInv(q),
         CopyTornOnlyIfWrapped, UNCHANGED <<guard, data>>,
         \A q \in Readers : q # r =>
           /\ rop'[q] = rop[q] /\ rpc'[q] = rpc[q] /\ rback'[q] = rback[q]
           /\ ri'[q] = ri[q] /\ buf'[q] = buf[q] /\ vfront'[q] = vfront[q],
         ReaderInv(r)',
         rpc'[r] = "done" /\ rop'[r] = "copy" /\ ~Wrapped(r)' =>
           \A w \in Word : buf'[r][w] = rback'[r]
  PROVE  (\A q \in Readers : ReaderInv(q))' /\ CopyTornOnlyIfWrapped'
BY DEF ReaderInv, CopyTornOnlyIfWrapped, Wrapped

(* The words of a copy that the guards confirm are of one write, that of   *)
(* both halves of the guard.                                               *)
LEMMA VerifiedWhole ==
  ASSUME Typed, WriterInv, NEW r \in Readers, ReaderInv(r),
         rpc[r] = "verify", rop[r] = "copy",
         Reduced(guard.front) = Reduced(rback[r]),
         ~Apart(guard.front, rback[r])
  PROVE  /\ guard.front = rback[r] /\ guard.back = rback[r]
         /\ \A w \in Word : buf[r][w] = rback[r]
<1>1. /\ rback[r] \in Nat /\ \A w \in Word : buf[r][w] \in Nat
      /\ guard.front \in Nat /\ guard.back \in Nat
      /\ \A w \in Word : data[w] \in Nat
  BY Fields, Held
<1>2. /\ rback[r] <= guard.back
      /\ \A w \in Word : rback[r] <= buf[r][w] /\ buf[r][w] <= data[w]
  <2>1. \A w \in Word : w < NumWords + 1
    BY Domains DEF Word
  <2> QED
    BY <2>1 DEF ReaderInv
<1>3. guard.back <= guard.front
  BY <1>1, Domains DEF WriterInv, Sandwich, Word
<1>4. guard.front = rback[r]
  <2>1. SUFFICES ASSUME rback[r] < guard.front PROVE FALSE
    BY <1>1, <1>2, <1>3
  <2>2. /\ GuardMod \in Nat \ {0} /\ rback[r] \in Int /\ guard.front \in Int
        /\ guard.front - rback[r] < GuardMod
    BY <1>1, GuardConstants DEF Apart
  <2>3. guard.front % GuardMod # rback[r] % GuardMod
    BY <2>1, <2>2, ModDiffer
  <2> QED
    BY <2>3 DEF Reduced
<1> QED
  BY <1>1, <1>2, <1>3, <1>4 DEF WriterInv, Sandwich

LEMMA ReaderStep ==
  ASSUME IInv, NEW r \in Readers, Reader(r)
  PROVE  IInv'
<1>0. /\ Typed /\ WriterInv /\ CopyTornOnlyIfWrapped
      /\ \A q \in Readers : ReaderInv(q)
  BY DEF IInv
<1>1. UNCHANGED <<guard, data, pend, local, wpc, wi>>
  BY DEF Reader, Step, RCall, RLoad, RCopy, RVerify, writerVars
<1>2. WriterInv'
  <2>1. Sandwich' /\ PendNewer' /\ GuardsInOrder'
    BY <1>0, <1>1 DEF WriterInv, Sandwich, PendNewer, GuardsInOrder, Epoch
  <2>2. FrontBeforeWords' /\ WordsBeforeBack' /\ Progress'
    BY <1>0, <1>1
    DEF WriterInv, FrontBeforeWords, WordsBeforeBack, Progress, FrontIssued,
        WordIssued
  <2> QED
    BY <2>1, <2>2 DEF WriterInv
<1>3. ASSUME NEW op \in {"init", "copy"}, RCall(r, op)
      PROVE  IInv'
  <2>1. Typed'
    BY <1>0, <1>3 DEF RCall, Typed, writerVars
  <2>2. rpc'[r] = "load"
    BY <1>0, <1>3 DEF RCall, Typed
  <2>3. ReaderInv(r)'
    BY <2>2 DEF ReaderInv
  <2> QED
    BY <1>0, <1>1, <1>2, <1>3, <2>1, <2>2, <2>3, OtherReaders
    DEF RCall, Typed, IInv
<1>4. CASE RLoad(r)
  <2>1. PICK g \in Pairs : g = LoadedGuard(rop[r])
    BY <1>0, Domains DEF LoadedGuard, Fresh, Pair, Pairs, Typed
  <2>2. /\ rback' = [rback EXCEPT ![r] = g.back]
        /\ ri' = [ri EXCEPT ![r] = 1]
        /\ rpc' = [rpc EXCEPT ![r] =
                     IF Reduced(g.front) = Reduced(g.back) THEN "copy" ELSE @]
        /\ rpc[r] = "load"
        /\ UNCHANGED <<guard, data, pend, writerVars, rop, buf, vfront, seen>>
    BY <1>4, <2>1 DEF RLoad
  <2>3. Typed'
    <3>1. g.back \in Count /\ 1 \in 1 .. NumWords + 1
      BY GuardConstants DEF Pairs
    <3> QED
      BY <1>0, <2>2, <3>1 DEF Typed, writerVars
  <2>4. /\ rpc'[r] \in {"load", "copy"} /\ ri'[r] = 1 /\ rback'[r] = g.back
        /\ rop'[r] = rop[r]
    BY <1>0, <2>2 DEF Typed
  <2>5. ReaderInv(r)'
    <3>1. \A w \in Word : ~(w < 1)
      BY DEF Word
    <3>2. 1 <= NumWords
      BY Domains
    <3>3. rop[r] = "copy" => g.back <= guard'.back
      BY <1>0, <1>1, <2>1, Fields DEF LoadedGuard
    <3> QED
      BY <2>4, <3>1, <3>2, <3>3 DEF ReaderInv
  <2> QED
    BY <1>0, <1>1, <1>2, <2>2, <2>3, <2>4, <2>5, OtherReaders DEF Typed, IInv
<1>5. CASE RCopy(r)
  <2>1. PICK k \in Word : k = ri[r]
    BY <1>0, <1>5, Domains DEF RCopy, ReaderInv, Typed, Word
  <2>2. /\ buf' = [buf EXCEPT ![r][k] = data[k]]
        /\ ri' = [ri EXCEPT ![r] = @ + 1]
        /\ rpc' = [rpc EXCEPT ![r] = IF k < NumWords THEN "copy" ELSE "verify"]
        /\ rpc[r] = "copy"
        /\ UNCHANGED <<guard, data, pend, writerVars, rop, rback, vfront, seen>>
    BY <1>5, <2>1 DEF RCopy
  <2>3. k + 1 \in 1 .. NumWords + 1 /\ k \in Nat /\ k <= NumWords /\ NumWords \in Nat
    BY Domains DEF Word
  <2>4. /\ buf'[r] = [buf[r] EXCEPT ![k] = data[k]] /\ ri'[r] = k + 1
        /\ rpc'[r] = IF k < NumWords THEN "copy" ELSE "verify"
        /\ rop'[r] = rop[r] /\ rback'[r] = rback[r]
    BY <1>0, <2>1, <2>2 DEF Typed
  <2>5. data[k] \in Count /\ buf[r] \in Buffer
    BY <1>0, Fields DEF Typed
  <2>6. buf'[r] \in Buffer
    BY <2>4, <2>5 DEF Buffer
  <2>7. Typed'
    BY <1>0, <2>1, <2>2, <2>3, <2>5, <2>6 DEF Typed, writerVars, Buffer
  <2>8. \A w \in Word : buf'[r][w] = IF w = k THEN data[k] ELSE buf[r][w]
    BY <2>4, <2>5 DEF Buffer
  <2>9. ReaderInv(r)'
    <3>1. rop[r] = "copy" =>
            /\ rback[r] <= guard.back
            /\ \A w \in Word : w < k => rback[r] <= buf[r][w] /\ buf[r][w] <= data[w]
      BY <1>0, <2>1, <2>2 DEF ReaderInv
    <3>2. guard.back <= data[k]
      BY <1>0 DEF WriterInv, Sandwich
    <3>3. /\ rback[r] \in Nat /\ guard.back \in Nat /\ data[k] \in Nat
      BY <1>0, Fields, Domains DEF Typed
    <3>4. \A w \in Word : w < k + 1 => w < k \/ w = k
      BY <2>3, Domains DEF Word
    <3>5. ~(k < NumWords) => k + 1 = NumWords + 1
      BY <2>3
    <3>6. k < NumWords => k + 1 <= NumWords
      BY <2>3
    <3> QED
      BY <1>1, <2>4, <2>8, <3>1, <3>2, <3>3, <3>4, <3>5, <3>6 DEF ReaderInv
  <2>10. rpc'[r] # "done"
    BY <2>4
  <2>11. \A q \in Readers : q # r => buf'[q] = buf[q]
    BY <1>0, <2>2 DEF Typed
  <2> QED
    BY <1>0, <1>1, <1>2, <2>2, <2>7, <2>9, <2>10, <2>11, OtherReaders
    DEF Typed, IInv
<1>6. CASE RVerify(r)
  <2>1. PICK f \in Count : f = LoadedGuard(rop[r]).front
    BY <1>0, Fields, Domains DEF LoadedGuard, Fresh, Pair
  <2>2. rpc[r] = "verify" /\ UNCHANGED <<guard, data, pend, writerVars, rop,
                                          rback, ri, buf>>
    BY <1>6 DEF RVerify
  <2>3. CASE Reduced(f) = Reduced(rback[r])
    <3>1. /\ rpc' = [rpc EXCEPT ![r] = "done"]
          /\ vfront' = [vfront EXCEPT ![r] = f]
          /\ seen' = [seen EXCEPT ![r] =
                        IF rop[r] = "copy" /\ ~Apart(f, rback[r])
                          THEN buf[r] ELSE @]
      BY <1>6, <2>1, <2>3 DEF RVerify
    <3>2. Typed'
      <4>1. seen' \in [Readers -> Buffer]
        BY <1>0, <3>1 DEF Typed
      <4> QED
        BY <1>0, <2>2, <3>1, <4>1 DEF Typed, writerVars
    <3>3. rpc'[r] = "done" /\ vfront'[r] = f
      BY <1>0, <3>1 DEF Typed
    <3>4. ReaderInv(r)'
      BY <3>3 DEF ReaderInv
    <3>5. rop[r] = "copy" /\ ~Wrapped(r)' => \A w \in Word : buf[r][w] = rback[r]
      BY <1>0, <2>1, <2>2, <2>3, <3>3, VerifiedWhole DEF Wrapped, LoadedGuard
    <3> QED
      BY <1>0, <1>1, <1>2, <2>2, <3>1, <3>2, <3>4, <3>5, OtherReaders
      DEF Typed, IInv
  <2>4. CASE Reduced(f) # Reduced(rback[r])
    <3>1. /\ rpc' = [rpc EXCEPT ![r] = "load"] /\ UNCHANGED <<vfront, seen>>
      BY <1>6, <2>1, <2>4 DEF RVerify
    <3>2. Typed' /\ rpc'[r] = "load"
      BY <1>0, <2>2, <3>1 DEF Typed, writerVars
    <3>3. ReaderInv(r)'
      BY <3>2 DEF ReaderInv
    <3> QED
      BY <1>0, <1>1, <1>2, <2>2, <3>1, <3>2, <3>3, OtherReaders DEF Typed, IInv
  <2> QED
    BY <2>3, <2>4
<1> QED
  BY <1>3, <1>4, <1>5, <1>6 DEF Reader, Step

LEMMA StepInv ==
  ASSUME IInv, [Next]_vars
  PROVE  IInv'
<1>1. CASE Writer \/ WCrash \/ WRestart
  <2>1. Typed' /\ WriterInv'
    BY <1>1, BeginStep, CopyStep, SealStep, CrashStep DEF IInv, Writer
  <2>2. UNCHANGED <<guard, data>> /\ UNCHANGED readerVars
    BY <1>1 DEF Writer, WBegin, WCopy, WSeal, WCrash, WRestart
  <2> QED
    BY <2>1, <2>2, ReadersKept DEF IInv
<1>2. ASSUME NEW s \in pend, Publish(s) PROVE IInv'
  BY <1>2, PublishStep, ReadersPublish DEF IInv
<1>3. ASSUME NEW r \in Readers, Reader(r) PROVE IInv'
  BY <1>3, ReaderStep
<1>4. CASE UNCHANGED vars
  <2>1. /\ UNCHANGED <<guard, data, pend, local, wpc, wi>>
        /\ UNCHANGED readerVars
    BY <1>4 DEF vars, writerVars
  <2>2. Typed'
    BY <2>1 DEF IInv, Typed, readerVars
  <2>3. Sandwich' /\ PendNewer' /\ GuardsInOrder'
    BY <2>1 DEF IInv, WriterInv, Sandwich, PendNewer, GuardsInOrder, Epoch
  <2>4. FrontBeforeWords' /\ WordsBeforeBack' /\ Progress'
    BY <2>1
    DEF IInv, WriterInv, FrontBeforeWords, WordsBeforeBack, Progress,
        FrontIssued, WordIssued
  <2> QED
    BY <2>1, <2>2, <2>3, <2>4, ReadersKept DEF IInv, WriterInv
<1> QED
  BY <1>1, <1>2, <1>3, <1>4 DEF Next, Memory

LEMMA Inductive == Spec => []IInv
BY InitInv, StepInv, PTL DEF Spec

(* copy_to_rhs_reverse_order returns the record of the write its guard     *)
(* names, unless the guard wrapped, whatever was cut short by the death of *)
(* a writer.                                                               *)
THEOREM CopyNeverTorn == Spec => []CopyTornOnlyIfWrapped
<1>1. IInv => CopyTornOnlyIfWrapped
  BY DEF IInv
<1> QED
  BY <1>1, Inductive, PTL

-----------------------------------------------------------------------------
(* Every step replaces the abstract record as a whole, is a read of it as  *)
(* a whole, or changes nothing of it.                                      *)
LEMMA RefinementStep ==
  ASSUME IInv, [Next]_vars
  PROVE  [Atomic!Next]_(Atomic!vars)
<1> DEFINE reg == [w \in Word |-> guard.back]
<1>1. ASSUME UNCHANGED <<guard, seen>> PROVE UNCHANGED Atomic!vars
  BY <1>1 DEF Atomic!vars
<1>2. CASE Writer \/ WCrash \/ WRestart \/ UNCHANGED vars
  BY <1>1, <1>2
  DEF Writer, WBegin, WCopy, WSeal, WCrash, WRestart, vars, readerVars
<1>3. ASSUME NEW s \in pend, Publish(s) PROVE [Atomic!Next]_(Atomic!vars)
  <2>1. Typed' /\ UNCHANGED seen
    BY <1>3, MemoryGrows DEF IInv, readerVars
  <2>2. PICK b \in Count : b = guard'.back
    BY <2>1 DEF Typed, Pairs
  <2>3. [w \in Word |-> b] \in Buffer
    BY DEF Buffer
  <2>4. [w \in Word |-> guard.back]' = [w \in Word |-> b]
    BY <2>2
  <2>5. Atomic!Write([w \in Word |-> b])
    BY <2>1, <2>4 DEF Atomic!Write
  <2> QED
    BY <2>3, <2>5 DEF Atomic!Next
<1>4. ASSUME NEW r \in Readers, Reader(r) PROVE [Atomic!Next]_(Atomic!vars)
  <2>1. UNCHANGED guard
    BY <1>4 DEF Reader, Step, RCall, RLoad, RCopy, RVerify
  <2>2. CASE UNCHANGED seen
    BY <1>1, <2>1, <2>2
  <2>3. CASE seen' # seen
    <3>1. /\ RVerify(r) /\ rpc[r] = "verify" /\ rop[r] = "copy"
          /\ Reduced(guard.front) = Reduced(rback[r])
          /\ ~Apart(guard.front, rback[r])
          /\ seen' = [seen EXCEPT ![r] = buf[r]]
      <4>1. RVerify(r)
        BY <1>4, <2>3 DEF Reader, Step, RCall, RLoad, RCopy
      <4>2. PICK f : f = LoadedGuard(rop[r]).front
        OBVIOUS
      <4>3. /\ rpc[r] = "verify" /\ Reduced(f) = Reduced(rback[r])
            /\ seen' = [seen EXCEPT ![r] =
                          IF rop[r] = "copy" /\ ~Apart(f, rback[r])
                            THEN buf[r] ELSE @]
        BY <2>3, <4>1, <4>2 DEF RVerify
      <4>4. rop[r] = "copy" /\ ~Apart(f, rback[r])
        BY <2>3, <4>3 DEF IInv, Typed
      <4> QED
        BY <4>1, <4>2, <4>3, <4>4 DEF LoadedGuard
    <3>2. guard.back = rback[r] /\ \A w \in Word : buf[r][w] = rback[r]
      BY <3>1, VerifiedWhole DEF IInv
    <3>3. buf[r] = [w \in Word |-> guard.back]
      BY <3>2 DEF IInv, Typed, Buffer
    <3>4. Atomic!Read(r)
      BY <2>1, <3>1, <3>3 DEF Atomic!Read
    <3> QED
      BY <3>4 DEF Atomic!Next
  <2> QED
    BY <2>2, <2>3
<1> QED
  BY <1>2, <1>3, <1>4 DEF Next, Memory

(* Writes and calls of copy_to_rhs_reverse_order are atomic, apart from    *)
(* calls during which a guard wrapped.                                     *)
THEOREM Refinement == Spec => ImplementsAtomicRecord
<1>1. Init => Atomic!Init
  BY DEF Init, Fresh, Pair, Atomic!Init
<1>2. IInv /\ [Next]_vars => [Atomic!Next]_(Atomic!vars)
  BY RefinementStep
<1> QED
  BY <1>1, <1>2, Inductive, PTL DEF Spec, ImplementsAtomicRecord, Atomic!Spec

====
