--------------------------- MODULE IOGuardProofs ---------------------------
(***************************************************************************)
(* Proofs about IOGuard for every number of readers, words, writes and     *)
(* crashes and every width of the guards.                                  *)
(***************************************************************************)
EXTENDS IOGuard, ModLemmas

(* A pending store is newer than what it will replace, and nothing is      *)
(* newer than the write in progress.                                       *)
PendNewer ==
  /\ \A s \in pend : mem[s.loc] < s.ver /\ s.ver <= ver
  /\ \A l \in Loc : mem[l] <= ver

(* The front guard of the write in progress has been stored.               *)
FrontIssued == Store(FrontLoc, ver) \in pend \/ mem[FrontLoc] = ver

(* The writer has stored the words before wi, and nothing else of its      *)
(* write but the front guard.                                              *)
Progress ==
  /\ wpc = "copy" => wi <= NumWords
  /\ wpc = "seal" => wi = NumWords + 1
  /\ wpc \in {"copy", "seal"} =>
       /\ \A w \in Word : w < wi => Store(w, ver) \in pend \/ mem[w] = ver
       /\ \A l \in Loc : l >= wi => Store(l, ver) \notin pend /\ mem[l] < ver

(* The fences: a word becomes visible after its front guard, a back guard  *)
(* after its words.                                                        *)
FrontBeforeWords ==
  \A s \in pend : s.loc \in Word =>
    Store(FrontLoc, s.ver) \in pend \/ mem[FrontLoc] >= s.ver

WordsBeforeBack ==
  \A s \in pend : s.loc = BackLoc =>
    \A w \in Word : Store(w, s.ver) \in pend \/ mem[w] >= s.ver

WriterInv ==
  /\ PendNewer
  /\ FrontIssued
  /\ Progress
  /\ FrontBeforeWords
  /\ WordsBeforeBack
  /\ Sandwich

(* What reader r holds is at least as old as memory, and no older than the *)
(* back guard it started from.                                             *)
ReaderInv(r) ==
  /\ rpc[r] \in {"check", "copy", "own", "verify"} => rback[r] <= mem[BackLoc]
  /\ rpc[r] = "check" => ri[r] = 1
  /\ rpc[r] = "copy" => ri[r] <= NumWords
  /\ rpc[r] \in {"own", "verify"} => ri[r] = NumWords + 1
  /\ rpc[r] \in {"copy", "own", "verify"} =>
       \A w \in Word : w < ri[r] => rback[r] <= buf[r][w] /\ buf[r][w] <= mem[w]
  /\ rpc[r] = "verify" /\ rop[r] = "init" =>
       rback[r] <= rtmp[r] /\ rtmp[r] <= mem[FrontLoc]

IInv ==
  /\ TypeOK
  /\ WriterInv
  /\ \A r \in Readers : ReaderInv(r)
  /\ TornOnlyIfWrapped

-----------------------------------------------------------------------------
(* Equal values in a guard mean equal counts, unless it wrapped.           *)
LEMMA GuardsEqual ==
  ASSUME NEW a \in Nat, NEW b \in Nat, a <= b, Guard(b) = Guard(a)
  PROVE  b = a \/ b - a >= GuardMod
<1>1. SUFFICES ASSUME a < b, b - a < GuardMod PROVE FALSE
  BY GuardConstants
<1>2. GuardMod \in Nat \ {0} /\ a \in Int /\ b \in Int
  BY GuardConstants
<1>3. a % GuardMod # b % GuardMod
  BY <1>1, <1>2, ModDiffer
<1> QED
  BY <1>3 DEF Guard

(* The locations are different words of memory.                            *)
LEMMA Locations ==
  /\ FrontLoc \in Loc /\ BackLoc \in Loc /\ Word \subseteq Loc
  /\ FrontLoc \notin Word /\ BackLoc \notin Word /\ FrontLoc # BackLoc
  /\ Loc = Word \cup {FrontLoc, BackLoc}
  /\ Word \subseteq Nat /\ Loc \subseteq Nat /\ NumWords \in Nat \ {0}
BY GuardConstants DEF FrontLoc, BackLoc, Word, Loc

(* The fields of a store, and what its epoch says.                         *)
LEMMA Stores ==
  ASSUME NEW l, NEW v
  PROVE  /\ Store(l, v).loc = l /\ Store(l, v).ver = v
         /\ \A k, u : Store(k, u) = Store(l, v) <=> k = l /\ u = v
BY DEF Store

(* A pending store goes to the record and belongs to some write.           *)
LEMMA PendStores ==
  ASSUME TypeOK, NEW s \in pend
  PROVE  /\ s.loc \in Loc /\ s.ver \in Nat /\ s.ver \in 1 .. MaxWrites
         /\ s = Store(s.loc, s.ver)
BY GuardConstants DEF TypeOK, Store

(* The record is created consistent.                                       *)
LEMMA InitInv ==
  ASSUME Init
  PROVE  IInv
<1>1. 0 \in 0 .. MaxWrites /\ 0 \in 0 .. MaxCrashes /\ 0 \in 0 .. SizeMod-1
      /\ 0 \in 0 .. NumTry + 1 /\ 1 \in 1 .. NumWords + 1
  BY GuardConstants
<1>2. TypeOK
  BY <1>1 DEF Init, TypeOK, Buffer, Idle
<1>3. WriterInv
  BY Locations
  DEF Init, WriterInv, PendNewer, FrontIssued, Progress, FrontBeforeWords,
      WordsBeforeBack, Sandwich
<1>4. \A r \in Readers : ReaderInv(r)
  BY DEF Init, ReaderInv
<1>5. TornOnlyIfWrapped
  BY DEF Init, TornOnlyIfWrapped
<1> QED
  BY <1>2, <1>3, <1>4, <1>5 DEF IInv

-----------------------------------------------------------------------------
(* The steps of the writer and of its store buffer.                        *)
LEMMA WriterStep ==
  ASSUME TypeOK, WriterInv, Writer \/ WCrash \/ WRestart
  PROVE  /\ TypeOK' /\ WriterInv'
         /\ UNCHANGED mem /\ UNCHANGED readerVars
<1> USE Locations
<1>1. ver \in Nat /\ \A l \in Loc : mem[l] \in Nat
  BY GuardConstants DEF TypeOK
<1>2. CASE WBegin
  <2>1. /\ ver' = ver + 1 /\ pend' = pend \cup {Store(FrontLoc, ver + 1)}
        /\ wi' = 1 /\ wpc' = "copy"
        /\ UNCHANGED mem /\ UNCHANGED crashes /\ UNCHANGED readerVars
        /\ ver + 1 \in 1 .. MaxWrites
    BY <1>1, <1>2, GuardConstants DEF WBegin
  <2>2. TypeOK'
    BY <2>1, GuardConstants DEF TypeOK, readerVars
  <2>3. PendNewer' /\ FrontIssued'
    BY <1>1, <2>1, Stores, PendStores DEF WriterInv, PendNewer, FrontIssued
  <2>4. Progress'
    <3>1. ASSUME NEW l \in Loc, l >= 1
          PROVE  Store(l, ver + 1) \notin pend' /\ mem[l] < ver + 1
      <4>1. Store(l, ver + 1) \notin pend
        BY <1>1, Stores DEF WriterInv, PendNewer
      <4>2. Store(l, ver + 1) # Store(FrontLoc, ver + 1)
        BY <3>1, Stores DEF FrontLoc
      <4> QED
        BY <1>1, <2>1, <4>1, <4>2 DEF WriterInv, PendNewer
    <3>2. \A w \in Word : ~(w < 1)
      BY DEF Word
    <3> QED
      BY <2>1, <3>1, <3>2 DEF Progress
  <2>5. FrontBeforeWords' /\ WordsBeforeBack' /\ Sandwich'
    BY <2>1, Stores
    DEF WriterInv, FrontBeforeWords, WordsBeforeBack, Sandwich
  <2> QED
    BY <2>1, <2>2, <2>3, <2>4, <2>5 DEF WriterInv
<1>3. CASE WCopy
  <2>1. /\ pend' = pend \cup {Store(wi, ver)} /\ wi' = wi + 1
        /\ wpc' = IF wi = NumWords THEN "seal" ELSE "copy"
        /\ UNCHANGED <<mem, ver, crashes>> /\ UNCHANGED readerVars
        /\ wi \in Word
    BY <1>3 DEF WCopy, TypeOK, WriterInv, Progress, Word
  <2>2. mem[wi] < ver /\ Store(wi, ver) \notin pend
    BY <1>3, <2>1 DEF WCopy, TypeOK, WriterInv, Progress
  <2>3. TypeOK'
    BY <1>1, <2>1, <2>2, GuardConstants DEF TypeOK, readerVars, Word
  <2>4. PendNewer' /\ FrontIssued'
    BY <1>1, <2>1, <2>2, Stores DEF WriterInv, PendNewer, FrontIssued
  <2>5. Progress'
    BY <1>3, <2>1, Stores DEF WCopy, WriterInv, Progress, Word
  <2>6. FrontBeforeWords'
    BY <1>1, <2>1, Stores DEF WriterInv, FrontIssued, FrontBeforeWords
  <2>7. WordsBeforeBack' /\ Sandwich'
    BY <2>1, Stores DEF WriterInv, WordsBeforeBack, Sandwich
  <2> QED
    BY <2>1, <2>3, <2>4, <2>5, <2>6, <2>7 DEF WriterInv
<1>4. CASE WSeal
  <2>1. /\ pend' = pend \cup {Store(BackLoc, ver)} /\ wpc' = "idle"
        /\ UNCHANGED <<mem, ver, wi, crashes>> /\ UNCHANGED readerVars
    BY <1>4 DEF WSeal
  <2>2. /\ wi = NumWords + 1 /\ mem[BackLoc] < ver
        /\ \A w \in Word : Store(w, ver) \in pend \/ mem[w] = ver
    BY <1>4 DEF WSeal, WriterInv, Progress, BackLoc, Word
  <2>3. TypeOK'
    BY <1>1, <2>1, <2>2, GuardConstants DEF TypeOK, readerVars
  <2>4. PendNewer' /\ FrontIssued' /\ Progress'
    BY <1>1, <2>1, <2>2, Stores DEF WriterInv, PendNewer, FrontIssued, Progress
  <2>5. FrontBeforeWords' /\ Sandwich'
    BY <2>1, Stores DEF WriterInv, FrontBeforeWords, Sandwich
  <2>6. WordsBeforeBack'
    BY <1>1, <2>1, <2>2, Stores DEF WriterInv, WordsBeforeBack
  <2> QED
    BY <2>1, <2>3, <2>4, <2>5, <2>6 DEF WriterInv
<1>5. CASE WCrash
  <2>1. /\ wpc' = "crashed" /\ crashes' = crashes + 1 /\ crashes < MaxCrashes
        /\ UNCHANGED <<mem, pend, ver, wi>> /\ UNCHANGED readerVars
    BY <1>5 DEF WCrash
  <2>2. TypeOK'
    BY <2>1, GuardConstants DEF TypeOK, readerVars
  <2>3. WriterInv'
    BY <2>1 DEF WriterInv, PendNewer, FrontIssued, Progress, FrontBeforeWords,
       WordsBeforeBack, Sandwich
  <2> QED
    BY <2>1, <2>2, <2>3
<1>6. CASE WRestart
  <2>1. /\ wpc' = "idle"
        /\ UNCHANGED <<mem, pend, ver, wi, crashes>> /\ UNCHANGED readerVars
    BY <1>6 DEF WRestart, WriterInv, FrontIssued
  <2>2. TypeOK'
    BY <2>1 DEF TypeOK, readerVars
  <2>3. WriterInv'
    BY <2>1 DEF WriterInv, PendNewer, FrontIssued, Progress, FrontBeforeWords,
       WordsBeforeBack, Sandwich
  <2> QED
    BY <2>1, <2>2, <2>3
<1> QED
  BY <1>2, <1>3, <1>4, <1>5, <1>6 DEF Writer

(* A store that becomes visible raises one location, and every store it    *)
(* depends on is visible already.                                          *)
LEMMA PublishStep ==
  ASSUME TypeOK, WriterInv, NEW s \in pend, Publish(s)
  PROVE  /\ TypeOK' /\ WriterInv' /\ UNCHANGED readerVars
         /\ \A l \in Loc : mem[l] <= mem'[l]
<1> USE Locations
<1>1. /\ ver \in Nat /\ mem \in [Loc -> Nat]
      /\ s.loc \in Loc /\ s.ver \in 1 .. MaxWrites
      /\ s = Store(s.loc, s.ver) /\ s.ver \in Nat
  BY PendStores, GuardConstants DEF TypeOK
<1>2. /\ mem' = [mem EXCEPT ![s.loc] = s.ver] /\ pend' = pend \ {s}
      /\ UNCHANGED <<ver, wpc, wi, crashes>> /\ UNCHANGED readerVars
  BY DEF Publish, writerVars
<1>3. mem[s.loc] < s.ver /\ s.ver <= ver
  BY DEF WriterInv, PendNewer
<1>4. /\ \A l \in Loc : mem'[l] = IF l = s.loc THEN s.ver ELSE mem[l]
      /\ \A l \in Loc : mem'[l] \in Nat
  BY <1>1, <1>2
<1>5. \A l \in Loc : mem[l] <= mem'[l]
  BY <1>1, <1>3, <1>4
<1>6. TypeOK'
  BY <1>1, <1>2 DEF TypeOK, readerVars
<1>7. ASSUME NEW t \in pend, t # s
      PROVE  /\ t.loc = s.loc => s.ver < t.ver
             /\ s.loc \in Word /\ t.loc = FrontLoc => t.ver # s.ver
             /\ s.loc = BackLoc /\ t.loc \in Word => t.ver # s.ver
  <2>1. Epoch(s) <= Epoch(t)
    BY DEF Publish, Ordered
  <2>2. t.loc \in Loc /\ t.ver \in Nat /\ t = Store(t.loc, t.ver)
    BY PendStores
  <2>3. t.loc = s.loc => t.ver # s.ver
    BY <1>1, <1>7, <2>2
  <2>4. t.loc = s.loc => s.ver < t.ver
    BY <1>1, <2>1, <2>2, <2>3 DEF Epoch
  <2> QED
    BY <1>1, <2>1, <2>2, <2>4 DEF Epoch
<1>8. PendNewer'
  <2>1. ASSUME NEW t \in pend' PROVE mem'[t.loc] < t.ver /\ t.ver <= ver'
    <3>1. t \in pend /\ t # s /\ t.loc \in Loc
      BY <1>2, PendStores
    <3>2. t.loc = s.loc => s.ver < t.ver
      BY <1>7, <3>1
    <3> QED
      BY <1>2, <1>4, <3>1, <3>2 DEF WriterInv, PendNewer
  <2>2. \A l \in Loc : mem'[l] <= ver'
    BY <1>2, <1>3, <1>4 DEF WriterInv, PendNewer
  <2> QED
    BY <2>1, <2>2 DEF PendNewer
<1>9. ASSUME NEW l \in Loc, Store(l, ver) \in pend \/ mem[l] = ver
      PROVE  Store(l, ver) \in pend' \/ mem'[l] = ver
  <2>1. CASE Store(l, ver) = s
    BY <1>4, <2>1, Stores
  <2>2. CASE Store(l, ver) \in pend /\ Store(l, ver) # s
    BY <1>2, <2>2
  <2>3. CASE mem[l] = ver
    BY <1>1, <1>3, <1>4, <2>3
  <2> QED
    BY <1>9, <2>1, <2>2, <2>3
<1>10. FrontIssued'
  BY <1>2, <1>9 DEF WriterInv, FrontIssued
<1>11. Progress'
  <2>1. ASSUME wpc \in {"copy", "seal"}, NEW l \in Loc, l >= wi
        PROVE  Store(l, ver) \notin pend' /\ mem'[l] < ver
    <3>1. Store(l, ver) \notin pend /\ mem[l] < ver
      BY <2>1 DEF WriterInv, Progress
    <3>2. l = s.loc => s.ver # ver
      BY <1>1, <3>1
    <3> QED
      BY <1>1, <1>2, <1>3, <1>4, <3>1, <3>2
  <2> QED
    BY <1>2, <1>9, <2>1 DEF WriterInv, Progress
<1>12. FrontBeforeWords'
  <2>1. SUFFICES ASSUME NEW t \in pend', t.loc \in Word
                 PROVE  Store(FrontLoc, t.ver) \in pend' \/ mem'[FrontLoc] >= t.ver
    BY DEF FrontBeforeWords
  <2>2. t \in pend /\ t.ver \in Nat
    BY <1>2, PendStores
  <2>3. Store(FrontLoc, t.ver) \in pend \/ mem[FrontLoc] >= t.ver
    BY <2>1, <2>2 DEF WriterInv, FrontBeforeWords
  <2>4. Store(FrontLoc, t.ver) = s => mem'[FrontLoc] = t.ver
    BY <1>4, Stores
  <2> QED
    BY <1>1, <1>2, <1>4, <1>5, <2>2, <2>3, <2>4
<1>13. WordsBeforeBack'
  <2>1. SUFFICES ASSUME NEW t \in pend', t.loc = BackLoc, NEW w \in Word
                 PROVE  Store(w, t.ver) \in pend' \/ mem'[w] >= t.ver
    BY DEF WordsBeforeBack
  <2>2. t \in pend /\ t.ver \in Nat
    BY <1>2, PendStores
  <2>3. Store(w, t.ver) \in pend \/ mem[w] >= t.ver
    BY <2>1, <2>2 DEF WriterInv, WordsBeforeBack
  <2>4. Store(w, t.ver) = s => mem'[w] = t.ver
    BY <1>4, Stores
  <2> QED
    BY <1>1, <1>2, <1>4, <1>5, <2>2, <2>3, <2>4
<1>14. Sandwich'
  <2>1. SUFFICES ASSUME NEW w \in Word
                 PROVE  mem'[BackLoc] <= mem'[w] /\ mem'[w] <= mem'[FrontLoc]
    BY DEF Sandwich
  <2>2. mem[BackLoc] <= mem[w] /\ mem[w] <= mem[FrontLoc]
    BY DEF WriterInv, Sandwich
  <2>3. CASE s.loc = FrontLoc
    BY <1>1, <1>3, <1>4, <2>2, <2>3
  <2>4. CASE s.loc = BackLoc
    <3>1. Store(w, s.ver) \notin pend
      BY <1>7, <2>4, Stores
    <3>2. mem[w] >= s.ver
      BY <2>4, <3>1 DEF WriterInv, WordsBeforeBack
    <3> QED
      BY <1>4, <2>2, <2>4, <3>2
  <2>5. CASE s.loc \in Word
    <3>1. Store(FrontLoc, s.ver) \notin pend
      BY <1>7, <2>5, Stores
    <3>2. mem[FrontLoc] >= s.ver
      BY <2>5, <3>1 DEF WriterInv, FrontBeforeWords
    <3> QED
      BY <1>1, <1>3, <1>4, <2>2, <2>5, <3>2
  <2> QED
    BY <1>1, <2>3, <2>4, <2>5
<1> QED
  BY <1>2, <1>5, <1>6, <1>8, <1>10, <1>11, <1>12, <1>13, <1>14 DEF WriterInv

-----------------------------------------------------------------------------
(* Nothing a reader holds is disturbed when memory only grows newer.       *)
LEMMA ReaderStable ==
  ASSUME TypeOK, \A l \in Loc : mem[l] <= mem'[l], TypeOK',
         UNCHANGED readerVars, NEW r \in Readers, ReaderInv(r)
  PROVE  ReaderInv(r)'
<1>1. /\ \A l \in Loc : mem[l] \in Nat /\ mem'[l] \in Nat
      /\ rback[r] \in Nat /\ rtmp[r] \in Nat
      /\ \A w \in Word : buf[r][w] \in Nat
  BY GuardConstants DEF TypeOK, Buffer
<1>2. UNCHANGED <<rop, rpc, rback, rtmp, ri, buf>>
  BY DEF readerVars
<1>3. BackLoc \in Loc /\ FrontLoc \in Loc /\ Word \subseteq Loc
  BY Locations
<1> QED
  BY <1>1, <1>2, <1>3 DEF ReaderInv

(* The steps of a reader keep the types.                                   *)
LEMMA ReaderTypes ==
  ASSUME TypeOK, NEW r \in Readers, Reader(r), ReaderInv(r)
  PROVE  TypeOK' /\ UNCHANGED <<mem, pend, writerVars>>
<1> USE Locations, GuardConstants
<1>1. ASSUME NEW op \in {"init", "copy", "try"}, RCall(r, op) PROVE TypeOK'
  <2>1. (CASE op = "init" -> "load" [] op = "copy" -> "cmp"
           [] op = "try" -> TryFrom(NumTry)) \in {"load", "cmp", "gaveup"}
    BY DEF TryFrom
  <2> QED
    BY <1>1, <2>1 DEF RCall, TypeOK, writerVars, Idle
<1>2. ASSUME NEW l \in {FrontLoc, BackLoc}, RCompareFirst(r, l) PROVE TypeOK'
  BY <1>2 DEF RCompareFirst, TypeOK, writerVars
<1>3. ASSUME NEW l \in {FrontLoc, BackLoc}, RCompareSecond(r, l) PROVE TypeOK'
  BY <1>3 DEF RCompareSecond, TypeOK, writerVars
<1>4. ASSUME RLoadBack(r) PROVE TypeOK'
  <2>1. attempts'[r] \in 0 .. NumTry + 1
    BY <1>4 DEF RLoadBack, TypeOK
  <2>2. attempts' \in [Readers -> 0 .. NumTry + 1]
    BY <1>4, <2>1 DEF RLoadBack, TypeOK
  <2> QED
    BY <1>4, <2>2 DEF RLoadBack, TypeOK, writerVars
<1>5. ASSUME RCheck(r) PROVE TypeOK'
  BY <1>5 DEF RCheck, TypeOK, writerVars
<1>6. ASSUME RCopy(r) PROVE TypeOK'
  <2>1. ri[r] \in Word /\ ri[r] + 1 \in 1 .. NumWords + 1
    BY <1>6 DEF RCopy, TypeOK, ReaderInv, Word
  <2>2. mem[ri[r]] \in 0 .. MaxWrites
    BY <2>1 DEF TypeOK
  <2>3. buf' \in [Readers -> Buffer]
    BY <1>6, <2>1, <2>2 DEF RCopy, TypeOK, Buffer
  <2> QED
    BY <1>6, <2>1, <2>3 DEF RCopy, TypeOK, writerVars
<1>7. ASSUME ROwn(r) PROVE TypeOK'
  BY <1>7 DEF ROwn, TypeOK, writerVars
<1>8. ASSUME RVerify(r) PROVE TypeOK'
  <2>1. CASE Guard(mem[FrontLoc]) = Guard(rback[r])
    BY <1>8, <2>1 DEF RVerify, TypeOK, writerVars, Idle
  <2>2. CASE Guard(mem[FrontLoc]) # Guard(rback[r])
    <3>1. ntry[r] \in Nat /\ (ntry[r] + 1) % SizeMod \in 0 .. SizeMod-1
      <4>1. ntry[r] \in Nat /\ ntry[r] + 1 \in Int /\ SizeMod \in Nat \ {0}
        BY DEF TypeOK
      <4> QED
        BY <4>1, DivMod
    <3>2. ntry' = [ntry EXCEPT ![r] =
                     IF rop[r] = "try" THEN (ntry[r] + 1) % SizeMod ELSE ntry[r]]
      BY <1>8, <2>2 DEF RVerify, TypeOK
    <3>3. ntry' \in [Readers -> 0 .. SizeMod-1]
      BY <3>1, <3>2 DEF TypeOK
    <3>4. rop[r] \in {"init", "copy", "try"}
      BY DEF TypeOK
    <3>5. (CASE rop[r] = "init" -> "load" [] rop[r] = "copy" -> "cmp"
             [] rop[r] = "try" -> TryFrom(ntry'[r])) \in {"load", "cmp", "gaveup"}
      BY <3>4 DEF TryFrom
    <3>6. rpc' \in [Readers -> Idle \cup {"cmp", "cmpFront", "cmpBack", "load",
                                          "check", "copy", "own", "verify"}]
      BY <1>8, <2>2, <3>5 DEF RVerify, TypeOK, Idle
    <3> QED
      BY <1>8, <2>2, <3>3, <3>6 DEF RVerify, TypeOK, writerVars
  <2> QED
    BY <2>1, <2>2
<1>9. UNCHANGED <<mem, pend, writerVars>>
  BY DEF Reader, Step, RCall, RCompareFirst, RCompareSecond, RLoadBack, RCheck,
     RCopy, ROwn, RVerify
<1> QED
  BY <1>1, <1>2, <1>3, <1>4, <1>5, <1>6, <1>7, <1>8, <1>9 DEF Reader, Step

(* A step of reader r leaves the other readers alone.                      *)
LEMMA OthersUnchanged ==
  ASSUME TypeOK, NEW r \in Readers, Reader(r), NEW q \in Readers, q # r
  PROVE  /\ rop'[q] = rop[q] /\ rpc'[q] = rpc[q] /\ rback'[q] = rback[q]
         /\ rtmp'[q] = rtmp[q] /\ ri'[q] = ri[q] /\ buf'[q] = buf[q]
         /\ vfront'[q] = vfront[q]
BY DEF TypeOK, Reader, Step, RCall, RCompareFirst, RCompareSecond, RLoadBack,
   RCheck, RCopy, ROwn, RVerify

(* A reader that accepts its copy: the words lie between the back guard it *)
(* loaded first and the front guard it loaded last.                        *)
LEMMA Accepted ==
  ASSUME TypeOK, Sandwich, NEW r \in Readers, ReaderInv(r), rpc[r] = "verify",
         Guard(mem[FrontLoc]) = Guard(rback[r]),
         ~(mem[FrontLoc] - rback[r] >= GuardMod)
  PROVE  /\ mem[FrontLoc] = rback[r] /\ mem[BackLoc] = rback[r]
         /\ \A w \in Word : buf[r][w] = rback[r]
         /\ rop[r] = "init" => rtmp[r] = rback[r]
<1>1. /\ \A l \in Loc : mem[l] \in Nat
      /\ rback[r] \in Nat /\ rtmp[r] \in Nat
      /\ \A w \in Word : buf[r][w] \in Nat
  BY GuardConstants DEF TypeOK, Buffer
<1>2. /\ rback[r] <= mem[BackLoc]
      /\ \A w \in Word : rback[r] <= buf[r][w] /\ buf[r][w] <= mem[w]
      /\ rop[r] = "init" => rback[r] <= rtmp[r] /\ rtmp[r] <= mem[FrontLoc]
  BY Locations DEF ReaderInv, Word
<1>3. \A w \in Word : mem[BackLoc] <= mem[w] /\ mem[w] <= mem[FrontLoc]
  BY DEF Sandwich
<1>4. 1 \in Word /\ BackLoc \in Loc /\ FrontLoc \in Loc /\ Word \subseteq Loc
  BY GuardConstants, Locations DEF Word
<1>5. rback[r] <= mem[FrontLoc]
  BY <1>1, <1>2, <1>3, <1>4
<1>6. mem[FrontLoc] = rback[r]
  BY <1>1, <1>4, <1>5, GuardsEqual
<1> QED
  BY <1>1, <1>2, <1>3, <1>4, <1>6

(* The steps of a reader.                                                  *)
LEMMA ReaderStep ==
  ASSUME IInv, NEW r \in Readers, Reader(r)
  PROVE  IInv'
<1> USE Locations, GuardConstants
<1>1. /\ TypeOK /\ WriterInv /\ Sandwich /\ ReaderInv(r)
      /\ \A q \in Readers : ReaderInv(q)
  BY DEF IInv, WriterInv
<1>2. TypeOK' /\ UNCHANGED <<mem, pend, writerVars>>
  BY <1>1, ReaderTypes
<1>3. WriterInv'
  BY <1>1, <1>2 DEF writerVars, WriterInv, PendNewer, FrontIssued, Progress,
     FrontBeforeWords, WordsBeforeBack, Sandwich
<1>4. /\ \A l \in Loc : mem[l] \in Nat /\ mem' = mem
      /\ rback[r] \in Nat /\ rtmp[r] \in Nat /\ ri[r] \in 1 .. NumWords + 1
      /\ \A w \in Word : buf[r][w] \in Nat
  BY <1>1, <1>2 DEF TypeOK, Buffer
<1>5. ReaderInv(r)'
  <2>1. ASSUME NEW op \in {"init", "copy", "try"}, RCall(r, op)
        PROVE  ReaderInv(r)'
    <3>1. rpc'[r] \in {"load", "cmp", "gaveup"}
      BY <1>1, <2>1 DEF RCall, TypeOK, TryFrom
    <3> QED
      BY <3>1 DEF ReaderInv
  <2>2. ASSUME NEW l \in {FrontLoc, BackLoc},
               RCompareFirst(r, l) \/ RCompareSecond(r, l)
        PROVE  ReaderInv(r)'
    <3>1. rpc'[r] \in {"cmp", "cmpFront", "cmpBack", "load"}
      BY <1>1, <2>2 DEF RCompareFirst, RCompareSecond, TypeOK
    <3> QED
      BY <3>1 DEF ReaderInv
  <2>3. CASE RLoadBack(r)
    <3>1. /\ rback'[r] = mem[BackLoc] /\ ri'[r] = 1
          /\ rpc'[r] \in {"check", "copy"}
      BY <1>1, <2>3 DEF RLoadBack, TypeOK
    <3> QED
      BY <1>4, <3>1 DEF ReaderInv, Word
  <2>4. CASE RCheck(r)
    <3>1. /\ rpc[r] = "check" /\ rpc'[r] \in {"copy", "load"}
          /\ UNCHANGED <<rback, ri, buf, rop, rtmp>>
      BY <1>1, <2>4 DEF RCheck, TypeOK
    <3>2. ri[r] = 1
      BY <1>1, <3>1 DEF ReaderInv
    <3> QED
      BY <1>1, <1>4, <3>1, <3>2 DEF ReaderInv, Word
  <2>5. CASE RCopy(r)
    <3>1. /\ rpc[r] = "copy" /\ ri[r] \in Word /\ ri'[r] = ri[r] + 1
          /\ rpc'[r] = IF ri[r] < NumWords THEN "copy"
                       ELSE IF rop[r] = "init" THEN "own" ELSE "verify"
          /\ UNCHANGED <<rback, rop, rtmp>>
      BY <1>1, <2>5 DEF RCopy, TypeOK, ReaderInv, Word
    <3>2. \A w \in Word : buf'[r][w] = IF w = ri[r] THEN mem[w] ELSE buf[r][w]
      BY <1>1, <2>5, <3>1 DEF RCopy, TypeOK, Buffer
    <3>3. rback[r] <= mem[BackLoc] /\ mem[BackLoc] <= mem[ri[r]]
      BY <1>1, <3>1 DEF ReaderInv, Sandwich
    <3>4. \A w \in Word : w < ri'[r] =>
            rback[r] <= buf'[r][w] /\ buf'[r][w] <= mem[w]
      BY <1>1, <1>4, <3>1, <3>2, <3>3 DEF ReaderInv
    <3>5. /\ rpc'[r] = "copy" => ri'[r] <= NumWords
          /\ rpc'[r] \in {"own", "verify"} => ri'[r] = NumWords + 1
          /\ ~(rpc'[r] = "verify" /\ rop'[r] = "init")
      BY <3>1 DEF Word
    <3> QED
      BY <1>4, <3>1, <3>3, <3>4, <3>5 DEF ReaderInv
  <2>6. CASE ROwn(r)
    <3>1. /\ rpc[r] = "own" /\ rpc'[r] = "verify" /\ rtmp'[r] = mem[FrontLoc]
          /\ UNCHANGED <<rback, ri, buf, rop>>
      BY <1>1, <2>6 DEF ROwn, TypeOK
    <3>2. rback[r] <= mem[FrontLoc]
      <4>1. 1 \in Word
        BY DEF Word
      <4>2. /\ rback[r] <= mem[BackLoc] /\ mem[BackLoc] <= mem[1]
            /\ mem[1] <= mem[FrontLoc]
        BY <1>1, <3>1, <4>1 DEF ReaderInv, Sandwich
      <4> QED
        BY <1>4, <4>1, <4>2
    <3> QED
      BY <1>1, <1>4, <3>1, <3>2 DEF ReaderInv
  <2>7. CASE RVerify(r)
    <3>1. rpc'[r] \in {"done", "load", "cmp", "gaveup"}
      BY <1>1, <2>7 DEF RVerify, TypeOK, TryFrom
    <3> QED
      BY <3>1 DEF ReaderInv
  <2> QED
    BY <2>1, <2>2, <2>3, <2>4, <2>5, <2>6, <2>7 DEF Reader, Step
<1>6. ASSUME NEW q \in Readers PROVE ReaderInv(q)'
  <2>1. CASE q = r
    BY <1>5, <2>1
  <2>2. CASE q # r
    BY <1>1, <1>2, <2>2, OthersUnchanged DEF ReaderInv
  <2> QED
    BY <2>1, <2>2
<1>7. TornOnlyIfWrapped'
  <2>1. SUFFICES ASSUME NEW q \in Readers, rpc'[q] = "done", ~Wrapped(q)'
                 PROVE  /\ \A w \in Word : buf'[q][w] = rback'[q]
                        /\ rop'[q] = "init" => rtmp'[q] = rback'[q]
    BY DEF TornOnlyIfWrapped
  <2>2. CASE q # r
    BY <1>1, <2>1, <2>2, OthersUnchanged DEF IInv, TornOnlyIfWrapped, Wrapped, Apart
  <2>3. CASE q = r
    <3>1. RVerify(r) /\ Guard(mem[FrontLoc]) = Guard(rback[r])
      BY <1>1, <2>1, <2>3 DEF Reader, Step, RCall, RCompareFirst, RCompareSecond,
         RLoadBack, RCheck, RCopy, ROwn, RVerify, TypeOK, TryFrom
    <3>2. /\ rpc[r] = "verify" /\ vfront'[r] = mem[FrontLoc]
          /\ UNCHANGED <<rback, rtmp, rop, buf>>
      BY <1>1, <3>1 DEF RVerify, TypeOK
    <3> QED
      BY <1>1, <2>1, <2>3, <3>1, <3>2, Accepted DEF Wrapped, Apart
  <2> QED
    BY <2>2, <2>3
<1> QED
  BY <1>2, <1>3, <1>6, <1>7 DEF IInv

(* The invariant is inductive.                                             *)
LEMMA StepInv ==
  ASSUME IInv, [Next]_vars
  PROVE  IInv'
<1>1. TypeOK /\ WriterInv /\ \A r \in Readers : ReaderInv(r)
  BY DEF IInv
<1>2. ASSUME TypeOK', WriterInv', UNCHANGED readerVars,
             \A l \in Loc : mem[l] <= mem'[l]
      PROVE  IInv'
  <2>1. \A r \in Readers : ReaderInv(r)'
    BY <1>1, <1>2, ReaderStable
  <2>2. TornOnlyIfWrapped'
    BY <1>2 DEF IInv, readerVars, TornOnlyIfWrapped, Wrapped, Apart
  <2> QED
    BY <1>2, <2>1, <2>2 DEF IInv
<1>3. \A l \in Loc : mem[l] \in Nat
  BY <1>1, GuardConstants DEF TypeOK
<1>4. CASE Writer \/ WCrash \/ WRestart
  BY <1>1, <1>2, <1>3, <1>4, WriterStep
<1>5. CASE Memory
  BY <1>1, <1>2, <1>5, PublishStep DEF Memory
<1>6. CASE \E r \in Readers : Reader(r)
  BY <1>6, ReaderStep
<1>7. CASE UNCHANGED vars
  <2>1. UNCHANGED <<mem, pend, ver, wpc, wi, crashes>> /\ UNCHANGED readerVars
    BY <1>7 DEF vars, writerVars
  <2>2. TypeOK'
    BY <1>1, <2>1 DEF TypeOK, readerVars
  <2>3. WriterInv'
    BY <1>1, <2>1 DEF WriterInv, PendNewer, FrontIssued, Progress,
       FrontBeforeWords, WordsBeforeBack, Sandwich
  <2> QED
    BY <1>2, <1>3, <2>1, <2>2, <2>3
<1> QED
  BY <1>4, <1>5, <1>6, <1>7 DEF Next

-----------------------------------------------------------------------------
(* The invariant holds throughout.                                         *)
THEOREM Invariance == Spec => []IInv
<1>1. Init => IInv
  BY InitInv
<1>2. IInv /\ [Next]_vars => IInv'
  BY StepInv
<1> QED
  BY <1>1, <1>2, PTL DEF Spec

(* Every variable of the segment, the writer and the readers keeps its     *)
(* type.                                                                   *)
THEOREM TypeCorrect == Spec => []TypeOK
<1>1. IInv => TypeOK
  BY DEF IInv
<1> QED
  BY <1>1, Invariance, PTL

(* The words are never older than the back guard or newer than the front   *)
(* guard, whatever dies and however stores are delayed.                    *)
THEOREM SandwichCorrect == Spec => []Sandwich
<1>1. IInv => Sandwich
  BY DEF IInv, WriterInv
<1> QED
  BY <1>1, Invariance, PTL

(* A reader returns a torn record only if a guard wrapped during its call. *)
THEOREM ReadsCorrect == Spec => []TornOnlyIfWrapped
<1>1. IInv => TornOnlyIfWrapped
  BY DEF IInv
<1> QED
  BY <1>1, Invariance, PTL

-----------------------------------------------------------------------------
(* Every step is a write, a read or nothing to the abstract record; a call *)
(* during which a guard wrapped is nothing.                                *)
LEMMA RefinementStep ==
  ASSUME IInv, [Next]_vars
  PROVE  [Atomic!Next]_(Atomic!vars)
<1> USE Locations, GuardConstants
<1>1. TypeOK /\ WriterInv /\ \A r \in Readers : ReaderInv(r)
  BY DEF IInv
<1>2. IInv'
  BY StepInv
<1>3. ASSUME UNCHANGED <<mem, seen>> PROVE UNCHANGED Atomic!vars
  BY <1>3 DEF Atomic!vars, Sealed
<1>4. CASE Writer \/ WCrash \/ WRestart
  BY <1>1, <1>3, <1>4, WriterStep DEF readerVars
<1>5. CASE UNCHANGED vars
  BY <1>3, <1>5 DEF vars, readerVars
<1>6. CASE Memory
  <2>1. UNCHANGED seen
    BY <1>6 DEF Memory, Publish, readerVars
  <2>2. Sealed' \in Buffer
    BY <1>2 DEF IInv, TypeOK, Sealed, Buffer
  <2> QED
    BY <2>1, <2>2 DEF Atomic!Next, Atomic!Write
<1>7. ASSUME NEW r \in Readers, Reader(r) PROVE [Atomic!Next]_(Atomic!vars)
  <2>1. mem' = mem
    BY <1>1, <1>7, ReaderTypes
  <2>2. CASE seen' = seen
    BY <1>3, <2>1, <2>2
  <2>3. CASE seen' # seen
    <3>1. /\ RVerify(r) /\ Guard(mem[FrontLoc]) = Guard(rback[r])
          /\ rpc[r] = "verify"
          /\ seen' = [seen EXCEPT ![r] =
                        IF Apart(mem[FrontLoc], rback[r]) THEN @ ELSE buf[r]]
      BY <1>7, <2>3 DEF Reader, Step, RCall, RCompareFirst, RCompareSecond,
         RLoadBack, RCheck, RCopy, ROwn, RVerify
    <3>2. /\ ~(mem[FrontLoc] - rback[r] >= GuardMod)
          /\ seen' = [seen EXCEPT ![r] = buf[r]]
      <4>1. CASE Apart(mem[FrontLoc], rback[r])
        <5>1. seen \in [Readers -> Buffer]
          BY <1>1 DEF TypeOK
        <5>2. seen' = [seen EXCEPT ![r] = seen[r]]
          BY <3>1, <4>1
        <5> QED
          BY <2>3, <5>1, <5>2
      <4>2. CASE ~Apart(mem[FrontLoc], rback[r])
        BY <3>1, <4>2 DEF Apart
      <4> QED
        BY <4>1, <4>2
    <3>3. mem[BackLoc] = rback[r] /\ \A w \in Word : buf[r][w] = rback[r]
      BY <1>1, <3>1, <3>2, Accepted DEF WriterInv
    <3>4. buf[r] = Sealed
      BY <1>1, <3>3 DEF TypeOK, Buffer, Sealed
    <3> QED
      BY <2>1, <3>2, <3>4 DEF Atomic!Next, Atomic!Read, Sealed
  <2> QED
    BY <2>2, <2>3
<1> QED
  BY <1>4, <1>5, <1>6, <1>7 DEF Next

(* The sequence lock implements the atomic record.                         *)
THEOREM Refinement == Spec => ImplementsAtomicRecord
<1>1. Init => Atomic!Init
  BY Locations DEF Init, Atomic!Init, Sealed
<1>2. IInv /\ [Next]_vars => [Atomic!Next]_(Atomic!vars)
  BY RefinementStep
<1> QED
  BY <1>1, <1>2, Invariance, PTL DEF Spec, ImplementsAtomicRecord, Atomic!Spec

=============================================================================
