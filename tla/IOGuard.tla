------------------------------ MODULE IOGuard ------------------------------
(***************************************************************************)
(* util_ipc::basic_ioguard (ioguard/basic_ioguard.h), the sequence lock    *)
(* around a record of NumWords 64-bit words in shared memory: one writer,  *)
(* which may die in the middle of a write and be started again, and the    *)
(* readers, each of which calls the three reading functions in any order   *)
(* and as often as it likes.                                               *)
(*                                                                         *)
(* The content of a word, and of a guard, is the number of the write that  *)
(* put it there, counted without bound: a record is consistent when all    *)
(* its words carry the same number.  The code sees a guard only through    *)
(* Guard, which reduces the count to the guard_type.                       *)
(*                                                                         *)
(* As in SpscQueue a store becomes visible after it was issued, in any     *)
(* order within the stretch between two calls of                           *)
(* architecture_release_fence(), and in order across such a call.  The     *)
(* readers load through pointers to volatile and in program order.         *)
(***************************************************************************)
EXTENDS Integers

CONSTANTS
  Readers,    (* the readers                                              *)
  NumWords,   (* num_64bit_reads                                          *)
  GuardMod,   (* 2^w for the w bits of guard_type, 2^32 for IOGuard       *)
  NumTry,     (* the num_try the readers pass to try_copy_...             *)
  SizeMod,    (* 2^w for the w bits of size_t                             *)
  MaxWrites,  (* bound: number of writes begun                            *)
  MaxCrashes  (* bound: number of times the writer dies                   *)

ASSUME GuardConstants ==
  /\ NumWords \in Nat \ {0}
  /\ GuardMod \in Nat \ {0, 1}
  /\ SizeMod \in Nat \ {0}
  /\ NumTry \in 0 .. SizeMod-1
  /\ MaxWrites \in Nat
  /\ MaxCrashes \in Nat

VARIABLES
  mem,      (* the shared segment: front_guard, the words, back_guard     *)
  pend,     (* stores of the writer that are not visible yet              *)
  ver,      (* number of the write in progress, or of the last one        *)
  wpc,      (* next step of the writer                                    *)
  wi,       (* the word std::copy writes next                             *)
  crashes,  (* number of times the writer died                            *)
  rop,      (* the function a reader is in                                *)
  rpc,      (* its next step                                              *)
  rback,    (* the back guard it loaded (back_guard, Back_guard)          *)
  rtmp,     (* the guard it loaded in addition: the operand of a          *)
            (* comparison loaded first, or its own front_guard            *)
  ri,       (* the word std::copy reads next                              *)
  buf,      (* the destination of its std::copy                           *)
  ntry,     (* num_try, which the loop of try_copy_... increments         *)
  attempts, (* how often that loop ran in this call, at most NumTry + 1   *)
  vfront,   (* the front guard that made it accept its copy               *)
  seen      (* history: the last record it accepted in a call during      *)
            (* which no guard wrapped                                     *)

writerVars == <<ver, wpc, wi, crashes>>
readerVars == <<rop, rpc, rback, rtmp, ri, buf, ntry, attempts, vfront, seen>>
vars == <<mem, pend, writerVars, readerVars>>

FrontLoc == 0
BackLoc  == NumWords + 1
Word     == 1 .. NumWords
Loc      == 0 .. NumWords + 1

(* What a variable of type guard_type holds of the count n.                *)
Guard(n) == n % GuardMod

Store(l, v) == [loc |-> l, ver |-> v]

(* Guards GuardMod or more counts apart may look alike.                    *)
Apart(front, back) == front - back >= GuardMod

(* Epoch without the fence between the words and the back guard.           *)
EpochOneFence(s) == 2 * s.ver - (IF s.loc = FrontLoc THEN 2 ELSE 1)

(* How many fences of the writer precede store s: write v calls one after  *)
(* ++front_guard and one after the words, and none after the assignment of *)
(* back_guard, which shares its epoch with the ++front_guard of write v+1. *)
Epoch(s) ==
  2 * s.ver - (IF s.loc = FrontLoc THEN 2 ELSE IF s.loc = BackLoc THEN 0 ELSE 1)

(* Store s may become visible: every store of an earlier epoch already is. *)
Ordered(s) == \A t \in pend : Epoch(s) <= Epoch(t)

(* The constructor of the record; write number 0 is its initial content.   *)
Init ==
  /\ mem = [l \in Loc |-> 0]
  /\ pend = {}
  /\ ver = 0
  /\ wpc = "idle"
  /\ wi = 1
  /\ crashes = 0
  /\ rop = [r \in Readers |-> "init"]
  /\ rpc = [r \in Readers |-> "idle"]
  /\ rback = [r \in Readers |-> 0]
  /\ rtmp = [r \in Readers |-> 0]
  /\ ri = [r \in Readers |-> 1]
  /\ buf = [r \in Readers |-> [w \in Word |-> 0]]
  /\ ntry = [r \in Readers |-> 0]
  /\ attempts = [r \in Readers |-> 0]
  /\ vfront = [r \in Readers |-> 0]
  /\ seen = [r \in Readers |-> [w \in Word |-> 0]]

-----------------------------------------------------------------------------
(* The writer: init(const U* ) and the copy_to_rhs functions.              *)

(* ++front_guard, then the release fence.                                  *)
WBegin ==
  /\ wpc = "idle"
  /\ ver < MaxWrites
  /\ ver' = ver + 1
  /\ pend' = pend \cup {Store(FrontLoc, ver + 1)}
  /\ wi' = 1
  /\ wpc' = "copy"
  /\ UNCHANGED <<mem, crashes, readerVars>>

(* std::copy stores one word; after the last one comes the release fence.  *)
WCopy ==
  /\ wpc = "copy"
  /\ pend' = pend \cup {Store(wi, ver)}
  /\ wi' = wi + 1
  /\ wpc' = IF wi = NumWords THEN "seal" ELSE "copy"
  /\ UNCHANGED <<mem, ver, crashes, readerVars>>

(* ++back_guard, which leaves the guards apart after a cut short write.    *)
WSealIncrement ==
  /\ wpc = "seal"
  /\ pend' = pend \cup {Store(BackLoc, ver - crashes)}
  /\ wpc' = "idle"
  /\ UNCHANGED <<mem, ver, wi, crashes, readerVars>>

(* back_guard = front_guard.                                               *)
WSeal ==
  /\ wpc = "seal"
  /\ pend' = pend \cup {Store(BackLoc, ver)}
  /\ wpc' = "idle"
  /\ UNCHANGED <<mem, ver, wi, crashes, readerVars>>

(* The writing process dies; what it has stored still reaches memory.      *)
WCrash ==
  /\ wpc \in {"copy", "seal"}
  /\ crashes < MaxCrashes
  /\ ver < MaxWrites
  /\ crashes' = crashes + 1
  /\ wpc' = "crashed"
  /\ UNCHANGED <<mem, pend, ver, wi, readerVars>>

(* A new process attaches to the segment and goes on with the guards it    *)
(* finds in it: its next ++front_guard starts from front_guard in memory.  *)
WRestart ==
  /\ wpc = "crashed"
  /\ pend = {}
  /\ ver' = mem[FrontLoc]
  /\ wpc' = "idle"
  /\ UNCHANGED <<mem, pend, wi, crashes, readerVars>>

(* A store of the writer reaches memory.                                   *)
Publish(s) ==
  /\ Ordered(s)
  /\ mem' = [mem EXCEPT ![s.loc] = s.ver]
  /\ pend' = pend \ {s}
  /\ UNCHANGED <<writerVars, readerVars>>

-----------------------------------------------------------------------------
(* A reader r.                                                             *)

Idle == {"idle", "done", "gaveup"}

(* One run of the loop of try_copy_to_rhs_reverse_order less or the end of *)
(* it, judged by try_iter < num_try with try_iter = 0.                     *)
TryFrom(n) == IF n > 0 THEN "load" ELSE "gaveup"

(* The call of one of init_reverse_order, copy_to_rhs_reverse_order and    *)
(* try_copy_to_rhs_reverse_order.                                          *)
RCall(r, op) ==
  /\ rpc[r] \in Idle
  /\ rop' = [rop EXCEPT ![r] = op]
  /\ rpc' = [rpc EXCEPT ![r] = CASE op = "init" -> "load"
                                 [] op = "copy" -> "cmp"
                                 [] op = "try"  -> TryFrom(NumTry)]
  /\ ntry' = [ntry EXCEPT ![r] = NumTry]
  /\ attempts' = [attempts EXCEPT ![r] = 0]
  /\ UNCHANGED <<mem, pend, writerVars, rback, rtmp, ri, buf, vfront, seen>>

(* copy_to_rhs_reverse_order compares front_guard == back_guard; the       *)
(* compiler chooses which operand, at location l, is loaded first.         *)
RCompareFirst(r, l) ==
  /\ rpc[r] = "cmp"
  /\ rtmp' = [rtmp EXCEPT ![r] = mem[l]]
  /\ rpc' = [rpc EXCEPT ![r] = IF l = FrontLoc THEN "cmpBack" ELSE "cmpFront"]
  /\ UNCHANGED <<mem, pend, writerVars, rop, rback, ri, buf, ntry, attempts,
                 vfront, seen>>

(* The other operand is loaded; the loop starts over when they differ.     *)
RCompareSecond(r, l) ==
  /\ rpc[r] = IF l = FrontLoc THEN "cmpFront" ELSE "cmpBack"
  /\ rpc' = [rpc EXCEPT ![r] =
               IF Guard(mem[l]) = Guard(rtmp[r]) THEN "load" ELSE "cmp"]
  /\ UNCHANGED <<mem, pend, writerVars, rop, rback, rtmp, ri, buf, ntry,
                 attempts, vfront, seen>>

(* The guards loaded in the order they are written: the front guard first. *)
RLoadFront(r) ==
  /\ rpc[r] = "load"
  /\ rback' = [rback EXCEPT ![r] = mem[FrontLoc]]
  /\ ri' = [ri EXCEPT ![r] = 1]
  /\ attempts' = [attempts EXCEPT ![r] =
                    IF rop[r] = "try" /\ @ <= NumTry THEN @ + 1 ELSE @]
  /\ rpc' = [rpc EXCEPT ![r] = IF rop[r] = "init" THEN "check" ELSE "copy"]
  /\ UNCHANGED <<mem, pend, writerVars, rop, rtmp, buf, ntry, vfront, seen>>

(* The back guard is loaded.  init_reverse_order compares it with the      *)
(* front guard next, the others copy right away.                           *)
RLoadBack(r) ==
  /\ rpc[r] = "load"
  /\ rback' = [rback EXCEPT ![r] = mem[BackLoc]]
  /\ ri' = [ri EXCEPT ![r] = 1]
  /\ attempts' = [attempts EXCEPT ![r] =
                    IF rop[r] = "try" /\ @ <= NumTry THEN @ + 1 ELSE @]
  /\ rpc' = [rpc EXCEPT ![r] = IF rop[r] = "init" THEN "check" ELSE "copy"]
  /\ UNCHANGED <<mem, pend, writerVars, rop, rtmp, buf, ntry, vfront, seen>>

(* init_reverse_order copies only a record that looks stable.              *)
RCheck(r) ==
  /\ rpc[r] = "check"
  /\ rpc' = [rpc EXCEPT ![r] =
               IF Guard(mem[FrontLoc]) = Guard(rback[r]) THEN "copy" ELSE "load"]
  /\ UNCHANGED <<mem, pend, writerVars, rop, rback, rtmp, ri, buf, ntry,
                 attempts, vfront, seen>>

(* std::copy of one word too many.                                         *)
RCopyPastEnd(r) ==
  /\ rpc[r] = "copy"
  /\ buf' = [buf EXCEPT ![r][ri[r]] = mem[ri[r]]]
  /\ ri' = [ri EXCEPT ![r] = @ + 1]
  /\ rpc' = [rpc EXCEPT ![r] = IF ri[r] <= NumWords THEN "copy"
                               ELSE IF rop[r] = "init" THEN "own" ELSE "verify"]
  /\ UNCHANGED <<mem, pend, writerVars, rop, rback, rtmp, ntry, attempts,
                 vfront, seen>>

(* std::copy loads one word.                                               *)
RCopy(r) ==
  /\ rpc[r] = "copy"
  /\ buf' = [buf EXCEPT ![r][ri[r]] = mem[ri[r]]]
  /\ ri' = [ri EXCEPT ![r] = @ + 1]
  /\ rpc' = [rpc EXCEPT ![r] = IF ri[r] < NumWords THEN "copy"
                               ELSE IF rop[r] = "init" THEN "own" ELSE "verify"]
  /\ UNCHANGED <<mem, pend, writerVars, rop, rback, rtmp, ntry, attempts,
                 vfront, seen>>

(* init_reverse_order takes over the front guard into its own record.      *)
ROwn(r) ==
  /\ rpc[r] = "own"
  /\ rtmp' = [rtmp EXCEPT ![r] = mem[FrontLoc]]
  /\ rpc' = [rpc EXCEPT ![r] = "verify"]
  /\ UNCHANGED <<mem, pend, writerVars, rop, rback, ri, buf, ntry, attempts,
                 vfront, seen>>

(* A call that checks after its copy that the back guard did not change.   *)
RVerifyBack(r) ==
  /\ rpc[r] = "verify"
  /\ Guard(mem[BackLoc]) = Guard(rback[r])
  /\ rpc' = [rpc EXCEPT ![r] = "done"]
  /\ vfront' = [vfront EXCEPT ![r] = mem[BackLoc]]
  /\ seen' = [seen EXCEPT ![r] =
                IF Apart(mem[BackLoc], rback[r]) THEN @ ELSE buf[r]]
  /\ UNCHANGED <<mem, pend, writerVars, rop, rback, rtmp, ri, buf, ntry,
                 attempts>>

(* The front guard is loaded again.  If it equals the back guard loaded    *)
(* before the copy, the call returns; otherwise the loop starts over, and  *)
(* the one of try_copy_... increments num_try instead of try_iter.         *)
RVerify(r) ==
  /\ rpc[r] = "verify"
  /\ IF Guard(mem[FrontLoc]) = Guard(rback[r])
       THEN /\ rpc' = [rpc EXCEPT ![r] = "done"]
            /\ vfront' = [vfront EXCEPT ![r] = mem[FrontLoc]]
            /\ seen' = [seen EXCEPT ![r] =
                          IF Apart(mem[FrontLoc], rback[r]) THEN @ ELSE buf[r]]
            /\ UNCHANGED ntry
       ELSE /\ ntry' = [ntry EXCEPT ![r] =
                          IF rop[r] = "try" THEN (@ + 1) % SizeMod ELSE @]
            /\ rpc' = [rpc EXCEPT ![r] = CASE rop[r] = "init" -> "load"
                                           [] rop[r] = "copy" -> "cmp"
                                           [] rop[r] = "try" -> TryFrom(ntry'[r])]
            /\ UNCHANGED <<vfront, seen>>
  /\ UNCHANGED <<mem, pend, writerVars, rop, rback, rtmp, ri, buf, attempts>>

-----------------------------------------------------------------------------
Writer == WBegin \/ WCopy \/ WSeal
Memory == \E s \in pend : Publish(s)
Step(r) ==
  \/ \E l \in {FrontLoc, BackLoc} : RCompareFirst(r, l) \/ RCompareSecond(r, l)
  \/ RLoadBack(r) \/ RCheck(r) \/ RCopy(r) \/ ROwn(r) \/ RVerify(r)
Reader(r) == (\E op \in {"init", "copy", "try"} : RCall(r, op)) \/ Step(r)

Next == Writer \/ WCrash \/ WRestart \/ Memory \/ \E r \in Readers : Reader(r)

Spec == Init /\ [][Next]_vars

(* A living writer goes on writing, a dead one is started again, stores    *)
(* reach memory and a reader in the middle of a call goes on.  A reader    *)
(* need not call again, and the writer need not die.                       *)
Fairness ==
  /\ WF_vars(Writer) /\ WF_vars(WRestart) /\ WF_vars(Memory)
  /\ \A r \in Readers : WF_vars(Step(r))

FairSpec == Spec /\ Fairness

-----------------------------------------------------------------------------
Buffer == [Word -> 0 .. MaxWrites]

TypeOK ==
  /\ mem \in [Loc -> 0 .. MaxWrites]
  /\ pend \subseteq {Store(l, v) : l \in Loc, v \in 1 .. MaxWrites}
  /\ ver \in 0 .. MaxWrites
  /\ wpc \in {"idle", "copy", "seal", "crashed"}
  /\ wi \in 1 .. NumWords + 1
  /\ crashes \in 0 .. MaxCrashes
  /\ rop \in [Readers -> {"init", "copy", "try"}]
  /\ rpc \in [Readers -> Idle \cup {"cmp", "cmpFront", "cmpBack", "load",
                                    "check", "copy", "own", "verify"}]
  /\ rback \in [Readers -> 0 .. MaxWrites]
  /\ rtmp \in [Readers -> 0 .. MaxWrites]
  /\ ri \in [Readers -> 1 .. NumWords + 1]
  /\ buf \in [Readers -> Buffer]
  /\ ntry \in [Readers -> 0 .. SizeMod-1]
  /\ attempts \in [Readers -> 0 .. NumTry + 1]
  /\ vfront \in [Readers -> 0 .. MaxWrites]
  /\ seen \in [Readers -> Buffer]

(* The order of the fences, as seen from any other process: no word is     *)
(* older than the back guard or newer than the front guard, so that equal  *)
(* guards mean a record of one write, also after the writer died half way. *)
Sandwich == \A w \in Word : mem[BackLoc] <= mem[w] /\ mem[w] <= mem[FrontLoc]

(* A reader that returns has a record of a single write, the one its back  *)
(* guard names, and init_reverse_order leaves equal guards in its own      *)
(* record.  The only way out is a guard that wrapped during the call: at   *)
(* least GuardMod writes between the two loads that were compared.         *)
Wrapped(r) == Apart(vfront[r], rback[r])

TornOnlyIfWrapped ==
  \A r \in Readers : rpc[r] = "done" /\ ~Wrapped(r) =>
    /\ \A w \in Word : buf[r][w] = rback[r]
    /\ rop[r] = "init" => rtmp[r] = rback[r]

(* The record a reader would obtain now, and the abstract record: a write  *)
(* takes effect when its back guard becomes visible.                       *)
Sealed == [w \in Word |-> mem[BackLoc]]

(* Reads and writes are atomic: a returned record is the one that is       *)
(* current at the instant of the last load of the guard, unless a guard    *)
(* wrapped during the call.                                                *)
Atomic == INSTANCE AtomicRecord WITH
            Record <- Buffer, Blank <- [w \in Word |-> 0],
            reg <- Sealed, ret <- seen

ImplementsAtomicRecord == Atomic!Spec

(* A call returns once the writer pauses, also when a writer died in the   *)
(* middle of a write: the next complete write heals the record.            *)
ReadersReturn ==
  \A r \in Readers : rpc[r] \notin Idle ~> rpc[r] \in Idle

(* try_copy_to_rhs_reverse_order copies at most num_try times.             *)
TryBounded == \A r \in Readers : attempts[r] <= NumTry

=============================================================================
