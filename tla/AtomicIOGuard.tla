---------------------------- MODULE AtomicIOGuard ----------------------------
(***************************************************************************)
(* util_ipc::atomic_ioguard (atomic_ioguard/atomic_ioguard.h): the         *)
(* sequence lock of IOGuard with its two guards in one atomic variable, so *)
(* that they are always stored and loaded together.  The file names a      *)
(* memory_order_aquire that does not exist; the model takes it for         *)
(* memory_order_acquire.                                                   *)
(*                                                                         *)
(* As in IOGuard a word or a guard holds the number of the write it comes  *)
(* from, and a store becomes visible some time after it was issued, in     *)
(* order only across a release fence and at one location.                  *)
(***************************************************************************)
EXTENDS Integers

CONSTANTS
  Readers,    (* the readers                                           *)
  NumWords,   (* num_64bit_reads                                       *)
  GuardMod,   (* 2^w for the w bits of guard_type                      *)
  MaxWrites,  (* bound: number of writes begun                         *)
  MaxCrashes  (* bound: number of times the writer dies                *)

ASSUME GuardConstants ==
  /\ NumWords \in Nat \ {0}
  /\ GuardMod \in Nat \ {0, 1}
  /\ MaxWrites \in Nat
  /\ MaxCrashes \in Nat

VARIABLES
  guard,    (* the member guard of the shared record, in memory           *)
  data,     (* its words, in memory                                       *)
  pend,     (* stores of the writer that are not visible yet              *)
  local,    (* local_guard of the writer, its own view of guard           *)
  wpc,      (* next step of the writer                                    *)
  wi,       (* the word std::copy writes next                             *)
  crashes,  (* number of times the writer died                            *)
  rop,      (* the function a reader is in                                *)
  rpc,      (* its next step                                              *)
  rback,    (* its back_guard                                             *)
  ri,       (* the word std::copy reads next                              *)
  buf,      (* the destination of its std::copy                           *)
  vfront,   (* the front guard that made it accept its copy               *)
  seen      (* history: the last record copy_to_rhs_reverse_order gave it *)
            (* in a call during which no guard wrapped                    *)

writerVars == <<local, wpc, wi, crashes>>
readerVars == <<rop, rpc, rback, ri, buf, vfront, seen>>
vars == <<guard, data, pend, writerVars, readerVars>>

Word == 1 .. NumWords

(* What a variable of type guard_type holds of the count n.                *)
Reduced(n) == n % GuardMod

(* Guards GuardMod or more counts apart may look alike.                    *)
Apart(front, back) == front - back >= GuardMod

(* guard_t                                                                 *)
Pair(f, b) == [front |-> f, back |-> b]

(* A store to word l, or to guard when l is 0.                             *)
Store(l, f, b) == [loc |-> l, val |-> Pair(f, b)]

(* Epoch if init() did not fence between the words and the clean guard.    *)
EpochOneFence(s) == 2 * s.val.front - (IF s.loc # 0 \/ s.val.front = s.val.back
                                         THEN 1 ELSE 2)

(* How many times the writer had fenced when it issued store s: write v    *)
(* fences after the dirty guard, whose halves differ, and after the words. *)
Epoch(s) == 2 * s.val.front - (IF s.loc # 0 THEN 1
                               ELSE IF s.val.front = s.val.back THEN 0 ELSE 2)

(* Store s may become visible: the stores of earlier epochs are, and so is *)
(* the earlier one of two stores to guard.                                 *)
Ordered(s) ==
  \A t \in pend :
    /\ Epoch(s) <= Epoch(t)
    /\ s.loc = t.loc => s.val.front <= t.val.front

(* What the guard of a record that nobody ever wrote holds.                *)
Fresh == Pair(0, 0)

Init ==
  /\ guard = Fresh
  /\ data = [w \in Word |-> 0]
  /\ pend = {}
  /\ local = Fresh
  /\ wpc = "idle"
  /\ wi = 1
  /\ crashes = 0
  /\ rop = [r \in Readers |-> "init"]
  /\ rpc = [r \in Readers |-> "idle"]
  /\ rback = [r \in Readers |-> 0]
  /\ ri = [r \in Readers |-> 1]
  /\ buf = [r \in Readers |-> [w \in Word |-> 0]]
  /\ vfront = [r \in Readers |-> 0]
  /\ seen = [r \in Readers |-> [w \in Word |-> 0]]

-----------------------------------------------------------------------------
(* The writer: init(const U* ), to which every copy_to_rhs delegates.      *)

(* The guard is loaded, its front half incremented and stored back, then   *)
(* the release fence.                                                      *)
WBegin ==
  /\ wpc = "idle"
  /\ local.front < MaxWrites
  /\ local' = [local EXCEPT !.front = @ + 1]
  /\ pend' = pend \cup {Store(0, local.front + 1, local.back)}
  /\ wi' = 1
  /\ wpc' = "copy"
  /\ UNCHANGED <<guard, data, crashes, readerVars>>

(* std::copy stores one word; after the last one comes the release fence.  *)
WCopy ==
  /\ wpc = "copy"
  /\ pend' = pend \cup {Store(wi, local.front, local.front)}
  /\ wi' = wi + 1
  /\ wpc' = IF wi = NumWords THEN "seal" ELSE "copy"
  /\ UNCHANGED <<guard, data, local, crashes, readerVars>>

(* ++local_guard.back in place of the assignment.                          *)
WSealIncrement ==
  /\ wpc = "seal"
  /\ local' = [local EXCEPT !.back = @ + 1]
  /\ pend' = pend \cup {Store(0, local.front, local.back + 1)}
  /\ wpc' = "idle"
  /\ UNCHANGED <<guard, data, wi, crashes, readerVars>>

(* local_guard.back = local_guard.front, and the guard is stored.          *)
WSeal ==
  /\ wpc = "seal"
  /\ local' = [local EXCEPT !.back = local.front]
  /\ pend' = pend \cup {Store(0, local.front, local.front)}
  /\ wpc' = "idle"
  /\ UNCHANGED <<guard, data, wi, crashes, readerVars>>

(* The writing process dies; what it has stored still reaches memory.      *)
WCrash ==
  /\ wpc \in {"copy", "seal"}
  /\ crashes < MaxCrashes
  /\ local.front < MaxWrites
  /\ crashes' = crashes + 1
  /\ wpc' = "crashed"
  /\ UNCHANGED <<guard, data, pend, local, wi, readerVars>>

(* A new process attaches to the segment and loads the guard it finds.     *)
WRestart ==
  /\ wpc = "crashed"
  /\ pend = {}
  /\ local' = guard
  /\ wpc' = "idle"
  /\ UNCHANGED <<guard, data, pend, wi, crashes, readerVars>>

(* A store of the writer reaches memory.                                   *)
Publish(s) ==
  /\ Ordered(s)
  /\ pend' = pend \ {s}
  /\ IF s.loc = 0
       THEN guard' = s.val /\ UNCHANGED data
       ELSE data' = [data EXCEPT ![s.loc] = s.val.front] /\ UNCHANGED guard
  /\ UNCHANGED <<writerVars, readerVars>>

-----------------------------------------------------------------------------
(* A reader r.                                                             *)

Idle == {"idle", "done"}

(* The guard a function loads: copy_to_rhs_reverse_order, a member of the  *)
(* shared record, loads that of the shared record; init_reverse_order, a   *)
(* member of the reader's own record, loads its own and not rhs->guard.    *)
LoadedGuard(op) == IF op = "copy" THEN guard ELSE Fresh

(* The call of init_reverse_order or copy_to_rhs_reverse_order.            *)
RCall(r, op) ==
  /\ rpc[r] \in Idle
  /\ rop' = [rop EXCEPT ![r] = op]
  /\ rpc' = [rpc EXCEPT ![r] = "load"]
  /\ UNCHANGED <<guard, data, pend, writerVars, rback, ri, buf, vfront, seen>>

(* The guard is loaded and the record not tested for being stable.         *)
RLoadUntested(r) ==
  /\ rpc[r] = "load"
  /\ rback' = [rback EXCEPT ![r] = LoadedGuard(rop[r]).front]
  /\ ri' = [ri EXCEPT ![r] = 1]
  /\ rpc' = [rpc EXCEPT ![r] = "copy"]
  /\ UNCHANGED <<guard, data, pend, writerVars, rop, buf, vfront, seen>>

(* The guard is loaded; only a record that looks stable is copied.         *)
RLoad(r) ==
  /\ rpc[r] = "load"
  /\ LET g == LoadedGuard(rop[r]) IN
       /\ rback' = [rback EXCEPT ![r] = g.back]
       /\ rpc' = [rpc EXCEPT ![r] =
                    IF Reduced(g.front) = Reduced(g.back) THEN "copy" ELSE @]
  /\ ri' = [ri EXCEPT ![r] = 1]
  /\ UNCHANGED <<guard, data, pend, writerVars, rop, buf, vfront, seen>>

(* std::copy loads one word.                                               *)
RCopy(r) ==
  /\ rpc[r] = "copy"
  /\ buf' = [buf EXCEPT ![r][ri[r]] = data[ri[r]]]
  /\ ri' = [ri EXCEPT ![r] = @ + 1]
  /\ rpc' = [rpc EXCEPT ![r] = IF ri[r] < NumWords THEN "copy" ELSE "verify"]
  /\ UNCHANGED <<guard, data, pend, writerVars, rop, rback, vfront, seen>>

(* The guard is loaded again: the call returns when its front half is the  *)
(* back half loaded before the copy, and starts over otherwise.            *)
RVerify(r) ==
  /\ rpc[r] = "verify"
  /\ LET f == LoadedGuard(rop[r]).front IN
       IF Reduced(f) = Reduced(rback[r])
         THEN /\ rpc' = [rpc EXCEPT ![r] = "done"]
              /\ vfront' = [vfront EXCEPT ![r] = f]
              /\ seen' = [seen EXCEPT ![r] =
                            IF rop[r] = "copy" /\ ~Apart(f, rback[r])
                              THEN buf[r] ELSE @]
         ELSE /\ rpc' = [rpc EXCEPT ![r] = "load"]
              /\ UNCHANGED <<vfront, seen>>
  /\ UNCHANGED <<guard, data, pend, writerVars, rop, rback, ri, buf>>

-----------------------------------------------------------------------------
Writer == WBegin \/ WCopy \/ WSeal
Memory == \E s \in pend : Publish(s)
Step(r) == RLoad(r) \/ RCopy(r) \/ RVerify(r)
Reader(r) == (\E op \in {"init", "copy"} : RCall(r, op)) \/ Step(r)

Next == Writer \/ WCrash \/ WRestart \/ Memory \/ \E r \in Readers : Reader(r)

Spec == Init /\ [][Next]_vars

(* As for IOGuard: the writer goes on, a dead one is started again, stores *)
(* reach memory and a reader in the middle of a call goes on.              *)
Fairness ==
  /\ WF_vars(Writer) /\ WF_vars(WRestart) /\ WF_vars(Memory)
  /\ \A r \in Readers : WF_vars(Step(r))

FairSpec == Spec /\ Fairness

-----------------------------------------------------------------------------
Count  == 0 .. MaxWrites
Buffer == [Word -> Count]

(* A guard wrapped during the call: at least GuardMod writes were begun    *)
(* between the two loads that were compared.                               *)
Wrapped(r) == Apart(vfront[r], rback[r])

(* What a call returned is a record of one write.                          *)
Whole(r) == \A v, w \in Word : buf[r][v] = buf[r][w]

(* copy_to_rhs_reverse_order returns the record of the write its guard     *)
(* names, unless the guard wrapped.                                        *)
CopyTornOnlyIfWrapped ==
  \A r \in Readers : rpc[r] = "done" /\ rop[r] = "copy" /\ ~Wrapped(r) =>
    \A w \in Word : buf[r][w] = rback[r]

(* init_reverse_order returns a record of one write, as the assertion of   *)
(* the reader in multi_thread_demo_atomic_ioguard.cpp demands.  The code   *)
(* does not keep this: it looks at the guard of the wrong object.          *)
InitWhole == \A r \in Readers : rpc[r] = "done" /\ rop[r] = "init" => Whole(r)

(* Writes and the calls of copy_to_rhs_reverse_order are atomic; a write   *)
(* takes effect when its clean guard becomes visible.  Calls during which  *)
(* a guard wrapped are left out.                                           *)
Atomic == INSTANCE AtomicRecord WITH
            Record <- Buffer, Blank <- [w \in Word |-> 0],
            reg <- [w \in Word |-> guard.back], ret <- seen

ImplementsAtomicRecord == Atomic!Spec

(* A call returns once the writer pauses, also when a writer died in the   *)
(* middle of a write and a new one has completed the next.                 *)
ReadersReturn == \A r \in Readers : rpc[r] \in {"load", "copy", "verify"} ~>
                                      rpc[r] = "done"

=============================================================================
