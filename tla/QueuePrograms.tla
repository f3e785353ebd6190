--------------------------- MODULE QueuePrograms ---------------------------
(***************************************************************************)
(* A queue in the memory of one process, and what uses it: any caller, or  *)
(* one of the programs test1 to test4 of circular_queue_cpp98 and its test *)
(* of a mapped file, which is chosen once.  Those programs have their      *)
(* loops and variables here, and their number of elements, N, is too small *)
(* for an offset to wrap, so that the two classes are the same to them.    *)
(***************************************************************************)
EXTENDS QueueApi, CustomRand

CONSTANTS
  N,      (* N of the programs                                             *)
  Offset  (* OFFSET, the number of elements they start with                *)

ASSUME ProgramConstants ==
  /\ Offset \in 1 .. Size
  /\ N \in Offset .. IntMod-1

VARIABLES
  prog,  (* the program, or "any" caller                                   *)
  pc,    (* its next step                                                  *)
  i,     (* i, the number of elements pushed                               *)
  j,     (* j, the number of elements popped                               *)
  k,     (* k, the element at() is asked for, or how often to pop or push  *)
  l      (* l, how often it has popped or pushed                           *)

loopVars == <<i, j, k, l>>
programVars == <<apiVars, prog, pc, loopVars>>

Programs == {"test1", "test1Atomic", "test1Mapped", "test2", "test3", "test4"}

ProgramInit ==
  /\ ApiInit
  /\ prog \in Programs \cup {"any"}
  /\ pc = "fill"
  /\ i = 0
  /\ j = 0
  /\ k = 0
  /\ l = 0

-----------------------------------------------------------------------------
(* Rand.put_seed(n), Rand.rand().                                          *)
Random(n) == Rand(PutSeed(DefaultGenerator, n))

(* The n-th element: n itself, or the n-th random number.                  *)
Nth(n) == IF prog \in {"test2", "test3"} THEN Random(n) ELSE n

(* *cq->end() = ..., which has no slot in a full queue, and push_back().   *)
Push ==
  IF prog = "test1Atomic" THEN AtomicPush(Nth(i)) ELSE PushBack(Nth(i))

Fail ==
  /\ pc' = "failed"
  /\ UNCHANGED <<queueVars, loopVars>>

(* The first OFFSET elements.                                              *)
Fill ==
  /\ pc = "fill"
  /\ IF i < Offset
       THEN Push /\ i' = i + 1 /\ UNCHANGED <<pc, j, k, l>>
       ELSE /\ pc' = IF prog = "test1Mapped" THEN "reopen" ELSE "loop"
            /\ UNCHANGED <<queueVars, loopVars>>

(* The test of a mapped file closes the queue, and opens it with open_only *)
(* where it is, at another address.                                        *)
Reopen ==
  /\ pc = "reopen"
  /\ pc' = "loop"
  /\ UNCHANGED <<queueVars, loopVars>>

(* *cq->begin() is compared with the j-th element.                         *)
Matches == ~BeginIsNull(tail, head) /\ Front = Nth(j)

(* The heads of the loops of test1, its second version and test2.          *)
Loop ==
  /\ pc = "loop"
  /\ \/ /\ i < N /\ Matches
        /\ pc' = IF prog \in {"test2", "test1Mapped"} THEN "turn" ELSE "at"
        /\ k' = j
        /\ UNCHANGED <<queueVars, i, j, l>>
     \/ i < N /\ ~Matches /\ Fail
     \/ i >= N /\ pc' = "passed" /\ UNCHANGED <<queueVars, loopVars>>

(* test1 looks at all the elements.                                        *)
LookAt ==
  /\ pc = "at"
  /\ \/ /\ k < j + SizeOf(tail, head) /\ ~AtThrows(k) /\ At(k) = k
        /\ k' = k + 1
        /\ UNCHANGED <<queueVars, pc, i, j, l>>
     \/ k < j + SizeOf(tail, head) /\ (AtThrows(k) \/ At(k) # k) /\ Fail
     \/ k >= j + SizeOf(tail, head) /\ pc' = "turn" /\ UNCHANGED <<queueVars, loopVars>>

(* One element is popped ...                                               *)
Turn ==
  /\ pc = "turn"
  /\ PopFront
  /\ pc' = "push"
  /\ UNCHANGED loopVars

(* ... and one pushed; end() must not be null.                             *)
TurnPush ==
  /\ pc = "push"
  /\ IF prog # "test1Atomic" /\ EndIsNull(tail, head) THEN Fail
     ELSE /\ Push
          /\ i' = i + 1 /\ j' = j + 1 /\ pc' = "loop" /\ UNCHANGED <<k, l>>

(* k = Rand.rand() % SIZE + 1, of which only the range is kept.            *)
Draw(next) ==
  /\ k' \in 1 .. Size
  /\ l' = 0
  /\ pc' = next
  /\ UNCHANGED <<queueVars, i, j>>

(* The heads of the loops of test3 and test4.                              *)
DrawLoop ==
  /\ pc = "loop"
  /\ \/ i < N /\ Draw("drain")
     \/ i >= N /\ pc' = "passed" /\ UNCHANGED <<queueVars, loopVars>>

(* They pop up to k elements ...                                           *)
Drain ==
  LET more == l < k /\ ~BeginIsNull(tail, head) IN
  /\ pc = "drain"
  /\ \/ /\ more /\ Matches
        /\ PopFront
        /\ j' = j + 1 /\ l' = l + 1
        /\ UNCHANGED <<pc, i, k>>
     \/ more /\ ~Matches /\ Fail
     \/ ~more /\ Draw("refill")

(* ... and push up to k.                                                   *)
Refill ==
  LET more == l < k /\ i < N /\ ~EndIsNull(tail, head) IN
  /\ pc = "refill"
  /\ \/ /\ more
        /\ Push
        /\ i' = i + 1 /\ l' = l + 1
        /\ UNCHANGED <<pc, j, k>>
     \/ ~more /\ pc' = "loop" /\ UNCHANGED <<queueVars, loopVars>>

-----------------------------------------------------------------------------
Test1Steps == Fill \/ Loop \/ LookAt \/ Turn \/ TurnPush

Test1       == prog = "test1" /\ Test1Steps
Test1Atomic == prog = "test1Atomic" /\ Test1Steps
Test2       == prog = "test2" /\ (Fill \/ Loop \/ Turn \/ TurnPush)
Test1Mapped == prog = "test1Mapped" /\ (Fill \/ Reopen \/ Loop \/ Turn \/ TurnPush)
Test3       == prog = "test3" /\ (Fill \/ DrawLoop \/ Drain \/ Refill)
Test4       == prog = "test4" /\ (Fill \/ DrawLoop \/ Drain \/ Refill)

Run ==
  /\ Test1 \/ Test1Atomic \/ Test1Mapped \/ Test2 \/ Test3 \/ Test4
  /\ UNCHANGED <<fresh, readerVars, prog>>

CallAny == prog = "any" /\ Call /\ UNCHANGED <<prog, pc, loopVars>>

ProgramNext == Run \/ CallAny

(* A program runs until it ends.                                           *)
ProgramSpec == ProgramInit /\ [][ProgramNext]_programVars /\ WF_programVars(Run)

-----------------------------------------------------------------------------
(* The elements are the numbers the caller, the loops or the generator     *)
(* count and draw, which are never negative.                               *)
ProgramTypeOK ==
  /\ head \in Nat /\ tail \in head .. head + MaxBehind
  /\ \A s \in 0 .. Size-1 : data[s] \in 0 .. (MaxPush + N + DefaultC)
  /\ fresh \in 0 .. MaxPush
  /\ behind \in 0 .. MaxBehind - Size
  /\ pc \in {"fill", "reopen", "loop", "at", "turn", "push", "drain", "refill", "passed",
             "failed"}
  /\ i \in 0 .. N /\ j \in 0 .. N /\ k \in (0 .. N) \cup (1 .. Size) /\ l \in 0 .. Size

(* Every program passes: it finds each element at begin() and at() as it   *)
(* was pushed, whenever the queue runs full or empty, never lacks a slot,  *)
(* and ends.                                                               *)
DrillEnds == (prog \in Programs) ~> (pc = "passed")

=============================================================================
