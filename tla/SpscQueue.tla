----------------------------- MODULE SpscQueue -----------------------------
(***************************************************************************)
(* One producer process and one consumer process that share a              *)
(* util_ipc::circular_queue, running the loops of                          *)
(* circular_queue_cpp11/test/test1_circular_queue_in_shared_memory.cpp:    *)
(*                                                                         *)
(*   producer  for (i=0; i<N;)                                             *)
(*               if (cq->end() != 0) { *cq->end() = i; cq->push_back(); ++i; } *)
(*   consumer  for (i=0; i<N;)                                             *)
(*               if (cq->begin() != 0) {                                   *)
(*                 if (i != *cq->begin()) return 1;                        *)
(*                 cq->pop_front(); ++i; }                                 *)
(*                                                                         *)
(* A store is issued by its process and becomes visible to the other one   *)
(* later (the store buffer of the processor, the freedom of the compiler). *)
(* sfence, called by push_back, separates stores into epochs, and a store  *)
(* stays invisible while one of an earlier epoch is.  Stores of the same   *)
(* epoch become visible in any order.  A process always sees its own       *)
(* stores, and executes its loads in program order.                        *)
(***************************************************************************)
EXTENDS CircularQueue, Sequences

CONSTANT N  (* number of elements the two loops pass, their common bound *)

ASSUME LoopBound == N \in Nat

VARIABLES
  pend,   (* stores of the producer that are not visible yet            *)
  ptail,  (* _tail_offset as the producer sees it                       *)
  ppc,    (* next step of the producer                                  *)
  chead,  (* _head_offset as the consumer sees it                       *)
  cpc,    (* next step of the consumer                                  *)
  got     (* what the consumer read last, Raw before the first read     *)

producerVars == <<ptail, ppc>>
consumerVars == <<chead, cpc, got>>
vars == <<tail, head, data, pend, ptail, ppc, chead, cpc, got>>

Raw == -1  (* what a slot holds before its first write *)

DataStore(n) == [kind |-> "data", n |-> n]  (* *end() = n, to the slot of n *)
TailStore(n) == [kind |-> "tail", n |-> n]  (* _tail_offset becomes n       *)

(* Epoch if push_back() did not fence.                                     *)
EpochUnfenced(s) == 0

(* How many times the producer had called sfence when it issued store s:   *)
(* the n-th push_back fences first and then makes _tail_offset n.          *)
Epoch(s) == s.n

(* Store s may become visible: every store of an earlier epoch already is. *)
Ordered(s) == \A t \in pend : Epoch(s) <= Epoch(t)

(* factory() on a fresh segment, before either loop starts.                *)
Init ==
  /\ tail = 0
  /\ head = 0
  /\ data = [s \in 0 .. Size-1 |-> Raw]
  /\ pend = {}
  /\ ptail = 0
  /\ ppc = IF N > 0 THEN "check" ELSE "done"
  /\ chead = 0
  /\ cpc = IF N > 0 THEN "check" ELSE "done"
  /\ got = Raw

-----------------------------------------------------------------------------
(* The producer.                                                           *)

(* The loop without its condition.                                         *)
PCheckUntested ==
  /\ ppc = "check"
  /\ ppc' = "write"
  /\ UNCHANGED <<tail, head, data, pend, ptail, consumerVars>>

(* The condition of the loop: the first end() returns a slot.              *)
PCheck ==
  /\ ppc = "check"
  /\ ~EndIsNull(ptail, head)
  /\ ppc' = "write"
  /\ UNCHANGED <<tail, head, data, pend, ptail, consumerVars>>

(* The second end() reads the offsets again; its result is dereferenced    *)
(* without a test.                                                         *)
PWrite ==
  /\ ppc = "write"
  /\ IF EndIsNull(ptail, head)
       THEN /\ ppc' = "crashed"
            /\ UNCHANGED pend
       ELSE /\ ppc' = "push"
            /\ pend' = pend \cup {DataStore(ptail)}
  /\ UNCHANGED <<tail, head, data, ptail, consumerVars>>

(* push_back() in a loop that runs once too often, i<=N for i<N.           *)
PPushOnceMore ==
  /\ ppc = "push"
  /\ ptail' = ptail + 1
  /\ pend' = pend \cup {TailStore(ptail + 1)}
  /\ ppc' = IF ptail < N THEN "check" ELSE "done"
  /\ UNCHANGED <<tail, head, data, consumerVars>>

(* push_back(): sfence, then ++_tail_offset.                               *)
PPush ==
  /\ ppc = "push"
  /\ ptail' = ptail + 1
  /\ pend' = pend \cup {TailStore(ptail + 1)}
  /\ ppc' = IF ptail + 1 < N THEN "check" ELSE "done"
  /\ UNCHANGED <<tail, head, data, consumerVars>>

(* A store of the producer reaches memory.                                 *)
Publish(s) ==
  /\ Ordered(s)
  /\ pend' = pend \ {s}
  /\ IF s.kind = "tail"
       THEN tail' = s.n /\ UNCHANGED data
       ELSE data' = [data EXCEPT ![Slot(s.n)] = s.n] /\ UNCHANGED tail
  /\ UNCHANGED <<head, producerVars, consumerVars>>

-----------------------------------------------------------------------------
(* The consumer.                                                           *)

(* The condition of the loop: the first begin() returns an element.        *)
CCheck ==
  /\ cpc = "check"
  /\ ~BeginIsNull(tail, chead)
  /\ cpc' = "begin"
  /\ UNCHANGED <<tail, head, data, pend, producerVars, chead, got>>

(* The second begin() reads the offsets again; its result is dereferenced  *)
(* without a test.                                                         *)
CBegin ==
  /\ cpc = "begin"
  /\ cpc' = IF BeginIsNull(tail, chead) THEN "crashed" ELSE "load"
  /\ UNCHANGED <<tail, head, data, pend, producerVars, chead, got>>

(* *begin() is read.                                                       *)
CLoad ==
  /\ cpc = "load"
  /\ got' = data[Slot(chead)]
  /\ cpc' = "pop"
  /\ UNCHANGED <<tail, head, data, pend, producerVars, chead>>

(* The element is the expected one (the test fails otherwise, and the      *)
(* consumer returns), then pop_front().                                    *)
CPop ==
  /\ cpc = "pop"
  /\ IF got = chead
       THEN /\ chead' = chead + 1
            /\ cpc' = IF chead + 1 < N THEN "check" ELSE "done"
       ELSE /\ cpc' = "failed"
            /\ UNCHANGED chead
  /\ UNCHANGED <<tail, head, data, pend, producerVars, got>>

(* The oldest invisible ++_head_offset reaches memory.                     *)
PublishHead ==
  /\ head < chead
  /\ head' = head + 1
  /\ UNCHANGED <<tail, data, pend, producerVars, consumerVars>>

-----------------------------------------------------------------------------
(* Both processes have returned or died and their stores are visible.      *)
Terminated ==
  /\ ppc \in {"done", "crashed"}
  /\ cpc \in {"done", "failed", "crashed"}
  /\ pend = {}
  /\ head = chead
  /\ UNCHANGED vars

Producer == PCheck \/ PWrite \/ PPush
Consumer == CCheck \/ CBegin \/ CLoad \/ CPop
Memory   == (\E s \in pend : Publish(s)) \/ PublishHead

Next == Producer \/ Consumer \/ Memory \/ Terminated

Spec == Init /\ [][Next]_vars

(* Both processes are scheduled again and again, and an issued store is    *)
(* not held back for ever.                                                 *)
Fairness == WF_vars(Producer) /\ WF_vars(Consumer) /\ WF_vars(Memory)

FairSpec == Spec /\ Fairness

-----------------------------------------------------------------------------
(* Every variable holds what the code can put there: offsets between 0 and *)
(* the loop bound, elements in slots, stores that some step issues.        *)
Store == {DataStore(n) : n \in 0 .. N} \cup {TailStore(n) : n \in 0 .. N}

TypeOK ==
  /\ tail \in 0 .. N
  /\ head \in 0 .. N
  /\ data \in [0 .. Size-1 -> 0 .. N \cup {Raw}]
  /\ pend \subseteq Store
  /\ ptail \in 0 .. N
  /\ ppc \in {"check", "write", "push", "done", "crashed"}
  /\ chead \in 0 .. N
  /\ cpc \in {"check", "begin", "load", "pop", "done", "failed", "crashed"}
  /\ got \in 0 .. N \cup {Raw}

(* The consumer reads the elements once each and in the order they were    *)
(* pushed: the value in hand when it pops is the one with its offset, so   *)
(* neither a slot whose data is not visible yet nor one already written    *)
(* over is ever read, and the test of the consumer loop never fails.       *)
FifoDelivery ==
  /\ cpc = "pop" => got = chead
  /\ cpc # "failed"

(* The unchecked second calls of end() and begin() never return null: the  *)
(* other process moves its offset only away from the full or empty state   *)
(* the first call excluded.                                                *)
NoNullDeref == ppc # "crashed" /\ cpc # "crashed"

(* The elements pushed and not yet read, oldest first.                     *)
taken == IF cpc = "pop" THEN chead + 1 ELSE chead

Unread == [j \in 1 .. tail - taken |-> data[Slot(taken + j - 1)]]

(* The queue is a bounded FIFO: a push takes effect when its tail store    *)
(* becomes visible, a pop when the consumer has read the element, and      *)
(* whatever is buffered in between never shows.                            *)
Fifo == INSTANCE BoundedFifo WITH
          Capacity <- Size, queue <- Unread, put <- tail, got <- got

ImplementsFifo == Fifo!Spec

(* A slot is written over only after the pop of the element in it has      *)
(* become visible to the producer, even with every store delayed.          *)
NoUnreadOverwrite ==
  [][\A s \in 0 .. Size-1 :
       data'[s] # data[s] => data[s] = Raw \/ data[s] < head]_vars

(* begin() finds an element whenever the consumer can see a pushed one, as *)
(* its documentation says (circular_queue.h, "returns a pointer to the     *)
(* oldest object in the queue.  If the queue is empty it returns a         *)
(* nullptr").                                                              *)
BeginFindsOldest == tail > chead => ~BeginIsNull(tail, chead)

(* Both loops end: no interleaving, delay or wrap of the offsets leaves    *)
(* the producer on a queue that never drains or the consumer on one that   *)
(* never fills.                                                            *)
AllDelivered == <>(ppc = "done" /\ cpc = "done" /\ head = N /\ tail = N)

=============================================================================
