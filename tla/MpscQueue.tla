----------------------------- MODULE MpscQueue -----------------------------
(***************************************************************************)
(* Producers that push with circular_queue::atomic_push_back_get_end, and  *)
(* one consumer.  A producer asks end() whether there is room, as the      *)
(* documentation of the function requires, and then runs the statement of  *)
(* test2 in circular_queue_cpp11/test/test1_circular_queue.cpp,            *)
(*                                                                         *)
(*   *cq->atomic_push_back_get_end() = i;                                  *)
(*                                                                         *)
(* which moves _tail_offset first and writes the element afterwards.  The  *)
(* consumer runs the loop of SpscQueue without its test of the element.    *)
(* Stores are buffered as in SpscQueue; the locked instruction of          *)
(* fetch_add waits until the buffer of its producer is empty.              *)
(***************************************************************************)
EXTENDS CircularQueue, FiniteSets

CONSTANTS
  Producers,   (* the producers                                           *)
  M,           (* number of elements each of them pushes                  *)
  LoadsFirst   (* which offset size() loads first, "tail" or "head": C++  *)
               (* leaves that to the build, which may do either each time *)

ASSUME ProducerConstants ==
  /\ IsFiniteSet(Producers)
  /\ "nobody" \notin Producers
  /\ M \in Nat
  /\ LoadsFirst \subseteq {"tail", "head"}
  /\ LoadsFirst # {}

VARIABLES
  pend,     (* stores of the producers that are not visible yet         *)
  ppc,      (* next step of each producer; "tail" and "head" when       *)
            (* size() has loaded that offset and not the other          *)
  loaded,   (* the offset it has loaded                                 *)
  claim,    (* the offset whose slot a producer was given last          *)
  pushed,   (* number of elements each producer has written             *)
  owner,    (* the element meant for each offset handed out, history    *)
  inUse,    (* a slot was handed out that was still in use, history     *)
  chead,    (* _head_offset as the consumer sees it                     *)
  cpc,      (* next step of the consumer                                *)
  got       (* what the consumer read last                              *)

producerVars == <<ppc, loaded, claim, pushed, owner, inUse>>
consumerVars == <<chead, cpc, got>>
vars == <<tail, head, data, pend, producerVars, consumerVars>>

Total == Cardinality(Producers) * M
Raw == [by |-> "nobody", nr |-> 0]
Element(p, i) == [by |-> p, nr |-> i]
Elements == {Element(p, i) : p \in Producers, i \in 0 .. M-1} \cup {Raw}

Init ==
  /\ tail = 0
  /\ head = 0
  /\ data = [s \in 0 .. Size-1 |-> Raw]
  /\ pend = {}
  /\ ppc = [p \in Producers |-> IF M > 0 THEN "check" ELSE "done"]
  /\ loaded = [p \in Producers |-> 0]
  /\ claim = [p \in Producers |-> 0]
  /\ pushed = [p \in Producers |-> 0]
  /\ owner = [k \in 0 .. Total-1 |-> Raw]
  /\ inUse = FALSE
  /\ chead = 0
  /\ cpc = IF Total > 0 THEN "check" ELSE "done"
  /\ got = Raw

-----------------------------------------------------------------------------
(* size() in end(): the first of its two loads.                            *)
PLoad(p) ==
  /\ ppc[p] = "check"
  /\ \E first \in LoadsFirst :
       /\ loaded' = [loaded EXCEPT ![p] = IF first = "tail" THEN tail ELSE head]
       /\ ppc' = [ppc EXCEPT ![p] = first]
  /\ UNCHANGED <<tail, head, data, pend, claim, pushed, owner, inUse,
                 consumerVars>>

(* The second load, and the test of end(): there is a slot, or the         *)
(* producer asks again.                                                    *)
PCheck(p) ==
  LET t == IF ppc[p] = "tail" THEN loaded[p] ELSE tail
      h == IF ppc[p] = "head" THEN loaded[p] ELSE head
  IN /\ ppc[p] \in {"tail", "head"}
     /\ ppc' = [ppc EXCEPT ![p] = IF EndIsNull(t, h) THEN "check" ELSE "claim"]
     /\ loaded' = [loaded EXCEPT ![p] = 0]
     /\ UNCHANGED <<tail, head, data, pend, claim, pushed, owner, inUse,
                    consumerVars>>

(* The previous element of the slot of offset k is unread, or not even     *)
(* written yet, which happens when the consumer popped it before.          *)
StillInUse(k) ==
  k >= Size /\ (k - head >= Size \/ data[Slot(k)] # owner[k - Size])

(* atomic_push_back_get_end(): fetch_add(1) on _tail_offset returns the    *)
(* offset claimed.                                                         *)
PClaim(p) ==
  /\ ppc[p] = "claim"
  /\ \A s \in pend : s.by # p
  /\ tail' = tail + 1
  /\ claim' = [claim EXCEPT ![p] = tail]
  /\ owner' = [owner EXCEPT ![tail] = Element(p, pushed[p])]
  /\ inUse' = (inUse \/ StillInUse(tail))
  /\ ppc' = [ppc EXCEPT ![p] = "write"]
  /\ UNCHANGED <<head, data, pend, loaded, pushed, consumerVars>>

(* The slot computed from a second load of _tail_offset, after the claim.  *)
PWriteNewest(p) ==
  /\ ppc[p] = "write"
  /\ pend' = pend \cup {[by |-> p, at |-> tail - 1, nr |-> pushed[p]]}
  /\ pushed' = [pushed EXCEPT ![p] = @ + 1]
  /\ ppc' = [ppc EXCEPT ![p] = IF pushed[p] + 1 < M THEN "check" ELSE "done"]
  /\ UNCHANGED <<tail, head, data, loaded, claim, owner, inUse,
                 consumerVars>>

(* The element is stored in the slot.                                      *)
PWrite(p) ==
  /\ ppc[p] = "write"
  /\ pend' = pend \cup {[by |-> p, at |-> claim[p], nr |-> pushed[p]]}
  /\ pushed' = [pushed EXCEPT ![p] = @ + 1]
  /\ ppc' = [ppc EXCEPT ![p] = IF pushed[p] + 1 < M THEN "check" ELSE "done"]
  /\ UNCHANGED <<tail, head, data, loaded, claim, owner, inUse,
                 consumerVars>>

(* The store of an element reaches memory.                                 *)
Publish(s) ==
  /\ pend' = pend \ {s}
  /\ data' = [data EXCEPT ![Slot(s.at)] = Element(s.by, s.nr)]
  /\ UNCHANGED <<tail, head, producerVars, consumerVars>>

-----------------------------------------------------------------------------
(* begin() returns an element.                                             *)
CCheck ==
  /\ cpc = "check"
  /\ ~BeginIsNull(tail, chead)
  /\ cpc' = "load"
  /\ UNCHANGED <<tail, head, data, pend, producerVars, chead, got>>

(* *begin() is read.                                                       *)
CLoad ==
  /\ cpc = "load"
  /\ got' = data[Slot(chead)]
  /\ cpc' = "pop"
  /\ UNCHANGED <<tail, head, data, pend, producerVars, chead>>

(* pop_front().                                                            *)
CPop ==
  /\ cpc = "pop"
  /\ chead' = chead + 1
  /\ cpc' = IF chead + 1 < Total THEN "check" ELSE "done"
  /\ UNCHANGED <<tail, head, data, pend, producerVars, got>>

(* The oldest invisible ++_head_offset reaches memory.                     *)
PublishHead ==
  /\ head < chead
  /\ head' = head + 1
  /\ UNCHANGED <<tail, data, pend, producerVars, consumerVars>>

-----------------------------------------------------------------------------
Finished == cpc = "done" /\ \A p \in Producers : ppc[p] = "done"

Terminated ==
  /\ Finished
  /\ pend = {}
  /\ head = chead
  /\ UNCHANGED vars

Producer(p) == PLoad(p) \/ PCheck(p) \/ PClaim(p) \/ PWrite(p)
Consumer == CCheck \/ CLoad \/ CPop
Memory   == (\E s \in pend : Publish(s)) \/ PublishHead

Next == (\E p \in Producers : Producer(p)) \/ Consumer \/ Memory \/ Terminated

Spec == Init /\ [][Next]_vars

(* Every process is scheduled again and again and stores reach memory.     *)
Fairness ==
  /\ \A p \in Producers : WF_vars(Producer(p))
  /\ WF_vars(Consumer) /\ WF_vars(Memory)

FairSpec == Spec /\ Fairness

-----------------------------------------------------------------------------
(* The loads of end(), its test and the claim are steps of their own, so   *)
(* the producers may overrun the queue together, but by fewer slots than   *)
(* there are producers: each acts on one answer of end() only, and an      *)
(* offset that was loaded early serves one claim.                          *)
OverrunBounded == tail - head <= Size + Cardinality(Producers) - 1

(* When all the producers are through and their stores visible, every      *)
(* element still in the queue is in the slot of the offset it was given,   *)
(* unless a slot was handed out while still in use: producers that claim   *)
(* and write at the same time lose nothing in any other way.               *)
QuiescentComplete ==
  ((\A p \in Producers : ppc[p] = "done") /\ pend = {} /\ ~inUse) =>
    \A k \in head .. tail-1 : data[Slot(k)] = owner[k]

(* As many elements are popped as were pushed, whatever the overruns.      *)
AllPopped == <>(Finished /\ head = Total /\ tail = Total)

(* begin() hands the consumer the oldest element of the queue, as its      *)
(* documentation says, and so one that has been written.  The code does    *)
(* not keep this: a slot counts as pushed before it is written.            *)
DeliversOldest == cpc = "pop" => got = owner[chead]

=============================================================================
