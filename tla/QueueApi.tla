------------------------------ MODULE QueueApi ------------------------------
(***************************************************************************)
(* All the functions of circular_queue, called one after the other: what   *)
(* the queue holds after any sequence of calls that its comments allow,    *)
(* those included that SpscQueue and MpscQueue have no use for (a writer   *)
(* that clobbers, a reader that catches up, pop_back, at).                 *)
(*                                                                         *)
(* elems, the queue as its caller thinks of it, is history: the code only  *)
(* has the two offsets and the slots.                                      *)
(***************************************************************************)
EXTENDS CircularQueue, Sequences

CONSTANTS
  MaxPush,    (* bound: number of elements pushed by the caller            *)
  MaxBehind   (* the reader is never further behind the writer than this   *)

ASSUME ApiConstants ==
  /\ MaxPush \in Nat
  /\ MaxBehind \in Size .. IntMod-1

VARIABLES
  elems,     (* history: the elements pushed and not popped                *)
  clobber,   (* history: the tail after a clobbering push, at its furthest *)
  fresh,     (* history: number of elements the caller has pushed          *)
  held,      (* the pointer of begin() is being read from: the element it  *)
             (* had then, as a sequence of at most one                     *)
  behind,    (* the reader has measured by how much it is behind, or 0     *)
  seen       (* history: _tail_offset when it measured                     *)

readerVars == <<held, behind, seen>>
queueVars  == <<tail, head, data, elems, clobber>>
apiVars    == <<queueVars, fresh, readerVars>>

(* The constructor and the factory; element 0 stands for what a slot holds *)
(* before it is written.                                                   *)
Construct ==
  /\ tail = 0
  /\ head = 0
  /\ data = [s \in 0 .. Size-1 |-> 0]

ApiInit ==
  /\ Construct
  /\ elems = <<>>
  /\ clobber = 0
  /\ fresh = 0
  /\ held = <<>>
  /\ behind = 0
  /\ seen = 0

-----------------------------------------------------------------------------
(* The functions that look                                                 *)

Empty == Word(tail) = Word(head)

(* What front() and back() refer to; they throw at an empty queue.         *)
Front == data[Slot(head)]
Back  == data[Slot(tail-1)]

(* at() that takes the end for an element.                                 *)
AtThrowsLate(x) == x < Word(head) \/ x > Word(tail)

(* at(x) throws out_of_range, of a word x.                                 *)
AtThrows(x) == x < Word(head) \/ x >= Word(tail)

At(x) == data[x % Size]

-----------------------------------------------------------------------------
(* The functions that change                                               *)

(* *end() = v, or *end_clobber() = v, and push_back().                     *)
Store(v) ==
  /\ data' = [data EXCEPT ![Slot(tail)] = v]
  /\ tail' = tail + 1
  /\ elems' = Append(elems, v)
  /\ UNCHANGED head

(* The slot that end() has is written and pushed.                          *)
PushBack(v) ==
  /\ ~EndIsNull(tail, head)
  /\ Store(v)
  /\ UNCHANGED clobber

(* The same with end_clobber(), which has a slot also of a full queue.     *)
PushClobber(v) ==
  /\ Store(v)
  /\ clobber' = IF tail + 1 > clobber THEN tail + 1 ELSE clobber

(* atomic_push_back_get_end(), which has no check either, and the write.   *)
AtomicPush(v) == PushClobber(v)

PopFront ==
  /\ head' = head + 1
  /\ elems' = Tail(elems)
  /\ UNCHANGED <<tail, data, clobber>>

PopBack ==
  /\ tail' = tail - 1
  /\ elems' = SubSeq(elems, 1, Len(elems)-1)
  /\ UNCHANGED <<head, data, clobber>>

(* pop_n_front by one too many.                                            *)
PopNFrontOver(n) ==
  /\ head' = head + n + 1
  /\ elems' = SubSeq(elems, n + 2, Len(elems))
  /\ UNCHANGED <<tail, data, clobber>>

PopNFront(n) ==
  /\ head' = head + n
  /\ elems' = SubSeq(elems, n + 1, Len(elems))
  /\ UNCHANGED <<tail, data, clobber>>

-----------------------------------------------------------------------------
(* Any caller                                                              *)

(* The writer pushes a new element, and waits when end() is null; or does  *)
(* not care.                                                               *)
CallPush ==
  /\ fresh < MaxPush
  /\ fresh' = fresh + 1
  /\ PushBack(fresh + 1)
  /\ UNCHANGED readerVars

CallPushClobber ==
  /\ fresh < MaxPush
  /\ tail - head < MaxBehind
  /\ fresh' = fresh + 1
  /\ PushClobber(fresh + 1)
  /\ UNCHANGED readerVars

(* The writer takes its last element back.  The comment on pop_back wants  *)
(* that no reader is at work; that much is not needed: it must leave the   *)
(* element that is being read, and not come between the two steps of a     *)
(* reader that catches up.                                                 *)
CallPopBack ==
  /\ tail - head > Len(held)
  /\ behind = 0
  /\ PopBack
  /\ UNCHANGED <<fresh, readerVars>>

(* The reader has the oldest element from begin().                         *)
CallBegin ==
  /\ held = <<>> /\ behind = 0
  /\ ~BeginIsNull(tail, head)
  /\ held' = <<elems[1]>>
  /\ UNCHANGED <<queueVars, fresh, behind, seen>>

(* It is done with it.                                                     *)
CallPopFront ==
  /\ held # <<>>
  /\ PopFront
  /\ held' = <<>>
  /\ UNCHANGED <<fresh, behind, seen>>

(* The reader sees that there are more elements than slots.                *)
CallSize ==
  /\ held = <<>> /\ behind = 0
  /\ SizeOf(tail, head) > Size
  /\ behind' = SizeOf(tail, head) - Size
  /\ seen' = tail
  /\ UNCHANGED <<queueVars, fresh, held>>

(* And gives up those that were written over.                              *)
CallPopNFront ==
  /\ behind > 0
  /\ PopNFront(behind)
  /\ behind' = 0
  /\ UNCHANGED <<fresh, held, seen>>

Call ==
  \/ CallPush \/ CallPushClobber \/ CallPopBack
  \/ CallBegin \/ CallPopFront \/ CallSize \/ CallPopNFront

-----------------------------------------------------------------------------
(* The words of the offsets that are in the queue.                         *)
Live == {Word(head + i - 1) : i \in 1 .. Len(elems)}

(* No clobbering push has written over the i-th element, nor over one that *)
(* was there before and has been taken back since.                         *)
Spared(i) == clobber - Size <= head + i - 1

(* The queue holds what its caller pushed and did not pop, in order, and   *)
(* empty(), front() and back() say so, with the exception of what a        *)
(* clobbering push has written over.  A pop_back that undoes that push     *)
(* does not undo the loss.  The element a reader has from begin() stays    *)
(* where it is until it is popped.                                         *)
Intact ==
  /\ Len(elems) = tail - head
  /\ \A i \in DOMAIN elems : Spared(i) => data[Slot(head + i - 1)] = elems[i]
  /\ Empty <=> elems = <<>>
  /\ ~Empty /\ Spared(1) => Front = elems[1]
  /\ ~Empty /\ Spared(Len(elems)) => Back = elems[Len(elems)]
  /\ held # <<>> => held[1] = elems[1]

(* begin() returns null "if the beginnig is clobbered", as its comment      *)
(* says.  The code does not keep this: it compares the offsets only, and   *)
(* returns the slot, which has a newer element.                            *)
NullWhenClobbered == elems # <<>> /\ ~Spared(1) => BeginIsNull(tail, head)

(* at() never refers to an element that is not in the queue, and refers to *)
(* the right one.  It refuses an element of the queue only, and then every *)
(* one, while the tail has wrapped and the head has not.                   *)
AtExact ==
  \A x \in 0 .. IntMod-1 :
    /\ AtThrows(x) <=> x \notin Live \/ Word(tail) < Word(head)
    /\ \A i \in DOMAIN elems :
         Word(head + i - 1) = x /\ Spared(i) => At(x) = elems[i]

(* A reader that skips as many elements as size() is too large finds a     *)
(* full queue of elements that are all there, if nothing was pushed since  *)
(* it called size() and no clobbering push was undone before.              *)
CatchUpStep ==
  behind > 0 /\ behind' = 0 /\ tail = seen /\ clobber <= tail =>
    /\ tail' - head' = Size
    /\ data'[Slot(head')] = elems'[1]
    /\ \A i \in 1 .. Size : data'[Slot(head' + i - 1)] = elems[behind + i]

CatchUpFinds == [][CatchUpStep]_apiVars

=============================================================================
