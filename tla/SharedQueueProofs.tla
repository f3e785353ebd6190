--------------------------- MODULE SharedQueueProofs --------------------------
(***************************************************************************)
(* Proofs about SharedQueue for every _size, every number of elements,     *)
(* processes and runs, and every width of an offset that _size divides:    *)
(* what happens to a queue that processes create, open, use and remove in  *)
(* any order, and are killed in the middle of it.                          *)
(***************************************************************************)
EXTENDS SharedQueue, ModLemmas, SequenceTheorems, FiniteSetTheorems, TLAPS

Opening == {"remove", "open", "create", "size", "file", "fileNew", "map", "mapNew",
            "construct"}
Using   == {"check", "write", "push"}

(* A writer in one of these steps has an object that it made or found.     *)
Making  == {"size", "fileNew", "mapNew", "construct"}

-----------------------------------------------------------------------------
(* What the variables hold.                                                *)
WriterSteps == {"idle", "unlink"} \cup Opening \cup Using

WritersTyped ==
  /\ wpc \in [Writers -> WriterSteps]
  /\ wmode \in [Writers -> Modes]
  /\ wobj \in [Writers -> {0} \cup Objects]
  /\ wi \in [Writers -> 0 .. N-1]

ChildTyped ==
  /\ rpc \in {"idle", "open", "file", "map", "check", "load", "pop", "mismatch"}
  /\ robj \in {0} \cup Objects
  /\ ri \in 0 .. N-1

ObjectsTyped ==
  /\ obj \in Seq(QueueObject)
  /\ name \in {0} \cup Objects
  /\ log \in Seq(Seq(0 .. N-1))
  /\ Len(log) = Len(obj)
  /\ spoiled \subseteq Objects

ScalarsTyped ==
  /\ backend \in Backends
  /\ runs \in 0 .. MaxRuns
  /\ overlap \in BOOLEAN /\ clean \in BOOLEAN

Typed == WritersTyped /\ ChildTyped /\ ObjectsTyped /\ ScalarsTyped

(* A program makes one object at most.                                     *)
Creators == {w \in Writers : wpc[w] \in {"remove", "open", "create"}}

Budget == IsFiniteSet(Creators) /\ Len(obj) + Cardinality(Creators) <= runs

(* Where a program is fits the way it opens the queue.                     *)
Fits(pc, mode, o, i) ==
  /\ pc = "remove" => mode \in Afresh /\ backend = "shm"
  /\ pc = "open" /\ mode \in Afresh => backend = "shm"
  /\ pc = "create" => backend = "mmap" /\ mode # "open_only"
  /\ pc \in {"file", "map"} => mode \notin Afresh
  /\ pc \in {"file", "fileNew"} => backend = "mmap"
  /\ pc = "map" => o # 0
  /\ pc \in Making => mode # "open_only" /\ o # 0
  /\ pc \in Using => o # 0
  /\ pc \notin Using \cup {"unlink"} => i = 0

ModeFits == \A w \in Writers : Fits(wpc[w], wmode[w], wobj[w], wi[w])

ChildFits ==
  /\ rpc \in {"idle", "open", "file", "map"} => ri = 0
  /\ rpc \in {"map", "check", "load", "pop"} => robj # 0

-----------------------------------------------------------------------------
(* Writers that do not overlap.                                            *)

(* Of two writers one at most is opening the queue, and none is using one  *)
(* while another opens one that may exist.                                 *)
OneOpener ==
  \A w, v \in Writers : w # v /\ wpc[w] \in Opening =>
    /\ wpc[v] \notin Opening
    /\ wmode[w] \notin Afresh => wpc[v] \in {"idle", "unlink"}

(* The name is free when a new object is about to be made in memory, or by *)
(* open_or_create; a file keeps its name until it is mapped, or loses it.  *)
NameFree ==
  \A w \in Writers :
    /\ wpc[w] = "open" /\ wmode[w] \in Afresh => name = 0
    /\ wpc[w] = "create" /\ wmode[w] = "open_or_create" => name = 0
    /\ backend = "mmap" /\ wpc[w] \in {"size", "fileNew"} => name \in {0, wobj[w]}

(* Two writers have one queue only if the second one truncated it under    *)
(* the first one.                                                          *)
Exclusive ==
  \A w, v \in Writers :
    /\ w # v /\ wobj[w] = wobj[v]
    /\ wpc[w] \in Making \cup Using /\ wpc[v] \in Making \cup Using
    => wobj[w] \in spoiled

(* The way that may empty a queue under its users.                         *)
Risky(w) ==
  wmode[w] = IF backend = "shm" THEN "open_or_create" ELSE "create_only"

(* What the other ways make is a new object, of which nobody knows.        *)
MadeEmpty ==
  \A w \in Writers : wpc[w] \in Making /\ ~Risky(w) =>
    /\ obj[wobj[w]].head = 0 /\ obj[wobj[w]].tail = 0
    /\ wobj[w] \notin spoiled
    /\ \A v \in Writers : v # w => wobj[v] # wobj[w]

-----------------------------------------------------------------------------
(* What is in a queue.                                                     *)

(* The elements of queue q that are not popped are the last ones pushed.   *)
Kept(q, l) ==
  /\ q.tail = Len(l) % IntMod
  /\ Filled(q) <= Size /\ Filled(q) <= Len(l)
  /\ \A k \in 1 .. Filled(q) :
       q.data[(q.head + k - 1) % Size] = l[Len(l) - Filled(q) + k]

AllKept == \A o \in Objects \ spoiled : Kept(obj[o], log[o])

(* Between its test and its push a writer has room, and the child has an   *)
(* element to pop.                                                         *)
RoomLeft ==
  \A w \in Writers : wpc[w] = "push" /\ wobj[w] \notin spoiled =>
    Filled(obj[wobj[w]]) < Size

PopFinds ==
  rpc = "pop" /\ robj \notin spoiled => obj[robj].head # obj[robj].tail

-----------------------------------------------------------------------------
(* The numbers in a queue, when no process was killed.                     *)

(* Every writer pushes 0 .. N-1 once.                                      *)
NumberedAt(o) == \A k \in 1 .. Len(log[o]) : log[o][k] = (k-1) % N

UsedBy(w, o) == wobj[w] = o /\ wpc[w] \in Using

CountsAt(o) ==
  /\ \A w \in Writers : UsedBy(w, o) =>
       /\ Len(log[o]) % N = wi[w]
       /\ wpc[w] = "push" => obj[o].data[obj[o].tail % Size] = wi[w]
  /\ (\A w \in Writers : ~UsedBy(w, o)) => Len(log[o]) % N = 0

(* Every child pops as many.                                               *)
Expects(o) == IF ChildOn(o) THEN ri ELSE 0
PoppedAt(o) == (Len(log[o]) - Filled(obj[o])) % N = Expects(o)

Apart   == OneOpener /\ NameFree /\ Exclusive /\ MadeEmpty
Held    == AllKept /\ RoomLeft /\ PopFinds
Counted == \A o \in Objects \ spoiled : NumberedAt(o) /\ CountsAt(o) /\ PoppedAt(o)
Sound   == Typed /\ Budget /\ ModeFits /\ ChildFits

IInv == Sound /\ (~overlap => Apart /\ Held /\ (clean => Counted))

-----------------------------------------------------------------------------
(* One queue object.                                                       *)
LEMMA SharedTyped ==
  /\ Size \in Nat \ {0} /\ IntMod \in Nat \ {0} /\ Size < IntMod
  /\ N \in Nat \ {0} /\ IntMod % Size = 0
BY SharedConstants

(* Its offsets and elements; it is empty when the offsets are equal.       *)
LEMMA FilledTyped ==
  ASSUME NEW q \in QueueObject
  PROVE  /\ Filled(q) \in 0 .. IntMod-1
         /\ q.head \in 0 .. IntMod-1 /\ q.tail \in 0 .. IntMod-1
         /\ q.data \in [0 .. Size-1 -> 0 .. N-1]
         /\ Filled(q) = 0 <=> q.head = q.tail
<1>1. /\ q.head \in 0 .. IntMod-1 /\ q.tail \in 0 .. IntMod-1
      /\ q.data \in [0 .. Size-1 -> 0 .. N-1]
  BY DEF QueueObject, Offset
<1> PICK h \in 0 .. IntMod-1, g \in 0 .. IntMod-1, m \in Nat \ {0} :
      h = q.head /\ g = q.tail /\ m = IntMod
  BY <1>1, SharedTyped
<1>2. Filled(q) = (g - h) % m
  BY DEF Filled
<1>3. h \in 0 .. m-1 /\ g \in 0 .. m-1 /\ g - h \in Int
  OBVIOUS
<1>4. (g - h) % m \in 0 .. m-1
  BY <1>3, DivMod
<1>5. (g - h) % m = 0 <=> h = g
  <2>1. CASE h = g
    <3>1. (m * 0 + 0) % m = 0
      BY ModUnique
    <3>2. m * 0 + 0 = g - h
      BY <2>1, <1>3
    <3> QED
      BY <2>1, <3>1, <3>2
  <2>2. CASE h < g
    <3>1. g - h \in 0 .. m-1 /\ g - h # 0 /\ 0 \in Int
      BY <2>2, <1>3
    <3>2. (m * 0 + (g - h)) % m = g - h
      BY <3>1, ModUnique
    <3>3. m * 0 + (g - h) = g - h
      BY <1>3
    <3> QED
      BY <2>2, <3>1, <3>2, <3>3
  <2>3. CASE g < h
    <3>1. g - h + m \in 0 .. m-1 /\ g - h + m # 0 /\ -1 \in Int
      BY <2>3, <1>3
    <3>2. (m * (-1) + (g - h + m)) % m = g - h + m
      BY <3>1, ModUnique
    <3>3. m * (-1) + (g - h + m) = g - h
      BY <1>3
    <3> QED
      BY <2>3, <3>1, <3>2, <3>3
  <2> QED
    BY <1>3, <2>1, <2>2, <2>3
<1> QED
  BY <1>1, <1>2, <1>4, <1>5

(* The slot of the tail comes after those of the elements.                 *)
LEMMA TailSlot ==
  ASSUME NEW q \in QueueObject
  PROVE  /\ (q.head + Filled(q)) % IntMod = q.tail
         /\ (q.head + Filled(q)) % Size = q.tail % Size
<1> PICK h \in Int, t \in 0 .. IntMod-1, f \in Int :
      h = q.head /\ t = q.tail /\ f = Filled(q)
  BY FilledTyped, SharedTyped
<1>1. f = (t - h) % IntMod
  BY DEF Filled
<1>2. t - h \in Int /\ t \in Int
  BY SharedTyped
<1>3. (((t - h) % IntMod) + h) % IntMod = ((t - h) + h) % IntMod
  BY <1>2, SharedTyped, ModAdd, ZenonT(40)
<1>4. (t - h) + h = t /\ f + h = h + f
  BY SharedTyped
<1>5. (IntMod * 0 + t) % IntMod = t
  BY SharedTyped, ModUnique
<1>6. IntMod * 0 + t = t
  BY SharedTyped
<1>7. (h + f) % IntMod = t
  BY <1>1, <1>3, <1>4, <1>5, <1>6
<1>8. ((h + f) % IntMod) % Size = (h + f) % Size
  <2>1. h + f \in Int
    OBVIOUS
  <2> QED
    BY <2>1, SharedTyped, ModOfMod
<1> QED
  BY <1>7, <1>8

(* Elements of one queue have slots of their own.                          *)
LEMMA SlotsApart ==
  ASSUME NEW h \in Int, NEW i \in Int, NEW k \in Int, i < k, k - i < Size
  PROVE  (h + i) % Size # (h + k) % Size
<1> PICK a \in Int, b \in Int : a = h + i /\ b = h + k
  OBVIOUS
<1>1. a < b /\ b - a < Size
  BY SharedTyped
<1>2. a % Size # b % Size
  BY <1>1, SharedTyped, ModDiffer
<1> QED
  BY <1>2

(* An offset leads to a slot.                                              *)
LEMMA SlotTyped ==
  ASSUME NEW h \in Int
  PROVE  h % Size \in 0 .. Size-1
BY SharedTyped, DivMod

(* A queue that was constructed.                                           *)
LEMMA KeptEmpty ==
  ASSUME NEW d, d.head = 0, d.tail = 0
  PROVE  Kept(d, <<>>) /\ Filled(d) = 0
<1>1. (IntMod * 0 + 0) % IntMod = 0
  BY SharedTyped, ModUnique
<1>2. 0 % IntMod = 0 /\ Filled(d) = 0
  BY <1>1, SharedTyped DEF Filled
<1>3. Len(<<>>) = 0
  OBVIOUS
<1>4. 0 <= Size /\ 1 .. 0 = {}
  BY SharedTyped
<1> QED
  BY <1>2, <1>3, <1>4 DEF Kept

(* The object gets its length.                                             *)
LEMMA KeptSame ==
  ASSUME NEW q, NEW l, Kept(q, l), NEW d,
         d.head = q.head, d.tail = q.tail, d.data = q.data
  PROVE  Kept(d, l) /\ Filled(d) = Filled(q)
BY DEF Kept, Filled

(* A slot that is not in use is written.                                   *)
LEMMA KeptWrite ==
  ASSUME NEW q \in QueueObject, NEW l, Kept(q, l), Filled(q) < Size, NEW v,
         NEW d, d.head = q.head, d.tail = q.tail,
         d.data = [q.data EXCEPT ![q.tail % Size] = v]
  PROVE  /\ Kept(d, l) /\ Filled(d) = Filled(q)
         /\ d.data[d.tail % Size] = v
<1>0. q.tail \in Int /\ q.head \in Int /\ Filled(q) \in Nat
  BY FilledTyped, SharedTyped
<1>1. q.tail % Size \in 0 .. Size-1
  BY <1>0, SlotTyped
<1> PICK h \in Int, f \in Nat, j \in 0 .. Size-1 :
      h = q.head /\ f = Filled(q) /\ j = q.tail % Size
  BY <1>0, <1>1
<1>2. (h + f) % Size = j /\ f < Size
  BY TailSlot
<1>3. Filled(d) = f
  BY DEF Filled
<1>4. q.data \in [0 .. Size-1 -> 0 .. N-1]
  BY FilledTyped
<1>5. d.data[j] = v /\ \A i \in 0 .. Size-1 : i # j => d.data[i] = q.data[i]
  BY <1>4
<1>6. ASSUME NEW k \in 1 .. f
      PROVE  d.data[(h + k - 1) % Size] = q.data[(h + k - 1) % Size]
  <2> PICK i \in Int : i = k - 1
    OBVIOUS
  <2>1. h + k - 1 = h + i /\ i < f
    OBVIOUS
  <2>2. h \in Int /\ i \in Int /\ f \in Int /\ i < f /\ f - i < Size
    BY <1>2, SharedTyped
  <2>3. (h + i) % Size # (h + f) % Size
    BY <2>2, SlotsApart
  <2>4. h + i \in Int
    OBVIOUS
  <2>5. (h + i) % Size \in 0 .. Size-1
    BY <2>4, SlotTyped
  <2> QED
    BY <1>2, <1>5, <2>1, <2>3, <2>5
<1> QED
  BY <1>3, <1>5, <1>6 DEF Kept

(* The number of elements without a remainder.                             *)
LEMMA FilledIs ==
  ASSUME NEW m \in Nat \ {0}, NEW h \in 0 .. m-1, NEW t \in 0 .. m-1
  PROVE  (t - h) % m = IF h <= t THEN t - h ELSE t - h + m
<1>1. t - h \in Int /\ -1 \in Int /\ 0 \in Int
  OBVIOUS
<1>2. CASE h <= t
  <2>1. t - h \in 0 .. m-1
    BY <1>2
  <2>2. (m * 0 + (t - h)) % m = t - h
    BY <2>1, <1>1, ModUnique
  <2>3. m * 0 + (t - h) = t - h
    BY <1>1
  <2> QED
    BY <1>2, <2>2, <2>3
<1>3. CASE t < h
  <2>1. t - h + m \in 0 .. m-1
    BY <1>3
  <2>2. (m * (-1) + (t - h + m)) % m = t - h + m
    BY <2>1, <1>1, ModUnique
  <2>3. m * (-1) + (t - h + m) = t - h
    BY <1>1
  <2> QED
    BY <1>3, <2>2, <2>3
<1> QED
  BY <1>2, <1>3

(* The offset behind one, and the number of elements when the tail or the  *)
(* head moves to it.                                                       *)
After(x) == (x + 1) % IntMod
Between(h, t) == (t - h) % IntMod

(* The offset that follows another one.                                    *)
LEMMA OffsetNext ==
  ASSUME NEW t \in Offset
  PROVE  /\ After(t) = IF t + 1 = IntMod THEN 0 ELSE t + 1
         /\ After(t) \in Offset /\ t \in Int
<1> PICK m \in Nat \ {0} : m = IntMod
  BY SharedTyped
<1>1. t \in Int /\ 0 \in Int /\ t \in 0 .. m-1
  BY DEF Offset
<1>2. (m * 0 + t) % m = t
  BY <1>1, ModUnique
<1>3. m * 0 + t = t
  BY <1>1
<1>4. (t + 1) % m = IF (t % m) + 1 = m THEN 0 ELSE (t % m) + 1
  BY <1>1, ModNext
<1>5. After(t) = IF t + 1 = m THEN 0 ELSE t + 1
  BY <1>2, <1>3, <1>4 DEF After
<1> QED
  BY <1>1, <1>5 DEF Offset

(* The number of elements between two offsets, without the remainder.      *)
LEMMA BetweenIs ==
  ASSUME NEW h \in Offset, NEW t \in Offset
  PROVE  Between(h, t) = IF h <= t THEN t - h ELSE t - h + IntMod
<1>1. IntMod \in Nat \ {0} /\ h \in 0 .. IntMod-1 /\ t \in 0 .. IntMod-1
  BY SharedTyped DEF Offset
<1>2. (t - h) % IntMod = IF h <= t THEN t - h ELSE t - h + IntMod
  BY <1>1, FilledIs
<1> QED
  BY <1>2 DEF Between

(* A step of the tail adds an element, a step of the head takes one.       *)
LEMMA FilledStep ==
  ASSUME NEW h \in Offset, NEW t \in Offset
  PROVE  /\ Between(h, t) \in Nat
         /\ Between(h, t) + 1 < IntMod => Between(h, After(t)) = Between(h, t) + 1
         /\ h # t => Between(After(h), t) = Between(h, t) - 1 /\ 0 < Between(h, t)
<1> PICK m \in Nat \ {0} : m = IntMod
  BY SharedTyped
<1> PICK u \in Offset, v \in Offset :
      /\ u = After(t) /\ v = After(h)
      /\ u = IF t + 1 = m THEN 0 ELSE t + 1
      /\ v = IF h + 1 = m THEN 0 ELSE h + 1
  BY OffsetNext
<1>1. /\ h \in 0 .. m-1 /\ t \in 0 .. m-1 /\ u \in 0 .. m-1 /\ v \in 0 .. m-1
  BY DEF Offset
<1>2. /\ Between(h, t) = IF h <= t THEN t - h ELSE t - h + m
      /\ Between(h, u) = IF h <= u THEN u - h ELSE u - h + m
      /\ Between(v, t) = IF v <= t THEN t - v ELSE t - v + m
  BY BetweenIs
<1>3. Between(h, t) + 1 < m => Between(h, u) = Between(h, t) + 1
  BY <1>1, <1>2
<1>4. h # t => Between(v, t) = Between(h, t) - 1 /\ 0 < Between(h, t)
  BY <1>1, <1>2
<1>5. Between(h, t) \in Nat
  BY <1>1, <1>2
<1> QED
  BY <1>3, <1>4, <1>5

(* The elements of a queue are those between its offsets.                  *)
LEMMA FilledBetween ==
  ASSUME NEW q
  PROVE  Filled(q) = Between(q.head, q.tail)
BY DEF Filled, Between

(* A place in the ring that was reduced to an offset has the same slot.    *)
LEMMA SlotOfOffset ==
  ASSUME NEW a \in Int, NEW c \in Int
  PROVE  ((a % IntMod) + c) % Size = (a + c) % Size
<1>0. a % IntMod \in Int /\ a + c \in Int
  BY SharedTyped, DivMod
<1> PICK y \in Int, z \in Int : y = (a % IntMod) + c /\ z = a + c
  BY <1>0
<1>1. y % IntMod = z % IntMod
  BY SharedTyped, ModAdd
<1>2. (y % IntMod) % Size = y % Size /\ (z % IntMod) % Size = z % Size
  BY SharedTyped, ModOfMod
<1> QED
  BY <1>1, <1>2

(* The places of the last f members of a sequence that grows by one.       *)
LEMMA LastPlaces ==
  ASSUME NEW n \in Nat, NEW f \in Nat, f <= n, NEW n2 \in Nat, NEW f2 \in Nat,
         n2 = n + 1, f2 = f + 1, NEW k \in 1 .. f2, k # f2
  PROVE  k \in 1 .. f /\ n2 - f2 + k = n - f + k /\ n - f + k \in 1 .. n
OBVIOUS

(* The element behind the last one is pushed.                              *)
LEMMA KeptPush ==
  ASSUME NEW q \in QueueObject, NEW l \in Seq(0 .. N-1), Kept(q, l), Filled(q) < Size,
         NEW d, d.head = q.head, d.data = q.data,
         d.tail = After(q.tail)
  PROVE  /\ Kept(d, Append(l, q.data[q.tail % Size]))
         /\ Filled(d) = Filled(q) + 1
<1>0. /\ IntMod \in Nat \ {0} /\ q.head \in 0 .. IntMod-1 /\ q.tail \in 0 .. IntMod-1
      /\ Filled(q) \in Nat /\ Size \in Nat \ {0} /\ Len(l) \in Nat /\ q.tail \in Int
  BY FilledTyped, SharedTyped
<1> PICK m \in Nat \ {0} : m = IntMod
  BY <1>0
<1> PICK h \in 0 .. m-1, t \in 0 .. m-1, f \in Nat, s \in Nat \ {0}, n \in Nat :
      h = q.head /\ t = q.tail /\ f = Filled(q) /\ s = Size /\ n = Len(l)
  BY <1>0
<1>1. f < s /\ s < m /\ f <= n
  BY SharedTyped DEF Kept
<1>2. Filled(d) = f + 1
  <2>1. h \in Offset /\ t \in Offset /\ f = Between(h, t) /\ f + 1 < IntMod
    BY <1>0, <1>1, FilledBetween DEF Offset
  <2>2. Between(h, After(t)) = f + 1
    BY <2>1, FilledStep
  <2> QED
    BY <2>2, FilledBetween
<1> PICK x : x = q.data[q.tail % Size]
  OBVIOUS
<1> PICK l2 : l2 = Append(l, x)
  OBVIOUS
<1>3. /\ Len(l2) = n + 1 /\ l2[n+1] = x
      /\ \A i \in 1 .. n : l2[i] = l[i]
  <2>1. q.tail % Size \in 0 .. Size-1 /\ q.data \in [0 .. Size-1 -> 0 .. N-1]
    BY <1>0, FilledTyped, SlotTyped
  <2>2. x \in 0 .. N-1
    BY <2>1
  <2> QED
    BY <2>2
<1>4. d.tail = (n + 1) % m
  <2>1. t = n % m
    BY DEF Kept
  <2>2. n \in Int /\ 1 \in Int
    OBVIOUS
  <2>3. ((n % m) + 1) % m = (n + 1) % m
    BY <2>2, ModAdd
  <2> QED
    BY <2>1, <2>3 DEF After
<1> PICK n2 \in Nat, f2 \in Nat : n2 = n + 1 /\ f2 = f + 1
  OBVIOUS
<1>5. n2 = Len(l2) /\ f2 = Filled(d) /\ h = d.head
  BY <1>2, <1>3
<1>6. Filled(d) <= Size /\ Filled(d) <= Len(l2)
  BY <1>1, <1>2, <1>3
<1>7. d.tail = Len(l2) % IntMod
  BY <1>3, <1>4
<1>8. ASSUME NEW k \in 1 .. f2
      PROVE  d.data[(h + k - 1) % Size] = l2[n2 - f2 + k]
  <2>1. CASE k = f2
    <3>1. h + k - 1 = h + f /\ n2 - f2 + k = n + 1
      BY <2>1
    <3>2. (h + f) % Size = q.tail % Size
      BY TailSlot
    <3> QED
      BY <1>3, <3>1, <3>2
  <2>2. CASE k # f2
    <3>1. k \in 1 .. f /\ n2 - f2 + k = n - f + k /\ n - f + k \in 1 .. n
      BY <1>1, <2>2, LastPlaces, SMTT(30)
    <3>2. q.data[(h + k - 1) % Size] = l[n - f + k]
      BY <3>1 DEF Kept
    <3> QED
      BY <3>1, <3>2, <1>3
  <2> QED
    BY <2>1, <2>2
<1>9. Kept(d, l2)
  BY <1>5, <1>6, <1>7, <1>8 DEF Kept
<1> QED
  BY <1>2, <1>9

(* The first element is popped.                                            *)
LEMMA KeptPop ==
  ASSUME NEW q \in QueueObject, NEW l \in Seq(0 .. N-1), Kept(q, l), q.head # q.tail,
         NEW d, d.tail = q.tail, d.data = q.data,
         d.head = After(q.head)
  PROVE  /\ Kept(d, l)
         /\ Filled(d) = Filled(q) - 1
<1>0. /\ IntMod \in Nat \ {0} /\ q.head \in 0 .. IntMod-1 /\ q.tail \in 0 .. IntMod-1
      /\ Filled(q) \in Nat /\ Size \in Nat \ {0} /\ Len(l) \in Nat
  BY FilledTyped, SharedTyped
<1> PICK m \in Nat \ {0} : m = IntMod
  BY <1>0
<1> PICK h \in 0 .. m-1, t \in 0 .. m-1, f \in Nat, s \in Nat \ {0}, n \in Nat :
      h = q.head /\ t = q.tail /\ f = Filled(q) /\ s = Size /\ n = Len(l)
  BY <1>0
<1>1. f <= s /\ s < m /\ f <= n
  BY SharedTyped DEF Kept
<1>2. Filled(d) = f - 1 /\ 0 < f
  <2>1. h \in Offset /\ t \in Offset /\ f = Between(h, t) /\ h # t
    BY <1>0, FilledBetween DEF Offset
  <2>2. Between(After(h), t) = f - 1 /\ 0 < f
    BY <2>1, FilledStep
  <2> QED
    BY <2>2, FilledBetween
<1>3. ASSUME NEW k \in 1 .. f-1
      PROVE  d.data[(d.head + k - 1) % Size] = l[n - (f - 1) + k]
  <2> PICK a \in Int, c \in Int : a = h + 1 /\ c = k - 1
    OBVIOUS
  <2>1. ((a % IntMod) + c) % Size = (a + c) % Size
    BY SlotOfOffset
  <2>2. a % IntMod \in Int
    <3>1. a \in Int /\ IntMod \in Nat \ {0}
      BY <1>0
    <3>2. a % IntMod \in 0 .. IntMod-1
      BY <3>1, DivMod
    <3> QED
      BY <3>2
  <2>6. d.head = a % IntMod
    BY DEF After
  <2> PICK e \in Int : e = a % IntMod
    BY <2>2
  <2>3. d.head + k - 1 = (a % IntMod) + c /\ a + c = h + (k + 1) - 1
    <3>1. e + k - 1 = e + c /\ a + c = h + (k + 1) - 1
      BY SMTT(30)
    <3> QED
      BY <2>6, <3>1
  <2>4. k + 1 \in 1 .. f /\ n - f + (k + 1) = n - (f - 1) + k
    BY SMTT(30)
  <2>5. q.data[(h + (k + 1) - 1) % Size] = l[n - f + (k + 1)]
    BY <2>4 DEF Kept
  <2> QED
    BY <2>1, <2>3, <2>4, <2>5
<1>4. f - 1 <= s /\ f - 1 <= n
  BY <1>1
<1>5. d.tail = Len(l) % IntMod
  BY DEF Kept
<1> QED
  BY <1>2, <1>3, <1>4, <1>5 DEF Kept

(* The first element is the oldest one that was not popped.                *)
LEMMA KeptFirst ==
  ASSUME NEW q \in QueueObject, NEW l \in Seq(0 .. N-1), Kept(q, l), q.head # q.tail
  PROVE  /\ Len(l) - Filled(q) + 1 \in 1 .. Len(l)
         /\ q.data[q.head % Size] = l[Len(l) - Filled(q) + 1]
<1> PICK h \in Nat, f \in Nat, n \in Nat :
      h = q.head /\ f = Filled(q) /\ n = Len(l)
  BY FilledTyped, SharedTyped
<1>1. f # 0 /\ f <= n
  BY FilledTyped DEF Kept
<1>2. 1 \in 1 .. f /\ h + 1 - 1 = h
  BY <1>1
<1>3. q.data[(h + 1 - 1) % Size] = l[n - f + 1]
  BY <1>2 DEF Kept
<1> QED
  BY <1>1, <1>2, <1>3

(* The numbers that were pushed are counted from 0 again after N - 1.      *)
LEMMA CountNext ==
  ASSUME NEW c \in Int
  PROVE  (c + 1) % N = IF (c % N) + 1 = N THEN 0 ELSE (c % N) + 1
BY SharedTyped, ModNext

(* Nothing was pushed yet.                                                 *)
LEMMA CountZero == 0 % N = 0
<1>1. (N * 0 + 0) % N = 0
  BY SharedTyped, ModUnique
<1>2. N * 0 + 0 = 0
  BY SharedTyped
<1> QED
  BY <1>1, <1>2

-----------------------------------------------------------------------------
(* Types                                                                   *)

(* A sequence of objects or of logs with one replaced or one more.         *)
LEMMA ReplaceOne ==
  ASSUME NEW S, NEW s \in Seq(S), NEW o \in DOMAIN s, NEW x \in S
  PROVE  /\ [s EXCEPT ![o] = x] \in Seq(S)
         /\ DOMAIN [s EXCEPT ![o] = x] = DOMAIN s
         /\ Len([s EXCEPT ![o] = x]) = Len(s)
         /\ [s EXCEPT ![o] = x][o] = x
         /\ \A p \in DOMAIN s : p # o => [s EXCEPT ![o] = x][p] = s[p]
<1>1. o \in 1 .. Len(s)
  OBVIOUS
<1> QED
  BY <1>1, ExceptSeq

(* A sequence gets a new last member; the others stay as they are.         *)
LEMMA AddOne ==
  ASSUME NEW S, NEW s \in Seq(S), NEW x \in S
  PROVE  /\ Append(s, x) \in Seq(S)
         /\ DOMAIN Append(s, x) = DOMAIN s \cup {Len(s) + 1}
         /\ Len(Append(s, x)) = Len(s) + 1
         /\ Len(s) + 1 \notin DOMAIN s /\ Len(s) + 1 # 0
         /\ Append(s, x)[Len(s) + 1] = x
         /\ \A p \in DOMAIN s : Append(s, x)[p] = s[p]
<1>1. /\ Append(s, x) \in Seq(S) /\ Len(Append(s, x)) = Len(s) + 1
      /\ Append(s, x)[Len(s) + 1] = x
      /\ \A p \in 1 .. Len(s) : Append(s, x)[p] = s[p]
  BY AppendProperties
<1>2. DOMAIN s = 1 .. Len(s) /\ DOMAIN Append(s, x) = 1 .. Len(Append(s, x)) /\ Len(s) \in Nat
  BY <1>1
<1> QED
  BY <1>1, <1>2

(* A new object is an empty queue, sized or not.                           *)
LEMMA BlankTyped ==
  /\ Blank \in QueueObject
  /\ Blank.head = 0 /\ Blank.tail = 0
  /\ [Blank EXCEPT !.sized = TRUE] \in QueueObject
<1>1. [s \in 0 .. Size-1 |-> 0] \in [0 .. Size-1 -> 0 .. N-1]
  BY SharedTyped
<1> PICK z : z = [s \in 0 .. Size-1 |-> 0]
  OBVIOUS
<1>2. Blank = [sized |-> FALSE, head |-> 0, tail |-> 0, data |-> z]
  BY DEF Blank
<1>3. 0 \in Offset
  BY SharedTyped DEF Offset
<1> QED
  BY <1>1, <1>2, <1>3 DEF QueueObject

(* What a step of one writer does to the others: nothing.                  *)
Moves(w, pc, o, i) ==
  /\ WritersTyped'
  /\ wpc'[w] = pc /\ wobj'[w] = o /\ wi'[w] = i /\ wmode' = wmode
  /\ \A v \in Writers : v # w =>
       wpc'[v] = wpc[v] /\ wobj'[v] = wobj[v] /\ wi'[v] = wi[v]

(* What a step that touches one object does to the others, and to the logs.*)
Touches(o) ==
  /\ o \in Objects /\ obj' \in Seq(QueueObject)
  /\ Objects' = Objects /\ Len(obj') = Len(obj)
  /\ \A p \in Objects : p # o => obj'[p] = obj[p]

Rewrites(o, l) ==
  /\ log' \in Seq(Seq(0 .. N-1)) /\ Len(log') = Len(log)
  /\ log'[o] = l
  /\ \A p \in Objects : p # o => log'[p] = log[p]

(* The effect of an assignment to one object.                              *)
LEMMA TouchOne ==
  ASSUME ObjectsTyped, NEW o \in Objects, NEW d \in QueueObject,
         obj' = [obj EXCEPT ![o] = d]
  PROVE  Touches(o) /\ obj'[o] = d
<1>1. obj \in Seq(QueueObject) /\ o \in DOMAIN obj
  BY DEF ObjectsTyped, Objects
<1>2. /\ [obj EXCEPT ![o] = d] \in Seq(QueueObject)
      /\ DOMAIN [obj EXCEPT ![o] = d] = DOMAIN obj
      /\ Len([obj EXCEPT ![o] = d]) = Len(obj)
      /\ [obj EXCEPT ![o] = d][o] = d
      /\ \A p \in DOMAIN obj : p # o => [obj EXCEPT ![o] = d][p] = obj[p]
  BY <1>1, ReplaceOne
<1> QED
  BY <1>2 DEF Touches, Objects

(* The effect of an assignment to the log of one object.                   *)
LEMMA RewriteOne ==
  ASSUME ObjectsTyped, NEW o \in Objects, NEW l \in Seq(0 .. N-1),
         log' = [log EXCEPT ![o] = l]
  PROVE  Rewrites(o, l)
<1>1. log \in Seq(Seq(0 .. N-1)) /\ DOMAIN log = Objects
  BY LenProperties DEF ObjectsTyped, Objects
<1>2. /\ [log EXCEPT ![o] = l] \in Seq(Seq(0 .. N-1))
      /\ Len([log EXCEPT ![o] = l]) = Len(log)
      /\ [log EXCEPT ![o] = l][o] = l
      /\ \A p \in DOMAIN log : p # o => [log EXCEPT ![o] = l][p] = log[p]
  BY <1>1, ReplaceOne
<1> QED
  BY <1>1, <1>2 DEF Rewrites

(* The objects and logs that a number leads to.                            *)
LEMMA ObjectTyped ==
  ASSUME ObjectsTyped, NEW o \in Objects
  PROVE  /\ obj[o] \in QueueObject /\ log[o] \in Seq(0 .. N-1)
         /\ o \in Nat /\ o # 0 /\ o <= Len(obj)
<1>1. obj \in Seq(QueueObject) /\ o \in 1 .. Len(obj) /\ Len(obj) \in Nat
  BY LenProperties DEF ObjectsTyped, Objects
<1>2. log \in Seq(Seq(0 .. N-1)) /\ o \in 1 .. Len(log)
  BY <1>1 DEF ObjectsTyped
<1> QED
  BY <1>1, <1>2, ElementOfSeq

(* A writer goes on to another step and keeps its queue.                   *)
LEMMA MovesOn ==
  ASSUME WritersTyped, NEW w \in Writers, NEW pc \in WriterSteps,
         wpc' = [wpc EXCEPT ![w] = pc],
         wmode' = wmode, wobj' = wobj, wi' = wi, backend' = backend, Objects' = Objects
  PROVE  Moves(w, pc, wobj[w], wi[w])
<1>1. Modes' = Modes
  BY DEF Modes
<1> QED
  BY <1>1 DEF Moves, WritersTyped

(* A writer goes on to another step with another queue.                    *)
LEMMA MovesTo ==
  ASSUME WritersTyped, NEW w \in Writers, NEW pc \in WriterSteps, NEW o \in {0} \cup Objects',
         wpc' = [wpc EXCEPT ![w] = pc], wobj' = [wobj EXCEPT ![w] = o],
         wmode' = wmode, wi' = wi, backend' = backend, Objects \subseteq Objects'
  PROVE  Moves(w, pc, o, wi[w])
<1>1. Modes' = Modes
  BY DEF Modes
<1> QED
  BY <1>1 DEF Moves, WritersTyped

(* A writer goes on to another step and another element.                   *)
LEMMA MovesNext ==
  ASSUME WritersTyped, NEW w \in Writers, NEW pc \in WriterSteps, NEW i \in 0 .. N-1,
         wpc' = [wpc EXCEPT ![w] = pc], wi' = [wi EXCEPT ![w] = i],
         wmode' = wmode, wobj' = wobj, backend' = backend, Objects' = Objects
  PROVE  Moves(w, pc, wobj[w], i)
<1>1. Modes' = Modes
  BY DEF Modes
<1> QED
  BY <1>1 DEF Moves, WritersTyped

(* A writer ends.                                                          *)
LEMMA MovesOut ==
  ASSUME WritersTyped, NEW w \in Writers, WEnd(w), backend' = backend, Objects' = Objects
  PROVE  Moves(w, "idle", 0, 0)
<1>1. Modes' = Modes
  BY DEF Modes
<1>2. 0 \in 0 .. N-1 /\ "idle" \in WriterSteps
  BY SharedTyped DEF WriterSteps
<1> QED
  BY <1>1, <1>2 DEF Moves, WritersTyped, WEnd

(* The steps that leave the objects alone.                                 *)
Untouched ==
  /\ obj' = obj /\ log' = log /\ spoiled' = spoiled /\ Objects' = Objects

(* The effect of WRemove: the name is free.                                *)
LEMMA RemoveStep ==
  ASSUME WritersTyped, NEW w \in Writers, WRemove(w)
  PROVE  /\ Moves(w, "open", wobj[w], wi[w]) /\ wpc[w] = "remove"
         /\ name' = 0 /\ Untouched
         /\ UNCHANGED <<backend, rpc, robj, ri, runs, overlap, clean>>
<1>1. /\ wpc[w] = "remove" /\ name' = 0 /\ wpc' = [wpc EXCEPT ![w] = "open"]
      /\ UNCHANGED <<backend, obj, wmode, wobj, wi, rpc, robj, ri>>
      /\ UNCHANGED <<runs, log, spoiled, overlap, clean>>
  BY DEF WRemove, childVars, histVars
<1>2. Objects' = Objects /\ "open" \in WriterSteps
  BY <1>1 DEF Objects, WriterSteps, Opening
<1>3. Moves(w, "open", wobj[w], wi[w])
  BY <1>1, <1>2, MovesOn
<1> QED
  BY <1>1, <1>2, <1>3 DEF Untouched

(* What a writer does next with the object that it has found.              *)
FoundStep(w) ==
  IF wmode[w] # "open_only" /\ backend = "shm" THEN "size"
  ELSE IF backend = "shm" THEN "map" ELSE "file"

(* The effect of WOpenFound: the writer has the object of the name.        *)
LEMMA OpenFoundStep ==
  ASSUME WritersTyped, ObjectsTyped, NEW w \in Writers, WOpenFound(w)
  PROVE  /\ Moves(w, FoundStep(w), name, wi[w])
         /\ wpc[w] = "open" /\ name # 0 /\ name' = name /\ Untouched
         /\ UNCHANGED <<backend, rpc, robj, ri, runs, overlap, clean>>
<1> DEFINE pc == FoundStep(w)
<1>1. /\ wpc[w] = "open" /\ name # 0 /\ name' = name
      /\ wpc' = [wpc EXCEPT ![w] = pc] /\ wobj' = [wobj EXCEPT ![w] = name]
      /\ UNCHANGED <<backend, obj, wmode, wi, rpc, robj, ri, runs, log, spoiled, overlap, clean>>
  BY DEF WOpenFound, FoundStep, objVars, childVars, histVars
<1>2. Objects' = Objects /\ pc \in WriterSteps /\ name \in {0} \cup Objects'
  BY <1>1 DEF Objects, WriterSteps, Opening, ObjectsTyped, FoundStep
<1> HIDE DEF pc
<1>3. Moves(w, pc, name, wi[w])
  BY <1>1, <1>2, MovesTo
<1> QED
  BY <1>1, <1>2, <1>3 DEF Untouched, pc

(* A new object.                                                           *)
Creates(w) ==
  LET o == Len(obj) + 1 IN
  /\ Moves(w, "size", o, wi[w])
  /\ name' = o /\ o # 0 /\ o \notin Objects
  /\ Objects' = Objects \cup {o} /\ Len(obj') = o
  /\ obj' \in Seq(QueueObject) /\ log' \in Seq(Seq(0 .. N-1)) /\ Len(log') = o
  /\ obj'[o].head = 0 /\ obj'[o].tail = 0 /\ log'[o] = <<>>
  /\ \A p \in Objects : obj'[p] = obj[p] /\ log'[p] = log[p]
  /\ UNCHANGED <<backend, rpc, robj, ri, runs, spoiled, overlap, clean>>

(* The effect of NewObject.                                                *)
LEMMA NewObjectStep ==
  ASSUME WritersTyped, ObjectsTyped, NEW w \in Writers, NewObject(w)
  PROVE  Creates(w)
<1> PICK o, d : o = Len(obj) + 1 /\ d = Blank
  OBVIOUS
<1>1. /\ obj' = Append(obj, d) /\ log' = Append(log, <<>>)
      /\ name' = o /\ wobj' = [wobj EXCEPT ![w] = o]
      /\ wpc' = [wpc EXCEPT ![w] = "size"]
      /\ UNCHANGED <<backend, wmode, wi, rpc, robj, ri, runs, spoiled, overlap, clean>>
  BY DEF NewObject, childVars
<1>2. /\ obj \in Seq(QueueObject) /\ d \in QueueObject /\ d.head = 0 /\ d.tail = 0
      /\ log \in Seq(Seq(0 .. N-1)) /\ <<>> \in Seq(0 .. N-1)
      /\ Len(log) = Len(obj) /\ DOMAIN log = Objects /\ DOMAIN obj = Objects
  BY BlankTyped, LenProperties, EmptySeq DEF ObjectsTyped, Objects
<1>3. /\ obj' \in Seq(QueueObject)
      /\ DOMAIN obj' = DOMAIN obj \cup {o} /\ Len(obj') = o
      /\ o \notin DOMAIN obj /\ o # 0 /\ obj'[o] = d
      /\ \A p \in DOMAIN obj : obj'[p] = obj[p]
  BY <1>1, <1>2, AddOne
<1>4. /\ log' \in Seq(Seq(0 .. N-1)) /\ Len(log') = Len(log) + 1
      /\ log'[Len(log) + 1] = <<>>
      /\ \A p \in DOMAIN log : log'[p] = log[p]
  BY <1>1, <1>2, AddOne
<1>5. Objects' = Objects \cup {o} /\ o \notin Objects
  BY <1>3 DEF Objects
<1>6. "size" \in WriterSteps
  BY DEF WriterSteps, Opening
<1>7. Moves(w, "size", o, wi[w])
  BY <1>1, <1>5, <1>6, MovesTo
<1> QED
  BY <1>1, <1>2, <1>3, <1>4, <1>5, <1>7 DEF Creates

(* The effect of WOpenNone: the writer ends, or makes an object, or is     *)
(* about to.                                                               *)
LEMMA OpenNoneStep ==
  ASSUME WritersTyped, ObjectsTyped, NEW w \in Writers, WOpenNone(w)
  PROVE  /\ wpc[w] = "open" /\ name = 0
         /\ \/ /\ wmode[w] # "open_only" /\ backend = "shm" /\ Creates(w)
            \/ /\ \/ wmode[w] = "open_only" /\ Moves(w, "idle", 0, 0)
                  \/ /\ wmode[w] # "open_only" /\ backend # "shm"
                     /\ Moves(w, "create", wobj[w], wi[w])
               /\ name' = name /\ Untouched
               /\ UNCHANGED <<backend, rpc, robj, ri, runs, overlap, clean>>
<1>1. wpc[w] = "open" /\ name = 0
  BY DEF WOpenNone
<1>2. CASE wmode[w] = "open_only"
  <2>1. /\ WEnd(w)
        /\ UNCHANGED <<backend, name, obj, rpc, robj, ri, runs, log, spoiled, overlap, clean>>
    BY <1>2 DEF WOpenNone, objVars, childVars, histVars
  <2>2. Objects' = Objects
    BY <2>1 DEF Objects
  <2>3. Moves(w, "idle", 0, 0)
    BY <2>1, <2>2, MovesOut
  <2> QED
    BY <1>1, <1>2, <2>1, <2>2, <2>3 DEF Untouched
<1>3. CASE wmode[w] # "open_only" /\ backend = "shm"
  <2>1. NewObject(w)
    BY <1>3 DEF WOpenNone
  <2> QED
    BY <1>1, <1>3, <2>1, NewObjectStep
<1>4. CASE wmode[w] # "open_only" /\ backend # "shm"
  <2>1. /\ wpc' = [wpc EXCEPT ![w] = "create"]
        /\ UNCHANGED <<backend, name, obj, wmode, wobj, wi, rpc, robj, ri, runs, log,
                       spoiled, overlap, clean>>
    BY <1>4 DEF WOpenNone, objVars, childVars, histVars
  <2>2. Objects' = Objects /\ "create" \in WriterSteps
    BY <2>1 DEF Objects, WriterSteps, Opening
  <2>3. Moves(w, "create", wobj[w], wi[w])
    BY <2>1, <2>2, MovesOn
  <2> QED
    BY <1>1, <1>4, <2>1, <2>2, <2>3 DEF Untouched
<1> QED
  BY <1>2, <1>3, <1>4

(* The effect of WCreate: a new object, or the one of the name is emptied. *)
LEMMA TruncateStep ==
  ASSUME WritersTyped, ObjectsTyped, NEW w \in Writers, WCreate(w)
  PROVE  /\ wpc[w] = "create"
         /\ \/ name = 0 /\ Creates(w)
            \/ /\ name \in Objects /\ name' = name /\ name # 0
               /\ Moves(w, "size", name, wi[w])
               /\ Touches(name) /\ obj'[name].head = 0 /\ obj'[name].tail = 0
               /\ Rewrites(name, <<>>)
               /\ spoiled' = IF WritersOf(name) # {} \/ ChildOn(name)
                             THEN spoiled \cup {name} ELSE spoiled \ {name}
               /\ UNCHANGED <<backend, rpc, robj, ri, runs, overlap, clean>>
<1>1. wpc[w] = "create"
  BY DEF WCreate
<1>2. CASE name = 0
  <2>1. NewObject(w)
    BY <1>2 DEF WCreate
  <2> QED
    BY <1>1, <1>2, <2>1, NewObjectStep
<1>3. CASE name # 0
  <2> PICK d : d = Blank
    OBVIOUS
  <2>1. /\ obj' = [obj EXCEPT ![name] = d] /\ log' = [log EXCEPT ![name] = <<>>]
        /\ wobj' = [wobj EXCEPT ![w] = name] /\ wpc' = [wpc EXCEPT ![w] = "size"]
        /\ UNCHANGED <<backend, name, wmode, wi, rpc, robj, ri, runs, overlap, clean>>
    BY <1>3 DEF WCreate, Truncate, childVars
  <2>2. spoiled' = IF WritersOf(name) # {} \/ ChildOn(name)
                   THEN spoiled \cup {name} ELSE spoiled \ {name}
    BY <1>3 DEF WCreate, Truncate
  <2>3. name \in Objects
    BY <1>3 DEF ObjectsTyped
  <2>4. d \in QueueObject /\ d.head = 0 /\ d.tail = 0
    BY BlankTyped
  <2>5. Touches(name) /\ obj'[name] = d
    BY <2>1, <2>3, <2>4, TouchOne
  <2>6. <<>> \in Seq(0 .. N-1)
    BY EmptySeq
  <2>7. Rewrites(name, <<>>)
    BY <2>1, <2>3, <2>6, RewriteOne
  <2>8. "size" \in WriterSteps /\ Objects' = Objects
    BY <2>5 DEF WriterSteps, Opening, Touches
  <2>9. Moves(w, "size", name, wi[w])
    BY <2>1, <2>3, <2>8, MovesTo
  <2> QED
    BY <1>1, <1>3, <2>1, <2>2, <2>3, <2>4, <2>5, <2>7, <2>9
<1> QED
  BY <1>2, <1>3

(* What a writer does next with the object that has its length.            *)
SizedStep == IF backend = "shm" THEN "mapNew" ELSE "fileNew"

(* The effect of WSize: the contents of the object stay.                   *)
LEMMA SizeStep ==
  ASSUME WritersTyped, ObjectsTyped, NEW w \in Writers, WSize(w), wobj[w] # 0
  PROVE  /\ wpc[w] = "size" /\ Moves(w, SizedStep, wobj[w], wi[w])
         /\ Touches(wobj[w])
         /\ obj'[wobj[w]].head = obj[wobj[w]].head
         /\ obj'[wobj[w]].tail = obj[wobj[w]].tail
         /\ obj'[wobj[w]].data = obj[wobj[w]].data
         /\ UNCHANGED <<backend, name, rpc, robj, ri, runs, log, spoiled, overlap, clean>>
<1> PICK o \in Objects : o = wobj[w]
  BY DEF WritersTyped
<1> PICK d : d = [obj[o] EXCEPT !.sized = TRUE]
  OBVIOUS
<1>1. /\ wpc[w] = "size" /\ wpc' = [wpc EXCEPT ![w] = SizedStep]
      /\ UNCHANGED <<backend, name, wmode, wobj, wi, rpc, robj, ri, runs, log, spoiled,
                     overlap, clean>>
  BY DEF WSize, SizedStep, childVars, histVars
<1>2. obj' = [obj EXCEPT ![o] = d]
  BY DEF WSize
<1>3. obj[o] \in QueueObject
  BY ObjectTyped
<1>4. /\ d \in QueueObject
      /\ d.head = obj[o].head /\ d.tail = obj[o].tail /\ d.data = obj[o].data
  BY <1>3 DEF QueueObject
<1>5. Touches(o) /\ obj'[o] = d
  BY <1>2, <1>4, TouchOne
<1>6. SizedStep \in WriterSteps /\ Objects' = Objects
  BY <1>5 DEF WriterSteps, Opening, Touches, SizedStep
<1>7. Moves(w, SizedStep, wobj[w], wi[w])
  BY <1>1, <1>6, MovesOn
<1> QED
  BY <1>1, <1>4, <1>5, <1>7

(* The effect of WFile: the writer has the object of the name, or ends.    *)
LEMMA FileStep ==
  ASSUME WritersTyped, ObjectsTyped, NEW w \in Writers, WFile(w)
  PROVE  /\ wpc[w] \in {"file", "fileNew"}
         /\ \/ /\ name # 0
               /\ Moves(w, IF wpc[w] = "fileNew" THEN "mapNew" ELSE "map", name, wi[w])
            \/ Moves(w, "idle", 0, 0)
         /\ name' = name /\ Untouched
         /\ UNCHANGED <<backend, rpc, robj, ri, runs, overlap, clean>>
<1>1. /\ wpc[w] \in {"file", "fileNew"}
      /\ UNCHANGED <<backend, name, obj, rpc, robj, ri, runs, log, spoiled, overlap, clean>>
  BY DEF WFile, objVars, childVars, histVars
<1>2. Objects' = Objects
  BY <1>1 DEF Objects
<1>3. CASE name # 0
  <2> DEFINE pc == IF wpc[w] = "fileNew" THEN "mapNew" ELSE "map"
  <2>1. /\ wpc' = [wpc EXCEPT ![w] = pc] /\ wobj' = [wobj EXCEPT ![w] = name]
        /\ wmode' = wmode /\ wi' = wi
    BY <1>3 DEF WFile, WritersTyped
  <2>2. pc \in WriterSteps
    BY DEF WriterSteps, Opening
  <2>3. name \in {0} \cup Objects'
    BY <1>2 DEF ObjectsTyped
  <2> HIDE DEF pc
  <2>4. Moves(w, pc, name, wi[w])
    BY <1>1, <1>2, <2>1, <2>2, <2>3, MovesTo
  <2> QED
    BY <1>1, <1>2, <1>3, <2>4 DEF Untouched, pc
<1>4. CASE name = 0
  <2>1. WEnd(w)
    BY <1>4 DEF WFile
  <2>2. Moves(w, "idle", 0, 0)
    BY <1>1, <1>2, <2>1, MovesOut
  <2> QED
    BY <1>1, <1>2, <2>2 DEF Untouched
<1> QED
  BY <1>3, <1>4

(* The effect of WMap: the writer has mapped its object, or ends.          *)
LEMMA MapStep ==
  ASSUME WritersTyped, NEW w \in Writers, WMap(w)
  PROVE  /\ wpc[w] \in {"map", "mapNew"}
         /\ \/ Moves(w, IF wpc[w] = "mapNew" THEN "construct" ELSE "check", wobj[w], wi[w])
            \/ Moves(w, "idle", 0, 0)
         /\ name' = name /\ Untouched
         /\ UNCHANGED <<backend, rpc, robj, ri, runs, overlap, clean>>
<1>1. /\ wpc[w] \in {"map", "mapNew"}
      /\ UNCHANGED <<backend, name, obj, rpc, robj, ri, runs, log, spoiled, overlap, clean>>
  BY DEF WMap, objVars, childVars, histVars
<1>2. Objects' = Objects
  BY <1>1 DEF Objects
<1>3. CASE obj[wobj[w]].sized
  <2> DEFINE pc == IF wpc[w] = "mapNew" THEN "construct" ELSE "check"
  <2>1. wpc' = [wpc EXCEPT ![w] = pc] /\ wmode' = wmode /\ wobj' = wobj /\ wi' = wi
    BY <1>3 DEF WMap, WritersTyped
  <2>2. pc \in WriterSteps
    BY DEF WriterSteps, Opening, Using
  <2> HIDE DEF pc
  <2>3. Moves(w, pc, wobj[w], wi[w])
    BY <1>1, <1>2, <2>1, <2>2, MovesOn
  <2> QED
    BY <1>1, <1>2, <2>3 DEF Untouched, pc
<1>4. CASE ~obj[wobj[w]].sized
  <2>1. WEnd(w)
    BY <1>4 DEF WMap
  <2>2. Moves(w, "idle", 0, 0)
    BY <1>1, <1>2, <2>1, MovesOut
  <2> QED
    BY <1>1, <1>2, <2>2 DEF Untouched
<1> QED
  BY <1>3, <1>4

(* Other processes have the object of a writer mapped.                     *)
Shared(w) == WritersOf(wobj[w]) # {w} \/ ChildOn(wobj[w])

(* The effect of WConstruct: the queue is empty, and spoiled if it was not *)
(* and others have it mapped.                                              *)
LEMMA ConstructStep ==
  ASSUME WritersTyped, ObjectsTyped, NEW w \in Writers, WConstruct(w), wobj[w] # 0
  PROVE  /\ wpc[w] = "construct" /\ Moves(w, "check", wobj[w], wi[w])
         /\ Touches(wobj[w]) /\ obj'[wobj[w]].head = 0 /\ obj'[wobj[w]].tail = 0
         /\ Rewrites(wobj[w], <<>>)
         /\ spoiled' = IF ~Shared(w) THEN spoiled \ {wobj[w]}
                       ELSE IF obj[wobj[w]].head # 0 \/ obj[wobj[w]].tail # 0
                       THEN spoiled \cup {wobj[w]} ELSE spoiled
         /\ UNCHANGED <<backend, name, rpc, robj, ri, runs, overlap, clean>>
<1> PICK o \in Objects : o = wobj[w]
  BY DEF WritersTyped
<1> PICK d : d = [obj[o] EXCEPT !.head = 0, !.tail = 0]
  OBVIOUS
<1>1. /\ wpc[w] = "construct" /\ wpc' = [wpc EXCEPT ![w] = "check"]
      /\ UNCHANGED <<backend, name, wmode, wobj, wi, rpc, robj, ri, runs, overlap, clean>>
  BY DEF WConstruct, childVars
<1>2. log' = [log EXCEPT ![o] = <<>>]
  BY DEF WConstruct
<1>3. spoiled' = IF ~Shared(w) THEN spoiled \ {o}
                 ELSE IF obj[o].head # 0 \/ obj[o].tail # 0 THEN spoiled \cup {o} ELSE spoiled
  BY DEF WConstruct, Shared
<1>4. obj[o] \in QueueObject
  BY ObjectTyped
<1>5. d \in QueueObject /\ d.head = 0 /\ d.tail = 0
  <2>1. 0 \in Offset
    BY SharedTyped DEF Offset
  <2> QED
    BY <1>4, <2>1 DEF QueueObject
<1>6. obj' = [obj EXCEPT ![o] = d]
  <2>1. obj' = [obj EXCEPT ![o].head = 0, ![o].tail = 0]
    BY DEF WConstruct
  <2>2. obj \in Seq(QueueObject) /\ o \in DOMAIN obj
    BY DEF ObjectsTyped, Objects
  <2> QED
    BY <1>4, <2>1, <2>2 DEF QueueObject
<1>7. Touches(o) /\ obj'[o] = d
  BY <1>5, <1>6, TouchOne
<1>8. <<>> \in Seq(0 .. N-1)
  BY EmptySeq
<1>9. Rewrites(o, <<>>)
  BY <1>2, <1>8, RewriteOne
<1>10. "check" \in WriterSteps /\ Objects' = Objects
  BY <1>7 DEF WriterSteps, Using, Touches
<1>11. Moves(w, "check", wobj[w], wi[w])
  BY <1>1, <1>10, MovesOn
<1> QED
  BY <1>1, <1>3, <1>5, <1>7, <1>9, <1>11

(* The effect of WCheck.                                                   *)
LEMMA CheckStep ==
  ASSUME WritersTyped, NEW w \in Writers, WCheck(w)
  PROVE  /\ wpc[w] = "check" /\ Moves(w, "write", wobj[w], wi[w])
         /\ name' = name /\ Untouched
         /\ UNCHANGED <<backend, rpc, robj, ri, runs, overlap, clean>>
<1>1. /\ wpc[w] = "check" /\ wpc' = [wpc EXCEPT ![w] = "write"]
      /\ UNCHANGED <<backend, name, obj, wmode, wobj, wi, rpc, robj, ri, runs, log,
                     spoiled, overlap, clean>>
  BY DEF WCheck, objVars, childVars, histVars
<1>2. Objects' = Objects /\ "write" \in WriterSteps
  BY <1>1 DEF Objects, WriterSteps, Using
<1>3. Moves(w, "write", wobj[w], wi[w])
  BY <1>1, <1>2, MovesOn
<1> QED
  BY <1>1, <1>2, <1>3 DEF Untouched

(* The effect of WWrite: one slot, which is not in use.                    *)
LEMMA WriteStep ==
  ASSUME WritersTyped, ObjectsTyped, NEW w \in Writers, WWrite(w), wobj[w] # 0
  PROVE  LET q == obj[wobj[w]] IN
         /\ wpc[w] = "write" /\ Moves(w, "push", wobj[w], wi[w])
         /\ Filled(q) < Size
         /\ Touches(wobj[w])
         /\ obj'[wobj[w]].head = q.head /\ obj'[wobj[w]].tail = q.tail
         /\ obj'[wobj[w]].data = [q.data EXCEPT ![q.tail % Size] = wi[w]]
         /\ UNCHANGED <<backend, name, rpc, robj, ri, runs, log, spoiled, overlap, clean>>
<1> PICK o \in Objects : o = wobj[w]
  BY DEF WritersTyped
<1> PICK q : q = obj[o]
  OBVIOUS
<1>1. /\ wpc[w] = "write" /\ wpc' = [wpc EXCEPT ![w] = "push"] /\ Filled(q) < Size
      /\ UNCHANGED <<backend, name, wmode, wobj, wi, rpc, robj, ri, runs, log, spoiled,
                     overlap, clean>>
  BY DEF WWrite, childVars, histVars
<1>2. q \in QueueObject /\ wi[w] \in 0 .. N-1
  BY ObjectTyped DEF WritersTyped
<1>3. q.tail % Size \in 0 .. Size-1 /\ q.data \in [0 .. Size-1 -> 0 .. N-1]
  <2>1. q.tail \in Int
    BY <1>2, FilledTyped, SharedTyped
  <2> QED
    BY <1>2, <2>1, SlotTyped, FilledTyped
<1> PICK j \in 0 .. Size-1 : j = q.tail % Size
  BY <1>3
<1> PICK e : e = [q.data EXCEPT ![j] = wi[w]]
  OBVIOUS
<1> PICK d : d = [q EXCEPT !.data = e]
  OBVIOUS
<1>4. e \in [0 .. Size-1 -> 0 .. N-1]
  BY <1>2, <1>3
<1>5. d \in QueueObject /\ d.head = q.head /\ d.tail = q.tail /\ d.data = e
  BY <1>2, <1>4 DEF QueueObject
<1>6. obj' = [obj EXCEPT ![o] = d]
  BY DEF WWrite
<1>7. Touches(o) /\ obj'[o] = d
  BY <1>5, <1>6, TouchOne, ZenonT(40)
<1>8. "push" \in WriterSteps /\ Objects' = Objects
  BY <1>7 DEF WriterSteps, Using, Touches
<1>9. Moves(w, "push", wobj[w], wi[w])
  BY <1>1, <1>8, MovesOn
<1> QED
  BY <1>1, <1>5, <1>7, <1>9

(* The effect of WPush: one element more in the queue and in its log.      *)
LEMMA PushStep ==
  ASSUME WritersTyped, ObjectsTyped, NEW w \in Writers, WPush(w), wobj[w] # 0
  PROVE  LET q == obj[wobj[w]] IN
         /\ wpc[w] = "push"
         /\ Touches(wobj[w])
         /\ obj'[wobj[w]].head = q.head /\ obj'[wobj[w]].data = q.data
         /\ obj'[wobj[w]].tail = After(q.tail)
         /\ Rewrites(wobj[w], Append(log[wobj[w]], q.data[q.tail % Size]))
         /\ \/ wi[w] + 1 = N /\ Moves(w, "idle", 0, 0)
            \/ wi[w] + 1 = N /\ Moves(w, "unlink", wobj[w], wi[w])
            \/ wi[w] + 1 # N /\ Moves(w, "check", wobj[w], wi[w] + 1)
         /\ UNCHANGED <<backend, name, rpc, robj, ri, runs, spoiled, overlap, clean>>
<1> PICK o \in Objects : o = wobj[w]
  BY DEF WritersTyped
<1> PICK q : q = obj[o]
  OBVIOUS
<1> PICK x : x = q.data[q.tail % Size]
  OBVIOUS
<1>1. /\ wpc[w] = "push"
      /\ UNCHANGED <<backend, name, rpc, robj, ri, runs, spoiled, overlap, clean>>
  BY DEF WPush, childVars
<1>2. q \in QueueObject /\ log[o] \in Seq(0 .. N-1)
  BY ObjectTyped
<1>3. q.tail \in Offset /\ q.tail \in Int /\ q.data \in [0 .. Size-1 -> 0 .. N-1]
  <2>1. /\ q.tail \in 0 .. IntMod-1 /\ q.data \in [0 .. Size-1 -> 0 .. N-1]
    BY <1>2, FilledTyped
  <2>2. q.tail \in Int
    BY <2>1, SharedTyped
  <2> QED
    BY <2>1, <2>2 DEF Offset
<1> PICK t : t = After(q.tail)
  OBVIOUS
<1>4. t \in Offset
  BY <1>3, OffsetNext
<1> PICK d : d = [q EXCEPT !.tail = t]
  OBVIOUS
<1>5. d \in QueueObject /\ d.head = q.head /\ d.tail = t /\ d.data = q.data
  BY <1>2, <1>4 DEF QueueObject
<1>6. obj' = [obj EXCEPT ![o] = d]
  BY DEF WPush, After
<1>7. Touches(o) /\ obj'[o] = d
  BY <1>5, <1>6, TouchOne
<1>8. x \in 0 .. N-1
  <2>1. q.tail % Size \in 0 .. Size-1
    BY <1>3, SlotTyped
  <2> QED
    BY <1>3, <2>1
<1> PICK l : l = Append(log[o], x)
  OBVIOUS
<1>9. l \in Seq(0 .. N-1)
  BY <1>2, <1>8, AppendProperties
<1>10. log' = [log EXCEPT ![o] = l]
  BY DEF WPush
<1>11. Rewrites(o, l)
  BY <1>9, <1>10, RewriteOne
<1>12. Objects' = Objects /\ wi[w] \in 0 .. N-1
  BY <1>7 DEF Touches, WritersTyped
<1>13. CASE wi[w] + 1 = N /\ wmode[w] # "remover"
  <2>1. WEnd(w)
    BY <1>13 DEF WPush
  <2>2. Moves(w, "idle", 0, 0)
    BY <1>1, <1>12, <2>1, MovesOut
  <2> QED
    BY <1>1, <1>5, <1>7, <1>11, <1>13, <2>2
<1>14. CASE wi[w] + 1 = N /\ wmode[w] = "remover"
  <2>1. wpc' = [wpc EXCEPT ![w] = "unlink"] /\ UNCHANGED <<wi, wmode, wobj>>
    BY <1>14 DEF WPush
  <2>2. "unlink" \in WriterSteps
    BY DEF WriterSteps
  <2>3. Moves(w, "unlink", wobj[w], wi[w])
    BY <1>1, <1>12, <2>1, <2>2, MovesOn
  <2> QED
    BY <1>1, <1>5, <1>7, <1>11, <1>14, <2>3
<1>15. CASE wi[w] + 1 # N
  <2>1. /\ wpc' = [wpc EXCEPT ![w] = "check"] /\ UNCHANGED <<wmode, wobj>>
        /\ wi' = [wi EXCEPT ![w] = wi[w] + 1]
    BY <1>15 DEF WPush, WritersTyped
  <2>2. "check" \in WriterSteps /\ wi[w] + 1 \in 0 .. N-1
    BY <1>12, <1>15, SharedTyped DEF WriterSteps, Using
  <2>3. Moves(w, "check", wobj[w], wi[w] + 1)
    BY <1>1, <1>12, <2>1, <2>2, MovesNext
  <2> QED
    BY <1>1, <1>5, <1>7, <1>11, <1>15, <2>3
<1> QED
  BY <1>13, <1>14, <1>15

(* The effect of WUnlink: the name is free and the writer ends.            *)
LEMMA UnlinkStep ==
  ASSUME WritersTyped, NEW w \in Writers, WUnlink(w)
  PROVE  /\ wpc[w] = "unlink" /\ Moves(w, "idle", 0, 0)
         /\ name' = 0 /\ Untouched
         /\ UNCHANGED <<backend, rpc, robj, ri, runs, overlap, clean>>
<1>1. /\ wpc[w] = "unlink" /\ name' = 0 /\ WEnd(w)
      /\ UNCHANGED <<backend, obj, rpc, robj, ri, runs, log, spoiled, overlap, clean>>
  BY DEF WUnlink, childVars, histVars
<1>2. Objects' = Objects
  BY <1>1 DEF Objects
<1>3. Moves(w, "idle", 0, 0)
  BY <1>1, <1>2, MovesOut
<1> QED
  BY <1>1, <1>2, <1>3 DEF Untouched

(* The effect of a crash or kill of a writer.                              *)
LEMMA FaultStep ==
  ASSUME WritersTyped, NEW w \in Writers, WCrash(w) \/ WKill(w)
  PROVE  /\ Moves(w, "idle", 0, 0)
         /\ name' = name /\ Untouched /\ clean' = FALSE
         /\ UNCHANGED <<backend, rpc, robj, ri, runs, overlap>>
<1>1. /\ WEnd(w) /\ clean' = FALSE
      /\ UNCHANGED <<backend, name, obj, rpc, robj, ri, runs, log, spoiled, overlap>>
  BY DEF WCrash, WKill, WFault, objVars, childVars
<1>2. Objects' = Objects
  BY <1>1 DEF Objects
<1>3. Moves(w, "idle", 0, 0)
  BY <1>1, <1>2, MovesOut
<1> QED
  BY <1>1, <1>2, <1>3 DEF Untouched

(* A program that opens the queue is started.                              *)
Starts(w, mode) ==
  /\ WritersTyped'
  /\ wpc[w] = "idle" /\ wpc'[w] = FirstStep(mode) /\ wmode'[w] = mode
  /\ wobj' = wobj /\ wi' = wi
  /\ \A v \in Writers : v # w => wpc'[v] = wpc[v] /\ wmode'[v] = wmode[v]
  /\ (overlap' = FALSE) =>
       /\ overlap = FALSE
       /\ \A v \in Writers : v # w =>
            /\ wpc[v] \in {"idle", "check", "write", "push", "unlink"}
            /\ mode \notin Afresh => wpc[v] \in {"idle", "unlink"}
  /\ overlap' \in BOOLEAN
  /\ name' = name /\ Untouched
  /\ UNCHANGED <<backend, clean>>

(* The effect of Begins; when no overlap is noted the others are idle or   *)
(* far enough.                                                             *)
LEMMA BeginsStep ==
  ASSUME WritersTyped, ScalarsTyped, NEW w \in Writers, NEW mode \in Modes, Begins(w, mode)
  PROVE  Starts(w, mode)
<1> DEFINE others == {v \in Writers \ {w} :
                        \/ wpc[v] \notin {"idle", "check", "write", "push", "unlink"}
                        \/ wpc[v] \notin {"idle", "unlink"} /\ mode \notin Afresh}
<1>1. /\ wpc[w] = "idle"
      /\ wpc' = [wpc EXCEPT ![w] = FirstStep(mode)]
      /\ wmode' = [wmode EXCEPT ![w] = mode]
      /\ UNCHANGED <<backend, name, obj, wobj, wi, log, spoiled, clean>>
  BY DEF Begins, objVars
<1>2. overlap' = (overlap \/ others # {})
  BY DEF Begins
<1>3. overlap' \in BOOLEAN /\ overlap \in BOOLEAN
  BY <1>2 DEF ScalarsTyped
<1>4. overlap' = FALSE => overlap = FALSE /\ others = {}
  BY <1>2, <1>3
<1>5. others = {} => \A v \in Writers : v # w =>
            /\ wpc[v] \in {"idle", "check", "write", "push", "unlink"}
            /\ mode \notin Afresh => wpc[v] \in {"idle", "unlink"}
  OBVIOUS
<1>6. Objects' = Objects /\ Modes' = Modes
  BY <1>1 DEF Objects, Modes
<1>7. FirstStep(mode) \in WriterSteps
  BY DEF FirstStep, WriterSteps, Opening
<1>8. WritersTyped'
  BY <1>1, <1>6, <1>7 DEF WritersTyped
<1>9. /\ wpc'[w] = FirstStep(mode) /\ wmode'[w] = mode
      /\ \A v \in Writers : v # w => wpc'[v] = wpc[v] /\ wmode'[v] = wmode[v]
  BY <1>1 DEF WritersTyped
<1> HIDE DEF others
<1> QED
  BY <1>1, <1>3, <1>4, <1>5, <1>6, <1>8, <1>9 DEF Starts, Untouched

-----------------------------------------------------------------------------
(* The steps of the child.                                                 *)
ChildAt(pc, o, i) ==
  /\ rpc' = pc /\ robj' = o /\ ri' = i
  /\ UNCHANGED <<backend, name, wpc, wmode, wobj, wi, overlap>>

(* The effect of COpen: the child has the object of the name, or ends.     *)
LEMMA COpenStep ==
  ASSUME COpen
  PROVE  /\ rpc = "open"
         /\ \/ name # 0 /\ ChildAt("map", name, ri)
            \/ ChildAt("file", name, ri)
            \/ ChildAt("idle", 0, 0)
         /\ Untouched /\ UNCHANGED <<runs, clean>>
BY DEF COpen, CEnd, ChildAt, Untouched, Objects, objVars, writerVars, histVars

(* The effect of CFile: the child has the object of the name, or ends.     *)
LEMMA CFileStep ==
  ASSUME CFile
  PROVE  /\ rpc = "file"
         /\ (name # 0 /\ ChildAt("map", name, ri)) \/ ChildAt("idle", 0, 0)
         /\ Untouched /\ UNCHANGED <<runs, clean>>
BY DEF CFile, CEnd, ChildAt, Untouched, Objects, objVars, writerVars, histVars

(* The effect of CMap: the child has mapped its object, or ends.           *)
LEMMA CMapStep ==
  ASSUME CMap
  PROVE  /\ rpc = "map"
         /\ ChildAt("check", robj, ri) \/ ChildAt("idle", 0, 0)
         /\ Untouched /\ UNCHANGED <<runs, clean>>
BY DEF CMap, CEnd, ChildAt, Untouched, Objects, objVars, writerVars, histVars

(* The effect of CCheck.                                                   *)
LEMMA CCheckStep ==
  ASSUME CCheck
  PROVE  /\ rpc = "check" /\ ChildAt("load", robj, ri)
         /\ Untouched /\ UNCHANGED <<runs, clean>>
BY DEF CCheck, ChildAt, Untouched, Objects, objVars, writerVars, histVars

(* The effect of CLoad: the element at the head is the expected one, or    *)
(* not.                                                                    *)
LEMMA CLoadStep ==
  ASSUME CLoad
  PROVE  /\ rpc = "load" /\ obj[robj].head # obj[robj].tail
         /\ ChildAt(IF obj[robj].data[obj[robj].head % Size] = ri THEN "pop" ELSE "mismatch",
                    robj, ri)
         /\ Untouched /\ UNCHANGED <<runs, clean>>
BY DEF CLoad, ChildAt, Untouched, Objects, objVars, writerVars, histVars

(* The effect of a crash or kill of the child.                             *)
LEMMA CFaultStep ==
  ASSUME CCrash \/ CKill
  PROVE  ChildAt("idle", 0, 0) /\ Untouched /\ runs' = runs /\ clean' = FALSE
BY DEF CCrash, CKill, CFault, CEnd, ChildAt, Untouched, Objects, objVars, writerVars

(* The effect of CStart.                                                   *)
LEMMA CStartStep ==
  ASSUME CStart
  PROVE  /\ rpc \in {"idle", "mismatch"} /\ ChildAt("open", 0, 0)
         /\ Untouched /\ clean' = clean /\ runs < MaxRuns /\ runs' = runs + 1
BY DEF CStart, ChildAt, Untouched, Objects, objVars, writerVars

(* The effect of CPop: the head moves, and the child goes on or ends.      *)
LEMMA CPopStep ==
  ASSUME ChildTyped, ObjectsTyped, CPop, robj # 0
  PROVE  LET q == obj[robj] IN
         /\ rpc = "pop" /\ Touches(robj)
         /\ obj'[robj].head = After(q.head)
         /\ obj'[robj].tail = q.tail /\ obj'[robj].data = q.data
         /\ \/ ri + 1 = N /\ ChildAt("idle", 0, 0)
            \/ ri + 1 # N /\ ChildAt("check", robj, ri + 1)
         /\ UNCHANGED <<runs, log, spoiled, clean>>
<1> PICK o \in Objects : o = robj
  BY DEF ChildTyped
<1> PICK q : q = obj[o]
  OBVIOUS
<1>1. /\ rpc = "pop"
      /\ UNCHANGED <<backend, name, wpc, wmode, wobj, wi, runs, log, spoiled, overlap, clean>>
  BY DEF CPop, writerVars, histVars
<1>2. q \in QueueObject
  BY ObjectTyped
<1> PICK h : h = After(q.head)
  OBVIOUS
<1>3. h \in Offset
  BY <1>2, FilledTyped, OffsetNext DEF Offset
<1> PICK d : d = [q EXCEPT !.head = h]
  OBVIOUS
<1>4. d \in QueueObject /\ d.head = h /\ d.tail = q.tail /\ d.data = q.data
  BY <1>2, <1>3 DEF QueueObject
<1>5. obj' = [obj EXCEPT ![o] = d]
  BY DEF CPop, After
<1>6. Touches(o) /\ obj'[o] = d
  BY <1>4, <1>5, TouchOne
<1>7. \/ ri + 1 = N /\ ChildAt("idle", 0, 0)
      \/ ri + 1 # N /\ ChildAt("check", robj, ri + 1)
  BY <1>1 DEF CPop, CEnd, ChildAt
<1> QED
  BY <1>1, <1>4, <1>6, <1>7

(* The operator.                                                           *)
LEMMA CleanupStep ==
  ASSUME Cleanup
  PROVE  /\ name' = 0 /\ Untouched
         /\ UNCHANGED <<backend, wpc, wmode, wobj, wi, rpc, robj, ri, runs, overlap, clean>>
BY DEF Cleanup, RemoveSegment, RemoveFile, Untouched, Objects, writerVars, childVars, histVars

(* The effect of WStart.                                                   *)
LEMMA WStartStep ==
  ASSUME WritersTyped, ScalarsTyped, NEW w \in Writers, NEW mode \in Modes, WStart(w, mode)
  PROVE  /\ Starts(w, mode) /\ runs < MaxRuns /\ runs' = runs + 1
         /\ UNCHANGED <<rpc, robj, ri>>
<1>1. Begins(w, mode) /\ runs < MaxRuns /\ runs' = runs + 1 /\ UNCHANGED <<rpc, robj, ri>>
  BY DEF WStart, childVars
<1> QED
  BY <1>1, BeginsStep

(* The effect of Fork: both programs are started.                          *)
LEMMA ForkStep ==
  ASSUME WritersTyped, ScalarsTyped, NEW w \in Writers, Fork(w)
  PROVE  /\ "open_or_create" \in Modes /\ Starts(w, "open_or_create")
         /\ runs + 2 <= MaxRuns /\ runs' = runs + 2
         /\ rpc \in {"idle", "mismatch"} /\ rpc' = "open" /\ robj' = 0 /\ ri' = 0
<1>1. /\ Begins(w, "open_or_create") /\ runs + 2 <= MaxRuns /\ runs' = runs + 2
      /\ rpc \in {"idle", "mismatch"} /\ rpc' = "open" /\ robj' = 0 /\ ri' = 0
  BY DEF Fork
<1>2. "open_or_create" \in Modes
  BY DEF Modes
<1> QED
  BY <1>1, <1>2, BeginsStep

(* All steps.                                                              *)
LEMMA StepsSplit ==
  ASSUME Next
  PROVE  \/ \E w \in Writers :
              \/ WRemove(w) \/ WOpenFound(w) \/ WOpenNone(w) \/ WCreate(w) \/ WSize(w)
              \/ WFile(w) \/ WMap(w) \/ WConstruct(w) \/ WCheck(w) \/ WWrite(w) \/ WPush(w)
              \/ WUnlink(w) \/ (WCrash(w) \/ WKill(w)) \/ Fork(w)
              \/ \E mode \in Modes : WStart(w, mode)
         \/ COpen \/ CFile \/ CMap \/ CCheck \/ CLoad \/ CPop \/ (CCrash \/ CKill) \/ CStart
         \/ Cleanup
BY DEF Next, Program, WriterStep, ChildStep, Operator

-----------------------------------------------------------------------------
(* What holds whether writers overlap or not.                              *)
LEMMA CountsTyped ==
  ASSUME Typed
  PROVE  runs \in Nat /\ Len(obj) \in Nat
BY LenProperties, SharedConstants DEF Typed, ScalarsTyped, ObjectsTyped

(* A step that makes no object and starts no program keeps the budget.     *)
LEMMA BudgetKept ==
  ASSUME Budget, NEW n \in Nat, n = Len(obj), NEW r \in Nat, r = runs,
         Creators' \subseteq Creators, Len(obj') = n, NEW s \in Nat, s = runs', r <= s
  PROVE  Budget'
<1>1. IsFiniteSet(Creators) /\ n + Cardinality(Creators) <= r
  BY DEF Budget
<1> PICK C, D : C = Creators /\ D = Creators'
  OBVIOUS
<1>2. D \in SUBSET C /\ IsFiniteSet(C)
  BY <1>1
<1>3. IsFiniteSet(D) /\ Cardinality(D) <= Cardinality(C)
  BY <1>2, FS_Subset
<1>4. Cardinality(D) \in Nat /\ Cardinality(C) \in Nat
  BY <1>2, <1>3, FS_CardinalityType
<1>5. n + Cardinality(D) <= s
  BY <1>1, <1>3, <1>4
<1> QED
  BY <1>3, <1>5 DEF Budget

(* A program that makes its object can make no other.                      *)
LEMMA BudgetMade ==
  ASSUME Budget, NEW n \in Nat, n = Len(obj), NEW r \in Nat, r = runs,
         NEW w \in Creators, Creators' \subseteq Creators \ {w},
         Len(obj') = n + 1, runs' = r
  PROVE  Budget'
<1>1. IsFiniteSet(Creators) /\ n + Cardinality(Creators) <= r
  BY DEF Budget
<1> PICK C, D : C = Creators /\ D = Creators'
  OBVIOUS
<1>2. w \in C /\ D \in SUBSET (C \ {w}) /\ IsFiniteSet(C)
  BY <1>1
<1>3. IsFiniteSet(C \ {w}) /\ Cardinality(C \ {w}) = Cardinality(C) - 1
  BY <1>2, FS_RemoveElement
<1>4. IsFiniteSet(D) /\ Cardinality(D) <= Cardinality(C \ {w})
  BY <1>2, <1>3, FS_Subset
<1>5. Cardinality(D) \in Nat /\ Cardinality(C) \in Nat
  BY <1>2, <1>4, FS_CardinalityType
<1>6. n + 1 + Cardinality(D) <= r
  BY <1>1, <1>3, <1>4, <1>5
<1> QED
  BY <1>4, <1>6 DEF Budget

(* A program that is started may make an object.                           *)
LEMMA BudgetStart ==
  ASSUME Budget, NEW n \in Nat, n = Len(obj), NEW r \in Nat, r = runs,
         NEW w, Creators' \subseteq Creators \cup {w}, Len(obj') = n,
         NEW s \in Nat, s = runs', r + 1 <= s
  PROVE  Budget'
<1>1. IsFiniteSet(Creators) /\ n + Cardinality(Creators) <= r
  BY DEF Budget
<1> PICK C, D : C = Creators /\ D = Creators'
  OBVIOUS
<1>2. D \in SUBSET (C \cup {w}) /\ IsFiniteSet(C)
  BY <1>1
<1>3. /\ IsFiniteSet(C \cup {w})
      /\ Cardinality(C \cup {w}) = IF w \in C THEN Cardinality(C) ELSE Cardinality(C) + 1
  BY <1>2, FS_AddElement
<1>4. IsFiniteSet(D) /\ Cardinality(D) <= Cardinality(C \cup {w})
  BY <1>2, <1>3, FS_Subset
<1>5. Cardinality(D) \in Nat /\ Cardinality(C) \in Nat
  BY <1>2, <1>4, FS_CardinalityType
<1>6. n + Cardinality(D) <= s
  BY <1>1, <1>3, <1>4, <1>5
<1> QED
  BY <1>4, <1>6 DEF Budget

(* A step of one writer that makes no object.                              *)
LEMMA SoundMoves ==
  ASSUME Sound, NEW w \in Writers, NEW pc, NEW o, NEW i, Moves(w, pc, o, i),
         Fits(pc, wmode[w], o, i),
         pc \in {"remove", "open", "create"} => wpc[w] \in {"remove", "open", "create"},
         ObjectsTyped', Len(obj') = Len(obj), Objects' = Objects,
         UNCHANGED <<backend, rpc, robj, ri, runs, overlap>>, clean' \in BOOLEAN
  PROVE  Sound'
<1>1. WritersTyped' /\ wpc'[w] = pc /\ wobj'[w] = o /\ wi'[w] = i /\ wmode' = wmode
  BY DEF Moves
<1>2. \A v \in Writers : v # w => wpc'[v] = wpc[v] /\ wobj'[v] = wobj[v] /\ wi'[v] = wi[v]
  BY DEF Moves
<1>3. Typed /\ Budget /\ ModeFits /\ ChildFits
  BY DEF Sound
<1>4. Typed'
  BY <1>1, <1>3 DEF Typed, ChildTyped, ScalarsTyped
<1>5. Creators' \subseteq Creators
  BY <1>1, <1>2 DEF Creators
<1>6. Budget'
  <2>1. runs \in Nat /\ Len(obj) \in Nat
    BY <1>3, CountsTyped
  <2> QED
    BY <1>3, <1>5, <2>1, BudgetKept
<1>7. ModeFits'
  <2> SUFFICES ASSUME NEW v \in Writers
               PROVE  Fits(wpc[v], wmode[v], wobj[v], wi[v])'
    BY DEF ModeFits
  <2>1. CASE v = w
    BY <1>1, <2>1 DEF Fits
  <2>2. CASE v # w
    <3>1. Fits(wpc[v], wmode[v], wobj[v], wi[v])
      BY <1>3 DEF ModeFits
    <3>2. wpc'[v] = wpc[v] /\ wobj'[v] = wobj[v] /\ wi'[v] = wi[v] /\ wmode'[v] = wmode[v]
      BY <1>1, <1>2, <2>2
    <3> QED
      BY <3>1, <3>2 DEF Fits
  <2> QED
    BY <2>1, <2>2
<1>8. ChildFits'
  BY <1>3 DEF ChildFits
<1> QED
  BY <1>4, <1>6, <1>7, <1>8 DEF Sound

(* The objects keep their types when none of them is touched.              *)
LEMMA TypedUntouched ==
  ASSUME ObjectsTyped, Untouched, name' \in {name, 0}
  PROVE  ObjectsTyped' /\ Len(obj') = Len(obj) /\ Objects' = Objects
BY DEF ObjectsTyped, Untouched

(* The objects keep their types when one of them and its log are           *)
(* rewritten.                                                              *)
LEMMA TypedTouched ==
  ASSUME ObjectsTyped, NEW o, Touches(o), name' = name, spoiled' \subseteq Objects,
         log' = log \/ \E l : Rewrites(o, l)
  PROVE  ObjectsTyped' /\ Len(obj') = Len(obj) /\ Objects' = Objects
BY DEF ObjectsTyped, Touches, Rewrites

(* Sound is kept when a writer makes an object.                            *)
LEMMA SoundCreates ==
  ASSUME Sound, NEW w \in Writers, Creates(w), wpc[w] \in {"open", "create"},
         wmode[w] # "open_only"
  PROVE  Sound'
<1> PICK o : o = Len(obj) + 1
  OBVIOUS
<1>1. /\ WritersTyped' /\ wpc'[w] = "size" /\ wobj'[w] = o /\ wi'[w] = wi[w]
      /\ wmode' = wmode
      /\ \A v \in Writers : v # w => wpc'[v] = wpc[v] /\ wobj'[v] = wobj[v] /\ wi'[v] = wi[v]
  BY DEF Creates, Moves
<1>2. /\ name' = o /\ o # 0 /\ Objects' = Objects \cup {o} /\ Len(obj') = o
      /\ obj' \in Seq(QueueObject) /\ log' \in Seq(Seq(0 .. N-1)) /\ Len(log') = o
      /\ UNCHANGED <<backend, rpc, robj, ri, runs, spoiled, overlap, clean>>
  BY DEF Creates
<1>3. Typed /\ Budget /\ ModeFits /\ ChildFits
  BY DEF Sound
<1>4. Typed'
  <2>1. ObjectsTyped'
    BY <1>2, <1>3 DEF Typed, ObjectsTyped
  <2>2. ChildTyped' /\ ScalarsTyped'
    BY <1>2, <1>3 DEF Typed, ChildTyped, ScalarsTyped
  <2> QED
    BY <1>1, <2>1, <2>2 DEF Typed
<1>5. Creators' \subseteq Creators \ {w} /\ w \in Creators
  BY <1>1 DEF Creators
<1>6. Budget'
  <2>1. runs \in Nat /\ Len(obj) \in Nat
    BY <1>3, CountsTyped
  <2> QED
    BY <1>2, <1>3, <1>5, <2>1, BudgetMade
<1>7. ModeFits'
  <2> SUFFICES ASSUME NEW v \in Writers
               PROVE  Fits(wpc[v], wmode[v], wobj[v], wi[v])'
    BY DEF ModeFits
  <2>0. Fits(wpc[v], wmode[v], wobj[v], wi[v])
    BY <1>3 DEF ModeFits
  <2>1. CASE v = w
    BY <1>1, <1>2, <2>0, <2>1 DEF Fits, Making, Using
  <2>2. CASE v # w
    <3>2. /\ wpc'[v] = wpc[v] /\ wobj'[v] = wobj[v] /\ wi'[v] = wi[v] /\ wmode'[v] = wmode[v]
          /\ backend' = backend
      BY <1>1, <1>2, <2>2
    <3> QED
      BY <2>0, <3>2 DEF Fits
  <2> QED
    BY <2>1, <2>2
<1>8. ChildFits'
  BY <1>2, <1>3 DEF ChildFits
<1> QED
  BY <1>4, <1>6, <1>7, <1>8 DEF Sound

(* Sound is kept when a writer is started.                                 *)
LEMMA SoundStarts ==
  ASSUME Sound, NEW w \in Writers, NEW mode \in Modes, Starts(w, mode),
         ChildTyped', ChildFits', runs' \in 0 .. MaxRuns, runs + 1 <= runs'
  PROVE  Sound'
<1>1. /\ WritersTyped' /\ wpc[w] = "idle" /\ wpc'[w] = FirstStep(mode) /\ wmode'[w] = mode
      /\ wobj' = wobj /\ wi' = wi
      /\ \A v \in Writers : v # w => wpc'[v] = wpc[v] /\ wmode'[v] = wmode[v]
      /\ name' = name /\ Untouched /\ UNCHANGED <<backend, clean>> /\ overlap' \in BOOLEAN
  BY DEF Starts
<1>2. Typed /\ Budget /\ ModeFits /\ ChildFits
  BY DEF Sound
<1>3. ObjectsTyped' /\ Len(obj') = Len(obj) /\ Objects' = Objects
  BY <1>1, <1>2, TypedUntouched DEF Typed
<1>4. Typed'
  BY <1>1, <1>2, <1>3 DEF Typed, ScalarsTyped
<1>5. Creators' \subseteq Creators \cup {w}
  BY <1>1 DEF Creators
<1>6. Budget'
  <2>1. runs \in Nat /\ Len(obj) \in Nat /\ runs' \in Nat
    BY <1>2, CountsTyped, SharedConstants
  <2> QED
    BY <1>2, <1>3, <1>5, <2>1, BudgetStart
<1>7. ModeFits'
  <2> SUFFICES ASSUME NEW v \in Writers
               PROVE  Fits(wpc[v], wmode[v], wobj[v], wi[v])'
    BY DEF ModeFits
  <2>0. Fits(wpc[v], wmode[v], wobj[v], wi[v])
    BY <1>2 DEF ModeFits
  <2>1. CASE v = w
    <3>1. wi[w] = 0
      BY <1>1, <2>0, <2>1 DEF Fits, Using
    <3>2. /\ wpc'[w] \in {"open", "remove", "create"}
          /\ wpc'[w] = "remove" => mode \in Afresh /\ backend = "shm"
          /\ wpc'[w] = "open" => mode \notin Afresh
          /\ wpc'[w] = "create" => mode \in Afresh /\ backend # "shm"
      BY <1>1 DEF FirstStep
    <3>3. backend \in {"shm", "mmap"} /\ "open_only" \notin Afresh
      BY <1>2, SharedConstants DEF Typed, ScalarsTyped, Afresh
    <3> QED
      BY <1>1, <2>1, <3>1, <3>2, <3>3 DEF Fits, Making, Using
  <2>2. CASE v # w
    <3>2. /\ wpc'[v] = wpc[v] /\ wobj'[v] = wobj[v] /\ wi'[v] = wi[v] /\ wmode'[v] = wmode[v]
          /\ backend' = backend
      BY <1>1, <2>2
    <3> QED
      BY <2>0, <3>2 DEF Fits
  <2> QED
    BY <2>1, <2>2
<1> QED
  BY <1>4, <1>6, <1>7 DEF Sound

(* A step of the child, or of the operator.                                *)
LEMMA SoundElse ==
  ASSUME Sound, ObjectsTyped', Len(obj') = Len(obj), Objects' = Objects,
         UNCHANGED <<backend, wpc, wmode, wobj, wi, overlap>>, clean' \in BOOLEAN,
         ChildTyped', ChildFits', runs' \in 0 .. MaxRuns, runs <= runs'
  PROVE  Sound'
<1>1. Typed /\ Budget /\ ModeFits
  BY DEF Sound
<1>2. Modes' = Modes
  BY DEF Modes
<1>3. Typed'
  BY <1>1, <1>2 DEF Typed, WritersTyped, ScalarsTyped
<1>4. Creators' \subseteq Creators
  BY DEF Creators
<1>5. Budget'
  <2>1. runs \in Nat /\ Len(obj) \in Nat /\ runs' \in Nat
    BY <1>1, CountsTyped, SharedConstants
  <2> QED
    BY <1>1, <1>4, <2>1, BudgetKept
<1>6. ModeFits'
  BY <1>1 DEF ModeFits, Fits
<1> QED
  BY <1>3, <1>5, <1>6 DEF Sound

(* Sound is kept by every step of a writer.                                *)
LEMMA SoundWriter ==
  ASSUME Sound, NEW w \in Writers,
         \/ WRemove(w) \/ WOpenFound(w) \/ WOpenNone(w) \/ WCreate(w) \/ WSize(w)
         \/ WFile(w) \/ WMap(w) \/ WConstruct(w) \/ WCheck(w) \/ WWrite(w) \/ WPush(w)
         \/ WUnlink(w) \/ (WCrash(w) \/ WKill(w))
  PROVE  Sound'
<1>1. /\ Typed /\ WritersTyped /\ ObjectsTyped /\ ScalarsTyped /\ clean \in BOOLEAN
      /\ Fits(wpc[w], wmode[w], wobj[w], wi[w])
  BY DEF Sound, Typed, ModeFits, ScalarsTyped
<1>2. /\ backend \in {"shm", "mmap"} /\ "open_only" \notin Afresh
      /\ wi[w] \in 0 .. N-1 /\ wobj[w] \in {0} \cup Objects
  BY <1>1, SharedConstants DEF ScalarsTyped, Afresh, WritersTyped
<1>3. Fits("idle", wmode[w], 0, 0)
  BY DEF Fits, Making, Using
<1>4. CASE WRemove(w)
  <2>1. /\ Moves(w, "open", wobj[w], wi[w]) /\ wpc[w] = "remove" /\ name' = 0 /\ Untouched
        /\ UNCHANGED <<backend, rpc, robj, ri, runs, overlap, clean>>
    BY <1>1, <1>4, RemoveStep
  <2>2. Fits("open", wmode[w], wobj[w], wi[w])
    BY <1>1, <2>1 DEF Fits, Making, Using
  <2>3. ObjectsTyped' /\ Len(obj') = Len(obj) /\ Objects' = Objects
    BY <1>1, <2>1, TypedUntouched
  <2> QED
    BY <1>1, <2>1, <2>2, <2>3, SoundMoves
<1>5. CASE WOpenFound(w)
  <2> DEFINE pc == FoundStep(w)
  <2>1. /\ Moves(w, pc, name, wi[w]) /\ wpc[w] = "open" /\ name # 0 /\ name' = name
        /\ Untouched /\ UNCHANGED <<backend, rpc, robj, ri, runs, overlap, clean>>
    BY <1>1, <1>5, OpenFoundStep
  <2>2. Fits(pc, wmode[w], name, wi[w])
    BY <1>1, <1>2, <2>1 DEF Fits, Making, Using, FoundStep
  <2>3. ObjectsTyped' /\ Len(obj') = Len(obj) /\ Objects' = Objects
    BY <1>1, <2>1, TypedUntouched
  <2>4. pc \notin {"remove", "open", "create"}
    BY DEF FoundStep
  <2> HIDE DEF pc
  <2> QED
    BY <1>1, <2>1, <2>2, <2>3, <2>4, SoundMoves
<1>6. CASE WOpenNone(w)
  <2>1. wpc[w] = "open" /\ name = 0
    BY <1>1, <1>6, OpenNoneStep
  <2>2. CASE wmode[w] # "open_only" /\ backend = "shm" /\ Creates(w)
    BY <2>1, <2>2, SoundCreates
  <2>3. CASE /\ \/ wmode[w] = "open_only" /\ Moves(w, "idle", 0, 0)
                \/ /\ wmode[w] # "open_only" /\ backend # "shm"
                   /\ Moves(w, "create", wobj[w], wi[w])
             /\ name' = name /\ Untouched
             /\ UNCHANGED <<backend, rpc, robj, ri, runs, overlap, clean>>
    <3>1. ObjectsTyped' /\ Len(obj') = Len(obj) /\ Objects' = Objects
      BY <1>1, <2>3, TypedUntouched
    <3>2. CASE Moves(w, "idle", 0, 0)
      BY <1>1, <1>3, <2>3, <3>1, <3>2, SoundMoves
    <3>3. CASE /\ wmode[w] # "open_only" /\ backend # "shm"
               /\ Moves(w, "create", wobj[w], wi[w])
      <4>1. Fits("create", wmode[w], wobj[w], wi[w])
        BY <1>1, <1>2, <2>1, <3>3 DEF Fits, Making, Using
      <4> QED
        BY <1>1, <2>1, <2>3, <3>1, <3>3, <4>1, SoundMoves
    <3> QED
      BY <2>3, <3>2, <3>3
  <2> QED
    BY <1>1, <1>6, <2>2, <2>3, OpenNoneStep
<1>7. CASE WCreate(w)
  <2>1. wpc[w] = "create" /\ wmode[w] # "open_only"
    BY <1>1, <1>7, TruncateStep DEF Fits
  <2>2. CASE Creates(w)
    BY <2>1, <2>2, SoundCreates
  <2>3. CASE /\ name \in Objects /\ name' = name /\ name # 0
             /\ Moves(w, "size", name, wi[w])
             /\ Touches(name) /\ Rewrites(name, <<>>)
             /\ spoiled' = IF WritersOf(name) # {} \/ ChildOn(name)
                           THEN spoiled \cup {name} ELSE spoiled \ {name}
             /\ UNCHANGED <<backend, rpc, robj, ri, runs, overlap, clean>>
    <3>1. spoiled' \subseteq Objects
      BY <1>1, <2>3 DEF ObjectsTyped
    <3>2. ObjectsTyped' /\ Len(obj') = Len(obj) /\ Objects' = Objects
      BY <1>1, <2>3, <3>1, TypedTouched
    <3>3. Fits("size", wmode[w], name, wi[w])
      BY <1>1, <2>1, <2>3 DEF Fits, Making, Using
    <3> QED
      BY <1>1, <2>3, <3>2, <3>3, SoundMoves
  <2> QED
    BY <1>1, <1>7, <2>2, <2>3, TruncateStep
<1>8. CASE WSize(w)
  <2>1. wobj[w] # 0
    BY <1>1, <1>8 DEF WSize, Fits, Making
  <2> PICK pc : pc = SizedStep
    OBVIOUS
  <2>2. /\ wpc[w] = "size" /\ Moves(w, pc, wobj[w], wi[w]) /\ Touches(wobj[w])
        /\ UNCHANGED <<backend, name, rpc, robj, ri, runs, log, spoiled, overlap, clean>>
    BY <1>1, <1>8, <2>1, SizeStep
  <2>3. spoiled' \subseteq Objects
    BY <1>1, <2>2 DEF ObjectsTyped
  <2>4. ObjectsTyped' /\ Len(obj') = Len(obj) /\ Objects' = Objects
    BY <1>1, <2>2, <2>3, TypedTouched
  <2>5. Fits(pc, wmode[w], wobj[w], wi[w]) /\ pc \notin {"remove", "open", "create"}
    BY <1>1, <1>2, <2>2 DEF Fits, Making, Using, SizedStep
  <2> QED
    BY <1>1, <2>2, <2>4, <2>5, SoundMoves
<1>9. CASE WMap(w)
  <2>1. /\ wpc[w] \in {"map", "mapNew"} /\ name' = name /\ Untouched
        /\ UNCHANGED <<backend, rpc, robj, ri, runs, overlap, clean>>
    BY <1>1, <1>9, MapStep
  <2>2. ObjectsTyped' /\ Len(obj') = Len(obj) /\ Objects' = Objects
    BY <1>1, <2>1, TypedUntouched
  <2>3. CASE Moves(w, "idle", 0, 0)
    BY <1>1, <1>3, <2>1, <2>2, <2>3, SoundMoves
  <2> DEFINE pc == IF wpc[w] = "mapNew" THEN "construct" ELSE "check"
  <2>4. CASE Moves(w, pc, wobj[w], wi[w])
    <3>1. Fits(pc, wmode[w], wobj[w], wi[w])
      BY <1>1, <2>1, <2>4 DEF Fits, Making, Using
    <3>2. pc \notin {"remove", "open", "create"}
      OBVIOUS
    <3> HIDE DEF pc
    <3> QED
      BY <1>1, <2>1, <2>2, <2>4, <3>1, <3>2, SoundMoves
  <2> QED
    BY <1>1, <1>9, <2>3, <2>4, MapStep
<1>10. CASE WConstruct(w)
  <2>1. wobj[w] # 0
    BY <1>1, <1>10 DEF WConstruct, Fits, Making
  <2>2. /\ wpc[w] = "construct" /\ Moves(w, "check", wobj[w], wi[w])
        /\ Touches(wobj[w]) /\ Rewrites(wobj[w], <<>>)
        /\ spoiled' = IF ~Shared(w) THEN spoiled \ {wobj[w]}
                      ELSE IF obj[wobj[w]].head # 0 \/ obj[wobj[w]].tail # 0
                      THEN spoiled \cup {wobj[w]} ELSE spoiled
        /\ UNCHANGED <<backend, name, rpc, robj, ri, runs, overlap, clean>>
    BY <1>1, <1>10, <2>1, ConstructStep
  <2>3. spoiled' \subseteq Objects
    BY <1>1, <1>2, <2>1, <2>2 DEF ObjectsTyped
  <2>4. ObjectsTyped' /\ Len(obj') = Len(obj) /\ Objects' = Objects
    BY <1>1, <2>2, <2>3, TypedTouched
  <2>5. Fits("check", wmode[w], wobj[w], wi[w])
    BY <1>1, <2>1, <2>2 DEF Fits, Making, Using
  <2> QED
    BY <1>1, <2>2, <2>4, <2>5, SoundMoves
<1>11. CASE WCheck(w)
  <2>1. /\ wpc[w] = "check" /\ Moves(w, "write", wobj[w], wi[w]) /\ name' = name /\ Untouched
        /\ UNCHANGED <<backend, rpc, robj, ri, runs, overlap, clean>>
    BY <1>1, <1>11, CheckStep
  <2>2. Fits("write", wmode[w], wobj[w], wi[w])
    BY <1>1, <2>1 DEF Fits, Making, Using
  <2>3. ObjectsTyped' /\ Len(obj') = Len(obj) /\ Objects' = Objects
    BY <1>1, <2>1, TypedUntouched
  <2> QED
    BY <1>1, <2>1, <2>2, <2>3, SoundMoves
<1>12. CASE WWrite(w)
  <2>1. wobj[w] # 0
    BY <1>1, <1>12 DEF WWrite, Fits, Using
  <2>2. /\ wpc[w] = "write" /\ Moves(w, "push", wobj[w], wi[w]) /\ Touches(wobj[w])
        /\ UNCHANGED <<backend, name, rpc, robj, ri, runs, log, spoiled, overlap, clean>>
    BY <1>1, <1>12, <2>1, WriteStep
  <2>3. spoiled' \subseteq Objects
    BY <1>1, <2>2 DEF ObjectsTyped
  <2>4. ObjectsTyped' /\ Len(obj') = Len(obj) /\ Objects' = Objects
    BY <1>1, <2>2, <2>3, TypedTouched
  <2>5. Fits("push", wmode[w], wobj[w], wi[w])
    BY <1>1, <2>2 DEF Fits, Making, Using
  <2> QED
    BY <1>1, <2>2, <2>4, <2>5, SoundMoves
<1>13. CASE WPush(w)
  <2>1. wobj[w] # 0
    BY <1>1, <1>13 DEF WPush, Fits, Using
  <2> PICK l : l = Append(log[wobj[w]], obj[wobj[w]].data[obj[wobj[w]].tail % Size])
    OBVIOUS
  <2>2. /\ wpc[w] = "push" /\ Touches(wobj[w]) /\ Rewrites(wobj[w], l)
        /\ \/ Moves(w, "idle", 0, 0)
           \/ Moves(w, "unlink", wobj[w], wi[w])
           \/ Moves(w, "check", wobj[w], wi[w] + 1)
        /\ UNCHANGED <<backend, name, rpc, robj, ri, runs, spoiled, overlap, clean>>
    BY <1>1, <1>13, <2>1, PushStep
  <2>3. spoiled' \subseteq Objects
    BY <1>1, <2>2 DEF ObjectsTyped
  <2>4. ObjectsTyped' /\ Len(obj') = Len(obj) /\ Objects' = Objects
    BY <1>1, <2>2, <2>3, TypedTouched
  <2>5. /\ Fits("unlink", wmode[w], wobj[w], wi[w])
        /\ Fits("check", wmode[w], wobj[w], wi[w] + 1)
    BY <2>1 DEF Fits, Making, Using
  <2>6. CASE Moves(w, "idle", 0, 0)
    BY <1>1, <1>3, <2>2, <2>4, <2>6, SoundMoves
  <2>7. CASE Moves(w, "unlink", wobj[w], wi[w])
    BY <1>1, <2>2, <2>4, <2>5, <2>7, SoundMoves
  <2>8. CASE Moves(w, "check", wobj[w], wi[w] + 1)
    BY <1>1, <2>2, <2>4, <2>5, <2>8, SoundMoves
  <2> QED
    BY <2>2, <2>6, <2>7, <2>8
<1>14. CASE WUnlink(w)
  <2>1. /\ Moves(w, "idle", 0, 0) /\ name' = 0 /\ Untouched
        /\ UNCHANGED <<backend, rpc, robj, ri, runs, overlap, clean>>
    BY <1>1, <1>14, UnlinkStep
  <2>2. ObjectsTyped' /\ Len(obj') = Len(obj) /\ Objects' = Objects
    BY <1>1, <2>1, TypedUntouched
  <2> QED
    BY <1>1, <1>3, <2>1, <2>2, SoundMoves
<1>15. CASE WCrash(w) \/ WKill(w)
  <2>1. /\ Moves(w, "idle", 0, 0) /\ name' = name /\ Untouched /\ clean' = FALSE
        /\ UNCHANGED <<backend, rpc, robj, ri, runs, overlap>>
    BY <1>1, <1>15, FaultStep
  <2>2. ObjectsTyped' /\ Len(obj') = Len(obj) /\ Objects' = Objects
    BY <1>1, <2>1, TypedUntouched
  <2> QED
    BY <1>1, <1>3, <2>1, <2>2, SoundMoves
<1>16. CASE WFile(w)
  <2>1. /\ wpc[w] \in {"file", "fileNew"} /\ name' = name /\ Untouched
        /\ UNCHANGED <<backend, rpc, robj, ri, runs, overlap, clean>>
    BY <1>1, <1>16, FileStep
  <2>2. ObjectsTyped' /\ Len(obj') = Len(obj) /\ Objects' = Objects
    BY <1>1, <2>1, TypedUntouched
  <2>3. CASE Moves(w, "idle", 0, 0)
    BY <1>1, <1>3, <2>1, <2>2, <2>3, SoundMoves
  <2> DEFINE pc == IF wpc[w] = "fileNew" THEN "mapNew" ELSE "map"
  <2>4. CASE name # 0 /\ Moves(w, pc, name, wi[w])
    <3>1. Fits(pc, wmode[w], name, wi[w])
      BY <1>1, <2>1, <2>4 DEF Fits, Making, Using
    <3>2. pc \notin {"remove", "open", "create"}
      OBVIOUS
    <3> HIDE DEF pc
    <3> QED
      BY <1>1, <2>1, <2>2, <2>4, <3>1, <3>2, SoundMoves
  <2> QED
    BY <1>1, <1>16, <2>3, <2>4, FileStep
<1> QED
  BY <1>4, <1>5, <1>6, <1>7, <1>8, <1>9, <1>10, <1>11, <1>12, <1>13, <1>14, <1>15, <1>16

(* Sound is kept by every step of the child.                               *)
LEMMA SoundChild ==
  ASSUME Sound, COpen \/ CFile \/ CMap \/ CCheck \/ CLoad \/ CPop \/ (CCrash \/ CKill) \/ CStart
  PROVE  Sound'
<1>1. /\ Typed /\ ChildTyped /\ ObjectsTyped /\ ScalarsTyped /\ clean \in BOOLEAN /\ ChildFits
      /\ runs \in 0 .. MaxRuns
  BY DEF Sound, Typed, ScalarsTyped
<1>2. /\ 0 \in 0 .. N-1 /\ ri \in 0 .. N-1 /\ robj \in {0} \cup Objects /\ runs \in Int
      /\ runs <= runs /\ name \in {0} \cup Objects /\ MaxRuns \in Int
  BY <1>1, SharedTyped, SharedConstants DEF ChildTyped, ScalarsTyped, ObjectsTyped
<1>3. ASSUME NEW pc, NEW o, NEW i, ChildAt(pc, o, i), Untouched, clean' \in BOOLEAN,
             runs' \in 0 .. MaxRuns, runs <= runs',
             pc \in {"idle", "open", "file", "map", "check", "load", "pop", "mismatch"},
             o \in {0} \cup Objects, i \in 0 .. N-1,
             pc \in {"idle", "open", "file", "map"} => i = 0,
             pc \in {"map", "check", "load", "pop"} => o # 0
      PROVE  Sound'
  <2>1. /\ rpc' = pc /\ robj' = o /\ ri' = i
        /\ UNCHANGED <<backend, name, wpc, wmode, wobj, wi, overlap>>
    BY <1>3 DEF ChildAt
  <2>2. ObjectsTyped' /\ Len(obj') = Len(obj) /\ Objects' = Objects
    BY <1>1, <1>3, <2>1, TypedUntouched
  <2>3. ChildTyped' /\ ChildFits'
    BY <1>3, <2>1, <2>2 DEF ChildTyped, ChildFits
  <2> QED
    BY <1>3, <2>1, <2>2, <2>3, SoundElse
<1>4. CASE COpen
  <2>1. /\ rpc = "open"
        /\ \/ name # 0 /\ ChildAt("map", name, ri)
           \/ ChildAt("file", name, ri)
           \/ ChildAt("idle", 0, 0)
        /\ Untouched /\ UNCHANGED <<runs, clean>>
    BY <1>4, COpenStep
  <2>2. ri = 0
    BY <1>1, <2>1 DEF ChildFits
  <2> QED
    BY <1>1, <1>2, <1>3, <2>1, <2>2
<1>5. CASE CMap
  <2>1. /\ rpc = "map"
        /\ ChildAt("check", robj, ri) \/ ChildAt("idle", 0, 0)
        /\ Untouched /\ UNCHANGED <<runs, clean>>
    BY <1>5, CMapStep
  <2>2. ri = 0 /\ robj # 0
    BY <1>1, <2>1 DEF ChildFits
  <2> QED
    BY <1>1, <1>2, <1>3, <2>1, <2>2
<1>6. CASE CCheck
  <2>1. /\ rpc = "check" /\ ChildAt("load", robj, ri)
        /\ Untouched /\ UNCHANGED <<runs, clean>>
    BY <1>6, CCheckStep
  <2>2. robj # 0
    BY <1>1, <2>1 DEF ChildFits
  <2> QED
    BY <1>1, <1>2, <1>3, <2>1, <2>2
<1>7. CASE CLoad
  <2> PICK pc \in {"pop", "mismatch"} :
         pc = IF obj[robj].data[obj[robj].head % Size] = ri THEN "pop" ELSE "mismatch"
    OBVIOUS
  <2>1. /\ rpc = "load" /\ ChildAt(pc, robj, ri)
        /\ Untouched /\ UNCHANGED <<runs, clean>>
    BY <1>7, CLoadStep
  <2>2. robj # 0
    BY <1>1, <2>1 DEF ChildFits
  <2> QED
    BY <1>1, <1>2, <1>3, <2>1, <2>2
<1>8. CASE CPop
  <2>1. robj # 0
    BY <1>1, <1>8 DEF CPop, ChildFits
  <2>2. /\ rpc = "pop" /\ Touches(robj)
        /\ \/ ri + 1 = N /\ ChildAt("idle", 0, 0)
           \/ ri + 1 # N /\ ChildAt("check", robj, ri + 1)
        /\ UNCHANGED <<runs, log, spoiled, clean>>
    BY <1>1, <1>8, <2>1, CPopStep
  <2>3. UNCHANGED <<backend, name, wpc, wmode, wobj, wi, overlap>>
    BY <2>2 DEF ChildAt
  <2>4. spoiled' \subseteq Objects
    BY <1>1, <2>2 DEF ObjectsTyped
  <2>5. ObjectsTyped' /\ Len(obj') = Len(obj) /\ Objects' = Objects
    BY <1>1, <2>2, <2>3, <2>4, TypedTouched
  <2>6. ri + 1 # N => ri + 1 \in 0 .. N-1
    BY <1>2, SharedTyped
  <2>7. ChildTyped' /\ ChildFits'
    BY <1>2, <2>1, <2>2, <2>5, <2>6 DEF ChildAt, ChildTyped, ChildFits
  <2> QED
    BY <1>1, <1>2, <2>2, <2>3, <2>5, <2>7, SoundElse
<1>9. CASE CCrash \/ CKill
  <2>1. ChildAt("idle", 0, 0) /\ Untouched /\ runs' = runs /\ clean' = FALSE
    BY <1>9, CFaultStep
  <2> QED
    BY <1>1, <1>2, <1>3, <2>1
<1>10. CASE CStart
  <2>1. /\ ChildAt("open", 0, 0)
        /\ Untouched /\ clean' = clean /\ runs < MaxRuns /\ runs' = runs + 1
    BY <1>10, CStartStep
  <2>2. runs' \in 0 .. MaxRuns /\ runs <= runs'
    BY <1>1, <1>2, <2>1
  <2> QED
    BY <1>1, <1>2, <1>3, <2>1, <2>2
<1>11. CASE CFile
  <2>1. /\ rpc = "file"
        /\ (name # 0 /\ ChildAt("map", name, ri)) \/ ChildAt("idle", 0, 0)
        /\ Untouched /\ UNCHANGED <<runs, clean>>
    BY <1>11, CFileStep
  <2>2. ri = 0
    BY <1>1, <2>1 DEF ChildFits
  <2> QED
    BY <1>1, <1>2, <1>3, <2>1, <2>2
<1> QED
  BY <1>4, <1>5, <1>6, <1>7, <1>8, <1>9, <1>10, <1>11

(* Sound is kept by every step.                                            *)
LEMMA SoundNext ==
  ASSUME Sound, Next
  PROVE  Sound'
<1>1. /\ Typed /\ WritersTyped /\ ChildTyped /\ ObjectsTyped /\ ScalarsTyped
      /\ clean \in BOOLEAN /\ ChildFits /\ runs \in 0 .. MaxRuns /\ runs \in Int
      /\ MaxRuns \in Int /\ 0 \in 0 .. N-1
  BY SharedConstants, SharedTyped DEF Sound, Typed, ScalarsTyped
<1>2. ASSUME NEW w \in Writers, Fork(w)
      PROVE  Sound'
  <2>1. /\ "open_or_create" \in Modes /\ Starts(w, "open_or_create")
        /\ runs + 2 <= MaxRuns /\ runs' = runs + 2
        /\ rpc' = "open" /\ robj' = 0 /\ ri' = 0
    BY <1>1, <1>2, ForkStep
  <2>2. ChildTyped' /\ ChildFits'
    BY <1>1, <2>1 DEF ChildTyped, ChildFits
  <2>3. runs' \in 0 .. MaxRuns /\ runs + 1 <= runs'
    BY <1>1, <2>1
  <2> QED
    BY <2>1, <2>2, <2>3, SoundStarts
<1>3. ASSUME NEW w \in Writers, NEW mode \in Modes, WStart(w, mode)
      PROVE  Sound'
  <2>1. /\ Starts(w, mode) /\ runs < MaxRuns /\ runs' = runs + 1
        /\ UNCHANGED <<rpc, robj, ri>>
    BY <1>1, <1>3, WStartStep
  <2>2. Objects' = Objects
    BY <2>1 DEF Starts, Untouched
  <2>3. ChildTyped' /\ ChildFits'
    BY <1>1, <2>1, <2>2 DEF ChildTyped, ChildFits
  <2>4. runs' \in 0 .. MaxRuns /\ runs + 1 <= runs'
    BY <1>1, <2>1
  <2> QED
    BY <2>1, <2>3, <2>4, SoundStarts
<1>4. CASE Cleanup
  <2>1. /\ name' = 0 /\ Untouched
        /\ UNCHANGED <<backend, wpc, wmode, wobj, wi, rpc, robj, ri, runs, overlap, clean>>
    BY <1>4, CleanupStep
  <2>2. ObjectsTyped' /\ Len(obj') = Len(obj) /\ Objects' = Objects
    BY <1>1, <2>1, TypedUntouched
  <2>3. ChildTyped' /\ ChildFits' /\ runs <= runs'
    BY <1>1, <2>1, <2>2 DEF ChildTyped, ChildFits
  <2> QED
    BY <1>1, <2>1, <2>2, <2>3, SoundElse
<1> QED
  BY <1>2, <1>3, <1>4, StepsSplit, SoundWriter, SoundChild

-----------------------------------------------------------------------------
(* Writers that do not overlap.                                            *)

(* A step of one writer: it disturbs the others only if it is the one that *)
(* opens the queue, and then nobody else is doing so.                      *)
LEMMA ApartMoves ==
  ASSUME Sound, Apart, NEW w \in Writers, NEW pc, NEW o, NEW i, Moves(w, pc, o, i),
         backend' = backend,
         pc \in Opening => wpc[w] \in Opening,
         pc \notin {"idle", "unlink"} => wpc[w] \notin {"idle", "unlink"},
         \/ wpc[w] \in Opening
         \/ /\ name' \in {name, 0} /\ spoiled' = spoiled /\ o \in {0, wobj[w]}
            /\ \A p \in Objects : p # wobj[w] => obj'[p] = obj[p],
         \A v \in Writers : v # w /\ wpc[v] \in Making \cup Using /\ wobj[v] \in spoiled =>
            wobj[v] \in spoiled',
         pc = "open" /\ wmode[w] \in Afresh => name' = 0,
         pc = "create" /\ wmode[w] = "open_or_create" => name' = 0,
         backend = "mmap" /\ pc \in {"size", "fileNew"} => name' \in {0, o},
         pc \in Making \cup Using =>
           \A v \in Writers : v # w /\ wpc[v] \in Making \cup Using /\ wobj[v] = o =>
             o \in spoiled',
         pc \in Making /\ ~Risky(w) =>
           /\ obj'[o].head = 0 /\ obj'[o].tail = 0 /\ o \notin spoiled'
           /\ \A v \in Writers : v # w => wobj[v] # o
  PROVE  Apart'
<1>1. /\ wpc'[w] = pc /\ wobj'[w] = o /\ wmode' = wmode
      /\ \A v \in Writers : v # w => wpc'[v] = wpc[v] /\ wobj'[v] = wobj[v]
  BY DEF Moves
<1>2. OneOpener /\ NameFree /\ Exclusive /\ MadeEmpty
  BY DEF Apart
<1>3. OneOpener'
  <2> SUFFICES ASSUME NEW u \in Writers, NEW v \in Writers, u # v, wpc'[u] \in Opening
               PROVE  /\ wpc'[v] \notin Opening
                      /\ wmode'[u] \notin Afresh => wpc'[v] \in {"idle", "unlink"}
    BY DEF OneOpener
  <2>1. wpc[u] \in Opening
    BY <1>1
  <2>2. wpc[v] \notin Opening /\ (wmode[u] \notin Afresh => wpc[v] \in {"idle", "unlink"})
    BY <1>2, <2>1 DEF OneOpener
  <2>3. wpc'[v] \in Opening => wpc[v] \in Opening
    BY <1>1
  <2>4. wpc[v] \in {"idle", "unlink"} => wpc'[v] \in {"idle", "unlink"}
    BY <1>1
  <2> QED
    BY <1>1, <2>2, <2>3, <2>4
<1>4. \A v \in Writers : v # w /\ wpc[v] \in Opening => wpc[w] \notin Opening
  BY <1>2 DEF OneOpener
<1>5. NameFree'
  <2> SUFFICES ASSUME NEW v \in Writers
               PROVE  /\ wpc'[v] = "open" /\ wmode'[v] \in Afresh => name' = 0
                      /\ wpc'[v] = "create" /\ wmode'[v] = "open_or_create" => name' = 0
                      /\ backend' = "mmap" /\ wpc'[v] \in {"size", "fileNew"}
                           => name' \in {0, wobj'[v]}
    BY DEF NameFree
  <2>1. CASE v = w
    BY <1>1, <2>1
  <2>2. CASE v # w
    <3>1. wpc'[v] = wpc[v] /\ wobj'[v] = wobj[v] /\ wmode'[v] = wmode[v]
      BY <1>1, <2>2
    <3>2. CASE wpc[v] \in Opening
      <4>1. name' \in {name, 0}
        BY <1>4, <2>2, <3>2
      <4>2. /\ wpc[v] = "open" /\ wmode[v] \in Afresh => name = 0
            /\ wpc[v] = "create" /\ wmode[v] = "open_or_create" => name = 0
            /\ backend = "mmap" /\ wpc[v] \in {"size", "fileNew"} => name \in {0, wobj[v]}
        BY <1>2 DEF NameFree
      <4> QED
        BY <3>1, <4>1, <4>2
    <3>3. CASE wpc[v] \notin Opening
      BY <3>1, <3>3 DEF Opening
    <3> QED
      BY <3>2, <3>3
  <2> QED
    BY <2>1, <2>2
<1>6. Exclusive'
  <2> SUFFICES ASSUME NEW u \in Writers, NEW v \in Writers, u # v, wobj'[u] = wobj'[v],
                      wpc'[u] \in Making \cup Using, wpc'[v] \in Making \cup Using
               PROVE  wobj'[u] \in spoiled'
    BY DEF Exclusive
  <2>1. CASE u = w
    BY <1>1, <2>1
  <2>2. CASE v = w
    BY <1>1, <2>2
  <2>3. CASE u # w /\ v # w
    <3>1. wobj[u] \in spoiled
      BY <1>1, <1>2, <2>3 DEF Exclusive
    <3> QED
      BY <1>1, <2>3, <3>1
  <2> QED
    BY <2>1, <2>2, <2>3
<1>7. MadeEmpty'
  <2> SUFFICES ASSUME NEW u \in Writers, wpc'[u] \in Making, ~Risky(u)'
               PROVE  /\ obj'[wobj'[u]].head = 0 /\ obj'[wobj'[u]].tail = 0
                      /\ wobj'[u] \notin spoiled'
                      /\ \A v \in Writers : v # u => wobj'[v] # wobj'[u]
    BY DEF MadeEmpty
  <2>1. ~Risky(u)
    BY <1>1 DEF Risky
  <2>2. CASE u = w
    BY <1>1, <2>1, <2>2
  <2>3. CASE u # w
    <3>1. wpc[u] \in Making /\ wobj'[u] = wobj[u]
      BY <1>1, <2>3
    <3>2. wpc[w] \notin Opening
      BY <1>4, <2>3, <3>1 DEF Making, Opening
    <3>3. /\ obj[wobj[u]].head = 0 /\ obj[wobj[u]].tail = 0 /\ wobj[u] \notin spoiled
          /\ \A v \in Writers : v # u => wobj[v] # wobj[u]
      BY <1>2, <2>1, <3>1 DEF MadeEmpty
    <3>4. wobj[u] # 0 /\ wobj[u] \in Objects
      BY <3>1 DEF Sound, ModeFits, Fits, Typed, WritersTyped
    <3>5. obj'[wobj[u]] = obj[wobj[u]]
      BY <2>3, <3>2, <3>3, <3>4
    <3>6. ASSUME NEW v \in Writers, v # u
          PROVE  wobj'[v] # wobj[u]
      BY <1>1, <2>3, <3>2, <3>3, <3>4, <3>6
    <3> QED
      BY <3>1, <3>2, <3>3, <3>5, <3>6
  <2> QED
    BY <2>2, <2>3
<1> QED
  BY <1>3, <1>5, <1>6, <1>7 DEF Apart

(* Apart is kept when a writer is started and overlaps with no other one.  *)
LEMMA ApartStarts ==
  ASSUME Sound, Apart, NEW w \in Writers, NEW mode \in Modes, Starts(w, mode),
         overlap' = FALSE
  PROVE  Apart'
<1>1. /\ wpc[w] = "idle" /\ wpc'[w] = FirstStep(mode) /\ wmode'[w] = mode
      /\ wobj' = wobj /\ name' = name /\ obj' = obj /\ spoiled' = spoiled
      /\ backend' = backend
      /\ \A v \in Writers : v # w => wpc'[v] = wpc[v] /\ wmode'[v] = wmode[v]
  BY DEF Starts, Untouched
<1>2. \A v \in Writers : v # w =>
        /\ wpc[v] \in {"idle", "check", "write", "push", "unlink"}
        /\ mode \notin Afresh => wpc[v] \in {"idle", "unlink"}
  BY DEF Starts
<1>3. /\ wpc'[w] \in {"open", "remove", "create"}
      /\ wpc'[w] = "open" => mode \notin Afresh
      /\ wpc'[w] = "create" => mode # "open_or_create"
  BY <1>1 DEF FirstStep, Afresh
<1>4. OneOpener /\ NameFree /\ Exclusive /\ MadeEmpty
  BY DEF Apart
<1>5. OneOpener'
  BY <1>1, <1>2, <1>4 DEF OneOpener, Opening
<1>6. NameFree'
  <2> SUFFICES ASSUME NEW v \in Writers
               PROVE  /\ wpc'[v] = "open" /\ wmode'[v] \in Afresh => name' = 0
                      /\ wpc'[v] = "create" /\ wmode'[v] = "open_or_create" => name' = 0
                      /\ backend' = "mmap" /\ wpc'[v] \in {"size", "fileNew"}
                           => name' \in {0, wobj'[v]}
    BY DEF NameFree
  <2>1. CASE v = w
    BY <1>1, <1>3, <2>1
  <2>2. CASE v # w
    BY <1>1, <1>4, <2>2 DEF NameFree
  <2> QED
    BY <2>1, <2>2
<1>7. wpc'[w] \notin Making \cup Using /\ wpc[w] \notin Making \cup Using
  BY <1>1, <1>3 DEF Making, Using
<1>8. Exclusive'
  BY <1>1, <1>4, <1>7 DEF Exclusive
<1>9. MadeEmpty'
  <2> SUFFICES ASSUME NEW u \in Writers, wpc'[u] \in Making, ~Risky(u)'
               PROVE  /\ obj'[wobj'[u]].head = 0 /\ obj'[wobj'[u]].tail = 0
                      /\ wobj'[u] \notin spoiled'
                      /\ \A v \in Writers : v # u => wobj'[v] # wobj'[u]
    BY DEF MadeEmpty
  <2>1. u # w
    BY <1>7
  <2>2. wpc[u] \in Making /\ ~Risky(u)
    BY <1>1, <2>1 DEF Risky
  <2> QED
    BY <1>1, <1>4, <2>2 DEF MadeEmpty
<1> QED
  BY <1>5, <1>6, <1>8, <1>9 DEF Apart

(* Steps of others: the name may be lost, one queue may be popped.         *)
LEMMA ApartElse ==
  ASSUME Sound, Apart, name' \in {name, 0},
         UNCHANGED <<backend, wpc, wmode, wobj, spoiled>>,
         \A o \in Objects : obj'[o] = obj[o] \/ (o \notin spoiled => obj[o].head # obj[o].tail)
  PROVE  Apart'
<1>1. OneOpener /\ NameFree /\ Exclusive /\ MadeEmpty
  BY DEF Apart
<1>2. OneOpener' /\ Exclusive'
  BY <1>1 DEF OneOpener, Exclusive
<1>3. NameFree'
  BY <1>1 DEF NameFree
<1>4. MadeEmpty'
  <2> SUFFICES ASSUME NEW u \in Writers, wpc[u] \in Making, ~Risky(u)
               PROVE  /\ obj'[wobj[u]].head = 0 /\ obj'[wobj[u]].tail = 0
                      /\ wobj[u] \notin spoiled
                      /\ \A v \in Writers : v # u => wobj[v] # wobj[u]
    BY DEF MadeEmpty, Risky
  <2>1. /\ obj[wobj[u]].head = 0 /\ obj[wobj[u]].tail = 0 /\ wobj[u] \notin spoiled
        /\ \A v \in Writers : v # u => wobj[v] # wobj[u]
    BY <1>1 DEF MadeEmpty
  <2>2. wobj[u] # 0 /\ wobj[u] \in Objects
    BY DEF Sound, ModeFits, Fits, Typed, WritersTyped
  <2>3. obj'[wobj[u]] = obj[wobj[u]]
    BY <2>1, <2>2
  <2> QED
    BY <2>1, <2>3
<1> QED
  BY <1>2, <1>3, <1>4 DEF Apart

(* Apart is kept by every step of a writer.                                *)
LEMMA ApartWriter ==
  ASSUME Sound, Apart, NEW w \in Writers,
         \/ WRemove(w) \/ WOpenFound(w) \/ WOpenNone(w) \/ WCreate(w) \/ WSize(w)
         \/ WFile(w) \/ WMap(w) \/ WConstruct(w) \/ WCheck(w) \/ WWrite(w) \/ WPush(w)
         \/ WUnlink(w) \/ (WCrash(w) \/ WKill(w))
  PROVE  Apart'
<1>1. /\ Typed /\ WritersTyped /\ ObjectsTyped /\ OneOpener /\ NameFree /\ Exclusive /\ MadeEmpty
      /\ Fits(wpc[w], wmode[w], wobj[w], wi[w])
  BY DEF Sound, Typed, ModeFits, Apart
<1>2. /\ backend \in {"shm", "mmap"} /\ wobj[w] \in {0} \cup Objects
      /\ wmode[w] \in {"create_only", "open_or_create", "open_only", "remover"}
      /\ wmode[w] = "remover" => backend = "shm"
  BY <1>1, SharedConstants DEF Sound, Typed, ScalarsTyped, WritersTyped, Modes
<1>3. wpc[w] \in Opening =>
        \A v \in Writers : v # w =>
          /\ wpc[v] \in Making \cup Using => wpc[v] \in Using
          /\ wmode[w] \notin Afresh => wpc[v] \notin Making \cup Using
  BY <1>1 DEF OneOpener, Opening, Making, Using
<1>4. \A v \in Writers :
        /\ v # w /\ wpc[w] \in Making \cup Using
        /\ wpc[v] \in Making \cup Using /\ wobj[v] = wobj[w]
        => wobj[w] \in spoiled
  BY <1>1 DEF Exclusive
<1>5. CASE WRemove(w)
  <2>1. /\ Moves(w, "open", wobj[w], wi[w]) /\ wpc[w] = "remove" /\ name' = 0
        /\ spoiled' = spoiled /\ backend' = backend
    BY <1>1, <1>5, RemoveStep DEF Untouched
  <2>2. wpc[w] \in Opening /\ "open" \notin Making \cup Using
    BY <2>1 DEF Opening, Making, Using
  <2>3. wpc[w] \notin {"idle", "unlink"}
    BY <2>1
  <2> QED
    BY <2>1, <2>2, <2>3, ApartMoves
<1>6. CASE WOpenFound(w)
  <2> DEFINE pc == FoundStep(w)
  <2>1. /\ Moves(w, pc, name, wi[w]) /\ wpc[w] = "open" /\ name # 0 /\ name' = name
        /\ spoiled' = spoiled /\ backend' = backend
    BY <1>1, <1>6, OpenFoundStep DEF Untouched
  <2>2. wmode[w] \notin Afresh
    BY <1>1, <2>1 DEF NameFree
  <2>3. wpc[w] \in Opening /\ wpc[w] \notin {"idle", "unlink"}
    BY <2>1 DEF Opening
  <2>4. /\ pc \notin {"open", "create"}
        /\ backend = "mmap" => pc \notin {"size", "fileNew"}
        /\ pc \in Making => Risky(w)
    BY <1>2, <2>2 DEF Making, Risky, Afresh, FoundStep
  <2>5. \A v \in Writers : v # w => wpc[v] \notin Making \cup Using
    BY <1>3, <2>2, <2>3
  <2> HIDE DEF pc
  <2> QED
    BY <2>1, <2>3, <2>4, <2>5, ApartMoves
<1>7. ASSUME Creates(w), wpc[w] \in {"open", "create"}
      PROVE  Apart'
  <2> PICK o : o = Len(obj) + 1
    OBVIOUS
  <2>1. /\ Moves(w, "size", o, wi[w]) /\ name' = o /\ o # 0 /\ o \notin Objects
        /\ obj'[o].head = 0 /\ obj'[o].tail = 0 /\ spoiled' = spoiled /\ backend' = backend
    BY <1>7 DEF Creates
  <2>2. wpc[w] \in Opening /\ wpc[w] \notin {"idle", "unlink"}
    BY <1>7 DEF Opening
  <2>3. o \notin spoiled' /\ \A v \in Writers : wobj[v] # o
    BY <1>1, <2>1 DEF ObjectsTyped, WritersTyped
  <2> QED
    BY <2>1, <2>2, <2>3, ApartMoves
<1>8. CASE WOpenNone(w)
  <2>1. wpc[w] = "open" /\ name = 0
    BY <1>1, <1>8, OpenNoneStep
  <2>2. CASE Creates(w)
    BY <1>7, <2>1, <2>2
  <2>3. CASE /\ \/ wmode[w] = "open_only" /\ Moves(w, "idle", 0, 0)
                \/ /\ wmode[w] # "open_only" /\ backend # "shm"
                   /\ Moves(w, "create", wobj[w], wi[w])
             /\ name' = name /\ Untouched
             /\ UNCHANGED <<backend, rpc, robj, ri, runs, overlap, clean>>
    <3>1. wpc[w] \in Opening /\ wpc[w] \notin {"idle", "unlink"} /\ spoiled' = spoiled
      BY <2>1, <2>3 DEF Opening, Untouched
    <3>2. /\ "idle" \notin Opening /\ "idle" \notin Making \cup Using
          /\ "create" \notin Making \cup Using
      BY DEF Opening, Making, Using
    <3>3. CASE Moves(w, "idle", 0, 0)
      BY <2>3, <3>1, <3>2, <3>3, ApartMoves
    <3>4. CASE Moves(w, "create", wobj[w], wi[w])
      BY <2>1, <2>3, <3>1, <3>2, <3>4, ApartMoves
    <3> QED
      BY <2>3, <3>3, <3>4
  <2> QED
    BY <1>1, <1>8, <2>2, <2>3, OpenNoneStep
<1>9. CASE WCreate(w)
  <2>1. wpc[w] = "create"
    BY <1>1, <1>9, TruncateStep
  <2>2. CASE Creates(w)
    BY <1>7, <2>1, <2>2
  <2>3. CASE /\ name \in Objects /\ name' = name /\ name # 0
             /\ Moves(w, "size", name, wi[w])
             /\ spoiled' = IF WritersOf(name) # {} \/ ChildOn(name)
                           THEN spoiled \cup {name} ELSE spoiled \ {name}
             /\ UNCHANGED <<backend, rpc, robj, ri, runs, overlap, clean>>
    <3>1. wpc[w] \in Opening /\ wpc[w] \notin {"idle", "unlink"}
      BY <2>1 DEF Opening
    <3>2. \A v \in Writers : v # w /\ wpc[v] \in Making \cup Using /\ wobj[v] = name =>
            v \in WritersOf(name)
      BY <1>3, <3>1 DEF WritersOf, Using
    <3>3. \A v \in Writers : v # w /\ wpc[v] \in Making \cup Using /\ wobj[v] = name =>
            name \in spoiled'
      BY <2>3, <3>2
    <3>4. \A v \in Writers : v # w /\ wpc[v] \in Making \cup Using /\ wobj[v] \in spoiled =>
            wobj[v] \in spoiled'
      BY <2>3, <3>3
    <3>5. backend = "mmap" /\ wmode[w] # "open_only" /\ wmode[w] # "open_or_create"
      BY <1>1, <2>1, <2>3 DEF Fits, NameFree
    <3>6. Risky(w)
      BY <1>2, <3>5 DEF Risky
    <3> QED
      BY <2>3, <3>1, <3>3, <3>4, <3>6, ApartMoves
  <2> QED
    BY <1>1, <1>9, <2>2, <2>3, TruncateStep
<1>10. CASE WSize(w)
  <2>1. wobj[w] # 0
    BY <1>1, <1>10 DEF WSize, Fits, Making
  <2> PICK pc : pc = SizedStep
    OBVIOUS
  <2>2. /\ wpc[w] = "size" /\ Moves(w, pc, wobj[w], wi[w])
        /\ obj'[wobj[w]].head = obj[wobj[w]].head
        /\ obj'[wobj[w]].tail = obj[wobj[w]].tail
        /\ backend' = backend /\ name' = name /\ spoiled' = spoiled
    BY <1>1, <1>10, <2>1, SizeStep
  <2>3. wpc[w] \in Opening /\ wpc[w] \in Making /\ wpc[w] \notin {"idle", "unlink"}
    BY <2>2 DEF Opening, Making
  <2>4. backend = "mmap" => name \in {0, wobj[w]}
    BY <1>1, <2>2 DEF NameFree
  <2>5. ~Risky(w) =>
          /\ obj[wobj[w]].head = 0 /\ obj[wobj[w]].tail = 0 /\ wobj[w] \notin spoiled
          /\ \A v \in Writers : v # w => wobj[v] # wobj[w]
    BY <1>1, <2>3 DEF MadeEmpty
  <2>6. pc \notin {"open", "create", "idle", "unlink"}
    BY DEF SizedStep
  <2> QED
    BY <1>4, <2>2, <2>3, <2>4, <2>5, <2>6, ApartMoves
<1>11. CASE WMap(w)
  <2>1. /\ wpc[w] \in {"map", "mapNew"} /\ name' = name /\ spoiled' = spoiled /\ obj' = obj
        /\ backend' = backend
    BY <1>1, <1>11, MapStep DEF Untouched
  <2>2. wpc[w] \in Opening /\ wpc[w] \notin {"idle", "unlink"}
    BY <2>1 DEF Opening
  <2>3. CASE Moves(w, "idle", 0, 0)
    <3>1. "idle" \notin Opening /\ "idle" \notin Making \cup Using
      BY DEF Opening, Making, Using
    <3> QED
      BY <2>1, <2>2, <2>3, <3>1, ApartMoves
  <2>4. CASE wpc[w] = "mapNew" /\ Moves(w, "construct", wobj[w], wi[w])
    <3>1. wpc[w] \in Making
      BY <2>4 DEF Making
    <3>2. ~Risky(w) =>
            /\ obj[wobj[w]].head = 0 /\ obj[wobj[w]].tail = 0 /\ wobj[w] \notin spoiled
            /\ \A v \in Writers : v # w => wobj[v] # wobj[w]
      BY <1>1, <3>1 DEF MadeEmpty
    <3> QED
      BY <1>4, <2>1, <2>2, <2>4, <3>1, <3>2, ApartMoves
  <2>5. CASE wpc[w] = "map" /\ Moves(w, "check", wobj[w], wi[w])
    <3>1. wmode[w] \notin Afresh
      BY <1>1, <2>5 DEF Fits
    <3>2. \A v \in Writers : v # w => wpc[v] \notin Making \cup Using
      BY <1>3, <2>2, <3>1
    <3>3. "check" \notin Making /\ "check" \notin Opening
      BY DEF Making, Opening
    <3> QED
      BY <2>1, <2>2, <2>5, <3>2, <3>3, ApartMoves
  <2> QED
    BY <1>1, <1>11, <2>1, <2>3, <2>4, <2>5, MapStep
<1>12. CASE WConstruct(w)
  <2>1. wobj[w] # 0
    BY <1>1, <1>12 DEF WConstruct, Fits, Making
  <2>2. /\ wpc[w] = "construct" /\ Moves(w, "check", wobj[w], wi[w])
        /\ \/ spoiled \subseteq spoiled'
           \/ ~Shared(w) /\ spoiled' = spoiled \ {wobj[w]}
        /\ backend' = backend /\ name' = name
    BY <1>1, <1>12, <2>1, ConstructStep
  <2>3. /\ wpc[w] \in Opening /\ wpc[w] \in Making /\ wpc[w] \notin {"idle", "unlink"}
        /\ "check" \notin Making /\ "check" \notin Opening
    BY <2>2 DEF Opening, Making
  <2>4. \A v \in Writers : v # w /\ wpc[v] \in Making \cup Using /\ wobj[v] = wobj[w] =>
          Shared(w)
    BY <1>3, <2>3 DEF Shared, WritersOf, Using
  <2>5. \A v \in Writers : v # w /\ wpc[v] \in Making \cup Using /\ wobj[v] = wobj[w] =>
          wobj[w] \in spoiled'
    BY <1>4, <2>2, <2>3, <2>4
  <2>6. \A v \in Writers : v # w /\ wpc[v] \in Making \cup Using /\ wobj[v] \in spoiled =>
          wobj[v] \in spoiled'
    BY <2>2, <2>4
  <2> QED
    BY <2>2, <2>3, <2>5, <2>6, ApartMoves
<1>13. ASSUME NEW pc \in Using, NEW i, Moves(w, pc, wobj[w], i), wpc[w] \in Using,
              backend' = backend, name' = name, spoiled' = spoiled,
              \A p \in Objects : p # wobj[w] => obj'[p] = obj[p]
       PROVE  Apart'
  <2>1. /\ pc \notin Opening /\ pc \notin Making /\ wpc[w] \notin {"idle", "unlink"}
        /\ pc \notin {"open", "create", "size", "fileNew"}
    BY <1>13 DEF Using, Opening, Making
  <2>2. \A v \in Writers : v # w /\ wpc[v] \in Making \cup Using /\ wobj[v] = wobj[w] =>
          wobj[w] \in spoiled'
    BY <1>4, <1>13
  <2> QED
    BY <1>13, <2>1, <2>2, ApartMoves
<1>14. ASSUME NEW pc \in {"idle", "unlink"}, NEW o \in {0, wobj[w]}, NEW i, Moves(w, pc, o, i),
              backend' = backend, name' \in {name, 0}, spoiled' = spoiled,
              \A p \in Objects : p # wobj[w] => obj'[p] = obj[p]
       PROVE  Apart'
  <2>1. pc \notin Opening /\ pc \notin Making \cup Using
    BY DEF Using, Opening, Making
  <2> QED
    BY <1>14, <2>1, ApartMoves
<1>15. CASE WCheck(w)
  <2>1. /\ wpc[w] = "check" /\ Moves(w, "write", wobj[w], wi[w]) /\ name' = name
        /\ obj' = obj /\ spoiled' = spoiled /\ backend' = backend
    BY <1>1, <1>15, CheckStep DEF Untouched
  <2>2. "check" \in Using /\ "write" \in Using
    BY DEF Using
  <2> QED
    BY <1>13, <2>1, <2>2
<1>16. CASE WWrite(w)
  <2>1. wobj[w] # 0
    BY <1>1, <1>16 DEF WWrite, Fits, Using
  <2>2. /\ wpc[w] = "write" /\ Moves(w, "push", wobj[w], wi[w]) /\ Touches(wobj[w])
        /\ backend' = backend /\ name' = name /\ spoiled' = spoiled
    BY <1>1, <1>16, <2>1, WriteStep
  <2>3. "push" \in Using /\ "write" \in Using
    BY DEF Using
  <2> QED
    BY <1>13, <2>2, <2>3 DEF Touches
<1>17. CASE WPush(w)
  <2>1. wobj[w] # 0
    BY <1>1, <1>17 DEF WPush, Fits, Using
  <2>2. /\ wpc[w] = "push" /\ Touches(wobj[w])
        /\ \/ Moves(w, "idle", 0, 0)
           \/ Moves(w, "unlink", wobj[w], wi[w])
           \/ Moves(w, "check", wobj[w], wi[w] + 1)
        /\ backend' = backend /\ name' = name /\ spoiled' = spoiled
    BY <1>1, <1>17, <2>1, PushStep
  <2>3. "push" \in Using /\ "check" \in Using
    BY DEF Using
  <2> QED
    BY <1>13, <1>14, <2>2, <2>3 DEF Touches
<1>18. CASE WUnlink(w)
  <2>1. /\ Moves(w, "idle", 0, 0) /\ name' = 0 /\ backend' = backend
        /\ spoiled' = spoiled /\ obj' = obj
    BY <1>1, <1>18, UnlinkStep DEF Untouched
  <2> QED
    BY <1>14, <2>1
<1>19. CASE WCrash(w) \/ WKill(w)
  <2>1. /\ Moves(w, "idle", 0, 0) /\ name' = name /\ backend' = backend
        /\ spoiled' = spoiled /\ obj' = obj
    BY <1>1, <1>19, FaultStep DEF Untouched
  <2> QED
    BY <1>14, <2>1
<1>20. CASE WFile(w)
  <2>1. /\ wpc[w] \in {"file", "fileNew"} /\ name' = name /\ spoiled' = spoiled /\ obj' = obj
        /\ backend' = backend
    BY <1>1, <1>20, FileStep DEF Untouched
  <2>2. wpc[w] \in Opening /\ wpc[w] \notin {"idle", "unlink"}
    BY <2>1 DEF Opening
  <2>3. CASE Moves(w, "idle", 0, 0)
    <3>1. "idle" \notin Opening /\ "idle" \notin Making \cup Using
      BY DEF Opening, Making, Using
    <3> QED
      BY <2>1, <2>2, <2>3, <3>1, ApartMoves
  <2>4. CASE name # 0 /\ wpc[w] = "fileNew" /\ Moves(w, "mapNew", name, wi[w])
    <3>1. wpc[w] \in Making /\ name = wobj[w]
      BY <1>1, <2>4 DEF Making, NameFree, Fits
    <3>2. ~Risky(w) =>
            /\ obj[wobj[w]].head = 0 /\ obj[wobj[w]].tail = 0 /\ wobj[w] \notin spoiled
            /\ \A v \in Writers : v # w => wobj[v] # wobj[w]
      BY <1>1, <3>1 DEF MadeEmpty
    <3>3. Moves(w, "mapNew", wobj[w], wi[w])
      BY <2>4, <3>1
    <3> QED
      BY <1>4, <2>1, <2>2, <3>1, <3>2, <3>3, ApartMoves
  <2>5. CASE wpc[w] = "file" /\ Moves(w, "map", name, wi[w])
    <3>1. "map" \notin Making /\ "map" \notin Using
      BY DEF Making, Using
    <3> QED
      BY <2>1, <2>2, <2>5, <3>1, ApartMoves
  <2> QED
    BY <1>1, <1>20, <2>1, <2>3, <2>4, <2>5, FileStep
<1> QED
  BY <1>5, <1>6, <1>8, <1>9, <1>10, <1>11, <1>12, <1>15, <1>16, <1>17, <1>18, <1>19, <1>20

(* A step of the child or of the operator.                                 *)
LEMMA ApartNext ==
  ASSUME Sound, Apart, PopFinds, Next, overlap' = FALSE
  PROVE  Apart'
<1>1. /\ Typed /\ WritersTyped /\ ChildTyped /\ ObjectsTyped /\ ScalarsTyped /\ ChildFits
  BY DEF Sound, Typed
<1>2. ASSUME NEW w \in Writers, Fork(w)
      PROVE  Apart'
  <2>1. "open_or_create" \in Modes /\ Starts(w, "open_or_create")
    BY <1>1, <1>2, ForkStep
  <2> QED
    BY <2>1, ApartStarts
<1>3. ASSUME NEW w \in Writers, NEW mode \in Modes, WStart(w, mode)
      PROVE  Apart'
  <2>1. Starts(w, mode)
    BY <1>1, <1>3, WStartStep
  <2> QED
    BY <2>1, ApartStarts
<1>4. CASE COpen \/ CFile \/ CMap \/ CCheck \/ CLoad \/ (CCrash \/ CKill) \/ CStart
  <2>1. Untouched /\ \E pc, o, i : ChildAt(pc, o, i)
    BY <1>4, COpenStep, CFileStep, CMapStep, CCheckStep, CLoadStep, CFaultStep, CStartStep
  <2>2. name' \in {name, 0} /\ UNCHANGED <<backend, wpc, wmode, wobj, spoiled, obj>>
    BY <2>1 DEF ChildAt, Untouched
  <2> QED
    BY <2>2, ApartElse
<1>5. CASE CPop
  <2>1. robj # 0
    BY <1>1, <1>5 DEF CPop, ChildFits
  <2>2. /\ rpc = "pop" /\ Touches(robj) /\ spoiled' = spoiled /\ \E pc, o, i : ChildAt(pc, o, i)
    BY <1>1, <1>5, <2>1, CPopStep
  <2>3. name' \in {name, 0} /\ UNCHANGED <<backend, wpc, wmode, wobj, spoiled>>
    BY <2>2 DEF ChildAt
  <2>4. \A o \in Objects : obj'[o] = obj[o] \/ (o \notin spoiled => obj[o].head # obj[o].tail)
    BY <2>2 DEF Touches, PopFinds
  <2> QED
    BY <2>3, <2>4, ApartElse
<1>6. CASE Cleanup
  <2>1. /\ name' = 0 /\ Untouched
        /\ UNCHANGED <<backend, wpc, wmode, wobj>>
    BY <1>6, CleanupStep
  <2>2. name' \in {name, 0} /\ spoiled' = spoiled /\ obj' = obj
    BY <2>1 DEF Untouched
  <2> QED
    BY <2>1, <2>2, ApartElse
<1> QED
  BY <1>2, <1>3, <1>4, <1>5, <1>6, StepsSplit, ApartWriter

-----------------------------------------------------------------------------
(* What is in the queues.                                                  *)

(* A writer that pushes and a child that pops have a queue.                *)
LEMMA UsersHave ==
  ASSUME Sound
  PROVE  /\ \A v \in Writers : wpc[v] = "push" => wobj[v] \in Objects
         /\ rpc = "pop" => robj \in Objects
<1>1. WritersTyped /\ ChildTyped /\ ModeFits /\ ChildFits
  BY DEF Sound, Typed
<1> QED
  BY <1>1 DEF WritersTyped, ChildTyped, ModeFits, Fits, ChildFits, Using

(* Held is kept by a step that touches no object.                          *)
LEMMA HeldQuiet ==
  ASSUME Held, Untouched,
         \A v \in Writers : wpc'[v] = "push" => wpc[v] = "push" /\ wobj'[v] = wobj[v],
         rpc' = "pop" => \/ rpc = "pop" /\ robj' = robj
                         \/ obj[robj'].head # obj[robj'].tail
  PROVE  Held'
<1>1. AllKept /\ RoomLeft /\ PopFinds
  BY DEF Held
<1>2. obj' = obj /\ log' = log /\ spoiled' = spoiled /\ Objects' = Objects
  BY DEF Untouched
<1>3. AllKept'
  <2> SUFFICES ASSUME NEW o \in Objects', o \notin spoiled' PROVE Kept(obj[o], log[o])'
    BY DEF AllKept
  <2>1. Kept(obj[o], log[o])
    BY <1>1, <1>2 DEF AllKept
  <2> QED
    BY <1>2, <2>1 DEF Kept, Filled
<1>4. RoomLeft'
  <2> SUFFICES ASSUME NEW v \in Writers, wpc'[v] = "push", wobj'[v] \notin spoiled'
               PROVE  (Filled(obj[wobj[v]]) < Size)'
    BY DEF RoomLeft
  <2>1. Filled(obj[wobj[v]]) < Size /\ wobj'[v] = wobj[v]
    BY <1>1, <1>2 DEF RoomLeft
  <2> QED
    BY <1>2, <2>1 DEF Filled
<1>5. PopFinds'
  BY <1>1, <1>2 DEF PopFinds
<1> QED
  BY <1>3, <1>4, <1>5 DEF Held

(* Held is kept by a step that touches one object, if that one is kept.    *)
LEMMA HeldTouch ==
  ASSUME Sound, Held, NEW o, Touches(o),
         \A p \in Objects : p # o => log'[p] = log[p] /\ (p \in spoiled <=> p \in spoiled'),
         NEW q, q = obj'[o], NEW l, l = log'[o],
         o \notin spoiled' =>
           /\ Kept(q, l)
           /\ \A v \in Writers : wpc'[v] = "push" /\ wobj'[v] = o => Filled(q) < Size
           /\ rpc' = "pop" /\ robj' = o => q.head # q.tail,
         \A v \in Writers : wpc'[v] = "push" /\ wobj'[v] # o =>
           wpc[v] = "push" /\ wobj'[v] = wobj[v],
         rpc' = "pop" /\ robj' # o => rpc = "pop" /\ robj' = robj
  PROVE  Held'
<1>1. AllKept /\ RoomLeft /\ PopFinds
  BY DEF Held
<1>2. /\ o \in Objects /\ Objects' = Objects
      /\ \A p \in Objects : p # o => obj'[p] = obj[p]
  BY DEF Touches
<1>3. /\ \A v \in Writers : wpc[v] = "push" => wobj[v] \in Objects
      /\ rpc = "pop" => robj \in Objects
  BY UsersHave
<1>4. AllKept'
  <2> SUFFICES ASSUME NEW p \in Objects', p \notin spoiled' PROVE Kept(obj[p], log[p])'
    BY DEF AllKept
  <2>1. CASE p = o
    BY <2>1 DEF Kept, Filled
  <2>2. CASE p # o
    <3>1. Kept(obj[p], log[p])
      BY <1>1, <1>2, <2>2 DEF AllKept
    <3>2. obj'[p] = obj[p] /\ log'[p] = log[p]
      BY <1>2, <2>2
    <3> QED
      BY <3>1, <3>2 DEF Kept, Filled
  <2> QED
    BY <2>1, <2>2
<1>5. RoomLeft'
  <2> SUFFICES ASSUME NEW v \in Writers, wpc'[v] = "push", wobj'[v] \notin spoiled'
               PROVE  (Filled(obj[wobj[v]]) < Size)'
    BY DEF RoomLeft
  <2>1. CASE wobj'[v] = o
    BY <2>1 DEF Filled
  <2>2. CASE wobj'[v] # o
    <3>1. wpc[v] = "push" /\ wobj'[v] = wobj[v] /\ wobj[v] \in Objects
      BY <1>3, <2>2
    <3>2. obj'[wobj[v]] = obj[wobj[v]] /\ wobj[v] \notin spoiled
      BY <1>2, <2>2, <3>1
    <3>3. Filled(obj[wobj[v]]) < Size
      BY <1>1, <3>1, <3>2 DEF RoomLeft
    <3> QED
      BY <3>1, <3>2, <3>3 DEF Filled
  <2> QED
    BY <2>1, <2>2
<1>6. PopFinds'
  <2> SUFFICES ASSUME rpc' = "pop", robj' \notin spoiled'
               PROVE  obj'[robj'].head # obj'[robj'].tail
    BY DEF PopFinds
  <2>1. CASE robj' = o
    BY <2>1
  <2>2. CASE robj' # o
    <3>1. rpc = "pop" /\ robj' = robj /\ robj \in Objects
      BY <1>3, <2>2
    <3>2. obj'[robj] = obj[robj] /\ robj \notin spoiled
      BY <1>2, <2>2, <3>1
    <3> QED
      BY <1>1, <3>1, <3>2 DEF PopFinds
  <2> QED
    BY <2>1, <2>2
<1> QED
  BY <1>4, <1>5, <1>6 DEF Held

(* Held is kept when a writer makes an object.                             *)
LEMMA HeldCreates ==
  ASSUME Sound, Held, NEW w \in Writers, Creates(w)
  PROVE  Held'
<1> PICK o : o = Len(obj) + 1
  OBVIOUS
<1>1. AllKept /\ RoomLeft /\ PopFinds
  BY DEF Held
<1>2. /\ o \notin Objects /\ Objects' = Objects \cup {o}
      /\ obj'[o].head = 0 /\ obj'[o].tail = 0 /\ log'[o] = <<>>
      /\ \A p \in Objects : obj'[p] = obj[p] /\ log'[p] = log[p]
      /\ UNCHANGED <<rpc, robj, spoiled>>
      /\ wpc'[w] = "size"
      /\ \A v \in Writers : v # w => wpc'[v] = wpc[v] /\ wobj'[v] = wobj[v]
  BY DEF Creates, Moves
<1>3. /\ \A v \in Writers : wpc[v] = "push" => wobj[v] \in Objects
      /\ rpc = "pop" => robj \in Objects
  BY UsersHave
<1>4. AllKept'
  <2> SUFFICES ASSUME NEW p \in Objects', p \notin spoiled' PROVE Kept(obj[p], log[p])'
    BY DEF AllKept
  <2>1. CASE p = o
    <3> PICK d : d = obj'[o]
      OBVIOUS
    <3>1. Kept(d, <<>>)
      BY <1>2, KeptEmpty
    <3> QED
      BY <1>2, <2>1, <3>1 DEF Kept, Filled
  <2>2. CASE p # o
    <3>1. p \in Objects /\ obj'[p] = obj[p] /\ log'[p] = log[p] /\ p \notin spoiled
      BY <1>2, <2>2
    <3>2. Kept(obj[p], log[p])
      BY <1>1, <3>1 DEF AllKept
    <3> QED
      BY <3>1, <3>2 DEF Kept, Filled
  <2> QED
    BY <2>1, <2>2
<1>5. RoomLeft'
  <2> SUFFICES ASSUME NEW v \in Writers, wpc'[v] = "push", wobj'[v] \notin spoiled'
               PROVE  (Filled(obj[wobj[v]]) < Size)'
    BY DEF RoomLeft
  <2>1. /\ wpc[v] = "push" /\ wobj'[v] = wobj[v] /\ wobj[v] \in Objects
        /\ wobj[v] \notin spoiled /\ obj'[wobj[v]] = obj[wobj[v]]
    BY <1>2, <1>3
  <2>2. Filled(obj[wobj[v]]) < Size
    BY <1>1, <2>1 DEF RoomLeft
  <2> QED
    BY <2>1, <2>2 DEF Filled
<1>6. PopFinds'
  BY <1>1, <1>2, <1>3 DEF PopFinds
<1> QED
  BY <1>4, <1>5, <1>6 DEF Held

(* Held is kept by every step of a writer.                                 *)
LEMMA HeldWriter ==
  ASSUME Sound, Apart, Held, NEW w \in Writers,
         \/ WRemove(w) \/ WOpenFound(w) \/ WOpenNone(w) \/ WCreate(w) \/ WSize(w)
         \/ WFile(w) \/ WMap(w) \/ WConstruct(w) \/ WCheck(w) \/ WWrite(w) \/ WPush(w)
         \/ WUnlink(w) \/ (WCrash(w) \/ WKill(w))
  PROVE  Held'
<1>1. /\ Typed /\ WritersTyped /\ ObjectsTyped /\ AllKept /\ RoomLeft /\ PopFinds
      /\ Exclusive /\ Fits(wpc[w], wmode[w], wobj[w], wi[w])
  BY DEF Sound, Typed, ModeFits, Apart, Held
<1>2. wobj[w] \in {0} \cup Objects
  BY <1>1 DEF WritersTyped
<1>3. ASSUME NEW pc, NEW o, NEW i, Moves(w, pc, o, i), pc # "push", Untouched,
             rpc' = rpc, robj' = robj
      PROVE  Held'
  <2>1. \A v \in Writers : wpc'[v] = "push" => wpc[v] = "push" /\ wobj'[v] = wobj[v]
    BY <1>3 DEF Moves
  <2> QED
    BY <1>3, <2>1, HeldQuiet
<1>4. CASE WRemove(w)
  BY <1>1, <1>3, <1>4, RemoveStep
<1>5. CASE WOpenFound(w)
  <2> PICK pc : pc = FoundStep(w)
    OBVIOUS
  <2>1. Moves(w, pc, name, wi[w]) /\ Untouched /\ rpc' = rpc /\ robj' = robj
    BY <1>1, <1>5, OpenFoundStep
  <2>2. pc # "push"
    BY DEF FoundStep
  <2> QED
    BY <1>3, <2>1, <2>2
<1>6. CASE WOpenNone(w)
  <2>1. CASE Creates(w)
    BY <2>1, HeldCreates
  <2>2. CASE /\ \/ Moves(w, "idle", 0, 0)
                \/ Moves(w, "create", wobj[w], wi[w])
             /\ Untouched /\ rpc' = rpc /\ robj' = robj
    BY <1>3, <2>2
  <2> QED
    BY <1>1, <1>6, <2>1, <2>2, OpenNoneStep
<1>7. CASE WCreate(w)
  <2>1. CASE Creates(w)
    BY <2>1, HeldCreates
  <2>2. CASE /\ name \in Objects
             /\ Moves(w, "size", name, wi[w])
             /\ Touches(name) /\ obj'[name].head = 0 /\ obj'[name].tail = 0
             /\ Rewrites(name, <<>>)
             /\ spoiled' = IF WritersOf(name) # {} \/ ChildOn(name)
                           THEN spoiled \cup {name} ELSE spoiled \ {name}
             /\ UNCHANGED <<backend, rpc, robj, ri, runs, overlap, clean>>
    <3> PICK o, q, l : o = name /\ q = obj'[o] /\ l = log'[o]
      OBVIOUS
    <3>1. l = <<>> /\ \A p \in Objects : p # o => log'[p] = log[p]
      BY <2>2 DEF Rewrites
    <3>2. Kept(q, l) /\ Filled(q) < Size
      <4>1. Kept(q, <<>>) /\ Filled(q) = 0
        BY <2>2, KeptEmpty
      <4> QED
        BY <3>1, <4>1, SharedTyped
    <3>3. rpc' = "pop" /\ robj' = o => o \in spoiled'
      BY <2>2 DEF ChildOn
    <3>4. \A v \in Writers : wpc'[v] = "push" => wpc[v] = "push" /\ wobj'[v] = wobj[v]
      BY <2>2 DEF Moves
    <3>5. \A p \in Objects : p # o => (p \in spoiled <=> p \in spoiled')
      BY <2>2
    <3> QED
      BY <2>2, <3>1, <3>2, <3>3, <3>4, <3>5, HeldTouch
  <2> QED
    BY <1>1, <1>7, <2>1, <2>2, TruncateStep
<1>8. CASE WSize(w)
  <2>1. wobj[w] # 0
    BY <1>1, <1>8 DEF WSize, Fits, Making
  <2> PICK o \in Objects : o = wobj[w]
    BY <1>2, <2>1
  <2> PICK q, d, l : q = obj'[o] /\ d = obj[o] /\ l = log[o]
    OBVIOUS
  <2> PICK pc : pc = SizedStep /\ pc # "push"
    BY DEF SizedStep
  <2>2. /\ Moves(w, pc, o, wi[w]) /\ Touches(o)
        /\ q.head = d.head /\ q.tail = d.tail /\ q.data = d.data
        /\ UNCHANGED <<backend, name, rpc, robj, ri, runs, log, spoiled, overlap, clean>>
    BY <1>1, <1>8, <2>1, SizeStep
  <2>3. \A v \in Writers : wpc'[v] = "push" => wpc[v] = "push" /\ wobj'[v] = wobj[v]
    BY <2>2 DEF Moves
  <2>4. ASSUME o \notin spoiled'
        PROVE  /\ Kept(q, l)
               /\ \A v \in Writers : wpc'[v] = "push" /\ wobj'[v] = o => Filled(q) < Size
               /\ rpc' = "pop" /\ robj' = o => q.head # q.tail
    <3>1. o \notin spoiled /\ Kept(d, l)
      BY <1>1, <2>2, <2>4 DEF AllKept
    <3>2. Kept(q, l) /\ Filled(q) = Filled(d)
      BY <2>2, <3>1, KeptSame
    <3>3. \A v \in Writers : wpc[v] = "push" /\ wobj[v] = o => Filled(d) < Size
      BY <1>1, <3>1 DEF RoomLeft
    <3>4. rpc = "pop" /\ robj = o => d.head # d.tail
      BY <1>1, <3>1 DEF PopFinds
    <3> QED
      BY <2>2, <2>3, <3>2, <3>3, <3>4
  <2> QED
    BY <2>2, <2>3, <2>4, HeldTouch
<1>9. CASE WMap(w)
  <2>1. /\ \/ Moves(w, "construct", wobj[w], wi[w])
           \/ Moves(w, "check", wobj[w], wi[w])
           \/ Moves(w, "idle", 0, 0)
        /\ Untouched /\ rpc' = rpc /\ robj' = robj
    BY <1>1, <1>9, MapStep
  <2> QED
    BY <1>3, <2>1
<1>10. CASE WConstruct(w)
  <2>1. wobj[w] # 0
    BY <1>1, <1>10 DEF WConstruct, Fits, Making
  <2> PICK o \in Objects : o = wobj[w]
    BY <1>2, <2>1
  <2> PICK q, d, l : q = obj'[o] /\ d = obj[o] /\ l = log'[o]
    OBVIOUS
  <2>2. /\ Moves(w, "check", o, wi[w]) /\ Touches(o) /\ q.head = 0 /\ q.tail = 0
        /\ Rewrites(o, <<>>)
        /\ spoiled' = IF ~Shared(w) THEN spoiled \ {o}
                      ELSE IF d.head # 0 \/ d.tail # 0 THEN spoiled \cup {o} ELSE spoiled
        /\ UNCHANGED <<backend, name, rpc, robj, ri, runs, overlap, clean>>
    BY <1>1, <1>10, <2>1, ConstructStep
  <2>3. \A v \in Writers : wpc'[v] = "push" => wpc[v] = "push" /\ wobj'[v] = wobj[v]
    BY <2>2 DEF Moves
  <2>4. l = <<>> /\ \A p \in Objects : p # o => log'[p] = log[p]
    BY <2>2 DEF Rewrites
  <2>5. Kept(q, l) /\ Filled(q) < Size
    <3>1. Kept(q, <<>>) /\ Filled(q) = 0
      BY <2>2, KeptEmpty
    <3> QED
      BY <2>4, <3>1, SharedTyped
  <2>6. rpc' = "pop" /\ robj' = o => o \in spoiled'
    BY <1>1, <2>2 DEF PopFinds, Shared, ChildOn
  <2>7. \A p \in Objects : p # o => (p \in spoiled <=> p \in spoiled')
    BY <2>2
  <2> QED
    BY <2>2, <2>3, <2>4, <2>5, <2>6, <2>7, HeldTouch, ZenonT(40)
<1>11. CASE WCheck(w)
  BY <1>1, <1>3, <1>11, CheckStep
<1>12. CASE WWrite(w)
  <2>1. wobj[w] # 0
    BY <1>1, <1>12 DEF WWrite, Fits, Using
  <2> PICK o \in Objects : o = wobj[w]
    BY <1>2, <2>1
  <2> PICK q, d, l : q = obj'[o] /\ d = obj[o] /\ l = log[o]
    OBVIOUS
  <2>2. /\ Moves(w, "push", o, wi[w]) /\ Touches(o) /\ Filled(d) < Size
        /\ q.head = d.head /\ q.tail = d.tail
        /\ q.data = [d.data EXCEPT ![d.tail % Size] = wi[w]]
        /\ UNCHANGED <<backend, name, rpc, robj, ri, runs, log, spoiled, overlap, clean>>
    BY <1>1, <1>12, <2>1, WriteStep
  <2>3. \A v \in Writers : wpc'[v] = "push" /\ wobj'[v] # o =>
          wpc[v] = "push" /\ wobj'[v] = wobj[v]
    BY <2>2 DEF Moves
  <2>4. ASSUME o \notin spoiled'
        PROVE  /\ Kept(q, l) /\ Filled(q) < Size
               /\ rpc' = "pop" /\ robj' = o => q.head # q.tail
    <3>1. o \notin spoiled /\ Kept(d, l) /\ d \in QueueObject
      BY <1>1, <2>2, <2>4, ObjectTyped DEF AllKept
    <3>2. Kept(q, l) /\ Filled(q) = Filled(d)
      BY <2>2, <3>1, KeptWrite
    <3>3. rpc = "pop" /\ robj = o => d.head # d.tail
      BY <1>1, <3>1 DEF PopFinds
    <3> QED
      BY <2>2, <3>2, <3>3
  <2> QED
    BY <2>2, <2>3, <2>4, HeldTouch
<1>13. CASE WPush(w)
  <2>1. wobj[w] # 0
    BY <1>1, <1>13 DEF WPush, Fits, Using
  <2> PICK o \in Objects : o = wobj[w]
    BY <1>2, <2>1
  <2> PICK q, d, l, x : /\ q = obj'[o] /\ d = obj[o] /\ l = log[o]
                        /\ x = Append(l, d.data[d.tail % Size])
    OBVIOUS
  <2>2. /\ wpc[w] = "push" /\ Touches(o) /\ q.head = d.head /\ q.data = d.data
        /\ q.tail = After(d.tail)
        /\ Rewrites(o, x)
        /\ \/ Moves(w, "idle", 0, 0)
           \/ Moves(w, "unlink", wobj[w], wi[w])
           \/ Moves(w, "check", wobj[w], wi[w] + 1)
        /\ UNCHANGED <<backend, name, rpc, robj, ri, runs, spoiled, overlap, clean>>
    BY <1>1, <1>13, <2>1, PushStep
  <2>3. \A v \in Writers : wpc'[v] = "push" =>
          v # w /\ wpc[v] = "push" /\ wobj'[v] = wobj[v]
    BY <2>2 DEF Moves
  <2>4. log'[o] = x /\ \A p \in Objects : p # o => log'[p] = log[p]
    BY <2>2 DEF Rewrites
  <2>5. ASSUME o \notin spoiled'
        PROVE  /\ Kept(q, x)
               /\ \A v \in Writers : wpc'[v] = "push" /\ wobj'[v] = o => Filled(q) < Size
               /\ rpc' = "pop" /\ robj' = o => q.head # q.tail
    <3>1. o \notin spoiled /\ Kept(d, l) /\ d \in QueueObject /\ l \in Seq(0 .. N-1)
      BY <1>1, <2>2, <2>5, ObjectTyped DEF AllKept
    <3>2. Filled(d) < Size
      BY <1>1, <2>2, <3>1 DEF RoomLeft
    <3>3. Kept(q, x) /\ Filled(q) = Filled(d) + 1
      BY <2>2, <3>1, <3>2, KeptPush
    <3>4. \A v \in Writers : v # w /\ wpc[v] = "push" => wobj[v] # o
      BY <1>1, <2>2, <3>1 DEF Exclusive, Using
    <3>5. q \in QueueObject
      <4>1. obj' \in Seq(QueueObject) /\ o \in DOMAIN obj'
        BY <2>2 DEF Touches, Objects
      <4>2. DOMAIN obj' = 1 .. Len(obj')
        BY <4>1, LenProperties
      <4> QED
        BY <4>1, <4>2, ElementOfSeq
    <3>6. q.head # q.tail
      <4>1. Filled(d) \in Nat
        BY <3>1, FilledTyped, SharedTyped
      <4>2. Filled(q) # 0
        BY <3>3, <4>1
      <4> QED
        BY <3>5, <4>2, FilledTyped
    <3> QED
      BY <2>3, <3>3, <3>4, <3>6
  <2>6. x = log'[o] /\ spoiled' = spoiled /\ rpc' = rpc /\ robj' = robj /\ Touches(o)
    BY <2>2, <2>4
  <2>7. \A v \in Writers : wpc'[v] = "push" /\ wobj'[v] # o =>
          wpc[v] = "push" /\ wobj'[v] = wobj[v]
    BY <2>3
  <2>8. \A p \in Objects : p # o => log'[p] = log[p] /\ (p \in spoiled <=> p \in spoiled')
    BY <2>4, <2>6
  <2> QED
    BY <2>5, <2>6, <2>7, <2>8, HeldTouch
<1>14. CASE WUnlink(w)
  BY <1>1, <1>3, <1>14, UnlinkStep
<1>15. CASE WCrash(w) \/ WKill(w)
  BY <1>1, <1>3, <1>15, FaultStep
<1>16. CASE WFile(w)
  <2>1. /\ \/ Moves(w, "mapNew", name, wi[w])
           \/ Moves(w, "map", name, wi[w])
           \/ Moves(w, "idle", 0, 0)
        /\ Untouched /\ rpc' = rpc /\ robj' = robj
    BY <1>1, <1>16, FileStep
  <2> QED
    BY <1>3, <2>1
<1> QED
  BY <1>4, <1>5, <1>6, <1>7, <1>8, <1>9, <1>10, <1>11, <1>12, <1>13, <1>14, <1>15, <1>16

(* Held is kept by every step.                                             *)
LEMMA HeldNext ==
  ASSUME Sound, Apart, Held, Next
  PROVE  Held'
<1>1. /\ Typed /\ WritersTyped /\ ChildTyped /\ ObjectsTyped /\ ScalarsTyped /\ ChildFits
      /\ AllKept /\ RoomLeft /\ PopFinds
  BY DEF Sound, Typed, Held
<1>2. ASSUME NEW w \in Writers, NEW mode, Starts(w, mode),
             rpc' # "pop" \/ (rpc' = rpc /\ robj' = robj)
      PROVE  Held'
  <2>1. /\ Untouched /\ wobj' = wobj /\ wpc'[w] # "push"
        /\ \A v \in Writers : v # w => wpc'[v] = wpc[v]
    BY <1>2 DEF Starts, FirstStep
  <2> QED
    BY <1>2, <2>1, HeldQuiet
<1>3. ASSUME NEW w \in Writers, Fork(w)
      PROVE  Held'
  <2>1. Starts(w, "open_or_create") /\ rpc' = "open"
    BY <1>1, <1>3, ForkStep
  <2> QED
    BY <1>2, <2>1
<1>4. ASSUME NEW w \in Writers, NEW mode \in Modes, WStart(w, mode)
      PROVE  Held'
  <2>1. Starts(w, mode) /\ rpc' = rpc /\ robj' = robj
    BY <1>1, <1>4, WStartStep
  <2> QED
    BY <1>2, <2>1
<1>5. ASSUME NEW pc, NEW o, NEW i, ChildAt(pc, o, i), Untouched,
             pc = "pop" => obj[o].head # obj[o].tail
      PROVE  Held'
  <2>1. rpc' = pc /\ robj' = o /\ wpc' = wpc /\ wobj' = wobj
    BY <1>5 DEF ChildAt
  <2> QED
    BY <1>5, <2>1, HeldQuiet
<1>6. CASE COpen
  BY <1>5, <1>6, COpenStep
<1>7. CASE CMap
  BY <1>5, <1>7, CMapStep
<1>8. CASE CCheck
  BY <1>5, <1>8, CCheckStep
<1>9. CASE CLoad
  <2> PICK pc : pc = IF obj[robj].data[obj[robj].head % Size] = ri THEN "pop" ELSE "mismatch"
    OBVIOUS
  <2>1. ChildAt(pc, robj, ri) /\ Untouched /\ obj[robj].head # obj[robj].tail
    BY <1>9, CLoadStep
  <2> QED
    BY <1>5, <2>1
<1>10. CASE CCrash \/ CKill
  BY <1>5, <1>10, CFaultStep
<1>11. CASE CStart
  BY <1>5, <1>11, CStartStep
<1>12. CASE CPop
  <2>1. robj # 0
    BY <1>1, <1>12 DEF CPop, ChildFits
  <2> PICK o \in Objects : o = robj
    BY <1>1, <2>1 DEF ChildTyped
  <2> PICK q, d, l : q = obj'[o] /\ d = obj[o] /\ l = log[o]
    OBVIOUS
  <2>2. /\ rpc = "pop" /\ Touches(o) /\ q.head = After(d.head) /\ q.tail = d.tail
        /\ q.data = d.data
        /\ ChildAt("idle", 0, 0) \/ ChildAt("check", robj, ri + 1)
        /\ log' = log /\ spoiled' = spoiled
    BY <1>1, <1>12, <2>1, CPopStep
  <2>3. rpc' # "pop" /\ wpc' = wpc /\ wobj' = wobj
    BY <2>2 DEF ChildAt
  <2>4. ASSUME o \notin spoiled'
        PROVE  Kept(q, l) /\ Filled(q) < Size
    <3>1. o \notin spoiled /\ Kept(d, l) /\ d \in QueueObject /\ l \in Seq(0 .. N-1)
      BY <1>1, <2>2, <2>4, ObjectTyped DEF AllKept
    <3>2. d.head # d.tail
      BY <1>1, <2>2, <3>1 DEF PopFinds
    <3>3. Kept(q, l) /\ Filled(q) = Filled(d) - 1
      BY <2>2, <3>1, <3>2, KeptPop
    <3>4. Filled(d) \in Nat /\ Filled(d) <= Size
      BY <3>1, FilledTyped, SharedTyped DEF Kept
    <3> QED
      BY <3>3, <3>4, SharedTyped
  <2> QED
    BY <2>2, <2>3, <2>4, HeldTouch
<1>13. CASE Cleanup
  <2>1. Untouched /\ UNCHANGED <<wpc, wobj, rpc, robj>>
    BY <1>13, CleanupStep
  <2> QED
    BY <2>1, HeldQuiet
<1>14. CASE CFile
  BY <1>5, <1>14, CFileStep
<1> QED
  BY <1>3, <1>4, <1>6, <1>7, <1>8, <1>9, <1>10, <1>11, <1>12, <1>13, <1>14,
     StepsSplit, HeldWriter

-----------------------------------------------------------------------------
(* The numbers in the queues when no process was killed.                   *)

(* Counted is kept by a step that concerns one object, if that one is      *)
(* counted.                                                                *)
LEMMA CountedAt ==
  ASSUME Counted, NEW o, Objects' \subseteq Objects \cup {o},
         \A p \in Objects : p # o =>
           /\ obj'[p] = obj[p] /\ log'[p] = log[p] /\ (p \in spoiled <=> p \in spoiled')
           /\ Expects(p)' = Expects(p),
         \A v \in Writers : \A p \in Objects : p # o =>
           /\ wobj'[v] = p /\ wpc'[v] \in Using <=> UsedBy(v, p)
           /\ UsedBy(v, p) => wi'[v] = wi[v] /\ (wpc'[v] = "push" => wpc[v] = "push"),
         o \in Objects' /\ o \notin spoiled' =>
           NumberedAt(o)' /\ CountsAt(o)' /\ PoppedAt(o)'
  PROVE  Counted'
<1> SUFFICES ASSUME NEW p \in Objects', p \notin spoiled'
             PROVE  NumberedAt(p)' /\ CountsAt(p)' /\ PoppedAt(p)'
  BY DEF Counted
<1>1. CASE p = o
  BY <1>1
<1>2. CASE p # o
  <2>1. /\ p \in Objects /\ p \notin spoiled /\ obj'[p] = obj[p] /\ log'[p] = log[p]
        /\ Expects(p)' = Expects(p)
    BY <1>2
  <2>2. NumberedAt(p) /\ CountsAt(p) /\ PoppedAt(p)
    BY <2>1 DEF Counted
  <2>3. NumberedAt(p)'
    BY <2>1, <2>2 DEF NumberedAt
  <2>4. PoppedAt(p)'
    BY <2>1, <2>2 DEF PoppedAt, Filled
  <2>5. \A v \in Writers :
          /\ UsedBy(v, p)' <=> UsedBy(v, p)
          /\ UsedBy(v, p) => wi'[v] = wi[v] /\ (wpc'[v] = "push" => wpc[v] = "push")
    BY <1>2, <2>1 DEF UsedBy
  <2>6. CountsAt(p)'
    <3> SUFFICES /\ \A v \in Writers : UsedBy(v, p)' =>
                      /\ Len(log'[p]) % N = wi'[v]
                      /\ wpc'[v] = "push" => obj'[p].data[obj'[p].tail % Size] = wi'[v]
                 /\ (\A v \in Writers : ~UsedBy(v, p)') => Len(log'[p]) % N = 0
      BY DEF CountsAt
    <3> QED
      BY <2>1, <2>2, <2>5 DEF CountsAt
  <2> QED
    BY <2>3, <2>4, <2>6
<1> QED
  BY <1>1, <1>2

(* The other objects of a step of one writer.                              *)
LEMMA OthersUse ==
  ASSUME NEW w \in Writers, NEW pc, NEW x, NEW i, NEW o,
         wpc'[w] = pc, wobj'[w] = x, wi'[w] = i,
         \A v \in Writers : v # w => wpc'[v] = wpc[v] /\ wobj'[v] = wobj[v] /\ wi'[v] = wi[v],
         wpc[w] \in Using => wobj[w] = o, pc \in Using => x = o
  PROVE  \A v \in Writers : \A p \in Objects : p # o =>
           /\ wobj'[v] = p /\ wpc'[v] \in Using <=> UsedBy(v, p)
           /\ UsedBy(v, p) => wi'[v] = wi[v] /\ (wpc'[v] = "push" => wpc[v] = "push")
<1> SUFFICES ASSUME NEW v \in Writers, NEW p \in Objects, p # o
             PROVE  /\ wobj'[v] = p /\ wpc'[v] \in Using <=> UsedBy(v, p)
                    /\ UsedBy(v, p) => wi'[v] = wi[v] /\ (wpc'[v] = "push" => wpc[v] = "push")
  OBVIOUS
<1>1. CASE v = w
  BY <1>1 DEF UsedBy
<1>2. CASE v # w
  BY <1>2 DEF UsedBy
<1> QED
  BY <1>1, <1>2

(* A writer that uses no queue before or after the step.                   *)
LEMMA CountedQuiet ==
  ASSUME Sound, Counted, NEW w \in Writers, Untouched,
         wpc[w] \notin Using, wpc'[w] \notin Using,
         \A v \in Writers : v # w => wpc'[v] = wpc[v] /\ wobj'[v] = wobj[v] /\ wi'[v] = wi[v],
         \A p \in Objects : Expects(p)' = Expects(p)
  PROVE  Counted'
<1>1. 0 \notin Objects
  BY ObjectTyped DEF Sound, Typed
<1>2. obj' = obj /\ log' = log /\ spoiled' = spoiled /\ Objects' = Objects
  BY DEF Untouched
<1> PICK z : z = 0
  OBVIOUS
<1>3. \A v \in Writers : \A p \in Objects : p # z =>
        /\ wobj'[v] = p /\ wpc'[v] \in Using <=> UsedBy(v, p)
        /\ UsedBy(v, p) => wi'[v] = wi[v] /\ (wpc'[v] = "push" => wpc[v] = "push")
  <2> SUFFICES ASSUME NEW v \in Writers, NEW p \in Objects
               PROVE  /\ wobj'[v] = p /\ wpc'[v] \in Using <=> UsedBy(v, p)
                      /\ UsedBy(v, p) => /\ wi'[v] = wi[v]
                                         /\ wpc'[v] = "push" => wpc[v] = "push"
    OBVIOUS
  <2>1. CASE v = w
    BY <2>1 DEF UsedBy
  <2>2. CASE v # w
    BY <2>2 DEF UsedBy
  <2> QED
    BY <2>1, <2>2
<1>4. /\ Objects' \subseteq Objects \cup {z} /\ z \notin Objects'
      /\ \A p \in Objects : p # z =>
           /\ obj'[p] = obj[p] /\ log'[p] = log[p] /\ (p \in spoiled <=> p \in spoiled')
           /\ Expects(p)' = Expects(p)
  BY <1>1, <1>2
<1> QED
  BY <1>3, <1>4, CountedAt

(* A step that no writer takes and that touches nothing.                   *)
LEMMA CountedElse ==
  ASSUME Sound, Counted, Untouched, UNCHANGED <<wpc, wobj, wi>>,
         \A p \in Objects : p \notin spoiled => Expects(p)' = Expects(p)
  PROVE  Counted'
<1>1. obj' = obj /\ log' = log /\ spoiled' = spoiled /\ Objects' = Objects
  BY DEF Untouched
<1> SUFFICES ASSUME NEW p \in Objects, p \notin spoiled
             PROVE  NumberedAt(p)' /\ CountsAt(p)' /\ PoppedAt(p)'
  BY <1>1 DEF Counted
<1>2. NumberedAt(p) /\ CountsAt(p) /\ PoppedAt(p) /\ Expects(p)' = Expects(p)
  BY DEF Counted
<1>3. NumberedAt(p)'
  BY <1>1, <1>2 DEF NumberedAt
<1>4. PoppedAt(p)'
  BY <1>1, <1>2 DEF PoppedAt, Filled
<1>5. CountsAt(p)'
  BY <1>1, <1>2 DEF CountsAt, UsedBy
<1> QED
  BY <1>3, <1>4, <1>5

(* A queue that is empty and was not pushed to.                            *)
LEMMA CountsEmpty ==
  ASSUME NEW o, obj'[o].head = 0, obj'[o].tail = 0, log'[o] = <<>>,
         Expects(o)' = 0,
         \A v \in Writers : wobj'[v] = o /\ wpc'[v] \in Using =>
           wi'[v] = 0 /\ wpc'[v] # "push"
  PROVE  NumberedAt(o)' /\ CountsAt(o)' /\ PoppedAt(o)'
<1>1. Len(log'[o]) = 0 /\ 1 .. 0 = {}
  OBVIOUS
<1>2. NumberedAt(o)'
  BY <1>1 DEF NumberedAt
<1>3. CountsAt(o)'
  BY <1>1, CountZero DEF CountsAt, UsedBy
<1>4. PoppedAt(o)'
  <2> PICK d : d = obj'[o]
    OBVIOUS
  <2>1. Filled(d) = 0
    BY KeptEmpty
  <2>2. (Filled(obj[o]))' = 0
    BY <2>1 DEF Filled
  <2>3. 0 - 0 = 0
    OBVIOUS
  <2> QED
    BY <1>1, <2>2, <2>3, CountZero DEF PoppedAt
<1> QED
  BY <1>2, <1>3, <1>4

(* Counted is kept by every step of a writer that is not killed.           *)
LEMMA CountedWriter ==
  ASSUME Sound, Apart, Held, Counted, NEW w \in Writers,
         \/ WRemove(w) \/ WOpenFound(w) \/ WOpenNone(w) \/ WCreate(w) \/ WSize(w)
         \/ WFile(w) \/ WMap(w) \/ WConstruct(w) \/ WCheck(w) \/ WWrite(w) \/ WPush(w)
         \/ WUnlink(w)
  PROVE  Counted'
<1>1. /\ Typed /\ WritersTyped /\ ChildTyped /\ ObjectsTyped /\ AllKept /\ RoomLeft
      /\ OneOpener /\ Exclusive /\ Fits(wpc[w], wmode[w], wobj[w], wi[w])
  BY DEF Sound, Typed, ModeFits, Apart, Held
<1>2. /\ wobj[w] \in {0} \cup Objects /\ robj \in {0} \cup Objects /\ wi[w] \in 0 .. N-1
      /\ \A v \in Writers : wobj[v] \in {0} \cup Objects
  BY <1>1 DEF WritersTyped, ChildTyped
<1>3. /\ "remove" \notin Using /\ "open" \notin Using /\ "create" \notin Using
      /\ "size" \notin Using /\ "map" \notin Using /\ "mapNew" \notin Using
      /\ "file" \notin Using /\ "fileNew" \notin Using
      /\ "construct" \notin Using /\ "idle" \notin Using /\ "unlink" \notin Using
      /\ "check" \in Using /\ "write" \in Using /\ "push" \in Using
  BY DEF Using
<1>4. \A p : rpc' = rpc /\ robj' = robj /\ ri' = ri => Expects(p)' = Expects(p)
  BY DEF Expects, ChildOn
<1>5. ASSUME NEW pc, NEW x, NEW i, Moves(w, pc, x, i), pc \notin Using, wpc[w] \notin Using,
             Untouched, rpc' = rpc, robj' = robj, ri' = ri
      PROVE  Counted'
  <2>1. /\ wpc'[w] \notin Using
        /\ \A v \in Writers : v # w =>
             wpc'[v] = wpc[v] /\ wobj'[v] = wobj[v] /\ wi'[v] = wi[v]
    BY <1>5 DEF Moves
  <2> QED
    BY <1>4, <1>5, <2>1, CountedQuiet
(* A step of w that concerns object o alone.                               *)
<1>6. ASSUME NEW o, NEW pc, NEW x, NEW i, Moves(w, pc, x, i),
             wpc[w] \in Using => wobj[w] = o, pc \in Using => x = o,
             Objects' \subseteq Objects \cup {o},
             \A p \in Objects : p # o =>
               obj'[p] = obj[p] /\ log'[p] = log[p] /\ (p \in spoiled <=> p \in spoiled'),
             rpc' = rpc, robj' = robj, ri' = ri,
             o \in Objects' /\ o \notin spoiled' =>
               NumberedAt(o)' /\ CountsAt(o)' /\ PoppedAt(o)'
      PROVE  Counted'
  <2>1. /\ wpc'[w] = pc /\ wobj'[w] = x /\ wi'[w] = i
        /\ \A v \in Writers : v # w =>
             wpc'[v] = wpc[v] /\ wobj'[v] = wobj[v] /\ wi'[v] = wi[v]
    BY <1>6 DEF Moves
  <2>2. \A v \in Writers : \A p \in Objects : p # o =>
           /\ wobj'[v] = p /\ wpc'[v] \in Using <=> UsedBy(v, p)
           /\ UsedBy(v, p) => wi'[v] = wi[v] /\ (wpc'[v] = "push" => wpc[v] = "push")
    <3>1. (wpc[w] \in Using => wobj[w] = o) /\ (pc \in Using => x = o)
      BY <1>6
    <3> QED
      BY <2>1, <3>1, OthersUse
  <2>3. \A p \in Objects : p # o =>
           /\ obj'[p] = obj[p] /\ log'[p] = log[p] /\ (p \in spoiled <=> p \in spoiled')
           /\ Expects(p)' = Expects(p)
    BY <1>4, <1>6
  <2> QED
    BY <1>6, <2>2, <2>3, CountedAt
<1>7. CASE WRemove(w)
  <2>1. /\ Moves(w, "open", wobj[w], wi[w]) /\ wpc[w] = "remove" /\ Untouched
        /\ rpc' = rpc /\ robj' = robj /\ ri' = ri
    BY <1>1, <1>7, RemoveStep
  <2> QED
    BY <1>3, <1>5, <2>1
<1>8. CASE WOpenFound(w)
  <2> PICK pc : pc = FoundStep(w)
    OBVIOUS
  <2>1. /\ Moves(w, pc, name, wi[w]) /\ wpc[w] = "open" /\ Untouched
        /\ rpc' = rpc /\ robj' = robj /\ ri' = ri
    BY <1>1, <1>8, OpenFoundStep
  <2>2. pc \notin Using
    BY <1>3 DEF FoundStep
  <2> QED
    BY <1>3, <1>5, <2>1, <2>2
<1>9. ASSUME Creates(w), wpc[w] \notin Using
      PROVE  Counted'
  <2> PICK o : o = Len(obj) + 1
    OBVIOUS
  <2>1. /\ Moves(w, "size", o, wi[w]) /\ o # 0 /\ o \notin Objects
        /\ Objects' = Objects \cup {o}
        /\ obj'[o].head = 0 /\ obj'[o].tail = 0 /\ log'[o] = <<>>
        /\ \A p \in Objects : obj'[p] = obj[p] /\ log'[p] = log[p]
        /\ rpc' = rpc /\ robj' = robj /\ ri' = ri /\ spoiled' = spoiled
    BY <1>9 DEF Creates
  <2>2. wpc'[w] = "size" /\ \A v \in Writers : v # w => wobj'[v] = wobj[v]
    BY <2>1 DEF Moves
  <2>3. \A v \in Writers : wobj'[v] = o /\ wpc'[v] \in Using => wi'[v] = 0 /\ wpc'[v] # "push"
    BY <1>2, <1>3, <2>1, <2>2
  <2>4. Expects(o)' = 0
    BY <1>2, <2>1 DEF Expects, ChildOn
  <2>5. NumberedAt(o)' /\ CountsAt(o)' /\ PoppedAt(o)'
    BY <2>1, <2>3, <2>4, CountsEmpty
  <2> QED
    BY <1>3, <1>6, <1>9, <2>1, <2>5
<1>10. CASE WOpenNone(w)
  <2>1. wpc[w] = "open"
    BY <1>1, <1>10, OpenNoneStep
  <2>2. CASE Creates(w)
    BY <1>3, <1>9, <2>1, <2>2
  <2>3. CASE /\ \/ Moves(w, "idle", 0, 0)
                \/ Moves(w, "create", wobj[w], wi[w])
             /\ Untouched /\ rpc' = rpc /\ robj' = robj /\ ri' = ri
    BY <1>3, <1>5, <2>1, <2>3
  <2> QED
    BY <1>1, <1>10, <2>2, <2>3, OpenNoneStep
<1>11. CASE WCreate(w)
  <2>1. wpc[w] = "create"
    BY <1>1, <1>11, TruncateStep
  <2>2. CASE Creates(w)
    BY <1>3, <1>9, <2>1, <2>2
  <2>3. CASE /\ name \in Objects
             /\ Moves(w, "size", name, wi[w])
             /\ Touches(name) /\ obj'[name].head = 0 /\ obj'[name].tail = 0
             /\ Rewrites(name, <<>>)
             /\ spoiled' = IF WritersOf(name) # {} \/ ChildOn(name)
                           THEN spoiled \cup {name} ELSE spoiled \ {name}
             /\ UNCHANGED <<backend, rpc, robj, ri, runs, overlap, clean>>
    <3> PICK o : o = name
      OBVIOUS
    <3>1. /\ log'[o] = <<>> /\ Objects' \subseteq Objects \cup {o}
          /\ \A p \in Objects : p # o =>
               obj'[p] = obj[p] /\ log'[p] = log[p] /\ (p \in spoiled <=> p \in spoiled')
      BY <2>3 DEF Touches, Rewrites
    <3>2. wpc'[w] = "size" /\ \A v \in Writers : v # w => wobj'[v] = wobj[v] /\ wpc'[v] = wpc[v]
      BY <2>3 DEF Moves
    <3>3. ASSUME o \notin spoiled'
          PROVE  NumberedAt(o)' /\ CountsAt(o)' /\ PoppedAt(o)'
      <4>1. WritersOf(o) = {} /\ ~ChildOn(o)
        BY <2>3, <3>3
      <4>2. \A v \in Writers : ~(wobj[v] = o /\ wpc[v] \in Using)
        BY <4>1 DEF WritersOf, Using
      <4>3. \A v \in Writers : ~(wobj'[v] = o /\ wpc'[v] \in Using)
        BY <1>3, <3>2, <4>2
      <4>4. Expects(o)' = 0
        BY <2>3, <4>1 DEF Expects, ChildOn
      <4> QED
        BY <2>3, <3>1, <4>3, <4>4, CountsEmpty
    <3> QED
      BY <1>3, <1>6, <2>1, <2>3, <3>1, <3>3
  <2> QED
    BY <1>1, <1>11, <2>2, <2>3, TruncateStep
<1>12. CASE WSize(w)
  <2>1. wobj[w] # 0
    BY <1>1, <1>12 DEF WSize, Fits, Making
  <2> PICK o \in Objects : o = wobj[w]
    BY <1>2, <2>1
  <2> PICK pc : pc = SizedStep /\ pc \notin Using /\ pc # "push"
    BY <1>3 DEF SizedStep
  <2>2. /\ wpc[w] = "size" /\ Moves(w, pc, o, wi[w]) /\ Touches(o)
        /\ obj'[o].head = obj[o].head /\ obj'[o].tail = obj[o].tail /\ obj'[o].data = obj[o].data
        /\ UNCHANGED <<backend, name, rpc, robj, ri, runs, log, spoiled, overlap, clean>>
    BY <1>1, <1>12, <2>1, SizeStep
  <2>3. /\ wpc'[w] = pc
        /\ \A v \in Writers : v # w =>
             wpc'[v] = wpc[v] /\ wobj'[v] = wobj[v] /\ wi'[v] = wi[v]
    BY <2>2 DEF Moves
  <2>4. ASSUME o \notin spoiled'
        PROVE  NumberedAt(o)' /\ CountsAt(o)' /\ PoppedAt(o)'
    <3>1. NumberedAt(o) /\ CountsAt(o) /\ PoppedAt(o)
      BY <2>2, <2>4 DEF Counted
    <3>2. \A v \in Writers :
            /\ UsedBy(v, o)' <=> UsedBy(v, o)
            /\ UsedBy(v, o) => wi'[v] = wi[v] /\ wpc'[v] = wpc[v]
      BY <1>3, <2>2, <2>3 DEF UsedBy
    <3>3. CountsAt(o)'
      BY <2>2, <3>1, <3>2 DEF CountsAt
    <3>4. NumberedAt(o)'
      BY <2>2, <3>1 DEF NumberedAt
    <3>5. PoppedAt(o)'
      BY <1>4, <2>2, <3>1 DEF PoppedAt, Filled
    <3> QED
      BY <3>3, <3>4, <3>5
  <2> QED
    BY <1>3, <1>6, <2>2, <2>4 DEF Touches
<1>13. CASE WMap(w)
  <2>1. /\ wpc[w] \in {"map", "mapNew"} /\ Untouched /\ rpc' = rpc /\ robj' = robj /\ ri' = ri
    BY <1>1, <1>13, MapStep
  <2>2. wpc[w] \notin Using
    BY <1>3, <2>1
  <2>3. CASE \/ Moves(w, "construct", wobj[w], wi[w])
             \/ Moves(w, "idle", 0, 0)
    BY <1>3, <1>5, <2>1, <2>2, <2>3
  <2>4. CASE wpc[w] = "map" /\ Moves(w, "check", wobj[w], wi[w])
    <3> PICK o : o = wobj[w]
      OBVIOUS
    <3>1. obj' = obj /\ log' = log /\ spoiled' = spoiled /\ Objects' = Objects
      BY <2>1 DEF Untouched
    <3>2. /\ wpc'[w] = "check" /\ wobj'[w] = o /\ wi'[w] = wi[w]
          /\ \A v \in Writers : v # w =>
               wpc'[v] = wpc[v] /\ wobj'[v] = wobj[v] /\ wi'[v] = wi[v]
      BY <2>4 DEF Moves
    <3>3. wmode[w] \notin Afresh /\ wi[w] = 0
      BY <1>1, <1>3, <2>4 DEF Fits
    <3>4. \A v \in Writers : wpc[v] \notin Using
      <4>1. wpc[w] \in Opening
        BY <2>4 DEF Opening
      <4> QED
        BY <1>1, <1>3, <2>2, <3>3, <4>1 DEF OneOpener
    <3>5. ASSUME o \in Objects', o \notin spoiled'
          PROVE  NumberedAt(o)' /\ CountsAt(o)' /\ PoppedAt(o)'
      <4>1. NumberedAt(o) /\ CountsAt(o) /\ PoppedAt(o)
        BY <3>1, <3>5 DEF Counted
      <4>2. Len(log[o]) % N = 0
        BY <3>4, <4>1 DEF CountsAt, UsedBy
      <4>3. \A v \in Writers : UsedBy(v, o)' => v = w
        BY <3>2, <3>4 DEF UsedBy
      <4>4. CountsAt(o)'
        BY <3>1, <3>2, <3>3, <4>2, <4>3 DEF CountsAt
      <4>5. NumberedAt(o)'
        BY <3>1, <4>1 DEF NumberedAt
      <4>6. PoppedAt(o)'
        BY <1>4, <2>1, <3>1, <4>1 DEF PoppedAt, Filled
      <4> QED
        BY <4>4, <4>5, <4>6
    <3>6. /\ Objects' \subseteq Objects \cup {o}
          /\ \A p \in Objects : p # o =>
               obj'[p] = obj[p] /\ log'[p] = log[p] /\ (p \in spoiled <=> p \in spoiled')
      BY <3>1
    <3> QED
      BY <1>6, <2>1, <2>2, <2>4, <3>5, <3>6
  <2> QED
    BY <1>1, <1>13, <2>1, <2>3, <2>4, MapStep
<1>14. CASE WConstruct(w)
  <2>1. wobj[w] # 0
    BY <1>1, <1>14 DEF WConstruct, Fits, Making
  <2> PICK o \in Objects : o = wobj[w]
    BY <1>2, <2>1
  <2> PICK d : d = obj[o]
    OBVIOUS
  <2>2. /\ wpc[w] = "construct" /\ Moves(w, "check", o, wi[w]) /\ Touches(o)
        /\ obj'[o].head = 0 /\ obj'[o].tail = 0 /\ Rewrites(o, <<>>)
        /\ spoiled' = IF ~Shared(w) THEN spoiled \ {o}
                      ELSE IF d.head # 0 \/ d.tail # 0 THEN spoiled \cup {o} ELSE spoiled
        /\ rpc' = rpc /\ robj' = robj /\ ri' = ri
    BY <1>1, <1>14, <2>1, ConstructStep
  <2>3. /\ wpc'[w] = "check" /\ wi'[w] = wi[w]
        /\ \A v \in Writers : v # w => wpc'[v] = wpc[v] /\ wobj'[v] = wobj[v]
    BY <2>2 DEF Moves
  <2>4. wi[w] = 0
    BY <1>1, <1>3, <2>2 DEF Fits
  <2>5. /\ log'[o] = <<>> /\ Objects' \subseteq Objects \cup {o}
        /\ \A p \in Objects : p # o =>
             obj'[p] = obj[p] /\ log'[p] = log[p] /\ (p \in spoiled <=> p \in spoiled')
    BY <2>2 DEF Touches, Rewrites
  <2>6. ASSUME o \notin spoiled'
        PROVE  NumberedAt(o)' /\ CountsAt(o)' /\ PoppedAt(o)'
    <3>1. ASSUME ~Shared(w)
          PROVE  /\ \A v \in Writers : v # w => ~(wobj[v] = o /\ wpc[v] \in Using)
                 /\ Expects(o)' = 0
      <4>1. WritersOf(o) = {w} /\ ~ChildOn(o)
        BY <3>1 DEF Shared
      <4>2. \A v \in Writers : v # w => ~(wobj[v] = o /\ wpc[v] \in Using)
        BY <4>1 DEF WritersOf, Using
      <4>3. Expects(o)' = 0
        BY <1>4, <2>2, <4>1 DEF Expects
      <4> QED
        BY <4>2, <4>3
    <3>2. ASSUME Shared(w)
          PROVE  /\ \A v \in Writers : v # w => ~(wobj[v] = o /\ wpc[v] \in Using)
                 /\ Expects(o)' = 0
      <4>1. d.head = 0 /\ d.tail = 0 /\ o \notin spoiled
        BY <2>2, <2>6, <3>2
      <4>2. CountsAt(o) /\ PoppedAt(o)
        BY <4>1 DEF Counted
      <4>3. \A v \in Writers : ~(wobj[v] = o /\ wpc[v] \in Using)
        BY <1>1, <1>3, <2>2, <4>1 DEF Exclusive, Making
      <4>4. Len(log[o]) % N = 0
        BY <4>2, <4>3 DEF CountsAt, UsedBy
      <4>5. Filled(d) = 0
        BY <4>1, KeptEmpty
      <4>6. (Len(log[o]) - 0) % N = Expects(o)
        BY <4>2, <4>5 DEF PoppedAt
      <4>7. Len(log[o]) - 0 = Len(log[o])
        <5>1. log[o] \in Seq(0 .. N-1)
          BY <1>1, ObjectTyped
        <5>2. Len(log[o]) \in Nat
          BY <5>1, LenProperties
        <5> QED
          BY <5>2
      <4>8. Expects(o)' = 0
        BY <1>4, <2>2, <4>4, <4>6, <4>7
      <4> QED
        BY <4>3, <4>8
    <3>3. /\ \A v \in Writers : v # w => ~(wobj[v] = o /\ wpc[v] \in Using)
          /\ Expects(o)' = 0
      BY <3>1, <3>2
    <3>4. \A v \in Writers : wobj'[v] = o /\ wpc'[v] \in Using => wi'[v] = 0 /\ wpc'[v] # "push"
      BY <2>3, <2>4, <3>3
    <3> QED
      BY <2>2, <2>5, <3>3, <3>4, CountsEmpty
  <2>7. Moves(w, "check", o, wi[w]) /\ rpc' = rpc /\ robj' = robj /\ ri' = ri
    BY <2>2
  <2> QED
    BY <1>6, <2>5, <2>6, <2>7
<1>15. CASE WCheck(w)
  <2>1. /\ wpc[w] = "check" /\ Moves(w, "write", wobj[w], wi[w]) /\ Untouched
        /\ rpc' = rpc /\ robj' = robj /\ ri' = ri
    BY <1>1, <1>15, CheckStep
  <2>2. obj' = obj /\ log' = log /\ spoiled' = spoiled /\ Objects' = Objects
    BY <2>1 DEF Untouched
  <2> PICK o : o = wobj[w]
    OBVIOUS
  <2>3. /\ wpc'[w] = "write" /\ wobj'[w] = o /\ wi'[w] = wi[w]
        /\ \A v \in Writers : v # w =>
             wpc'[v] = wpc[v] /\ wobj'[v] = wobj[v] /\ wi'[v] = wi[v]
    BY <2>1 DEF Moves
  <2>4. ASSUME o \in Objects', o \notin spoiled'
        PROVE  NumberedAt(o)' /\ CountsAt(o)' /\ PoppedAt(o)'
    <3>1. NumberedAt(o) /\ CountsAt(o) /\ PoppedAt(o)
      BY <2>2, <2>4 DEF Counted
    <3>2. \A v \in Writers :
            /\ UsedBy(v, o)' <=> UsedBy(v, o)
            /\ wi'[v] = wi[v] /\ (wpc'[v] = "push" => wpc[v] = "push")
      <4> SUFFICES ASSUME NEW v \in Writers
                   PROVE  /\ UsedBy(v, o)' <=> UsedBy(v, o)
                          /\ wi'[v] = wi[v] /\ (wpc'[v] = "push" => wpc[v] = "push")
        OBVIOUS
      <4>1. CASE v = w
        BY <1>3, <2>1, <2>3, <4>1 DEF UsedBy
      <4>2. CASE v # w
        BY <2>3, <4>2 DEF UsedBy
      <4> QED
        BY <4>1, <4>2
    <3>3. CountsAt(o)'
      BY <2>2, <3>1, <3>2 DEF CountsAt
    <3>4. NumberedAt(o)'
      BY <2>2, <3>1 DEF NumberedAt
    <3>5. PoppedAt(o)'
      BY <1>4, <2>1, <2>2, <3>1 DEF PoppedAt, Filled
    <3> QED
      BY <3>3, <3>4, <3>5
  <2>5. /\ Objects' \subseteq Objects \cup {o}
        /\ \A p \in Objects : p # o =>
             obj'[p] = obj[p] /\ log'[p] = log[p] /\ (p \in spoiled <=> p \in spoiled')
    BY <2>2
  <2> QED
    BY <1>6, <2>1, <2>4, <2>5
<1>16. CASE WWrite(w)
  <2>1. wobj[w] # 0
    BY <1>1, <1>16 DEF WWrite, Fits, Using
  <2> PICK o \in Objects : o = wobj[w]
    BY <1>2, <2>1
  <2> PICK q, d, l : q = obj'[o] /\ d = obj[o] /\ l = log[o]
    OBVIOUS
  <2>2. /\ wpc[w] = "write" /\ Moves(w, "push", o, wi[w]) /\ Touches(o) /\ Filled(d) < Size
        /\ q.head = d.head /\ q.tail = d.tail
        /\ q.data = [d.data EXCEPT ![d.tail % Size] = wi[w]]
        /\ UNCHANGED <<backend, name, rpc, robj, ri, runs, log, spoiled, overlap, clean>>
    BY <1>1, <1>16, <2>1, WriteStep
  <2>3. /\ wpc'[w] = "push" /\ wobj'[w] = o /\ wi'[w] = wi[w]
        /\ \A v \in Writers : v # w => wpc'[v] = wpc[v] /\ wobj'[v] = wobj[v]
    BY <2>2 DEF Moves
  <2>4. ASSUME o \notin spoiled'
        PROVE  NumberedAt(o)' /\ CountsAt(o)' /\ PoppedAt(o)'
    <3>1. o \notin spoiled /\ Kept(d, l) /\ d \in QueueObject
      BY <1>1, <2>2, <2>4, ObjectTyped DEF AllKept
    <3>2. NumberedAt(o) /\ CountsAt(o) /\ PoppedAt(o)
      BY <3>1 DEF Counted
    <3>3. Filled(q) = Filled(d) /\ q.data[q.tail % Size] = wi[w]
      <4>1. Filled(q) = Filled(d)
        BY <2>2, <3>1, KeptWrite
      <4>2. d.tail \in Int /\ d.data \in [0 .. Size-1 -> 0 .. N-1]
        BY <3>1, FilledTyped, SharedTyped
      <4> PICK j \in 0 .. Size-1 : j = d.tail % Size
        BY <4>2, SlotTyped
      <4>3. q.data = [d.data EXCEPT ![j] = wi[w]] /\ q.tail % Size = j
        BY <2>2
      <4> QED
        BY <4>1, <4>2, <4>3
    <3>4. \A v \in Writers : wobj'[v] = o /\ wpc'[v] \in Using => v = w
      BY <1>1, <1>3, <2>2, <2>3, <3>1 DEF Exclusive
    <3>5. Len(l) % N = wi[w]
      BY <1>3, <2>2, <3>2 DEF CountsAt, UsedBy
    <3>6. CountsAt(o)'
      BY <1>3, <2>2, <2>3, <3>3, <3>4, <3>5 DEF CountsAt, UsedBy
    <3>7. NumberedAt(o)'
      BY <2>2, <3>2 DEF NumberedAt
    <3>8. PoppedAt(o)'
      <4>1. (Filled(obj[o]))' = Filled(d)
        BY <3>3 DEF Filled
      <4> QED
        BY <1>4, <2>2, <3>2, <4>1 DEF PoppedAt
    <3> QED
      BY <3>6, <3>7, <3>8
  <2> QED
    BY <1>3, <1>6, <2>2, <2>4 DEF Touches
<1>17. CASE WPush(w)
  <2>1. wobj[w] # 0
    BY <1>1, <1>17 DEF WPush, Fits, Using
  <2> PICK o \in Objects : o = wobj[w]
    BY <1>2, <2>1
  <2> PICK q, d, l, x, y : /\ q = obj'[o] /\ d = obj[o] /\ l = log[o]
                           /\ y = d.data[d.tail % Size] /\ x = Append(l, y)
    OBVIOUS
  <2>2. /\ wpc[w] = "push" /\ Touches(o) /\ q.head = d.head /\ q.data = d.data
        /\ q.tail = After(d.tail)
        /\ Rewrites(o, x)
        /\ \/ wi[w] + 1 = N /\ Moves(w, "idle", 0, 0)
           \/ wi[w] + 1 = N /\ Moves(w, "unlink", o, wi[w])
           \/ wi[w] + 1 # N /\ Moves(w, "check", o, wi[w] + 1)
        /\ UNCHANGED <<backend, name, rpc, robj, ri, runs, spoiled, overlap, clean>>
    BY <1>1, <1>17, <2>1, PushStep
  <2>3. /\ log'[o] = x /\ Objects' \subseteq Objects \cup {o}
        /\ \A p \in Objects : p # o =>
             obj'[p] = obj[p] /\ log'[p] = log[p] /\ (p \in spoiled <=> p \in spoiled')
    BY <2>2 DEF Touches, Rewrites
  <2>4. /\ \A v \in Writers : v # w => wpc'[v] = wpc[v] /\ wobj'[v] = wobj[v]
        /\ \/ wi[w] + 1 = N /\ wpc'[w] \notin Using
           \/ wi[w] + 1 # N /\ wpc'[w] = "check" /\ wobj'[w] = o /\ wi'[w] = wi[w] + 1
    BY <1>3, <2>2 DEF Moves
  <2>5. ASSUME o \notin spoiled'
        PROVE  NumberedAt(o)' /\ CountsAt(o)' /\ PoppedAt(o)'
    <3>1. o \notin spoiled /\ Kept(d, l) /\ d \in QueueObject /\ l \in Seq(0 .. N-1)
      BY <1>1, <2>2, <2>5, ObjectTyped DEF AllKept
    <3>2. NumberedAt(o) /\ CountsAt(o) /\ PoppedAt(o)
      BY <3>1 DEF Counted
    <3>3. Filled(d) < Size
      BY <1>1, <2>2, <3>1 DEF RoomLeft
    <3>4. Filled(q) = Filled(d) + 1
      BY <2>2, <3>1, <3>3, KeptPush
    <3>5. \A v \in Writers : wobj'[v] = o /\ wpc'[v] \in Using => v = w
      BY <1>1, <1>3, <2>2, <2>4, <3>1 DEF Exclusive
    <3>6. Len(l) % N = wi[w] /\ y = wi[w]
      BY <1>3, <2>2, <3>2 DEF CountsAt, UsedBy
    <3> PICK n \in Nat : n = Len(l)
      BY <3>1, LenProperties
    <3>7. Len(x) = n + 1 /\ x[n + 1] = y /\ \A k \in 1 .. n : x[k] = l[k]
      <4>1. y \in 0 .. N-1
        BY <1>2, <3>6
      <4> QED
        BY <3>1, <4>1, AppendProperties
    <3>8. (n + 1) % N = IF wi[w] + 1 = N THEN 0 ELSE wi[w] + 1
      <4>1. n \in Int
        OBVIOUS
      <4>2. (n + 1) % N = IF (n % N) + 1 = N THEN 0 ELSE (n % N) + 1
        BY <4>1, CountNext
      <4> QED
        BY <3>6, <4>2
    <3>9. CountsAt(o)'
      <4>1. CASE wi[w] + 1 = N /\ wpc'[w] \notin Using
        <5>1. \A v \in Writers : ~(wobj'[v] = o /\ wpc'[v] \in Using)
          BY <3>5, <4>1
        <5>2. Len(log'[o]) % N = 0
          BY <2>3, <3>7, <3>8, <4>1
        <5> QED
          BY <5>1, <5>2 DEF CountsAt, UsedBy
      <4>2. CASE wi[w] + 1 # N /\ wpc'[w] = "check" /\ wobj'[w] = o /\ wi'[w] = wi[w] + 1
        <5>1. Len(log'[o]) % N = wi'[w]
          BY <2>3, <3>7, <3>8, <4>2
        <5> QED
          BY <1>3, <3>5, <4>2, <5>1 DEF CountsAt, UsedBy
      <4> QED
        BY <2>4, <4>1, <4>2
    <3>10. NumberedAt(o)'
      <4>1. ASSUME NEW k \in 1 .. n+1
            PROVE  x[k] = (k - 1) % N
        <5>1. CASE k = n + 1
          <6>1. k - 1 = n
            BY <5>1
          <6> QED
            BY <3>6, <3>7, <5>1, <6>1
        <5>2. CASE k # n + 1
          <6>1. k \in 1 .. n
            BY <5>2
          <6>2. l[k] = (k - 1) % N
            BY <3>2, <6>1 DEF NumberedAt
          <6> QED
            BY <3>7, <6>1, <6>2
        <5> QED
          BY <5>1, <5>2
      <4> QED
        BY <2>3, <3>7, <4>1 DEF NumberedAt
    <3>11. PoppedAt(o)'
      <4>1. (Filled(obj[o]))' = Filled(d) + 1
        BY <3>4 DEF Filled
      <4>2. Filled(d) \in Nat
        BY <3>1, FilledTyped, SharedTyped
      <4> PICK f \in Nat : f = Filled(d)
        BY <4>2
      <4>3. (n + 1) - (f + 1) = n - f
        OBVIOUS
      <4>4. Len(log'[o]) = n + 1
        BY <2>3, <3>7
      <4>5. (Len(l) - f) % N = Expects(o)
        BY <3>2 DEF PoppedAt
      <4>6. (Len(log'[o]) - (f + 1)) % N = Expects(o)
        BY <4>3, <4>4, <4>5
      <4> QED
        BY <1>4, <2>2, <4>1, <4>6 DEF PoppedAt
    <3> QED
      BY <3>9, <3>10, <3>11
  <2> QED
    BY <1>3, <1>6, <2>2, <2>3, <2>5, ZenonT(40)
<1>18. CASE WUnlink(w)
  <2>1. /\ Moves(w, "idle", 0, 0) /\ wpc[w] = "unlink" /\ Untouched
        /\ rpc' = rpc /\ robj' = robj /\ ri' = ri
    BY <1>1, <1>18, UnlinkStep
  <2> QED
    BY <1>3, <1>5, <2>1
<1>19. CASE WFile(w)
  <2>1. /\ wpc[w] \in {"file", "fileNew"} /\ Untouched
        /\ rpc' = rpc /\ robj' = robj /\ ri' = ri
        /\ \/ Moves(w, "mapNew", name, wi[w])
           \/ Moves(w, "map", name, wi[w])
           \/ Moves(w, "idle", 0, 0)
    BY <1>1, <1>19, FileStep
  <2>2. wpc[w] \notin Using
    BY <1>3, <2>1
  <2> QED
    BY <1>3, <1>5, <2>1, <2>2
<1> QED
  BY <1>7, <1>8, <1>10, <1>11, <1>12, <1>13, <1>14, <1>15, <1>16, <1>17, <1>18, <1>19

(* The number that the child finds is the one that it expects.             *)
LEMMA FirstExpected ==
  ASSUME Sound, Held, Counted, NEW o \in Objects, o \notin spoiled, ChildOn(o),
         obj[o].head # obj[o].tail
  PROVE  obj[o].data[obj[o].head % Size] = ri
<1> PICK d, l : d = obj[o] /\ l = log[o]
  OBVIOUS
<1>1. Kept(d, l) /\ d \in QueueObject /\ l \in Seq(0 .. N-1)
  BY ObjectTyped DEF Held, AllKept, Sound, Typed
<1>2. NumberedAt(o) /\ PoppedAt(o)
  BY DEF Counted
<1> PICK n \in Nat, f \in Nat : n = Len(l) /\ f = Filled(d)
  BY <1>1, LenProperties, FilledTyped, SharedTyped
<1>3. n - f + 1 \in 1 .. n /\ d.data[d.head % Size] = l[n - f + 1]
  BY <1>1, KeptFirst
<1>4. l[n - f + 1] = (n - f + 1 - 1) % N
  BY <1>2, <1>3 DEF NumberedAt
<1>5. n - f + 1 - 1 = n - f
  OBVIOUS
<1>6. (n - f) % N = ri
  BY <1>2 DEF PoppedAt, Expects
<1> QED
  BY <1>3, <1>4, <1>5, <1>6

(* A step keeps the numbers of the queues unless a process is killed.      *)
LEMMA CountedNext ==
  ASSUME Sound, Apart, Held, Counted, Next, clean' # FALSE
  PROVE  Counted'
<1>1. /\ Typed /\ WritersTyped /\ ChildTyped /\ ObjectsTyped /\ ScalarsTyped /\ ChildFits
      /\ AllKept /\ RoomLeft /\ PopFinds /\ 0 \notin Objects
  BY ObjectTyped DEF Sound, Typed, Held
<1>2. ASSUME NEW w \in Writers, NEW mode, Starts(w, mode),
             \A p \in Objects : Expects(p)' = Expects(p)
      PROVE  Counted'
  <2>1. /\ wpc[w] \notin Using /\ wpc'[w] \notin Using /\ Untouched
        /\ \A v \in Writers : v # w =>
             wpc'[v] = wpc[v] /\ wobj'[v] = wobj[v] /\ wi'[v] = wi[v]
    BY <1>2 DEF Starts, FirstStep, Using
  <2> QED
    BY <1>2, <2>1, CountedQuiet
<1>3. ASSUME NEW w \in Writers, Fork(w)
      PROVE  Counted'
  <2>1. /\ Starts(w, "open_or_create") /\ rpc' = "open"
        /\ rpc \in {"idle", "mismatch"}
    BY <1>1, <1>3, ForkStep
  <2>2. \A p \in Objects : Expects(p)' = Expects(p)
    BY <2>1 DEF Expects, ChildOn
  <2> QED
    BY <1>2, <2>1, <2>2
<1>4. ASSUME NEW w \in Writers, NEW mode \in Modes, WStart(w, mode)
      PROVE  Counted'
  <2>1. Starts(w, mode) /\ rpc' = rpc /\ robj' = robj /\ ri' = ri
    BY <1>1, <1>4, WStartStep
  <2>2. \A p \in Objects : Expects(p)' = Expects(p)
    BY <2>1 DEF Expects, ChildOn
  <2> QED
    BY <1>2, <2>1, <2>2
<1>5. ASSUME NEW pc, NEW o, NEW i, ChildAt(pc, o, i), Untouched,
             \A p \in Objects : p \notin spoiled => Expects(p)' = Expects(p)
      PROVE  Counted'
  <2>1. UNCHANGED <<wpc, wobj, wi>>
    BY <1>5 DEF ChildAt
  <2> QED
    BY <1>5, <2>1, CountedElse
(* The child comes or goes: none of its steps counts yet.                  *)
<1>6. ASSUME NEW pc, NEW o, NEW i, ChildAt(pc, o, i), Untouched, i = 0,
             rpc \notin {"check", "load", "pop"}
      PROVE  Counted'
  <2>1. \A p \in Objects : Expects(p)' = Expects(p)
    BY <1>6 DEF Expects, ChildOn, ChildAt
  <2> QED
    BY <1>5, <1>6, <2>1
<1>7. CASE COpen
  <2>1. /\ rpc = "open" /\ ri = 0 /\ Untouched
        /\ ChildAt("map", name, ri) \/ ChildAt("file", name, ri) \/ ChildAt("idle", 0, 0)
    BY <1>1, <1>7, COpenStep DEF ChildFits
  <2> QED
    BY <1>6, <2>1
<1>8. CASE CMap
  <2>1. /\ rpc = "map" /\ ri = 0 /\ Untouched
        /\ ChildAt("check", robj, ri) \/ ChildAt("idle", 0, 0)
    BY <1>1, <1>8, CMapStep DEF ChildFits
  <2> QED
    BY <1>6, <2>1
<1>9. CASE CStart
  <2>1. rpc \in {"idle", "mismatch"} /\ ChildAt("open", 0, 0) /\ Untouched
    BY <1>9, CStartStep
  <2> QED
    BY <1>6, <2>1
<1>10. CASE CCheck
  <2>1. rpc = "check" /\ ChildAt("load", robj, ri) /\ Untouched
    BY <1>10, CCheckStep
  <2>2. \A p \in Objects : Expects(p)' = Expects(p)
    BY <2>1 DEF Expects, ChildOn, ChildAt
  <2> QED
    BY <1>5, <2>1, <2>2
<1>11. CASE CLoad
  <2> PICK pc : pc = IF obj[robj].data[obj[robj].head % Size] = ri THEN "pop" ELSE "mismatch"
    OBVIOUS
  <2>1. /\ ChildAt(pc, robj, ri) /\ Untouched /\ rpc = "load"
        /\ obj[robj].head # obj[robj].tail
    BY <1>11, CLoadStep
  <2>2. ASSUME NEW p \in Objects, p \notin spoiled
        PROVE  Expects(p)' = Expects(p)
    <3>1. CASE robj = p
      <4>1. ChildOn(p)
        BY <2>1, <3>1 DEF ChildOn
      <4>2. obj[p].data[obj[p].head % Size] = ri
        BY <2>1, <2>2, <3>1, <4>1, FirstExpected
      <4>3. pc = "pop"
        BY <3>1, <4>2
      <4> QED
        BY <2>1, <3>1, <4>3 DEF Expects, ChildOn, ChildAt
    <3>2. CASE robj # p
      BY <2>1, <3>2 DEF Expects, ChildOn, ChildAt
    <3> QED
      BY <3>1, <3>2
  <2> QED
    BY <1>5, <2>1, <2>2
<1>12. CASE CPop
  <2>1. robj # 0
    BY <1>1, <1>12 DEF CPop, ChildFits
  <2> PICK o \in Objects : o = robj
    BY <1>1, <2>1 DEF ChildTyped
  <2> PICK q, d, l : q = obj'[o] /\ d = obj[o] /\ l = log[o]
    OBVIOUS
  <2>2. /\ rpc = "pop" /\ Touches(o) /\ q.head = After(d.head) /\ q.tail = d.tail
        /\ q.data = d.data
        /\ \/ ri + 1 = N /\ ChildAt("idle", 0, 0)
           \/ ri + 1 # N /\ ChildAt("check", o, ri + 1)
        /\ log' = log /\ spoiled' = spoiled
    BY <1>1, <1>12, <2>1, CPopStep
  <2>3. /\ wpc' = wpc /\ wobj' = wobj /\ wi' = wi
        /\ \/ ri + 1 = N /\ rpc' = "idle"
           \/ ri + 1 # N /\ rpc' = "check" /\ robj' = o /\ ri' = ri + 1
    BY <2>2 DEF ChildAt
  <2>4. ASSUME o \notin spoiled'
        PROVE  NumberedAt(o)' /\ CountsAt(o)' /\ PoppedAt(o)'
    <3>1. o \notin spoiled /\ Kept(d, l) /\ d \in QueueObject /\ l \in Seq(0 .. N-1)
      BY <1>1, <2>2, <2>4, ObjectTyped DEF AllKept
    <3>2. NumberedAt(o) /\ CountsAt(o) /\ PoppedAt(o)
      BY <3>1 DEF Counted
    <3>3. d.head # d.tail
      BY <1>1, <2>2, <3>1 DEF PopFinds
    <3>4. Filled(q) = Filled(d) - 1
      BY <2>2, <3>1, <3>3, KeptPop
    <3>5. NumberedAt(o)'
      BY <2>2, <3>2 DEF NumberedAt
    <3>6. CountsAt(o)'
      BY <2>2, <2>3, <3>2 DEF CountsAt, UsedBy
    <3> PICK n \in Nat, f \in Nat : n = Len(l) /\ f = Filled(d)
      BY <3>1, LenProperties, FilledTyped, SharedTyped
    <3>7. (n - f) % N = ri
      BY <2>2, <3>2 DEF PoppedAt, Expects, ChildOn
    <3>8. (n - (f - 1)) % N = IF ri + 1 = N THEN 0 ELSE ri + 1
      <4> PICK c \in Int : c = n - f
        OBVIOUS
      <4>1. (c + 1) % N = IF (c % N) + 1 = N THEN 0 ELSE (c % N) + 1
        BY CountNext
      <4>2. n - (f - 1) = c + 1
        OBVIOUS
      <4> QED
        BY <3>7, <4>1, <4>2
    <3>9. Expects(o)' = IF ri + 1 = N THEN 0 ELSE ri + 1
      BY <2>3 DEF Expects, ChildOn
    <3>10. (Filled(obj[o]))' = f - 1
      BY <3>4 DEF Filled
    <3>11. Len(log'[o]) = n
      BY <2>2
    <3>12. PoppedAt(o)'
      BY <3>8, <3>9, <3>10, <3>11 DEF PoppedAt
    <3> QED
      BY <3>5, <3>6, <3>12
  <2>5. \A p \in Objects : p # o => Expects(p)' = Expects(p)
    BY <2>2, <2>3 DEF Expects, ChildOn
  <2>6. /\ Objects' \subseteq Objects \cup {o}
        /\ \A p \in Objects : p # o =>
             /\ obj'[p] = obj[p] /\ log'[p] = log[p] /\ (p \in spoiled <=> p \in spoiled')
             /\ Expects(p)' = Expects(p)
    BY <2>2, <2>5 DEF Touches
  <2>7. \A v \in Writers : \A p \in Objects : p # o =>
           /\ wobj'[v] = p /\ wpc'[v] \in Using <=> UsedBy(v, p)
           /\ UsedBy(v, p) => wi'[v] = wi[v] /\ (wpc'[v] = "push" => wpc[v] = "push")
    BY <2>3 DEF UsedBy
  <2> QED
    BY <2>4, <2>6, <2>7, CountedAt
<1>13. CASE Cleanup
  <2>1. Untouched /\ UNCHANGED <<wpc, wobj, wi, rpc, robj, ri>>
    BY <1>13, CleanupStep
  <2>2. \A p \in Objects : Expects(p)' = Expects(p)
    BY <2>1 DEF Expects, ChildOn
  <2> QED
    BY <2>1, <2>2, CountedElse
<1>14. ASSUME NEW w \in Writers, WCrash(w) \/ WKill(w)
       PROVE  FALSE
  BY <1>1, <1>14, FaultStep
<1>15. ~(CCrash \/ CKill)
  BY CFaultStep
<1>16. CASE CFile
  <2>1. /\ rpc = "file" /\ ri = 0 /\ Untouched
        /\ ChildAt("map", name, ri) \/ ChildAt("idle", 0, 0)
    BY <1>1, <1>16, CFileStep DEF ChildFits
  <2> QED
    BY <1>6, <2>1
<1> QED
  BY <1>3, <1>4, <1>7, <1>8, <1>9, <1>10, <1>11, <1>12, <1>13, <1>14, <1>15, <1>16,
     StepsSplit, CountedWriter

-----------------------------------------------------------------------------
(* The specification                                                       *)

(* The initial states.                                                     *)
LEMMA InitIInv == Init => IInv
<1> SUFFICES ASSUME Init PROVE IInv
  OBVIOUS
<1>1. /\ backend \in Backends /\ name = 0 /\ obj = <<>> /\ log = <<>> /\ spoiled = {}
      /\ wpc = [w \in Writers |-> "idle"] /\ wmode = [w \in Writers |-> "open_only"]
      /\ wobj = [w \in Writers |-> 0] /\ wi = [w \in Writers |-> 0]
      /\ rpc = "idle" /\ robj = 0 /\ ri = 0 /\ runs = 0
      /\ overlap = FALSE /\ clean = TRUE
  BY DEF Init
<1>2. 0 \in 0 .. N-1 /\ Len(obj) = 0 /\ Objects = {} /\ 0 \in 0 .. MaxRuns
  BY <1>1, SharedTyped, SharedConstants DEF Objects
<1>3. Typed
  <2>1. obj \in Seq(QueueObject) /\ log \in Seq(Seq(0 .. N-1)) /\ Len(log) = Len(obj)
    BY <1>1, EmptySeq
  <2> QED
    BY <1>1, <1>2, <2>1
    DEF Typed, WritersTyped, ChildTyped, ObjectsTyped, ScalarsTyped, WriterSteps, Modes
<1>4. Budget
  <2>1. Creators = {}
    BY <1>1 DEF Creators
  <2>2. IsFiniteSet(Creators) /\ Cardinality(Creators) = 0
    BY <2>1, FS_EmptySet
  <2> QED
    BY <1>1, <1>2, <2>2 DEF Budget
<1>5. ModeFits /\ ChildFits
  BY <1>1 DEF ModeFits, Fits, ChildFits, Making, Using
<1>6. Apart
  BY <1>1 DEF Apart, OneOpener, NameFree, Exclusive, MadeEmpty, Opening, Making, Using
<1>7. Held
  BY <1>1, <1>2 DEF Held, AllKept, RoomLeft, PopFinds
<1>8. Counted
  BY <1>2 DEF Counted
<1> QED
  BY <1>3, <1>4, <1>5, <1>6, <1>7, <1>8 DEF IInv, Sound

(* What no step takes back.                                                *)
LEMMA HistoryGrows ==
  ASSUME Sound, Next
  PROVE  /\ overlap' = FALSE => overlap = FALSE
         /\ clean' # FALSE => clean' = clean
<1>1. /\ Typed /\ WritersTyped /\ ObjectsTyped /\ ScalarsTyped
  BY DEF Sound, Typed
<1>2. ASSUME NEW w \in Writers, Fork(w)
      PROVE  (overlap' = FALSE => overlap = FALSE) /\ clean' = clean
  <2>1. Starts(w, "open_or_create")
    BY <1>1, <1>2, ForkStep
  <2> QED
    BY <2>1 DEF Starts
<1>3. ASSUME NEW w \in Writers, NEW mode \in Modes, WStart(w, mode)
      PROVE  (overlap' = FALSE => overlap = FALSE) /\ clean' = clean
  <2>1. Starts(w, mode)
    BY <1>1, <1>3, WStartStep
  <2> QED
    BY <2>1 DEF Starts
<1>4. ASSUME NEW w \in Writers, WCrash(w) \/ WKill(w)
      PROVE  overlap' = overlap /\ clean' = FALSE
  BY <1>1, <1>4, FaultStep
<1>5. CASE CCrash \/ CKill
  <2>1. overlap' = overlap /\ clean' = FALSE
    BY <1>5, CFaultStep DEF ChildAt
  <2> QED
    BY <2>1
<1>6. CASE COpen \/ CFile \/ CMap \/ CCheck \/ CLoad \/ CStart \/ CPop \/ Cleanup
  BY <1>6
  DEF COpen, CFile, CMap, CCheck, CLoad, CStart, CPop, Cleanup, histVars
<1>7. ASSUME NEW w \in Writers,
             \/ WRemove(w) \/ WOpenFound(w) \/ WOpenNone(w) \/ WCreate(w) \/ WSize(w)
             \/ WFile(w) \/ WMap(w) \/ WConstruct(w) \/ WCheck(w) \/ WWrite(w) \/ WPush(w)
             \/ WUnlink(w)
      PROVE  overlap' = overlap /\ clean' = clean
  BY <1>7
  DEF WRemove, WOpenFound, WOpenNone, WCreate, WSize, WFile, WMap, WConstruct, WCheck,
      WWrite, WPush, WUnlink, NewObject, Truncate, histVars
<1> QED
  BY <1>2, <1>3, <1>4, <1>5, <1>6, <1>7, StepsSplit

(* Every step keeps the invariant.                                         *)
LEMMA NextIInv == IInv /\ [Next]_vars => IInv'
<1> SUFFICES ASSUME IInv, [Next]_vars PROVE IInv'
  OBVIOUS
<1>1. CASE Next
  <2>1. Sound /\ Sound'
    BY <1>1, SoundNext DEF IInv
  <2>2. overlap' \in BOOLEAN /\ clean' \in BOOLEAN /\ clean \in BOOLEAN /\ overlap \in BOOLEAN
    BY <2>1 DEF Sound, Typed, ScalarsTyped
  <2>3. ASSUME overlap' = FALSE
        PROVE  Apart' /\ Held' /\ (clean' => Counted')
    <3>1. Apart /\ Held /\ (clean => Counted)
      BY <1>1, <2>1, <2>3, HistoryGrows DEF IInv
    <3>2. Apart'
      BY <1>1, <2>1, <2>3, <3>1, ApartNext DEF Held
    <3>3. Held'
      BY <1>1, <2>1, <3>1, HeldNext
    <3>4. ASSUME clean' # FALSE
          PROVE  Counted'
      <4>1. clean' = clean
        BY <1>1, <2>1, <3>4, HistoryGrows
      <4>2. Counted
        BY <2>2, <3>1, <3>4, <4>1
      <4> QED
        BY <1>1, <2>1, <3>1, <3>4, <4>2, CountedNext
    <3> QED
      BY <2>2, <3>2, <3>3, <3>4
  <2> QED
    BY <2>1, <2>2, <2>3 DEF IInv
<1>2. CASE UNCHANGED vars
  <2>1. /\ UNCHANGED <<backend, name, obj, wpc, wmode, wobj, wi, rpc, robj, ri>>
        /\ UNCHANGED <<runs, log, spoiled, overlap, clean>>
    BY <1>2 DEF vars, objVars, writerVars, childVars, histVars
  <2>2. Objects' = Objects /\ Modes' = Modes
    BY <2>1 DEF Objects, Modes
  <2>3. Sound => Sound'
    <3>1. Typed => Typed'
      BY <2>1, <2>2 DEF Typed, WritersTyped, ChildTyped, ObjectsTyped, ScalarsTyped
    <3>2. Budget => Budget'
      BY <2>1 DEF Budget, Creators
    <3>3. ModeFits => ModeFits'
      BY <2>1 DEF ModeFits, Fits
    <3>4. ChildFits => ChildFits'
      BY <2>1 DEF ChildFits
    <3> QED
      BY <3>1, <3>2, <3>3, <3>4 DEF Sound
  <2>4. Apart => Apart'
    BY <2>1 DEF Apart, OneOpener, NameFree, Exclusive, MadeEmpty, Risky
  <2>5. Held => Held'
    BY <2>1, <2>2 DEF Held, AllKept, RoomLeft, PopFinds
  <2>6. Counted => Counted'
    <3>1. ASSUME NEW o
          PROVE  /\ NumberedAt(o) => NumberedAt(o)'
                 /\ CountsAt(o) => CountsAt(o)'
                 /\ PoppedAt(o) => PoppedAt(o)'
      BY <2>1 DEF NumberedAt, CountsAt, UsedBy, PoppedAt, Expects, ChildOn
    <3> QED
      BY <2>1, <2>2, <3>1 DEF Counted
  <2> QED
    BY <2>1, <2>3, <2>4, <2>5, <2>6 DEF IInv
<1> QED
  BY <1>1, <1>2

(* The invariant holds in every state, for every number of programs run,   *)
(* of both classes.                                                        *)
THEOREM Invariance == Spec => []IInv
BY InitIInv, NextIInv, PTL DEF Spec

(* Every variable keeps its type, however often the programs are run: a    *)
(* program makes one object at most, so there are no more objects than     *)
(* programs.                                                               *)
THEOREM TypeCorrect == Spec => []TypeOK
<1>1. IInv => TypeOK
  <2> SUFFICES ASSUME IInv PROVE TypeOK
    OBVIOUS
  <2>1. Typed /\ Budget
    BY DEF IInv, Sound
  <2>2. Len(obj) <= MaxRuns
    <3>1. /\ IsFiniteSet(Creators) /\ Len(obj) + Cardinality(Creators) <= runs
          /\ Len(obj) \in Nat /\ runs \in 0 .. MaxRuns
      BY <2>1, CountsTyped DEF Budget, Typed, ScalarsTyped
    <3>2. Cardinality(Creators) \in Nat
      BY <3>1, FS_CardinalityType
    <3> QED
      BY <3>1, <3>2, SharedConstants
  <2>3. \A o \in Objects : obj[o] \in QueueObject
    BY <2>1, ObjectTyped DEF Typed
  <2> QED
    BY <2>1, <2>2, <2>3
    DEF TypeOK, Typed, WritersTyped, ChildTyped, ObjectsTyped, ScalarsTyped,
        WriterSteps, Opening, Using
<1> QED
  BY <1>1, Invariance, PTL

(* What was pushed to a queue and not popped stays in it, in order, across *)
(* every end, kill, removal and creation of the same name, unless the      *)
(* queue was emptied under its users or writers overlapped.                *)
THEOREM IntactQueue == Spec => []QueueIntact
<1>1. IInv => QueueIntact
  BY DEF IInv, Held, AllKept, Kept, QueueIntact
<1> QED
  BY <1>1, Invariance, PTL

(* The child of test1, test2 and test5 does not report "test failed": what *)
(* it finds at begin() is the number that it expects, for every number of  *)
(* runs, as long as no process was killed, no two writers overlapped and   *)
(* its queue was not emptied under its users.                              *)
THEOREM ChildAgrees == Spec => ChildPasses
<1>1. IInv /\ [Next]_vars =>
        [rpc' = "mismatch" =>
           rpc = "mismatch" \/ robj \in spoiled \/ overlap \/ ~clean]_vars
  <2> SUFFICES ASSUME IInv, Next, rpc' = "mismatch", rpc # "mismatch",
                      robj \notin spoiled, ~overlap, clean
               PROVE  FALSE
    BY DEF vars, childVars
  <2>1. /\ Sound /\ Held /\ Counted /\ Typed /\ WritersTyped /\ ChildTyped
        /\ ObjectsTyped /\ ScalarsTyped /\ ChildFits
    BY DEF IInv, Sound, Typed
  <2>2. \A pc, o, i : ChildAt(pc, o, i) => pc = "mismatch"
    BY DEF ChildAt
  <2>3. CLoad
    <3>1. ASSUME NEW w \in Writers
          PROVE  ~(\/ WRemove(w) \/ WOpenFound(w) \/ WOpenNone(w) \/ WCreate(w) \/ WSize(w)
                   \/ WFile(w) \/ WMap(w) \/ WConstruct(w) \/ WCheck(w) \/ WWrite(w) \/ WPush(w)
                   \/ WUnlink(w) \/ (WCrash(w) \/ WKill(w)) \/ Fork(w)
                   \/ \E mode \in Modes : WStart(w, mode))
      BY DEF WRemove, WOpenFound, WOpenNone, WCreate, WSize, WFile, WMap, WConstruct, WCheck,
             WWrite, WPush, WUnlink, WCrash, WKill, WFault, Fork, WStart, NewObject,
             Truncate, childVars
    <3>2. ~(COpen \/ CFile \/ CMap \/ CCheck \/ (CCrash \/ CKill) \/ CStart \/ CPop \/ Cleanup)
      BY DEF COpen, CFile, CMap, CCheck, CCrash, CKill, CFault, CEnd, CStart, CPop, Cleanup,
             childVars
    <3> QED
      BY <3>1, <3>2, StepsSplit
  <2> PICK pc : pc = IF obj[robj].data[obj[robj].head % Size] = ri THEN "pop" ELSE "mismatch"
    OBVIOUS
  <2>4. ChildAt(pc, robj, ri) /\ rpc = "load" /\ obj[robj].head # obj[robj].tail
    BY <2>3, CLoadStep
  <2>5. robj \in Objects /\ ChildOn(robj)
    BY <2>1, <2>4 DEF ChildFits, ChildTyped, ChildOn
  <2>6. obj[robj].data[obj[robj].head % Size] = ri
    BY <2>1, <2>4, <2>5, FirstExpected
  <2> QED
    BY <2>2, <2>4, <2>6
<1> QED
  BY <1>1, Invariance, PTL DEF Spec, ChildPasses

(* A queue is emptied under its users only by the one way of each class    *)
(* that the property names, or when writers overlap.                       *)
THEOREM SpoiledByOne == Spec => SpoiledOnlyBy
<1> DEFINE Named ==
      \A o \in Objects : o \in spoiled' \ spoiled =>
        \/ overlap
        \/ \E w \in Writers :
             /\ wobj'[w] = o
             /\ wmode[w] = IF backend = "shm" THEN "open_or_create" ELSE "create_only"
<1>1. IInv /\ [Next]_vars => [Named]_vars
  <2> SUFFICES ASSUME IInv, Next, NEW o \in Objects, o \in spoiled', o \notin spoiled, ~overlap
               PROVE  \E w \in Writers : wobj'[w] = o /\ Risky(w)
    BY DEF Risky
  <2>1. /\ Sound /\ NameFree /\ MadeEmpty /\ ModeFits /\ WritersTyped /\ ChildTyped
        /\ ObjectsTyped /\ ScalarsTyped /\ ChildFits
    BY DEF IInv, Sound, Typed, Apart
  <2>2. ASSUME NEW w \in Writers, WCreate(w)
        PROVE  wobj'[w] = o /\ Risky(w)
    <3>1. /\ wpc[w] = "create"
          /\ \/ spoiled' = spoiled
             \/ /\ name # 0 /\ Moves(w, "size", name, wi[w])
                /\ spoiled' \subseteq spoiled \cup {name}
      BY <2>1, <2>2, TruncateStep DEF Creates
    <3>2. o = name /\ name # 0 /\ wobj'[w] = name
      BY <3>1 DEF Moves
    <3>3. Fits(wpc[w], wmode[w], wobj[w], wi[w]) /\ wmode[w] \in Modes
      BY <2>1 DEF ModeFits, WritersTyped
    <3>4. backend = "mmap" /\ wmode[w] # "open_only" /\ wmode[w] # "open_or_create"
      BY <2>1, <3>1, <3>2, <3>3 DEF Fits, NameFree
    <3> QED
      BY <3>2, <3>3, <3>4 DEF Risky, Modes
  <2>3. ASSUME NEW w \in Writers, WConstruct(w)
        PROVE  wobj'[w] = o /\ Risky(w)
    <3>1. wobj[w] # 0
      BY <2>1, <2>3 DEF WConstruct, ModeFits, Fits, Making
    <3>2. /\ wpc[w] = "construct" /\ Moves(w, "check", wobj[w], wi[w])
          /\ spoiled' = IF ~Shared(w) THEN spoiled \ {wobj[w]}
                        ELSE IF obj[wobj[w]].head # 0 \/ obj[wobj[w]].tail # 0
                        THEN spoiled \cup {wobj[w]} ELSE spoiled
      BY <2>1, <2>3, <3>1, ConstructStep
    <3>3. o = wobj[w] /\ (obj[wobj[w]].head # 0 \/ obj[wobj[w]].tail # 0) /\ wobj'[w] = o
      BY <3>2 DEF Moves
    <3>4. Risky(w)
      BY <2>1, <3>2, <3>3 DEF MadeEmpty, Making
    <3> QED
      BY <3>3, <3>4
  <2>4. \E w \in Writers : WCreate(w) \/ WConstruct(w)
    <3>1. spoiled' # spoiled
      OBVIOUS
    <3>2. ASSUME NEW w \in Writers
          PROVE  ~(\/ WRemove(w) \/ WOpenFound(w) \/ WOpenNone(w) \/ WSize(w)
                   \/ WFile(w) \/ WMap(w) \/ WCheck(w) \/ WWrite(w) \/ WPush(w)
                   \/ WUnlink(w) \/ (WCrash(w) \/ WKill(w)) \/ Fork(w)
                   \/ \E mode \in Modes : WStart(w, mode))
      BY <3>1 DEF WRemove, WOpenFound, WOpenNone, WSize, WFile, WMap, WCheck, WWrite, WPush,
                  WUnlink, WCrash, WKill, WFault, Fork, WStart, Begins, NewObject, histVars
    <3>3. ~(COpen \/ CFile \/ CMap \/ CCheck \/ CLoad \/ (CCrash \/ CKill) \/ CStart \/ CPop \/ Cleanup)
      BY <3>1 DEF COpen, CFile, CMap, CCheck, CLoad, CCrash, CKill, CFault, CStart, CPop, Cleanup,
                  histVars
    <3> QED
      BY <3>2, <3>3, StepsSplit
  <2> QED
    BY <2>2, <2>3, <2>4
<1> QED
  BY <1>1, Invariance, PTL DEF Spec, SpoiledOnlyBy

===============================================================================
