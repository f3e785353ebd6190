----------------------------- MODULE SharedQueue -----------------------------
(***************************************************************************)
(* A circular queue in a segment of shared memory or in a mapped file, and *)
(* the programs of test1, test2, test5 and test6 that create it, open it,  *)
(* fill it, empty it and remove it, each a process that may be killed at   *)
(* any step.  The name leads to an object (a segment, an inode); an object *)
(* that has lost its name lives on for the processes that have mapped it.  *)
(*                                                                         *)
(* What SpscQueue shows of one queue is used here: its stores take effect  *)
(* at once.  The system calls of an operation are separate steps.          *)
(***************************************************************************)
EXTENDS Integers, Sequences

CONSTANTS
  Size,       (* _size                                                     *)
  N,          (* number of elements a program pushes or pops               *)
  IntMod,     (* 2^w for the w bits of an offset                           *)
  Backends,   (* "shm" for circular_queue_in_shared_memory, "mmap" for     *)
              (* circular_queue_in_mmap                                    *)
  Writers,    (* numbers of the processes that may push: parent,           *)
              (* step_parent                                               *)
  MaxRuns     (* bound: number of programs that are run                    *)

ASSUME SharedConstants ==
  /\ Size \in Nat \ {0}
  /\ N \in Nat \ {0}
  /\ IntMod \in Nat
  /\ Size < IntMod /\ IntMod % Size = 0
  /\ Backends \subseteq {"shm", "mmap"}
  /\ Writers \subseteq Nat
  /\ MaxRuns \in Nat

VARIABLES
  backend,    (* which of the two classes is used, never changes           *)
  name,       (* the object the name leads to, 0 if there is none          *)
  obj,        (* the objects, numbered from 1                              *)
  wpc,        (* next step of each writer                                  *)
  wmode,      (* how it opens the queue                                    *)
  wobj,       (* the object it has opened                                  *)
  wi,         (* i of its loop                                             *)
  rpc,        (* next step of the child                                    *)
  robj,       (* the object it has opened                                  *)
  ri,         (* i of its loop                                             *)
  runs,       (* history: number of programs run                           *)
  log,        (* history: what was pushed to each object since its start   *)
  spoiled,    (* history: objects that were emptied while in use           *)
  overlap,    (* history: a writer was opened while another one was being  *)
              (* opened, or shared a queue with another one                *)
  clean       (* history: no process was killed or crashed                 *)

objVars    == <<backend, name, obj>>
writerVars == <<wpc, wmode, wobj, wi>>
childVars  == <<rpc, robj, ri>>
histVars   == <<runs, log, spoiled, overlap, clean>>
vars == <<objVars, writerVars, childVars, histVars>>

Objects == DOMAIN obj
(* The ways to open a queue; "remover" is that of test6, which removes the *)
(* name before it creates the segment and once more when it ends.          *)
Modes == {"create_only", "open_or_create", "open_only"}
           \cup (IF backend = "shm" THEN {"remover"} ELSE {})

Afresh == {"create_only", "remover"}

(* Bytes that were never written are zero.  An object has no bytes at all  *)
(* until it is sized.                                                      *)
Blank == [sized |-> FALSE, head |-> 0, tail |-> 0,
          data |-> [s \in 0 .. Size-1 |-> 0]]

Init ==
  /\ backend \in Backends
  /\ name = 0
  /\ obj = <<>>
  /\ wpc = [w \in Writers |-> "idle"]
  /\ wmode = [w \in Writers |-> "open_only"]
  /\ wobj = [w \in Writers |-> 0]
  /\ wi = [w \in Writers |-> 0]
  /\ rpc = "idle"
  /\ robj = 0
  /\ ri = 0
  /\ runs = 0
  /\ log = <<>>
  /\ spoiled = {}
  /\ overlap = FALSE
  /\ clean = TRUE

(* The processes that have the object mapped.                              *)
WritersOf(o) ==
  {w \in Writers : wobj[w] = o /\ wpc[w] \in {"construct", "check", "write", "push"}}
ChildOn(o) == robj = o /\ rpc \in {"check", "load", "pop"}

-----------------------------------------------------------------------------
(* Opening the queue                                                       *)

(* A process ends, by itself or not; its mappings go with it.              *)
WEnd(w) ==
  /\ wpc' = [wpc EXCEPT ![w] = "idle"]
  /\ wobj' = [wobj EXCEPT ![w] = 0]
  /\ wi' = [wi EXCEPT ![w] = 0]
  /\ UNCHANGED wmode

(* The first step of each way to open it.                                  *)
FirstStep(mode) ==
  IF mode \notin Afresh THEN "open"
  ELSE IF backend = "shm" THEN "remove" ELSE "create"

(* A writer is started; they are alike, so the first idle one will do.     *)
Begins(w, mode) ==
  LET others == {v \in Writers \ {w} :
                   \/ wpc[v] \notin {"idle", "check", "write", "push", "unlink"}
                   \/ wpc[v] \notin {"idle", "unlink"} /\ mode \notin Afresh}
  IN
  /\ wpc[w] = "idle"
  /\ \A v \in Writers : v < w => wpc[v] # "idle"
  /\ wpc' = [wpc EXCEPT ![w] = FirstStep(mode)]
  /\ wmode' = [wmode EXCEPT ![w] = mode]
  /\ overlap' = (overlap \/ others # {})
  /\ UNCHANGED <<objVars, wobj, wi, log, spoiled, clean>>

WStart(w, mode) ==
  /\ runs < MaxRuns
  /\ runs' = runs + 1
  /\ Begins(w, mode)
  /\ UNCHANGED childVars

(* create_only in shared memory: the name is removed first.                *)
WRemove(w) ==
  /\ wpc[w] = "remove"
  /\ name' = 0
  /\ wpc' = [wpc EXCEPT ![w] = "open"]
  /\ UNCHANGED <<backend, obj, wmode, wobj, wi, childVars, histVars>>

(* A new object of length 0 gets the name.                                 *)
NewObject(w) ==
  /\ obj' = Append(obj, Blank)
  /\ log' = Append(log, <<>>)
  /\ name' = Len(obj) + 1
  /\ wobj' = [wobj EXCEPT ![w] = Len(obj) + 1]
  /\ wpc' = [wpc EXCEPT ![w] = "size"]
  /\ UNCHANGED <<backend, wmode, wi, childVars, runs, spoiled, overlap, clean>>

(* The object that has the name is opened.                                 *)
WOpenFound(w) ==
  /\ wpc[w] = "open"
  /\ name # 0
  /\ wobj' = [wobj EXCEPT ![w] = name]
  /\ wpc' = [wpc EXCEPT ![w] = IF wmode[w] # "open_only" /\ backend = "shm"
                               THEN "size"
                               ELSE IF backend = "shm" THEN "map" ELSE "file"]
  /\ UNCHANGED <<objVars, wmode, wi, childVars, histVars>>

(* There is none: open_only gives up; the others create one, a segment in  *)
(* the same call and a file in the next.                                   *)
WOpenNone(w) ==
  /\ wpc[w] = "open"
  /\ name = 0
  /\ IF wmode[w] = "open_only"
       THEN WEnd(w) /\ UNCHANGED <<objVars, childVars, histVars>>
     ELSE IF backend = "shm" THEN NewObject(w)
     ELSE /\ wpc' = [wpc EXCEPT ![w] = "create"]
          /\ UNCHANGED <<objVars, wmode, wobj, wi, childVars, histVars>>

(* A file that exists is emptied where it is.                              *)
Truncate(w) ==
  /\ obj' = [obj EXCEPT ![name] = Blank]
  /\ log' = [log EXCEPT ![name] = <<>>]
  /\ spoiled' = IF WritersOf(name) # {} \/ ChildOn(name)
                THEN spoiled \cup {name} ELSE spoiled \ {name}
  /\ wobj' = [wobj EXCEPT ![w] = name]
  /\ wpc' = [wpc EXCEPT ![w] = "size"]
  /\ UNCHANGED <<backend, name, wmode, wi, childVars, runs, overlap, clean>>

(* open_file with trunc.                                                   *)
WCreate(w) ==
  /\ wpc[w] = "create"
  /\ IF name = 0 THEN NewObject(w) ELSE Truncate(w)

(* Setting the length clears the contents of an object that has it.        *)
WSizeClears(w) ==
  /\ wpc[w] = "size"
  /\ obj' = [obj EXCEPT ![wobj[w]] = [Blank EXCEPT !.sized = TRUE]]
  /\ wpc' = [wpc EXCEPT ![w] = IF backend = "shm" THEN "mapNew" ELSE "fileNew"]
  /\ UNCHANGED <<backend, name, wmode, wobj, wi, childVars, histVars>>

(* The object gets its length; one that has it keeps its contents.         *)
WSize(w) ==
  /\ wpc[w] = "size"
  /\ obj' = [obj EXCEPT ![wobj[w]].sized = TRUE]
  /\ wpc' = [wpc EXCEPT ![w] = IF backend = "shm" THEN "mapNew" ELSE "fileNew"]
  /\ UNCHANGED <<backend, name, wmode, wobj, wi, childVars, histVars>>

(* file_mapping opens the file again, by its name, which may lead to       *)
(* another file by now, or to none.                                        *)
WFile(w) ==
  /\ wpc[w] \in {"file", "fileNew"}
  /\ IF name # 0
       THEN /\ wpc' = [wpc EXCEPT ![w] = IF @ = "fileNew" THEN "mapNew" ELSE "map"]
            /\ wobj' = [wobj EXCEPT ![w] = name]
            /\ UNCHANGED <<wmode, wi>>
       ELSE WEnd(w)
  /\ UNCHANGED <<objVars, childVars, histVars>>

(* open_only constructs the queue as well.                                 *)
WMapConstructed(w) ==
  /\ wpc[w] \in {"map", "mapNew"}
  /\ IF obj[wobj[w]].sized
       THEN wpc' = [wpc EXCEPT ![w] = "construct"] /\ UNCHANGED <<wmode, wobj, wi>>
       ELSE WEnd(w)
  /\ UNCHANGED <<objVars, childVars, histVars>>

(* The object is mapped, which fails if it has no length.                  *)
WMap(w) ==
  /\ wpc[w] \in {"map", "mapNew"}
  /\ IF obj[wobj[w]].sized
       THEN /\ wpc' = [wpc EXCEPT ![w] = IF @ = "mapNew" THEN "construct"
                                         ELSE "check"]
            /\ UNCHANGED <<wmode, wobj, wi>>
       ELSE WEnd(w)
  /\ UNCHANGED <<objVars, childVars, histVars>>

-----------------------------------------------------------------------------
(* Using it                                                                *)

(* An access beyond the length of the object, or through a null pointer.   *)
WFault(w) ==
  /\ WEnd(w)
  /\ clean' = FALSE
  /\ UNCHANGED <<objVars, childVars, runs, log, spoiled, overlap>>

Filled(q) == (q.tail - q.head) % IntMod

(* circular_queue::factory constructs the queue in the object.             *)
WConstruct(w) ==
  LET o == wobj[w]
      shared == WritersOf(o) # {w} \/ ChildOn(o)
  IN
  /\ wpc[w] = "construct"
  /\ obj[o].sized
  /\ obj' = [obj EXCEPT ![o].head = 0, ![o].tail = 0]
  /\ log' = [log EXCEPT ![o] = <<>>]
  /\ spoiled' = IF ~shared THEN spoiled \ {o}
                ELSE IF obj[o].head # 0 \/ obj[o].tail # 0 THEN spoiled \cup {o}
                ELSE spoiled
  /\ wpc' = [wpc EXCEPT ![w] = "check"]
  /\ UNCHANGED <<backend, name, wmode, wobj, wi, childVars, runs, overlap, clean>>

(* A queue that is full with one slot left.                                *)
WCheckOneLess(w) ==
  /\ wpc[w] = "check"
  /\ obj[wobj[w]].sized
  /\ Filled(obj[wobj[w]]) + 1 < Size
  /\ wpc' = [wpc EXCEPT ![w] = "write"]
  /\ UNCHANGED <<objVars, wmode, wobj, wi, childVars, histVars>>

(* if (cq->end() != 0)                                                     *)
WCheck(w) ==
  /\ wpc[w] = "check"
  /\ obj[wobj[w]].sized
  /\ Filled(obj[wobj[w]]) < Size
  /\ wpc' = [wpc EXCEPT ![w] = "write"]
  /\ UNCHANGED <<objVars, wmode, wobj, wi, childVars, histVars>>

(* *cq->end() = i                                                          *)
WWrite(w) ==
  LET q == obj[wobj[w]] IN
  /\ wpc[w] = "write"
  /\ q.sized /\ Filled(q) < Size
  /\ obj' = [obj EXCEPT ![wobj[w]].data[q.tail % Size] = wi[w]]
  /\ wpc' = [wpc EXCEPT ![w] = "push"]
  /\ UNCHANGED <<backend, name, wmode, wobj, wi, childVars, histVars>>

(* The loop of the writer runs to i <= N.                                  *)
WPushOnceMore(w) ==
  LET o == wobj[w]
      q == obj[o]
  IN
  /\ wpc[w] = "push"
  /\ q.sized
  /\ obj' = [obj EXCEPT ![o].tail = (@ + 1) % IntMod]
  /\ log' = [log EXCEPT ![o] = Append(@, q.data[q.tail % Size])]
  /\ IF wi[w] = N THEN WEnd(w)
     ELSE /\ wi' = [wi EXCEPT ![w] = @ + 1]
          /\ wpc' = [wpc EXCEPT ![w] = "check"]
          /\ UNCHANGED <<wmode, wobj>>
  /\ UNCHANGED <<backend, name, childVars, runs, spoiled, overlap, clean>>

(* cq->push_back() and ++i; the program ends after N elements.             *)
WPush(w) ==
  LET o == wobj[w]
      q == obj[o]
  IN
  /\ wpc[w] = "push"
  /\ q.sized
  /\ obj' = [obj EXCEPT ![o].tail = (@ + 1) % IntMod]
  /\ log' = [log EXCEPT ![o] = Append(@, q.data[q.tail % Size])]
  /\ IF wi[w] + 1 = N /\ wmode[w] # "remover" THEN WEnd(w)
     ELSE IF wi[w] + 1 = N
     THEN /\ wpc' = [wpc EXCEPT ![w] = "unlink"]
          /\ UNCHANGED <<wi, wmode, wobj>>
     ELSE /\ wi' = [wi EXCEPT ![w] = @ + 1]
          /\ wpc' = [wpc EXCEPT ![w] = "check"]
          /\ UNCHANGED <<wmode, wobj>>
  /\ UNCHANGED <<backend, name, childVars, runs, spoiled, overlap, clean>>

(* The destructor of the remover of test6 removes the name, whatever it    *)
(* leads to by now.                                                        *)
WUnlink(w) ==
  /\ wpc[w] = "unlink"
  /\ name' = 0
  /\ WEnd(w)
  /\ UNCHANGED <<backend, obj, childVars, histVars>>

(* The file was emptied by another process, or the queue was filled        *)
(* between the two calls of end().                                         *)
WCrash(w) ==
  /\ wpc[w] \in {"construct", "check", "write", "push"}
  /\ \/ ~obj[wobj[w]].sized
     \/ wpc[w] = "write" /\ Filled(obj[wobj[w]]) >= Size
  /\ WFault(w)

(* A writer is killed.                                                     *)
WKill(w) ==
  /\ wpc[w] # "idle"
  /\ WFault(w)

-----------------------------------------------------------------------------
(* The child, which opens with open_only, and cleanup                      *)

CEnd ==
  /\ rpc' = "idle"
  /\ robj' = 0
  /\ ri' = 0

CStart ==
  /\ rpc \in {"idle", "mismatch"}
  /\ runs < MaxRuns
  /\ runs' = runs + 1
  /\ rpc' = "open"
  /\ robj' = 0
  /\ ri' = 0
  /\ UNCHANGED <<objVars, writerVars, log, spoiled, overlap, clean>>

(* test5 forks: the parent opens a segment with open_or_create while the   *)
(* child, which sleeps a second before it opens it, may come first.        *)
Fork(w) ==
  /\ backend = "shm"
  /\ rpc \in {"idle", "mismatch"}
  /\ runs + 2 <= MaxRuns
  /\ runs' = runs + 2
  /\ Begins(w, "open_or_create")
  /\ rpc' = "open"
  /\ robj' = 0
  /\ ri' = 0

COpen ==
  /\ rpc = "open"
  /\ IF name # 0
       THEN /\ rpc' = IF backend = "shm" THEN "map" ELSE "file"
            /\ robj' = name
            /\ UNCHANGED ri
       ELSE CEnd
  /\ UNCHANGED <<objVars, writerVars, histVars>>

CFile ==
  /\ rpc = "file"
  /\ IF name # 0 THEN rpc' = "map" /\ robj' = name /\ UNCHANGED ri ELSE CEnd
  /\ UNCHANGED <<objVars, writerVars, histVars>>

CMap ==
  /\ rpc = "map"
  /\ IF obj[robj].sized THEN rpc' = "check" /\ UNCHANGED <<robj, ri>> ELSE CEnd
  /\ UNCHANGED <<objVars, writerVars, histVars>>

(* if (cq->begin() != 0)                                                   *)
CCheck ==
  /\ rpc = "check"
  /\ obj[robj].sized
  /\ obj[robj].head # obj[robj].tail
  /\ rpc' = "load"
  /\ UNCHANGED <<objVars, writerVars, robj, ri, histVars>>

(* The child that takes the newest element.                                *)
CLoadNewest ==
  LET q == obj[robj] IN
  /\ rpc = "load"
  /\ q.sized /\ q.head # q.tail
  /\ rpc' = IF q.data[(q.tail - 1) % Size] = ri THEN "pop" ELSE "mismatch"
  /\ UNCHANGED <<objVars, writerVars, robj, ri, histVars>>

(* if (i != *cq->begin()), the test failed.                                *)
CLoad ==
  LET q == obj[robj] IN
  /\ rpc = "load"
  /\ q.sized /\ q.head # q.tail
  /\ rpc' = IF q.data[q.head % Size] = ri THEN "pop" ELSE "mismatch"
  /\ UNCHANGED <<objVars, writerVars, robj, ri, histVars>>

(* cq->pop_front() and ++i; the program ends after N elements.             *)
CPop ==
  /\ rpc = "pop"
  /\ obj[robj].sized
  /\ obj' = [obj EXCEPT ![robj].head = (@ + 1) % IntMod]
  /\ IF ri + 1 = N THEN CEnd
     ELSE rpc' = "check" /\ ri' = ri + 1 /\ UNCHANGED robj
  /\ UNCHANGED <<backend, name, writerVars, histVars>>

CFault ==
  /\ CEnd
  /\ clean' = FALSE
  /\ UNCHANGED <<objVars, writerVars, runs, log, spoiled, overlap>>

CCrash ==
  /\ rpc \in {"check", "load", "pop"}
  /\ \/ ~obj[robj].sized
     \/ rpc = "load" /\ obj[robj].head = obj[robj].tail
  /\ CFault

CKill ==
  /\ rpc \notin {"idle", "mismatch"}
  /\ CFault

(* The name is removed, the object stays for its users: remove() of the    *)
(* two classes.                                                            *)
RemoveSegment == backend = "shm" /\ name' = 0
RemoveFile    == backend = "mmap" /\ name' = 0

(* cleanup.                                                                *)
Cleanup ==
  /\ name # 0
  /\ RemoveSegment \/ RemoveFile
  /\ UNCHANGED <<backend, obj, writerVars, childVars, histVars>>

-----------------------------------------------------------------------------
WriterStep(w) ==
  \/ WRemove(w) \/ WOpenFound(w) \/ WOpenNone(w) \/ WCreate(w) \/ WSize(w)
  \/ WFile(w) \/ WMap(w) \/ WConstruct(w) \/ WCheck(w) \/ WWrite(w) \/ WPush(w)
  \/ WUnlink(w) \/ WCrash(w)

ChildStep == COpen \/ CFile \/ CMap \/ CCheck \/ CLoad \/ CPop \/ CCrash

Operator ==
  \/ \E w \in Writers : \/ \E mode \in Modes : WStart(w, mode)
                        \/ Fork(w)
                        \/ WKill(w)
  \/ CStart \/ CKill \/ Cleanup

Program == (\E w \in Writers : WriterStep(w)) \/ ChildStep

Next == Program \/ Operator

(* The programs that run go on while one of them can; each of them takes   *)
(* finitely many steps.                                                    *)
Fairness == WF_vars(Program)

Spec == Init /\ [][Next]_vars /\ Fairness

-----------------------------------------------------------------------------
Offset == 0 .. IntMod-1
QueueObject == [sized : BOOLEAN, head : Offset, tail : Offset,
                data : [0 .. Size-1 -> 0 .. N-1]]

TypeOK ==
  /\ backend \in Backends
  /\ Len(obj) <= MaxRuns
  /\ \A o \in Objects : obj[o] \in QueueObject
  /\ name \in {0} \cup Objects
  /\ wpc \in [Writers -> {"idle", "remove", "open", "create", "size", "file", "fileNew",
                          "map", "mapNew", "construct", "check", "write", "push", "unlink"}]
  /\ wmode \in [Writers -> Modes]
  /\ wobj \in [Writers -> {0} \cup Objects]
  /\ wi \in [Writers -> 0 .. N-1]
  /\ rpc \in {"idle", "open", "file", "map", "check", "load", "pop", "mismatch"}
  /\ robj \in {0} \cup Objects
  /\ ri \in 0 .. N-1
  /\ runs \in 0 .. MaxRuns
  /\ Len(log) = Len(obj)
  /\ spoiled \subseteq Objects
  /\ overlap \in BOOLEAN /\ clean \in BOOLEAN

(* What was pushed to a queue and not popped stays in it, in order: after  *)
(* the process that pushed it has ended or was killed, after the name was  *)
(* removed, and while other processes open the queue or create a new one   *)
(* of the same name; unless the queue was emptied under its users.         *)
QueueIntact ==
  \A o \in Objects \ spoiled :
    LET q == obj[o] IN
    ~overlap =>
      /\ q.tail = Len(log[o]) % IntMod
      /\ Filled(q) <= Size
      /\ \A k \in 1 .. Filled(q) :
           q.data[(q.head + k - 1) % Size] = log[o][Len(log[o]) - Filled(q) + k]

(* A child finds the numbers it expects: if every program before it ran to *)
(* its end, no two writers were opened at the same time and its queue was  *)
(* not emptied under its users, it does not report "test failed".          *)
ChildPasses ==
  [][rpc' = "mismatch" =>
       rpc = "mismatch" \/ robj \in spoiled \/ overlap \/ ~clean]_vars

(* A queue is emptied under its users only by a create_only of the file    *)
(* that does not leave the old one to them, or by an open_or_create of a   *)
(* segment that is constructed again, unless writers overlap; create_only  *)
(* of a segment, or the remover of test6, never does that, nor does        *)
(* open_or_create of a file.                                               *)
SpoiledOnlyBy ==
  [][\A o \in Objects : o \in spoiled' \ spoiled =>
       \/ overlap
       \/ \E w \in Writers :
            /\ wobj'[w] = o
            /\ wmode[w] = IF backend = "shm" THEN "open_or_create"
                          ELSE "create_only"]_vars

(* A producer that pushes more elements than fit stands before a full      *)
(* queue that no child has open: the parent of test6 after 1024 elements.  *)
Waits(w) ==
  /\ N > Size
  /\ wpc[w] = "check" /\ ~ChildOn(wobj[w])
  /\ obj[wobj[w]].sized /\ Filled(obj[wobj[w]]) = Size

(* A program that creates the queue ends, or waits for a child once its    *)
(* queue is full, and that only if it pushes more than fits: nothing that  *)
(* an earlier program that was killed has left behind keeps it from        *)
(* pushing its elements, or the first _size of them, unless its queue is   *)
(* spoiled or writers overlap.                                             *)
CreatorEnds ==
  \A w \in Writers :
    (wpc[w] # "idle" /\ wmode[w] \in Afresh)
      ~> (wpc[w] = "idle" \/ Waits(w) \/ wobj[w] \in spoiled \/ overlap)

=============================================================================
