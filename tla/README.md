# Formal models of AlgosInC-

The repository is a collection of lock-free building blocks for processes that share memory — a
circular queue, two sequence locks, a shared memory price server built on them — and a few
sequential algorithms. This directory holds TLA+ modules translated from the source, TLC
configurations that check them on small instances, and TLAPS proofs of what matters most for every
value of the constants. Paths below are relative to `src/`.

## 1. Inventory

| Component | State | Operations | Who interacts | What is hard |
|---|---|---|---|---|
| **circular_queue** (`circular_queue_cpp11/circular_queue.h`, C++98 ancestor in `circular_queue_cpp98/`) | `_head_offset`, `_tail_offset` (wrapping, unsigned), `_data[_size]` | `end`, `begin`, `push_back`, `pop_front`, `atomic_push_back_get_end`, `pop_n_front`, `pop_back`, `at`, `front`, `back`, `end_clobber` | one producer and one consumer, or several producers with the atomic push, in different processes, with no lock | delayed and reordered stores, the second untested call of `end()`/`begin()`, wrap of the offsets, sizes that do not divide 2^32, a claimed slot that is not written |
| **basic_ioguard** (`ioguard/basic_ioguard.h`) | front guard, words, back guard | `init`, `copy_to_rhs` (write), `init_reverse_order`, `copy_to_rhs_reverse_order`, `try_copy_to_rhs_reverse_order` (read) | one writer, many readers | order of stores, a writer that dies between the guards, a guard that wraps, a retry loop |
| **atomic_ioguard** (`atomic_ioguard/atomic_ioguard.h`) | both guards in one atomic pair, words | `init`, `init_reverse_order`, `copy_to_rhs_reverse_order` | one writer, many readers | the same; which object's guard is looked at |
| **shared memory price server** (`smps/`) | an array of guarded records per stock (NBBO first, then the venues), a heartbeat counter | `init_snapshot`, `calc_new_market_with_random_price_change`, the loop of `main`, `print_snapshot` | a server, readers, an operator who kills and restarts it | NBBO written after the venues, a crash inside a record, unsigned price arithmetic, a restart under a reader |
| **C++11 price server** (`shared_memory_price_server_cpp11/`) | two buffers per security with dirty marks | `init_snapshot`, `random_sleep_random_update_security` | a server; no reader exists yet | decisions taken on the stale buffer, a buffer that is never initialised |
| **queue in a segment or a file** (`circular_queue_in_shared_memory.h`, `circular_queue_in_mmap.h`, `blob_in_mmap.h`) | the name, the object it leads to, its length, the queue in it, the mappings | `create_only`, `open_or_create`, `open_only`, `remove`, use | the programs of test1, test2, test5 and test6, run one after the other or at once, killed anywhere | creation in several system calls, a queue constructed again or truncated under its users, a producer of more elements than slots |
| **prev_permutation_one_swap** | an array | one function | none | which element is swapped |
| **regex** (`regex/my_regex_match.cpp`) | a pattern and a text | one matcher | none | backtracking over `*` |
| **CustomRand** | a generator word; a table of primes | next number | none | wrap of the multiplication |
| **process set-up, clocks, portability macros** | none | system calls | the operating system | nothing to check |

For each of them, what makes it correct:

* *queue*: elements are read once each, in order, with the value that was written; no null
  dereference; no unread element is written over; `begin()` finds what is there; both loops end.
* *ioguards*: a reader gets a record of one write or tries again; reads and writes are atomic; a
  reader is not stuck once the writer pauses, even after a crash.
* *price server*: the NBBO is the best of the venues; no record stays locked; the
  heartbeats that are reported are those that were sent (they are not, section 4).
* *C++11 price server*: one of the two buffers of a record can always be trusted, wherever the server
  was killed; a price changes only while its buffer is marked.
* *queue in a segment or a file*: what is pushed outlives the process that pushed it, and nobody
  empties a queue under its users; a creator pushes its elements, or as many as fit until a child comes.
* *sequential algorithms*: the result is that of the mathematical definition.

The hazards, at the lines where they bite, are in `PROJECT.json` under `hazards`, each with the
properties that cover it or the reason why none does yet.

## 2. Modules

| Module | Models | Uses |
|---|---|---|
| `CircularQueueOps` | the pure part of the queue: `size`, the null tests of `end` and `begin`, the slot of an offset | – |
| `CircularQueue` | the members of the queue that change: `_tail_offset`, `_head_offset`, `_data` | `CircularQueueOps` |
| `BoundedFifo` | abstract: a FIFO of bounded capacity | – |
| `SpscQueue` | one producer, one consumer, the loops of test1 | `CircularQueue`; implements `BoundedFifo` |
| `MpscQueue` | several producers with `atomic_push_back_get_end`, one consumer | `CircularQueue` |
| `AtomicRecord` | abstract: a record that is written and read at one instant | – |
| `IOGuard` | `basic_ioguard`, one writer and readers | implements `AtomicRecord` |
| `AtomicIOGuard` | `atomic_ioguard`, one writer and readers | implements `AtomicRecord` |
| `PriceServer` | the `smps` server and `print_snapshot` | its records are atomic, as `IOGuard` shows |
| `SecurityDatum` | the server of `shared_memory_price_server_cpp11` with its double buffers | – |
| `QueueApi` | every function of the queue, called by one caller in any order | `CircularQueue` |
| `CustomRand` | the generator `ax_b_c_random` | – |
| `QueuePrograms` | any caller, or one of six test programs | `QueueApi`, `CustomRand` |
| `PrevPermutation` | `prevPermOpt1`, the current and the old one | – |
| `RegexMatch` | `my_regex_match` | – |
| `Algorithms` | one call of either, on every bounded input | `PrevPermutation`, `RegexMatch` |
| `SharedQueue` | creating, opening, using and removing a queue in a segment or a file | its queue is atomic, as `SpscQueue` shows |
| `MCPriceServer`, `MCSharedQueue` | the two modules as TLC runs them, with a part of their behaviours that is named there | `PriceServer`, `SharedQueue` |
| `ModLemmas` | arithmetic of wrapping offsets | proved |
| `SpscQueueProofs`, `IOGuardProofs`, `AtomicIOGuardProofs`, `PriceServerProofs`, `SecurityDatumProofs`, `SharedQueueProofs` | theorems about the module each is named after | proved |
| `QueueProofs` | theorems about `MpscQueue` (its `Spec`) and about `QueueApi` and `QueuePrograms` (`ProgramSpec`), which share the members | proved |

Several modules also hold *mutated forms* of their definitions (`EndIsNullTooLate`,
`EpochUnfenced`, `RVerifyBack`, ...). No specification uses them. Each is a plausible bug and stands
before the definition it would replace; `PROJECT.json` says which property each of them breaks.

### How state and actions correspond to the code

**Memory.** The queue and the two ioguards are modelled on a machine that delays stores. A store is
*issued* by its process, stays in `pend` and becomes visible in a step of its own (`Publish`). Stores
of the same epoch become visible in any order; `sfence` (`memory_fence.h`) and the release fences end
an epoch, and nothing of a later epoch is visible before everything of an earlier one. That covers
the x86 store buffer, a weaker store order, and a compiler that reorders stores between fences. The
fences are compiler barriers as well: the asm statement has a memory clobber. Loads are in program
order: all loads are through `volatile` members or pointers and x86 does not reorder loads. The
model does not cover a processor that reorders loads, for which this code has no fence in the
queue.

**SpscQueue.** `tail`, `head` and `data` are the members in memory, `ptail` and `chead` what their
owner sees of its own offset. The offsets are kept as unreduced counts, a history; the code sees them
only through `Word`, which reduces them modulo `IntMod` = 2^w. Every evaluation of a condition and
every dereference in the two loops is a step: `PCheck` is `end() != 0`, `PWrite` the second `end()`
and the store through it, `PPush` the fence and `++_tail_offset`; `CCheck`, `CBegin`, `CLoad`, `CPop`
are the first `begin()`, the second one, the load and comparison, and `++_head_offset`. A null
pointer of the untested second call leads to the state `crashed`, an element that is not the
expected one to `failed`. Elements are numbered, so that an element lost, repeated or read too
early is told from the right one. `Cpp11` selects the `begin()` of either class.

**MpscQueue.** `size()` in `end()` loads two offsets that others move, and the language does not say which
first: `PLoad` is the first load, of an offset in `LoadsFirst`, and `PCheck` the second one with the test.
`PClaim` is the `fetch_add`, a locked instruction that waits for the producer's own
stores; `PWrite` the assignment after it. `owner` remembers for whom each offset was handed out.

**IOGuard.** `mem` holds the front guard, the words and the back guard. All writing functions are one
algorithm (`WBegin`, `WCopy` for each word, `WSeal`). The three reading functions share their steps:
`RCompareFirst`/`RCompareSecond` are the two loads of `front_guard == back_guard` in either order (the
language leaves the order open), `RLoadBack`, `RCheck`, `RCopy`, `ROwn`, `RVerify` the rest. A word
holds the number of the write it comes from. `WCrash` loses what the writer was doing and keeps what
it has stored, `WRestart` is a new writer that attaches to the same memory and takes its counter from
the front guard there.

**AtomicIOGuard.** As `IOGuard`, with both guards stored and loaded together. `LoadedGuard` says which
object's guard a function looks at. The header names `memory_order_aquire` (line 103), which does not
exist, so that the function holding it does not compile; it is read as `memory_order_acquire`.

**PriceServer.** A write of a record is two steps, `SLock...` (front guard) and `SSeal...` (back
guard): between them readers wait. That a write takes effect at once is what `ImplementsAtomicRecord`
shows of a guard. Readers wait for as long as it takes, since the `num_try` of the `try` function is
never reached (finding `ioguard_try`). Prices are unsigned and wrap at `PriceMod`. Random jumps and
quotes are chosen by `\E` over all their values. `SCrash` kills the server anywhere, `SStart` starts
one on the segment as it finds it, `init_snapshot` and all. Two servers at once, which nothing in
the code prevents, are not modelled: an ioguard promises nothing to two writers.

**SecurityDatum.** `recs[stock][exchange]` has the buffers `first` and `second`; each `mark_dirty`,
write and `mark_clean` of a record is a step, so that a crash falls between any two. `Dirty`, `Define`
and `Clean` are the three loops of a whole new market, `Trade` the draws and decisions of
`random_sleep_random_update_security`, `MarkNbbo` to `NbboClean` its branch for one quote. Prices wrap
at `PriceMod`; the conversions between `unsigned`, `int` and `size_t` are `AsInt` and the reductions. The
midpoint of a quote is the sum of two `int`, which wraps as the builds at hand have it (the language leaves
its overflow undefined), divided towards zero (`MidOf`). The
guards are 64 bits and are not reduced. `last` remembers what was marked clean last. There is one
writer and the processor keeps its stores in order, so that their delay cannot be told from a slower
server. No reader exists in the repository; the properties are about what one could rely on.

**QueueApi, QueuePrograms.** `QueueApi` has one operator per function of the class and the most general
caller that keeps to the comments: a producer that pushes, pushes with `end_clobber` or takes back, a
consumer that holds the pointer of `begin()` for a while, pops, or sees from `size()` that it is more than
a queue behind and skips with `pop_n_front`. `elems` is the sequence the caller has in mind. The two
classes share these functions, except that `end_clobber` and `pop_n_front` exist in the C++11 one only;
`Cpp11` selects `begin()`. In `QueuePrograms` the caller is free, or is one of the programs
`test1_circular_queue` (both versions), `test1_circular_queue_in_mmap`, `test2_`, `test3_` and
`test4_circular_queue`, statement by statement; of `rand() % SIZE + 1` only the range is kept, while the
elements that are random numbers are computed by `CustomRand`, with the overflow of its product and its
change of sign. The wrapping of a C++11 signed product is undefined; the two's complement result that
the compilers at hand produce is taken.

**PrevPermutation, RegexMatch, Algorithms.** The searches of `prevPermOpt1` are recursive functions on
places; that the result of the leftward search is thrown away is kept. `Dp` is `dp` with both shortcuts
(no star left, no dot left) and without the table of results, which only holds what the recursion
returns. `Algorithms` makes one call per behaviour. The modules were also compared with the compiled
programs, on every input of the run: no difference.

**SharedQueue.** `name` leads to an object (a segment or an inode) or to none; an object without a
name lives on for those who have it mapped. A file is opened by name twice, for the
stream and for the mapping (`WFile`, `CFile`), and may be another one by then. One step per system call: a creation is
`WRemove` (segments) or `WCreate` (files, with truncation in place), `WOpen...`, `WSize`, `WFile` (files), `WMap`,
`WConstruct`. `N`, the number of elements of a program, may be more than the slots, as in test1, test5 and
test6, or fewer, as in test2. `mode` is the `memory_access_specifier`; writers are the programs `parent`
(`create_only`; test1 uses `open_or_create`) and `step_parent` (`open_only`), the reader is `child`. The
`remover` is the parent of test6, which removes the name before it creates the segment and once more
when it ends (`WUnlink`), whatever the name leads to by then. `Fork` is test5, where parent and child start
at once and a `sleep(1)` is to bring them in order.
`WKill` and `CKill` end a process anywhere; an access to a truncated file or a null pointer is
`WCrash`/`CCrash`; a child that finds another number than it expects ends in `mismatch` ("test
failed"). `spoiled` records queues that were emptied while another process had them mapped, until one is
emptied again with nobody else in it, `overlap` writers that are opened
at the same time or push to one queue together, `clean` that nobody was killed.

## 3. Runs

| Run | Question | Instance |
|---|---|---|
| `spsc_wrap` | Is the C++98 queue a bounded FIFO across wraps of its offsets, with every store delayed? | 4 slots, 3-bit offsets, 18 elements |
| `spsc_cpp11_wrap` (violation) | Does `begin()` of the C++11 class find the oldest element after a wrap? | 2 slots, 2-bit offsets, 7 elements |
| `mpsc_two` | What holds with two producers and the atomic push? | 2 producers of 3 elements, 2 slots, either offset loaded first, no wrap |
| `ioguard_one` | Are reads and writes atomic, through crashes and wrapping guards? | 3 writes of 2 words, 1-bit guards, 1 crash |
| `ioguard_try` (violation) | Does `try_copy_to_rhs_reverse_order` keep to `num_try`? | 2 writes, `num_try` = 1 |
| `atomic_ioguard_one` | The same as `ioguard_one` for the atomic guard | 3 writes of 2 words, 1-bit guards, 1 crash |
| `price_server` | Is the NBBO right, with all quotes and jumps? What does a reader see, through crashes and restarts? | 2 stocks, NBBO and 2 venues, 3 heartbeats, 2 starts; with all quotes 1 stock, 2 heartbeats, 1 start |
| `security_datum` | Which buffer of a record can be trusted, through crashes and restarts? | 1 stock, NBBO and 2 venues, 9-bit prices, 3 heartbeats, 3 starts |
| `queue_programs` | What does the queue hold after any sequence of calls, and do the test programs pass? | 4 slots, 3-bit offsets, 10 pushes of any caller; programs of 7 elements |
| `algorithms` | Are the results those of the definitions? | arrays of 2 to 7 elements of 3 values; texts of 4, patterns of 5 letters, 2 letters |
| `shared_queue` | Does a queue outlive its processes, and who may empty it? | segment and file, 3 programs, at most 2 of them writers at once, 2 slots, 2 or 3 elements, 2-bit offsets |
| `permute_old_test3` (violation) | Does the old `prevPermOpt1` pass its test 3? | arrays of up to 4 elements of 4 values |

### What the passing runs show

* **Queue.** `FifoDelivery`, `NoUnreadOverwrite` and `ImplementsFifo`: with stores delayed in every
  way the fences allow, the queue is the bounded FIFO, across two wraps. `NoNullDeref`: the untested second
  calls are safe, because the other process only moves its offset away from the state the first call
  excluded. `BeginFindsOldest` and `AllDelivered`: nobody spins on a queue that has something to do.
* **Atomic push.** The producers overrun the queue together, by fewer slots than there are producers, also
  when one of them is held up between the two loads of `size()` (`OverrunBounded`); short of an overrun every element reaches the slot of its offset
  (`QuiescentComplete`), and the consumer pops as often as was pushed (`AllPopped`).
* **Guards.** `Sandwich`: every word lies between the two guards, at every instant and after every
  crash. `TornOnlyIfWrapped`/`CopyTornOnlyIfWrapped`: a torn record is returned only by a call that
  spans at least 2^w writes. With 1-bit guards and three writes this does happen in the run, so the
  exception is not empty. `ImplementsAtomicRecord`: otherwise reads and writes are atomic.
  `ReadersReturn`: a read that a dead writer has stranded returns once a restarted writer has
  completed a write.
* **Price server.** Between two rounds the NBBO is the best bid and offer of the venues, from the
  same heartbeat (`NbboIsBest`), no record is locked, whatever crashed before (`HealedByRestart`), the
  midpoint moves by the jump and half a spread at most
  (`MidpointMovesSlowly`). `print_snapshot` never shows an NBBO newer than a venue
  (`NbboNeverAhead`), and ends (`PrintEnds`).
* **C++11 price server.** `LastMarketKept`: the newer buffer of a record is clean or else the older one
  is, and it holds the prices marked clean last, wherever the server was killed. The exception is a
  server that was started again and has not returned from `init_snapshot`: the crash left one buffer
  dirty, and the new server dirties the other. `CleanStable`: a price changes only while its buffer is
  dirty, with one exception, the older buffer of the NBBO: it is written when the *new* quote beats it
  and marked when the *old* one did. `BlankNeverQuoted`: the buffers `init_snapshot` does not fill are
  read by the first trades, but no quote is built on them. What happens instead: the bid read is 0, the
  quote crosses, and the stock gets a whole new market around a midpoint of 3 to 6 whose prices wrap
  below zero. The run also shows that a venue whose older bid is negative as an `int` is passed over
  until its stock gets a new market, and that heartbeats go on from the old count after a restart.
* **All calls of a queue.** `Intact`: the queue holds the sequence its caller has in mind, short of what a
  clobbering push has written over; a `pop_back` that undoes the push does not bring that back.
  `AtExact`: `at()` is right of every offset, but refuses every live element while the tail has wrapped and
  the head has not. `CatchUpFinds`: a reader that skips by the excess of `size()` finds a full queue of
  elements that are all there, if nobody pushed in between and no clobbering push was undone. `DrillEnds`:
  the six programs always pass, whatever numbers they draw.
* **Algorithms.** `SwapsToPrevious`: `prevPermOpt1` returns the greatest array one swap below its argument
  unless the value brought forward occurs more than once and not in the place after the descent; with the
  result of `bisect_left`, which it throws away, it would always. The old version reaches what it returns by
  one swap or none, and is right if the last element, and no other, is the one to swap; when it is not,
  it may be wrong (section 4). `MatchesLanguage`: the matcher accepts the words of the
  pattern.
* **Shared queue.** `QueueIntact`: a queue holds what was pushed and not popped, after its processes
  have ended or were killed, and after its name has gone to another one. `ChildPasses`: in a history
  without kills and overlaps, a child meets no wrong number in a queue that was not emptied under it
  (that of a *file* may be, and a later `create_only` may make it whole again after the child has read
  from it: the property is about the step that finds the number). `SpoiledOnlyBy`: apart from
  writers that overlap, a queue is emptied under its users only by `create_only` of a *file*, which
  truncates in place, or `open_or_create` of a *segment*, which constructs again what it finds. The
  two classes are meant to be interchangeable (`circular_queue_in_shared_memory.h:155`) and differ
  in exactly this. `CreatorEnds`: whatever a killed program left behind, a creator ends, or it stands
  before a full queue that no child has open. That happens only if it pushes more than fits: the parents of
  test1, test5 and test6 spin there until a child comes, for ever if none does, and that of test6 does not get
  to remove the name.

### Bounds

Data is a number of a write or of an element, and every module is symmetric in those numbers; what
matters is the distance of writes, pops and reads, and their position relative to a wrap.

* *Queue*: 18 elements pass 4 slots more than four times and 3-bit offsets twice, so that full, empty
  and wrapped meet in every combination. The theorems remove the bound.
* *Atomic push*: two producers of three elements fill two slots and overrun them; the claim of one
  producer falls before and after every step of the other. The wrap is left to `SpscQueue`, since
  the C++11 `begin()` fails there for one producer already.
* *Guards*: two words are the least that can be torn. Three writes over 1-bit guards let a reader
  span a wrap. One reader is enough: a reader changes nothing that another process reads. The
  theorems remove the bounds on readers, words, writes, crashes and width.
* *Price server*: two venues are the least with a best one. Control does not depend on prices, so that
  `MCPriceServer` has two families of behaviours: all quotes and jumps of one stock by a server that is alone
  and is not killed, and the interleavings with a reader and with crashes, of two stocks with fixed quotes. `MaxBeats` and `MaxStarts` bound the counters; a server is killed only while one more may be started, so that the promise that it is restarted makes sense.
* *C++11 price server*: two venues and the NBBO, one stock: the steps of a market touch one stock, and
  `init_snapshot` goes through them one by one. Three starts are a first server, one that finds what a
  crash left and one that finds what a crash of that one left; three heartbeats let a quote follow a new
  market and another quote follow that. Draws and spreads are the extremes and one in between. The
  first midpoint, 72, is high enough that three heartbeats cannot carry the prices to zero
  (`WalkFits`, section 5), as the million of the code is for far more of them.
* *Queue calls*: ten pushes pass 3-bit offsets once with 4 slots full, overrun and empty before and
  after. `MaxBehind`, seven, is the most a reader may be behind: at 2^w `size()` is 0 again, and nothing in
  the code can tell. The programs take seven elements, fewer than 2^w, since 100 and 10000 of the tests
  are far from 2^32.
* *Algorithms*: three values and seven places have equal elements in every position relative to the
  descent and to the last element; patterns of five letters have two stars with something between them.
* *Shared queue*: three programs are a creator, a second creator or opener, and a child, at any
  overlap, or one after the other. Either they push
  more than fits (test1, test5, test6), so that producer and child wait for each other and pass the ring, or just
  what fits (test2), so that a parent ends before its child starts. The properties promise nothing once writers have overlapped, and most states are of that kind: `MCSharedQueue`
  starts no third program after an overlap. Writers are interchangeable,
  so the first idle one is started. Deadlock is not an error in this run: a child of a queue that
  has lost its name and its producer does poll for ever, as a producer without a child does.

`MaxWrites`, `MaxCrashes`, `MaxBeats`, `MaxRounds`, `MaxStarts`, `MaxRuns`, `MaxPush`, `MaxBehind` and the loop bounds
`N` and `M` are the only bounds on behaviour, and each stands in a guard.

### Fairness

Weak fairness only. `Run`, the program of `QueuePrograms`, `Producer`, `Consumer`, `Writer`, the steps of a reader in a call, `Serve` and
`Program` are loops of running processes, which the scheduler runs again and again. `Memory`
(`Publish`) is fair because a store buffer drains. `WRestart`, and the restart of the price server
after a crash, are assumptions on the operator: without them a reader of a half-written record waits
for ever, as the code does. A reader need not call again, the writer need not die and no program
need be started: those actions are not fair.

## 4. Findings

* `spsc_cpp11_wrap`: `begin()` of the C++11 queue tests `_tail_offset <= _head_offset`. When the tail
  has wrapped and the head has not, a queue with elements looks empty, and if it is full both sides
  spin for ever: after 2^32 pushes. The C++98 class compares with `==` and is right.
* `ioguard_try`: the loop of `try_copy_to_rhs_reverse_order` increments `num_try` in place of
  `try_iter`: it never gives up.
* `permute_old_test3`: the old `prevPermOpt1` returns {3,1,1,3} unchanged, where its test 3 asserts
  {1,3,1,3} (`old_prev_permutation.cpp:113`): the walk to the left of equal elements goes one place too far.

Met on the way, and each shown by one line changed in a configuration that passes:

* The slot of the queue is `offset % _size`. If `_size` does not divide 2^32 the slots jump when the offset
  wraps; `test1_circular_queue_in_mmap.cpp:8` uses a size of 20. (`SpscWrap.cfg` with `Size = 3`:
  `NoUnreadOverwrite` and `FifoDelivery` fail.)
* `atomic_push_back_get_end` announces the element before it is written, so that `begin()` hands out a
  slot without it. (`MpscTwo.cfg` with the invariant `DeliversOldest`.)
* `init_reverse_order` of `atomic_ioguard` compares the reader's *own* guard, before and after the copy, and
  so accepts a torn record. (`AtomicIOGuardOne.cfg` with the invariant `InitWhole`.)
* The comment at `circular_queue_cpp11/circular_queue.h:98` has `begin()` return null "if the beginnig is
  clobbered". It compares the offsets only, and returns the slot, where a newer element stands.
  (`QueuePrograms.cfg` with the invariant `NullWhenClobbered`.) `CatchUpFinds` says what a reader has to do.
* `print_snapshot` prints the difference of two readings of the counter as "number of heartbeats during print"
  (`smps/print_snapshot.cpp:31`) and takes none for a dead server. A server that is started between the
  two clears the counter (`shared_memory_price_server.cpp:25`): the difference is wrong, zero of a server that
  lives, or huge. (`PriceServer.cfg` with the invariant `ReportsHeartbeats`.)
* `prevPermOpt1` "need[s] to find left most value of p_max" (`prev_permutation.cpp:27`) and drops the place that
  `bisect_left` finds. On {2,0,0,1,1} it does not even swap with the right value. (`Algorithms.cfg` with the
  invariant `TakesLeftmost`.)

And with no statement of the repository that they contradict: the midpoint walk of the price server is
biased upwards by its rounding, and the sum of bid and ask overflows above 2^31;
`init_handshake_info.cpp:30` looks for a terminator behind the five exchanges; a producer of the atomic
push whose build loads the head first, and that is held up for 2^32 pushes before it loads the tail, may
overrun the queue by more slots than there are producers; the remover of test5 removes `MySharedMemory`, not the
segment of the test, which stays; the remover of test6 removes the name when the parent ends, also
before the child has opened it; `test7_circular_queue.cpp` uses a template that does not exist; the
generator calls itself thread safe and changes a mutable member in a const function; the C++11
`init_snapshot` asks for a segment of 64 bytes, one record, and is saved by the size of a page.

## 5. Theorems

All proofs are checked by TLAPS with Z3, Zenon and LS4.

**SpscQueueProofs**, under `WrapSafe`: the size divides 2^w or fewer than 2^w elements are pushed, and
for the C++11 class fewer than 2^w in either case. `spsc_cpp11_wrap` and `Size = 3` (section 4) show
that neither half can be dropped. For every size, width and number of elements: `TypeCorrect`, `DeliveryCorrect`,
`NeverNull`, `BeginCorrect`, `OverwriteCorrect` (each a property of `spsc_wrap`) and `Refinement`, that
the queue implements `BoundedFifo`.

The inductive invariant `IInv` is needed because none of the properties says what is still in the
store buffer. `OffsetsOrdered` chains the four views of the two offsets, `head <= chead <= tail <=
ptail <= head + Size`; `TestStillHolds` says that the answer of the first `end()`/`begin()` is still
true at the second; `TailsPending` and `DataPending` that the pending stores are exactly those between
what the producer has done and what is visible; `DataKept` and `DataOwned` that the slots of visible
elements hold them, and that no pending store aims at a slot of an unread one. The arithmetic — the
unsigned difference of two reduced counts is their difference, different offsets less than `Size`
apart have different slots, also across a wrap — is in `ModLemmas`.

**QueueProofs, of `MpscQueue`**: `OverrunLimited` (`OverrunBounded`) and `ElementsKept` (`QuiescentComplete`), for every
number of producers, size and number of elements.

`OverrunLimited` assumes `OverrunFits`: size and producers together do not exceed 2^w, and if a build loads the
head first, fewer than 2^w elements are pushed. Without the first, `size()` of an
overrun queue is small again and the producers go on; without the second, a producer that is held up between
its loads while the tail goes round finds room that is not there (with `IntMod = 4`, `M = 4` and the C++98
class `OverrunBounded` fails, but not with `LoadsFirst = {"tail"}`). The invariant, `RoomPromised`, looks
at every place n the head may still get to. The elements beyond n + `_size`, and the producers that may
add another although the head is no further than n (`Late`: they have passed the test, or have
loaded a tail that lets them), are together fewer than the producers: the one that brought the tail there
was late then, and has to load it anew, and every other can be late only once. `ElementsKept` assumes `WrapSafe`, as `SpscQueue` does. `QuiescentComplete` speaks of a moment without
stores in flight; the invariant says of every other moment where each element is: an offset was handed
to one producer (`ClaimsOwned`, `Counted`), who has still to write it, or has its store in
flight (`StoresOwned`), or has it in memory (`DataLanded`), in the slot of its offset as long as no slot was
handed out that was in use (`LapKept`).

**QueueProofs, of `QueueApi` and `QueuePrograms`**, for both classes, every size, width, number of elements
and number of calls of the most general caller: with no assumption but those on the constants,
`ProgramTypeCorrect` (`ProgramTypeOK`) and `ProgramsNeverFail`, the safety half of `DrillEnds`: no
check of the six programs fails, whatever the generator draws; under `SlotsInStep`, `QueueIntact`
(`Intact`), `AtIsExact` (`AtExact`) and `CatchingUp` (`CatchUpFinds`). `SlotsInStep` says that the size divides
2^w or that the caller pushes fewer than 2^w elements. Otherwise the slots jump at the wrap and the three
are false, as one sees with `Size = 3` in `QueuePrograms.cfg`. The programs need no such
assumption, although one of them has a size of 20: `N` is below 2^w.

None of the properties is inductive: what `at()` returns and what a reader finds that has skipped
depend on calls made long before. `ProgramInvariance` proves `ProgramInv`, which has five parts. `ApiInv` is
about any caller: the history is as long as the offsets are apart, and that is never a whole turn of
the offsets, so that `size()`, `empty()` and the test of `end()` are exact (`QueueTyped`); the element a reader got from
`begin()` is still the oldest one (`HeldOldest`); and from `size()` to `pop_n_front` the head stays and the tail
does not come back behind what was measured (`BehindMeasured`). `CallerKept` is that what no clobbering
push has written over is in its slot (`SparedKept`), and holds under `SlotsInStep`; `FreshAhead`, the tail is no
further than the number of elements pushed, is why few elements are enough for that. `LoopInv`
ties the counters of a program to the offsets: `i` and `j` are the tail and the head, the second loop of
`at()` runs between them, and the programs that pop and push in turn have exactly `OFFSET` elements
whenever they test; so there is always a slot to push into and nothing is written over. `ElementsInOrder` is
that these elements are the ones counted or drawn, in order. Every function of the class has a lemma on
what it does to the queue (`StoreKeeps`, `FrontKeeps`, `PopBackKeeps`), and the calls and the programs'
steps are proved from those; `RandomTyped` shows that `rand()` stays within its range although its
product overflows.

The proof corrected the range of `k` in the type invariant: `test1_circular_queue` counts it up to `N`, and
the others draw it up to the size, and neither bound contains the other (`test1` has a size of 8192 and 100
elements).

**IOGuardProofs**, with no assumption but those on the constants, for every number of readers, words,
writes, crashes and width of the guards: `TypeCorrect`, `SandwichCorrect`, `ReadsCorrect` and
`Refinement`, that the sequence lock implements `AtomicRecord` for the calls during which no guard
wrapped.

Here the invariant has, besides `Sandwich`, its forms in the store buffer: `PendNewer` (pending stores
are newer than memory), `FrontIssued` (the front guard is pending or visible), `FrontBeforeWords` and
`WordsBeforeBack` (no word is visible before its front guard, and no back guard before all words),
`Progress` (what the writer has issued so far), and `ReaderInv`, which relates what a reader holds to
memory: what it copied is no older than the back guard it loaded and no newer than the front guard.

**AtomicIOGuardProofs**, with no assumption but those on the constants: `CopyNeverTorn`
(`CopyTornOnlyIfWrapped`) and `Refinement`, that this guard implements `AtomicRecord` too. The
invariant is that of `IOGuard`, with the two guards in one word of memory: `FrontBeforeWords` and
`WordsBeforeBack` order the two stores of that word around those of the record.

**PriceServerProofs**, for every number of stocks and venues, quote, jump, heartbeat, crash and restart:
`ServerNbboIsBest` (`NbboIsBest`), `ServerHealedByRestart` (`HealedByRestart`) and `PrintedNbboNeverAhead`
(`NbboNeverAhead`), with no assumption but those on the constants, and `ServerMidpointMovesSlowly` (`MidpointMovesSlowly`) under `PricesFit`.

`NbboIsBest` and `HealedByRestart` are promises of the pause between two rounds; the invariant carries
them through the round. `LocksExplained` says that the only locked record is the one
the server is inside, or one a crash left that `init_snapshot` has still to reach; `RoundBest`
and `MarketsBest` that the best bid and offer collected so far are those of the venues visited so far,
and of all of them once the NBBO is written; `TimesOrdered` that no
NBBO is from a later heartbeat than its venues; `PrintOrdered` relates
what `print_snapshot` has read to the memory it was read from. `PricesFit` says that the prices reach
neither zero nor half of their range within `MaxBeats` heartbeats: the midpoint, from a
million, moves by ten at most, so that some 99,000 heartbeats are safe. Beyond, a bid could fall below zero
and wrap, or, much later, the sum of bid and offer overflow, and the midpoint would jump. `MidpointAround` is
the range that grows with the heartbeats.

**SecurityDatumProofs**, with no assumption but those on the constants, for every number of stocks,
exchanges, heartbeats, restarts and draws and every width of a price: `MarketKept` (the property
`LastMarketKept`) and `Stable` (`CleanStable`).

`LastMarketKept` says only that one of the two buffers is good, and a step from such a state may well
spoil it. The invariant says which one, and why: `InTurn`, the two front guards are equal or the
second is 2 ahead, so that marking the older buffer makes it the newer one; `Marked` and `Target`, the
records between their marks and the buffer being written, at every step of a market or a quote;
`HalfWritten`, such a buffer is the newer one and dirty, and the other one holds the last market;
`Settled`, of every other record the newer buffer holds it. `Calm` and `Seen` cover a restart:
until `init_snapshot` returns, only the stocks it has seen to are settled. `QuoteAims` keeps
the pointers of a quote on the older buffers until they are marked, and `Left` is what a crash leaves.
Each action is then one of three things done to one record: `mark_dirty`, `mark_clean` or new prices.

`TypeCorrect` and `BlankNotQuoted` (`BlankNeverQuoted`) speak of the prices themselves and hold under
`WalkFits`: spreads are at most the shift, as 5 to 9 and 10 are, and the first midpoint is so far from both
ends of the type that `MaxBeats` heartbeats, which lower a price by `NumEx` + 13 and raise it by 10 at most,
carry it to neither. From the million of the code and its five records a stock that is some 55,000 heartbeats.
Without such a bound both fail: a bid that has walked down to zero is as blank as one never written. The
invariant `WInv` sorts every buffer into three: blank, `Near` the first midpoint by what the
heartbeats so far allow, or `Under`, just below zero at the upper end of the unsigned type, where a market
begun from a blank buffer lands. A bid drawn from a blank buffer is at most 3 and so crosses every NBBO
that was ever quoted, and one drawn from an `Under` buffer is negative as an `int`: only `Near` buffers
yield a quote, and a quote keeps the NBBO it is compared with from being blank.

**SharedQueueProofs**, with no assumption but those on the constants (`_size` divides 2^w), for every number of writers,
programs run, kills and elements, more than the queue holds included, of both
classes: `TypeCorrect`, `IntactQueue` (the property `QueueIntact`), `ChildAgrees` (`ChildPasses`) and
`SpoiledByOne` (`SpoiledOnlyBy`).

The invariant `IInv` has four parts. `Sound` always holds: types, `Budget` (a program makes one object at
most, so that objects and programs about to make one are no more than programs run), and `ModeFits`, which
steps go with which way of opening. The other parts hold until writers overlap. `Apart` says which writers
can be where at once: one opens at a time (`OneOpener`), the name is free when a new object is about to be
made (`NameFree`), two writers have one queue only if it was truncated under the first (`Exclusive`), and
what the harmless ways of opening make is a fresh, empty object nobody else knows (`MadeEmpty`); that is
why only the `Risky` way of each class spoils a queue. `Held` is `QueueIntact` with what the two
sides have tested: room between `end()` and `push_back` (`RoomLeft`), an element between `begin()` and
`pop_front` (`PopFinds`). `Counted` holds while nobody was killed and says why the child finds its
numbers: the k-th element ever pushed to a queue is k-1 modulo `N` (`NumberedAt`), a queue without a writer
has been pushed a multiple of `N` and one with a writer `wi` more (`CountsAt`), and the same of the child and
what was popped (`PoppedAt`). Each action has a lemma that says what it does to each variable in one place, and each part
of the invariant is shown to be kept from those effects alone.

Proving it corrected the property: that the child is *in* the state `mismatch` only when its queue is
spoiled holds in the run, but not beyond its bound, as a run of four programs shows: an object that was
spoiled stops being so when it is truncated again without users. `ChildPasses` is therefore about the step
to `mismatch`.

**Model-checked only.** Liveness (`AllDelivered`, `AllPopped`, `ReadersReturn`, `PrintEnds`,
`CreatorEnds`, `DrillEnds`), which the prover does not cover; and `SwapsToPrevious` and
`MatchesLanguage` of `Algorithms`, which are about what recursion computes for every input, and would
need induction over data. Every other property of a passing run is a theorem.

## 6. What is not modelled, and the plan

The plan of modules and of proofs is done. What stays with TLC is listed at the end of section 5.

Not modelled:

* CPU affinity, scheduling policy, signal handlers (their effect, the flag `stop_now`, is in `SStop` and
  `Stop`), clocks and portability macros: calls into the operating system without state to check.
* `primedef.h`, a table of primes, and `memtime.cpp`, which measures memory: data and a measurement.
* The encoding of the securities: a table that is filled once and read, except for the loop over the
  exchanges at `init_handshake_info.cpp:30`, whose outcome past the array depends on the layout the
  linker chooses.
* Two price servers at once: an ioguard promises nothing to two writers, and nothing prevents it.
* The queues on the heap (no second process), and the pointers that `remove()` of `circular_queue_in_mmap`
  leaves dangling in its own object, which no program uses afterwards.
* Sizes next to bids and offers of the C++11 server, which are written and never looked at.
