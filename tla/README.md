# A verification development for cclockfreequeue

The repository holds two lock-free multi-producer multi-consumer queues of its
own (`CCLockfreeQueue`, `CCLockfreeFixQueue`), a message queue class
(`CLockFreeMessageQueue`) on top of an altered moodycamel `ConcurrentQueue`, that
queue with its blocking variant, and a benchmark that runs queues against each
other. This directory models all of them in TLA+ at the granularity of single
accesses to shared memory, checks them with TLC on small instances and proves,
with TLAPS, the parts of the argument that do not depend on the number of threads
or the size of the ring.

## 1. Inventory

| component | source | state | operations |
|---|---|---|---|
| `CCLockfreeFixQueue` | `cclockfreefixqueue.h` | `m_nSpace`, `m_nCanRead` (two semaphores), `m_nPreWrite`, `m_nRead` (tickets), cells with a payload and a flag `m_cWrite` | constructor, `Push`, `Pop` |
| rings and micro queues of `CCLockfreeQueue` | `cclockfreequeue.h` 29-247 | `Circle` (window begin, size, `m_bNoWrite`, pool of cells with a sign byte), `MicroQueue` (`m_pWrite`, `m_pRead`, `m_pCircle`, two circle counters) | `CreateCircle`, `CreateNextCircle`, `PushPosition`, `PopPosition`, `ReleasePool`, `PushMicroQueue`, `PopMicroQueue` |
| index layer of `CCLockfreeQueue` | `cclockfreequeue.h` 248-331 | `m_nPreWriteIndex`, `m_nPreReadIndex`, `m_nReadIndex` | constructor, `GetSize`, `Push`, `Pop` (two variants), `PopIndex` |
| benchmark harness | `cccontaintemplate.h`, `main.cpp` | `EnumRunStatus`, per-message `m_nSend` / `m_nReceived`, thread counters | rounds, timed test, push and pop threads, `Receive`, `CheckIsSuccess` |
| `CLockFreeMessageQueue` | `lockfreemessagequeue.h` | table of pools `m_pMaxAllocTimes`, its index, a spin lock | constructor, `GetBlock`, `ChildCreateBlock` |
| block pool of `ConcurrentQueue` | `concurrentqueue.h` 1373-1486, 2968-3044 | initial pool and its index, free list with a reference count per block | `requisition_block`, `add_block_to_free_list`, `FreeList::add`, `try_get` |
| producers of `ConcurrentQueue` | `concurrentqueue.h` 1495-2961 | per producer: `tailIndex`, `headIndex`, `dequeueOptimisticCount`, `dequeueOvercommit`, blocks, a block index | constructor, destructor, `enqueue`, `enqueue_bulk`, `dequeue`, `dequeue_bulk`, for explicit and implicit producers |
| top level of `ConcurrentQueue` | `concurrentqueue.h` 570-691, 928-1366, 3156-3467 | list of producers, hash tables of thread ids, tokens, `globalExplicitConsumerOffset` | tokens, `get_or_add_implicit_producer`, `recycle_or_create_producer`, `try_dequeue`, `try_dequeue_bulk` |
| `BlockingConcurrentQueue` | `blockingconcurrentqueue.h` | `LightweightSemaphore`: `m_count` and the system's semaphore | `enqueue*`, `try_dequeue*`, `wait_dequeue*` with and without timeout |
| atomics, back-off, timers | `cclockfreedef.h`, `headdefine.h`, `debug.*` | none that matters | macros over instructions, delays, printing |

How they interact. `Push` of `CCLockfreeQueue` draws an index by an atomic
increment and hands it to micro queue `index % ThreadWriteIndexModeIndex`; `Pop`
announces itself, draws an index, and goes to the micro queue of that index.
Inside a micro queue pushes and pops only meet in the cells of a ring and in the
pointers to rings. The message queue overrides the one virtual function the
altered moodycamel queue calls when its free list is empty. In the moodycamel
queue an enqueuing thread works on a producer of its own, found by a token or by
its thread id; a dequeuing thread goes through the list of producers. Each
producer takes its blocks from the one pool and returns them to it (implicit
producers as soon as a block is empty). The blocking queue wraps all that:
an enqueue that succeeded signals a semaphore, and a dequeue first takes units
and then repeats `try_dequeue` until it has an element for each. The harness
calls queues through the same two template functions from many threads, and
joins the threads.

What is hard. Everything of interest is concurrency:

* no lock, no reference counts: a ring's memory is freed by whichever pop comes
  after its window, and only sign bytes tell it that nobody needs the ring;
* check-then-act on plain stores: a push that finds its index exactly one past
  the window is alone in charge of the ring, by an equality test only;
* values loaded once and used after other threads moved (`m_nBeginIndex`,
  `m_pWrite`, the two circle counters);
* optimistic counters that are taken back (`m_nPreReadIndex`, the semaphores);
* arithmetic modulo 2^32 and sign bytes modulo 4;
* spin loops that end only if another thread does its part;
* a free list without tags: only a reference count keeps a block from leaving
  and coming back behind a reader's back (ABA);
* structures that grow while others read them without a lock (the table of pools,
  both kinds of block index, the hash tables);
* calls that fail half-way (no memory, size limit, a throwing constructor) and
  have to put back what they took;
* a timeout that meets the signal it was waiting for.

What makes each component correct: for a queue, that every payload is returned
once and by the pop whose place in the order it has, that nothing is read after
it was freed or overwritten before it was read, that a call which has committed
itself (drawn a ticket or an index) returns, and that `Pop` reports an empty
queue only when it was empty at some moment of the call; for the semaphores and
the index layer, that no unit is lost and that pops never overtake pushes; for
the pools, that a block has one owner and none is lost; for the blocking queue,
that each unit stands for an element and each waiter is owed one wake-up.
`PROJECT.json` lists the hazards line by line, with the properties that cover
them.

## 2. Modules

| module | extends | role |
|---|---|---|
| `Circle` | | arithmetic of a ring |
| `MicroQueue` | `Circle` | rings and micro queues, over abstract indices |
| `MCMicroQueue` | `MicroQueue` | its TLC instance: one pusher or all |
| `CCLockfreeQueue` | `MicroQueue` | the index layer; refines `MicroQueue` |
| `HonestEmpty` | `CCLockfreeQueue` | history variable for "empty" answers |
| `CCLockfreeFixQueue` | | the fixed queue |
| `MCFixQueue` | `CCLockfreeFixQueue` | its one-sided teams |
| `CCContainTemplate` | | the benchmark around a queue |
| `FreeBlocks` | | abstract: a block belongs to the pool or to one thread |
| `FreeList` | | the free list with its reference counts |
| `BlockPool` | `FreeList` | `requisition_block` and `ChildCreateBlock`; refines `FreeBlocks` |
| `MCBlockPool` | `BlockPool` | its TLC instance |
| `SubQueue` | | abstract: the queue of one producer |
| `ProducerBase` | | state and claim protocol both kinds of producer share |
| `ExplicitProducer`, `ImplicitProducer` | `ProducerBase` | the two kinds |
| `Producers` | both | one producer of either kind and its consumers; refines `SubQueue` |
| `ConcurrentQueue` | | tokens, hash tables, the search over producers |
| `Semaphore` | | abstract: a counting semaphore |
| `LightweightSemaphore` | | the semaphore with partial spinning |
| `BlockingConcurrentQueue` | `ConcurrentQueue`; instance of `LightweightSemaphore` | the blocking queue; refines `Semaphore` |
| `MCBlockingQueue` | `BlockingConcurrentQueue` | its TLC instance |
| `Units` | | the sum of a function, as a cardinality; used by `Producers` and `BlockingConcurrentQueue` |
| `Counting` | `Units` | lemmas on numbers of threads and on sums over threads, induction over the naturals, quotients and rests |
| `CCLockfreeFixQueueProofs` | `MCFixQueue`, `Counting` | proofs |
| `MicroQueueProofs` | `MCMicroQueue`, `Counting` | proofs |
| `CCLockfreeQueueProofs` | `HonestEmpty`, `MicroQueueProofs` | proofs |
| `CCContainTemplateProofs` | `CCContainTemplate` | proofs |
| `BlockPoolProofs` | `BlockPool`, `Counting` | proofs |
| `ProducersProofs` | `Producers`, `Counting` | proofs |
| `BlockingQueueProofs` | `BlockingConcurrentQueue`, `Counting` | proofs: types, semaphore, units, producers and hash tables |

Definitions whose comment begins with "Mutant" are deliberate mistakes, one per
property, which `PROJECT.json` pairs with the property that catches them; no
specification uses them.

### CCLockfreeFixQueue

`Push` and `Pop` of the fixed ring. One action is one access to shared memory:
`PushTake` (decrement `m_nSpace`), `PushTicket`, `PushSpin`, `PushData`,
`PushFlag`, `PushCount`, `PushUndo`, and the same for `Pop` with the extra
unlocked test `PopCheck`. A payload is named by the ticket of its push, so a
delivery is a pair of the pop's ticket and the payload it found, and "in order"
is the equality of the two. `delivered` is a history variable.

`MCFixQueue` restricts the threads at work to a team with a single producer or a
single consumer, chosen in the initial state; with the full set of threads not
even "exactly once" holds (`DeliveredOnce`, finding 1).

### Circle

The arithmetic of one ring as operators: `Word` and `Minus` (uint32_t
arithmetic), creation of rings, which cell an index uses, and the sign bytes. An
index's *half-lap* is its distance from the ring's first index in units of half
a ring; the byte stored in a cell is the half-lap modulo 4, tagged written or
read.

### MicroQueue

`PushMicroQueue` with `PushPosition`, `PopMicroQueue` with `PopPosition`. Each
thread has a label `pc` (the next access it makes) and the locals of its call
`loc`. `heap[q]` is the sequence of rings micro queue `q` has allocated, so a
pointer is a position in it and a freed ring stays visible with `m_bReleased`,
which lets `NoUseAfterRelease` talk about it. `MCMicroQueue` chooses the pushers
at work once, one or all: `LoneProducerSafe` needs to know. Where the code would index past
`m_pCircle` or follow an empty slot the action has a guard, and the invariant
`SlotsSound` says that the guard never blocks.

The module abstracts the index layer to its promise: `DrawPush` and `DrawPop`
draw consecutive indices and no pop draws one before a push has. That promise
is the abstract specification the next module is shown to implement.

### CCLockfreeQueue

Extends `MicroQueue` and replaces the drawing of indices by what `Push`, the
quick `Pop` (`PopAnnounce`, `PopCheck`, `PopIndex`, `PopUndo`) and `GetSize`
(`SizeRead`, `SizeWrite`) do. `ImplementsMicroQueue` is the refinement: the
variables of `MicroQueue` are a subset of those here and its `Spec` is the
property. `uint32_t_after` returns the set of outcomes a build may produce: the
signed subtraction of line 24 overflows when the operands straddle 2^31, and
then a compiler may compare the operands instead.

### HonestEmpty

Adds a history variable to `CCLockfreeQueue`: was the queue empty at some moment
of the pop call that is running? `EmptyIsHonest` says that a `Pop` which is about
to return false has such a moment, which is what linearizability asks of it.

### CCContainTemplate

The benchmark: `main`, `PowerOfTwoThreadCountTest`, the repetitions of a round,
the timed ("heavy") test, and the functions its threads run. A step is an access
to memory other threads write: `PushContentFunc`, `PushStatus` and
`PushContentNoNull` for pushing threads, `PopStatus` and `PopContent` for popping
ones, and the two halves `ReceiveLoad` and `ReceiveStore` of the plain increment
`m_nReceived++`, which several popping threads may run on one message. `main`'s
steps are the joins, the check, the choice of the next round, and in the timed
test the look at the size and the three stores to `m_statusTimeFinish`. The
queue's own operations are single steps here: this module asks whether the
*test* is right, on a queue that is. That a failed check ends only the
repetitions of one number of threads (line 290 drops the result) and that the
next round then runs on the same queue with a new manager is modelled, because
stale messages would index the new manager's arrays.

### FreeList and BlockPool

`FreeList` is `add`, `try_get` and `add_knowing_refcount_is_zero`, one action per
load, store, exchange or fetch-and-add. `freeListRefs` is a number whose top bit
(`SHOULD_BE_ON_FREELIST`) is far above the count. `held`, which is not in the
code, records which blocks a thread has got and not returned; it is the state of
the abstract pool `FreeBlocks`. `BlockPool` adds the sources a block can come
from, in the order of `requisition_block`: the initial pool, the free list,
`ChildCreateBlock`, the allocator. A block is the pair of its pool and its place.
The table's index and pointer are plain variables that line 88 of
`lockfreemessagequeue.h` stores one after the other and lines 74 and 77 load
without the lock; the model stores them in either order. A thread that follows a
null pointer ends in the label `crashed`.

### ProducerBase, ExplicitProducer, ImplicitProducer, Producers

The queue of one producer. An element is the index it is enqueued at, so reading
the right element is an equality. `ProducerBase` has what is the same text in
both kinds: the claim (`DequeueTail`, `DequeueOvercommit`, `DequeueCount`,
`DequeueClaim`, `DequeueCheck`, `DequeueUndo`, `DequeueHead`), moving elements out
of a block, and going on to the next one. `dequeue` is `dequeue_bulk` with a
maximum of 1. The two kinds add the enqueuing side (single and bulk, with all
failures: size limit, no index memory, no block, throwing constructor, and what
each of them takes back), the way a consumer finds its block, what happens to an
empty block, and the destructor. The pool is the set `free`, as `FreeBlocks`
promises. `CannotAlloc` is an allocation that fails. Constructing the elements of
a call is one step: nobody sees them before `tailIndex` is stored. In `undone`
the model remembers what failed calls left behind in an explicit queue: blocks that
are no longer counted (`bulk`), a block a constructor had begun (`throw`), and
whether the index has gone wrong since, because the ring has outgrown it
(`outgrown`) or the front restored is not where it was (`front`). Undone calls alone
are not excluded from any property of the consumers: `ReadsOwn` and `AssertionsHold`
give up only when the index has gone wrong, `DestroysWhatIsLeft` only the part the
destructor can no longer do (section 4).
`AssertionsHold` collects the code's assertions that relate the producer and its
consumers or two consumers; its comment lists their lines, and those left out, which
are about the locals of one call.

### ConcurrentQueue

Which producer a call works on. The queue of one producer is `SubQueue`'s pair of
counters, which `Producers` refines; a dequeue that runs against another one may
get less than is there, as the overcommitment allows (`Gains`). `LookUp` to
`HashRoom` are `get_or_add_implicit_producer` with the growing tables; keys are
never removed (thread exit is compiled out, line 202) and a thread inserts only
its own id, so that a table is a set of keys and a capacity, and probing stops as
long as the set is smaller (`TablesHaveRoom`). `Scan`, `Create`, `Link` are
`recycle_or_create_producer` and `add_producer`; `Pass`, `ScoreTail`, `ScoreHead`
and `Visit` are the four forms of `try_dequeue` and `try_dequeue_bulk` (with and
without token), with the rotation of `update_current_producer_after_rotation`.

### LightweightSemaphore and BlockingConcurrentQueue

`LightweightSemaphore` is one action per access; a loop that only retries a
compare-and-swap is one action. The POSIX semaphore is modelled by its contract: a
wait takes a unit, a timed one may time out instead at any moment.
`BlockingConcurrentQueue` composes: `Dequeue` (any mode, single or bulk) takes
units, `Take` starts the loop, which ends when it has as many elements as units;
`SignalElements` and `PostElements` follow a successful `Put`.

### Memory model

Accesses are sequentially consistent. The code targets x86, its shared fields
are `volatile` or `std::atomic`, every operation starts with a locked
instruction, and no operation stores to one shared location and then relies on
loading another one fresh. On a weaker machine the plain stores of
`PushPosition` would need release semantics; this is not modelled. The
moodycamel queue states its orderings explicitly; that they suffice on weaker
machines is not examined.

## 3. Runs

| run | instance | what it shows |
|---|---|---|
| `fix_one_sided` | 1 producer and 2 consumers, or 2 and 1; 4 cells, 9 pushes | once and in order, nothing overwritten unread, semaphores balance, tickets never lap the ring, calls that drew a ticket return |
| `fix_mpmc` | 2 and 2, 4 cells, 6 pushes | **violation**: a payload is delivered twice, another never (finding 1) |
| `micro` | 1 producer and 9 pushes or 2 and 6, 2 consumers, indices from 60 of 64 | sliding, closing, doubling, draining and freeing of rings, across the wrap of the index; mutual exclusion of ring changes, tiling of the indices by the rings; changing rings is safe with one producer, and while closed rings have not slid |
| `micro_stale_window` | 1 and 1, 5 pushes, weak fairness | **violation**: a pop waits for ever (finding 2) |
| `queue_refines` | 2 and 2, two micro queues, indices 62..64 of 64 | pops never overtake pushes, `GetSize` is sane, refinement of `MicroQueue` |
| `queue_one_consumer` | 2 and 1, 3 pushes, weak fairness | with one consumer "empty" is honest, pops that drew an index return across the first change of ring, and every payload is delivered |
| `queue_false_empty` | 1 and 2, 1 push | **violation**: with two consumers "empty" is not honest (finding 3) |
| `benchmark` | 4 messages, rounds of 2 and 4 threads twice over, timed test of 2 looks | every round passes its check, no message reaches another round's counters, every join returns |
| `pool` | 2 threads and all sources, 2 returned blocks; or 3 threads, 3 returned, no growth | one owner per block, no block lost, exact reference counts, no slot of the table filled twice, refinement of `FreeBlocks` |
| `pool_null` | 2 threads, 2 slots | **violation**: a null pointer is followed (finding 4) |
| `producers` | either kind, 2 consumers, 3 blocks of 2, limit 4, 5 elements, bulk of 3 | claims are backed, consumers read their own elements, the code's assertions, blocks neither lost nor shared, the destructor, refinement of `SubQueue` |
| `blocking` | 2 enqueuers, 2 consumers, any of them with a token, 3 elements, bulk of 2 | producers are not shared, hash tables keep room, no wake-up lost or left over, units are backed by elements, refinement of `Semaphore` |

### Bounds

* `MaxPush` bounds the number of indices or tickets pushes draw. Everything
  else is bounded by it. Because calls stop at this bound, as they do at
  `MaxAdds` and `MaxElements`, all runs say `CHECK_DEADLOCK FALSE`; that no call
  gets stuck before is the subject of `PushReturns`, `PopReturns` and
  `EveryPushDelivered`, and of `UnitsBacked` and `WakeupsOwed` for the blocking
  queue.
* `BlockDefaultPerSize = 1` gives a first ring of two cells (two halves of one),
  so that three pushes already force a change of ring and four a slide. With
  9 pushes (`micro`, one producer) a ring slides, is closed, replaced by one twice
  the size, which itself slides; two producers share 6 (`MaxTeamPush`).
* `WordSize = 64` stands for 2^32. It is far larger than the number of indices
  in flight, which is what the code relies on too, and small enough to start
  just below the wrap (60, 62). These start values stand
  for a queue that has been used that often; `StartAssumption` keeps them aligned
  to micro queues as the shipped value 0 is.
* The fixed queue has 4 cells: with 2, two tickets can never be more than one
  lap apart in a way that matters and even two producers and two consumers are
  safe; 4 is the smallest ring where lapping happens. 9 pushes
  (`fix_one_sided`) are two laps and one.
* The benchmark's `TIMES_FAST = 4` gives units of two messages and of one.
  `MaxTicks = 2` looks at the size allow one pause and one resumption,
  `WaitSize = 1` makes both outcomes of the look happen, and `MaxPushTime = 5`
  pushes of the timed test's one unit send a message again while its first copy
  is being received. One of `main`'s 100 identical iterations is modelled. The
  run says `CHECK_DEADLOCK FALSE` because `main` ends; `BenchmarkEnds` excludes
  an earlier stop.
* `pool`: one block in each pool makes every source run dry at once; two slots
  make the table grow and then be exhausted. Two threads do everything with
  `MaxGrowAdds = 2` blocks returned. The races of the free list need a third
  thread (one holds a reference, one takes the block, one returns it): a team of
  three returns `MaxAdds = 3` blocks and does not go on to grow the table.
* `producers`: blocks of two elements, an index of two entries and a bulk call of
  three make calls span two blocks, indices wrap and grow, blocks be reused and
  returned, and each failure happen. `MaxOvercommit` stops new dequeues while an
  overcommitment of one is outstanding beyond what two consumers hold anyway.
* `blocking`: the first hash table has one slot, so that the first thread
  already replaces it; a quota of 2 lets consumer tokens rotate. Growing tables
  and racing consumers are bounded apart (`MCBlockingQueue`): where both
  enqueuers have tokens the two consumers' calls overlap freely, over two
  elements (`MaxRaced`); otherwise one consumer's call runs at a time, over three.
* Threads of one kind, and blocks, are interchangeable; the safety runs over
  `MCMicroQueue`, `MCBlockPool`, `Producers` and `MCBlockingQueue` use that
  symmetry. Runs with liveness properties do not.

### Fairness

Weak fairness of each thread's steps inside a call: threads are preempted, not
stopped, and the back-off in the spin loops only delays. The spin loops are
actions that wait for their condition, so weak fairness does not promise that a
condition which comes and goes is seen. For `EveryPushDelivered` the consumer
also keeps polling, as the pop threads of the harness do
(`cccontaintemplate.h` 229-240). No fairness is assumed for starting a push.
In the benchmark each pushing thread, each popping thread and `main` is weakly
fair; that the timed test comes to its end is the passing of time, which `ticks`
counts.

## 4. Findings

1. **Fixed queue with several producers and several consumers.** The flag of a
   cell is tested and set in two steps. The semaphores count cells, not laps: a
   producer stalled between its ticket and its cell does not keep other
   producers from coming round to the same cell, once consumers behind them have
   freed others. Two threads then own one cell. In the run a push with ticket 0
   has stored its payload and not yet set the flag; the push with ticket 4, which
   had found the flag of the same cell clear, stores its own over it; both set the
   flag, and two pops return payload 4 while none returns payload 0. The receptions
   of message 4 are then 2 and its sendings 1, which the benchmark's oracle
   (`main.cpp` 40) excludes. With a single producer, or a single consumer, this
   cannot happen.
2. **A pop that waits for ever.** `PopPosition` loads `m_nBeginIndex` (line 108)
   and `m_bNoWrite` (line 115) separately. If in between the window slides, so
   that it now contains the pop's index, and the ring is then closed, the pop
   still believes that its index is the first one past the window, takes itself
   for the one that has to drain the ring, and waits for signs of a lap that is
   over.
3. **A false empty.** A pop that failed its test has its announcement
   outstanding until line 289. Another pop that announces meanwhile gets a number
   one too high and reports an empty queue although a completed push is waiting.
   The README calls the queue linearizable. With one consumer it holds.
4. **A null pool.** `m_pMaxAllocTimes[++m_nAllocateIndex] = new ...` (line 88 of
   `lockfreemessagequeue.h`) is two unordered plain stores. A thread in
   `ChildCreateBlock` that loads the new index and then the old, null pointer
   calls `GetBlock` on it. `m_nAllocateIndex` and the table would have to be
   atomic, the pointer stored first.
More behaviours were met while modelling. They are part of the modules, each can
be seen by stating the property without its hypothesis, and the hazards in
`PROJECT.json` name their lines:

* *A push that waits for ever.* Before a ring is replaced lines 78-90 of
  `cclockfreequeue.h` wait until its cells are non-zero. In a ring that has slid,
  non-zero is left over from the lap before, and a push with an index of that ring
  that has not yet loaded `m_pWrite` only ever sees the next ring. `FreshCloseSafe`
  excludes such rings. With two consumers the same lets a ring be freed undrained
  (2 producers, 2 consumers, 4 pushes).
* With more than `4 * BlockDefaultPerSize` pushes in flight in one micro queue the
  ring built at line 197 starts from a stale one, and the push loses its payload
  (`Chained` and `GrowerStores` fail for 5 producers, no consumer, 7 pushes).
* `uint32_t_after` is not the jiffies macro its comment names: it casts before
  subtracting, so that the subtraction may overflow when the indices pass 2^31
  (from index 31 of 64 on `NeverOvertake` fails).
* The timed test can fail on a queue that works: a pushing thread that read
  `Ready` may be preempted until the popping threads have left; its push stays in
  the queue.
* Consumers can keep each other from an element for ever, each seeing the other's
  overcommitment (lines 1997, 2276); `assert(overcommit <= myDequeueCount)`
  (line 1936) is right only until the indices wrap; an implicit producer whose
  constructor failed to allocate its index is used with a null one (lines 2371, 2840).
* *An index that loses a block.* An explicit producer whose `enqueue_bulk` failed
  after it had taken blocks leaves them in the ring uncounted (lines 2046-2049,
  2061-2064 of `concurrentqueue.h`). That does no harm while the ring fits the index.
  Once reused, they let the ring outgrow it, and the circular index overwrites the
  entry of a block that still holds elements, in spite of lines 1816-1820; the
  consumer that claimed one of these looks up another block. Line 2055 has the same
  effect when blocks had been reused before the index was replaced, and with no slot
  counted the new index (line 2044) starts at front -1, outside its entries. `Sound`
  excludes exactly these cases (`OwnElements` fails with 1 consumer, 3 blocks of 2, a
  size limit of 6 and an index of 2).
* *A destructor that relies on the count.* In such a queue the destructor may also look
  for the half-dequeued block in the wrong place (lines 1748-1753): the assertion of
  line 1752 can fail, elements be skipped or destroyed twice. `Counted` excludes this.
* *A destructor that destroys too much.* After a throwing constructor the new block
  keeps the flags line 1854 has reset, so that it is not "available for next time"
  (line 1873); if it was the first block it stays `tailBlock`, and the destructor runs
  `~T()` on memory in it that holds no element. The last part of `DestroysWhatIsLeft`
  excludes this.
* `try_dequeue` rotates consumers when the quota is met exactly (line 1139), a bulk
  call may have passed it before.
* `timed_wait` does not normalise a deadline of exactly one second (line 219 of
  `blockingconcurrentqueue.h`) and takes the resulting error for success;
  `wait_dequeue_bulk` with a maximum of 0 trips the assertion of line 392.

## 5. Proofs

Every theorem is about the specification a run checks, and each property it states
is one TLC also checks. Inductive invariants were checked by TLC before they were
proved.

`CCLockfreeFixQueueProofs`, for any ring size and any sets of threads (finite
ones for counting):

* `TypeCorrect`: `Spec => []TypeOK`.
* `UnitsAccounted` and `SemaphoresSound`: `Accounts` and `TicketsBounded` are
  invariants. The inductive invariant is `TypeOK /\ Accounts /\ TicketsBounded`.
  `Accounts` states each semaphore exactly: its value plus the tickets drawn on it
  equals the units that were produced, plus or minus the threads in the middle of
  taking, undoing or giving back. Without it the bound on tickets is not
  inductive: a semaphore that is transiently negative carries the information
  which thread must still undo. `TicketsBounded` (reads behind writes, writes at
  most a ring ahead) then follows from what the semaphores permit.
* `OneSidedInOrder` and `OneSidedOverwrite`, of `TeamSpec` (a single producer or
  a single consumer at work): every payload is delivered to the pop that has its
  ticket, and no payload is overwritten unread. The inductive invariant `RingInv`
  adds which tickets are live and written, that a cell's flag is set exactly for a
  written ticket and its payload is then that ticket's, that no two pushes work on
  one cell and no two pops on one ticket (`RingSound`), and that a lone thread's
  ticket is the last one drawn on its side (`Sided`), which keeps live tickets
  within one lap. This is what the full set of threads breaks (finding 1).

`MicroQueueProofs`, for any number of micro queues, any number and size of rings
and any word size. The first theorem holds for any threads and without a further
hypothesis:

* `MicroTypeCorrect`: `Spec => []TypeOK`. Here `TypeOK` is memory safety rather
  than typing: every pointer (`m_pWrite`, `m_pRead`, the slots of `m_pCircle`, a
  thread's `pCircle` and `this`) refers to an allocated ring *of the micro queue
  of the thread's index*, and each ring has a pool of exactly its size. Lemma
  `CellInPool` adds that an index always selects a cell inside that pool. The
  inductive invariant `Shape` adds that the pools of a micro queue form a
  sequence, which the append of line 197 needs. The proof has one lemma per
  effect (a thread's locals, a ring's fields, a cell, a micro queue's pointers,
  the growth of the chain), and the actions cite the lemma of their effect. It
  does not say that a ring has not been freed: finding 2 shows that needs more.

The others assume `Roomy`: finitely many pushers, no more than
`4 * BlockDefaultPerSize` of them, and a run that draws at most `MaxPush` indices,
about a sixth of the words (`Mode * (2 * Far + 2) <= WordSize`, where `Far` is a
bound on how far apart two places of one micro queue get). The words may wrap
during the run, since the first index is arbitrary; what `Roomy` excludes is that
two places which meet in one subtraction are half a word apart, where line 61 and
line 108 cannot tell before from after. With the constants of the source
(`ThreadWriteIndexModeIndex` 4, `BlockDefaultPerSize` 16, 32 bits) that is some
7 * 10^8 pushes by up to 64 threads; `Micro.cfg` satisfies it too (`Far` is 29 and
60 <= 64). The bound on pushers is needed: with more, `Chained` and `GrowerStores`
fail (section 4).

* `MicroInvariant`: `Inv` is inductive. The indices of a micro queue are replaced
  by *places* (the k-th index that goes to it, a natural number that does not
  wrap), and each ring by where it was created, where its window begins and its
  size (`Res`, `Beg`, `Spans`). `Inv` says of the chain (`QueueOK`) that a window
  starts where the words say and only slides by halves over places that were read
  (`RingOK`, `PlacesOK`), that each ring starts where the window before it ends and
  is twice as large (`ChainOK`), where `m_pWrite`, `m_pRead`, the two counters and
  the slots may lag (`PointersOK`), which place a cell belongs to and that its sign
  byte is the half-lap of that place, written or read (`CellsOK`), and what the pop
  that moved `m_pRead` on left behind (`TurnedOK`). Of every thread it says what
  the thread knows at each label (`PushFits`, `PopFits`), with the values it loaded
  earlier as lower bounds of what is there now, and of two threads that no two
  pushes and no two pops hold one place (`UniqueOK`). None of the
  properties below is inductive by itself: that a pop finds its own payload needs
  that no push of the next lap is in the cell, which needs that the window only
  slid over places that were read, which needs what the push that slid it saw in
  the sign bytes, one at a time, while others were writing them. TLC checked
  `Inv` on three instances before it was proved.
* `MicroDeliversInOrder`: `DeliveredInOrder`, the FIFO order of the micro queues.
* `MicroSlidOverRead`: `SlidOverRead`. `MicroOneCloser`: `OneCloser`, one thread at
  a time is in charge of closing and replacing a ring, although only an equality
  of distances puts it there. `MicroChained` and `MicroGrowerStores`: `Chained`
  and `GrowerStores`.
* `MicroSlotsSound`: `SlotsSound`, under the further hypothesis `SlotsSuffice`:
  the run draws no more indices than a chain that fills all `CirclePointNumber`
  slots has places. The code has no test for that. With the source's 25 slots, a
  first ring of 32 cells and rings that double, the four micro queues have places
  for 2^32 - 128 indices, six times what `Roomy` admits anyway; the guard the model
  puts there never blocks.
* `MicroFreshCloseSafe`: `FreshCloseSafe`. That nothing is left behind when
  `m_pRead` moves on is more than `Inv` says and false in general (section 4). The
  second invariant `Settled`, that every place before the ring `m_pRead` points to
  is read and every place before any ring is pushed, is proved for as long as
  every ring was closed in its first lap.
* `MicroLoneProducerSafe`, of `TeamSpec`: with one producer at work
  (`LoneProducerSafe`) a pool is freed only drained, nobody uses a freed pool and
  nobody is left behind by a pointer, also in rings that slid. `TeamOK` says that
  pushers outside the team rest; `LoneOK` that every micro queue is `Settled`, that
  a closed ring has been pushed to its last place, and that the pop which turns
  the chain is the one with the place right after the window.

`CCLockfreeQueueProofs`, for any threads, any number of micro queues and any
ring size, under `IndicesFit` (all indices stay below half of the word size, where the
subtraction of `uint32_t_after` cannot overflow; this excludes the wrap of the index,
which run `queue_refines` starts just before and the proofs do not cover):

* `PopsNeverOvertake`: `PreReadAccounts`, `CommitBound` and `NeverOvertake` are
  invariants. `NeverOvertake` alone is not inductive: pops that have announced
  and not yet tested may all pass once pushes catch up. `CommitBound`
  strengthens it to *every* future value `w` of the write index: pops that have
  drawn, have passed the test, or would pass it at `w`, number at most `w`. It is
  preserved by an undo, after which announcement numbers repeat, because
  `PreReadAccounts` keeps the next announcement number at or above everything
  already promised.
* `QueueRefinesMicroQueue`: `QueueSpec => ImplementsMicroQueue`. Each step is a
  step of `MicroQueue` or leaves its variables unchanged; the only step that
  needs an invariant is `PopIndex`, whose guard `m_nReadIndex <
  m_nPreWriteIndex` in `MicroQueue` is `NeverOvertake` with the pop itself
  committed.

* `SizeNeverWraps`: `GetSize` loads the read index first; `SizeSane` needs only
  that indices grow and `NeverOvertake` at the moment of the first load.
* `LoneEmptyIsHonest`, of `EmptySpec` with at most one popping thread and finitely
  many pushing ones: a failed test means that announcements, all of them the
  thread's own, have caught up with the pushes, so the queue was empty then. With
  two popping threads this is false (finding 3), so the hypothesis is needed.
* `QueueDeliversInOrder`, under `IndicesFit` and `Roomy`: the queue its users see,
  `QueueSpec`, has `DeliveredInOrder`, `SlidOverRead` and `OneCloser`. It composes
  the refinement with the theorems about `MicroQueue`: the pop that draws an index
  from the racing counters of `Push` and `Pop` returns the payload of the push
  that drew it, for any number of poppers.

`CCContainTemplateProofs`, for any numbers of threads, messages, repetitions,
pushes and sizes that `main` could be given (`RoundsAssumption`,
`SizesAssumption`):

* `BenchRoundsSucceed`: `Spec => []RoundsSucceed`, and `BenchReceivesInBounds`:
  `Spec => []ReceiveInBounds`. The inductive invariant `BenchInv` places every
  message of a round: a message that was sent and not yet received is in the queue
  or in the hands of exactly one popping thread, and no other message is
  (`NodeSound`, `OnePlace`). This is why the unsynchronised `m_nReceived++` loses
  nothing, why a fixed queue of at least `TIMES_FAST` cells refuses no push
  (`RoomForOne` counts the messages), and why the queue is empty when a new manager
  with other bounds takes over. In the timed test, where only bounds are promised,
  `BenchInv` says no more than that messages belong to the manager (`Bounds`).

`BlockPoolProofs`, for any finite sets of threads and blocks, any pool sizes and
any number of slots, with a bit above any count the threads can reach
(`BitAssumption`, `PoolAssumption`):

* The inductive invariant is `PoolInv`. Its core says what a block can be
  (`BlockSound`): fresh, owned, listed, being linked before or after its count was
  stored (early, late), or waiting for the last reference to be dropped, each with
  who owns it, links it, takes it or refers to it and with its exact count. Each
  step takes one block from one of these to another and leaves the rest
  (`TouchStep`), or touches none (`NothingTouched`). To that it adds that the list
  is a chain without repetition from the head to a null pointer (`Chained`), that a
  thread's `next` is still what `freeListNext` of its block holds (`LocalSound`),
  and for the table (`TableInv`) that the holder of the lock is alone, which slots
  are filled at each of its steps, and that an unfilled slot has given out nothing.
* `RefsExact`: `RefsAccount`. Neither this nor `NoBlockLost` is inductive alone:
  why the exchange of `try_get` cannot install a stale `freeListNext` needs that
  `add_knowing_refcount_is_zero` stores it only of a block with no reference
  (early), and that a count loaded as neither 0 nor the bare bit excludes such a
  block.
* `NothingLost`: `NoBlockLost`. A dropped reference that leaves the bare bit finds
  the block waiting; the other states have a count below the bit because the
  threads are fewer than it.
* `PoolImplemented`: `Spec => ImplementsFreeBlocks`. The exchange of `try_get` and
  a draw from a pool are `Take`, `add` is `Give`. That the head has no owner is
  the absence of the ABA problem.
* `SlotsFilledOnce`: `GrownOnce`, because the slot the lock's holder fills is not
  filled and its pool has given out nothing.

`ProducersProofs`, for any finite set of consumers (`ConsumersAssumption`), any
block size above 1 and any bulk size:

* `ClaimsAreBacked`: `Spec => []ClaimsBacked`. That granted claims fit below
  `tailIndex` is not inductive: a consumer at its second load of `tailIndex` will be
  granted what it finds there *then*. `GrantBound` therefore quantifies over every
  value `w` that `tailIndex` may still have: `headIndex` plus what consumers have
  been granted or would be granted at `w` is at most `w`. Raising
  `dequeueOptimisticCount` preserves it because the value raised is exactly what was
  taken, given back or is in flight (`Counters`) and `dequeueOvercommit` only grows
  after a consumer has loaded it (`LocSound`); a consumer thus never credits itself
  with an overcommitment that has not been given back.
* `SubQueueImplemented`: `Spec => ImplementsSubQueue`. `Publish` is `Put`,
  `DequeueHead` is `Claim`, every other step of either kind of producer, its
  consumers and its destructor is invisible.

`BlockingQueueProofs`, for any finite sets of threads, any
bulk size and any size of the first hash table:

* `QueueTyped`: what each label of a call implies for its locals. The other
  theorems of the module rest on this invariant, `QueueInv`.
* `NoWakeupLost`: `WakeupsOwed`, an equality between `m_count`, the units posted to
  the system's semaphore, the posts under way and the waiters; timeouts that meet
  a signal are the case that a weaker inequality would not carry.
* `EveryUnitBacked`: `UnitsBacked`. The sum of units in the semaphore and in the
  hands of consumers is the sum of elements in all producers' queues less those
  not yet signalled; each action moves one term of both sums.
* `SemaphoreImplemented`: the lightweight semaphore implements `Semaphore`.
* `OneEnqueuerEach`: `OneProducerPerThread`. The inductive invariant `OwnInv` adds
  the producers a thread's id leads to in the hash tables to those it holds, says
  that a producer in use is not marked inactive, and that threads which are
  registering are in no table.
* `SlotsStayFree`: `TablesHaveRoom`. A thread is counted, told the count,
  admitted to a table and inserted in four steps, while others replace the table,
  so that the number of keys alone is not inductive. `RoomInv` says that the count
  is exactly the number of threads counted, and (`Bounded`) that for every `m` at
  or above a table's threshold fewer than `m` threads have a slot of it, the right
  to one, or were told a count below `m` and may still get it.

`Counting` has the lemmas these rest on: how the number of threads at a label
changes when one thread moves, how a sum over threads changes when one term does,
that a smaller function has a smaller sum. The prover cannot use induction
principles that take an operator; `SetInduction` states induction over the
naturals for a set in its place (a set that has 0 and every successor contains
all of them), which it can, and `Iteration` that a map can be iterated. Its last
lemmas are about the quotients and rests by which an index is taken apart into its
micro queue, its place there and its cell.

Only model-checked: all liveness properties (the prover does not handle
fairness and ENABLED), and of the producers what concerns blocks and block
indices (`ReadsOwn`, `AssertionsHold`, `BlocksAccounted`, `DestroysWhatIsLeft`).

## 6. Not modelled

* The compare-and-swap `Pop` and `PopIndex` (lines 293-319): compiled out by
  line 5.
* The destructors of `CCLockfreeQueue`, `ConcurrentQueue` and
  `CLockFreeMessageQueue`, which run when no thread is left (those of the
  producers are modelled).
* Of `ConcurrentQueue`: move and swap, `try_dequeue_non_interleaved`, the calls on
  one named producer, `size_approx` of the whole queue, thread exit (compiled out),
  debug and memory statistics. Of the blocking queue: move and swap, `size_approx`,
  the Windows and Mach semaphores, whose code this build does not compile.
* `PushFunc` and `PopFunc` of the harness, pointer variants that nothing calls,
  and the run over `CLockFreeMessageQueue`, commented out in `main.cpp`.
* Weak memory, allocation failure where the code does not test for it, sizes that
  do not fit the `int` of `lockfreemessagequeue.h` 38, back-off delays, timers and
  printing.
* Liveness of the blocking queue: a waiter that is owed a wake-up gets it when the
  signaller goes on and the system's semaphore is fair; `WakeupsOwed` and
  `UnitsBacked` are the safety part, which is the code's own.

## 7. Plan

Modelled and checked: all components of the inventory but the definitions and
timers, with the abstract specifications `FreeBlocks`, `SubQueue`, `Semaphore` and
the index promise of `MicroQueue`. What is left, in order of importance:

1. the blocks of a producer: a proof that an element's block is neither reused nor
   returned before it was read, for either kind of block index (TLC checks it);
2. the compare-and-swap index layer as a second implementation of `MicroQueue`'s
   promise, should the build ever use it.
