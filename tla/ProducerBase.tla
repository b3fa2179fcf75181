---------------------------- MODULE ProducerBase ----------------------------
(***************************************************************************)
(* struct ProducerBase of concurrentqueue.h: the queue of one producer,    *)
(* explicit (with a token) or implicit (found by thread id).  One thread   *)
(* enqueues at tailIndex into blocks of BLOCK_SIZE elements; any number of *)
(* threads dequeue.  This module has the state both kinds share, the       *)
(* blocks, and the part of dequeue and dequeue_bulk that is the same text  *)
(* in both: the claim of elements by dequeueOptimisticCount and            *)
(* dequeueOvercommit, and the loop over the claimed blocks.  dequeue is    *)
(* dequeue_bulk with max = 1.                                              *)
(*                                                                         *)
(* One action per access to memory that another thread may change or see;  *)
(* sequentially consistent.  An element is the index it is enqueued at.    *)
(* index_t does not wrap within the bounds, so that circular_less_than is  *)
(* the order of the integers.                                              *)
(***************************************************************************)
EXTENDS Integers, Sequences, FiniteSets

CONSTANTS
  Consumers,
  Blocks,
  nullptr,
  BLOCK_SIZE,
  MAX_SUBQUEUE_SIZE,
  MaxBulk,        \* bound: elements per bulk call
  MaxElements,    \* bound: elements enqueued
  MaxOvercommit,  \* bound: dequeueOvercommit when a dequeue begins
  MayThrow        \* can the constructor of an element throw?

ASSUME BlockAssumption ==
  /\ BLOCK_SIZE \in Nat /\ BLOCK_SIZE > 1
  /\ MaxBulk \in Nat /\ MaxBulk > 0
  /\ nullptr \notin Blocks

ASSUME ConsumersAssumption == IsFiniteSet(Consumers)

VARIABLES
  isExplicit,
  tailIndex, headIndex,
  dequeueOptimisticCount, dequeueOvercommit,
  tailBlock,
  blk,            \* the blocks
  free,           \* blocks in the pool (FreeBlocks)
  prod,           \* the enqueuing thread: pc and locals
  loc             \* per consumer: pc and locals

countVars == <<dequeueOptimisticCount, dequeueOvercommit>>

Hole == -1        \* memory that holds no element
Offsets == 0 .. BLOCK_SIZE - 1

(* Indices of a block, the block of an index, the slots of a range. *)
Base(i) == i - (i % BLOCK_SIZE)
Slots(i, j) == {k % BLOCK_SIZE : k \in i .. j - 1}

(* The constructor of a block; emptyFlags (explicit queues, whose          *)
(* BLOCK_SIZE is within the threshold) and elementsCompletelyDequeued      *)
(* (implicit queues) say which elements are gone. *)
NewBlock == [next |-> nullptr, el |-> [o \in Offsets |-> Hole], emptyFlags |-> {},
             elementsCompletelyDequeued |-> 0]

is_empty(b) ==
  IF isExplicit THEN blk[b].emptyFlags = Offsets
  ELSE blk[b].elementsCompletelyDequeued = BLOCK_SIZE

(* The block record after set_many_empty, set_all_empty and reset_empty. *)
set_many_empty(r, i, j) ==
  IF isExplicit THEN [r EXCEPT !.emptyFlags = @ \cup Slots(i, j)]
  ELSE [r EXCEPT !.elementsCompletelyDequeued = @ + (j - i)]

set_all_empty(r) == [r EXCEPT !.emptyFlags = Offsets]

(* Mutant: a block keeps its flags. *)
reset_empty_not(r) == r

reset_empty(r) == [r EXCEPT !.emptyFlags = IF isExplicit THEN {} ELSE @,
                            !.elementsCompletelyDequeued = IF isExplicit THEN @ ELSE 0]

NoProd == [pc |-> "idle", count |-> 0, bulk |-> FALSE, need |-> 0, base |-> 0,
           start |-> nullptr, first |-> nullptr, front |-> 0, slots |-> 0]
NoLoc == [pc |-> "idle", max |-> 0, tail |-> 0, over |-> 0, my |-> 0, count |-> 0,
          index |-> 0, header |-> 0, pos |-> 0, block |-> nullptr]

BaseInit ==
  /\ isExplicit \in BOOLEAN
  /\ tailIndex = 0 /\ headIndex = 0
  /\ dequeueOptimisticCount = 0 /\ dequeueOvercommit = 0
  /\ tailBlock = nullptr
  /\ blk = [b \in Blocks |-> NewBlock]
  /\ free = Blocks
  /\ prod = NoProd
  /\ loc = [c \in Consumers |-> NoLoc]

---------------------------------------------------------------------------

(* The test before a new block is begun at index base, after headIndex was *)
(* loaded: would the block exceed MAX_SUBQUEUE_SIZE? *)
Full(base) == MAX_SUBQUEUE_SIZE - BLOCK_SIZE < base - headIndex

(* Blocks a call enqueuing n elements at index i has to begin. *)
BlocksNeeded(i, n) == Cardinality({k \in i .. i + n - 1 : k % BLOCK_SIZE = 0})

(* The block n steps after b. *)
Ahead(b, n) ==
  LET walk[k \in 0 .. n] == IF k = 0 THEN b ELSE blk[walk[k - 1]].next
  IN walk[n]

(* The elements DOMAIN at, constructed in blocks; at[k] is k's block. *)
Constructed(at) ==
  [b \in Blocks |->
    [blk[b] EXCEPT !.el = [o \in Offsets |->
      IF \E k \in DOMAIN at : k % BLOCK_SIZE = o /\ at[k] = b
      THEN CHOOSE k \in DOMAIN at : k % BLOCK_SIZE = o /\ at[k] = b
      ELSE @[o]]]]

(* The last step of an enqueue: the store of tailIndex. *)
Publish ==
  /\ prod.pc = "publish"
  /\ tailIndex' = tailIndex + prod.count
  /\ prod' = NoProd
  /\ UNCHANGED <<isExplicit, headIndex, countVars, tailBlock, blk, free, loc>>

---------------------------------------------------------------------------

Step(c, r) == loc' = [loc EXCEPT ![c] = r]
Shared == <<isExplicit, tailIndex, headIndex, countVars, tailBlock, blk, free, prod>>

(* dequeue (max = 1) and dequeue_bulk: load tailIndex, ... *)
DequeueTail(c) ==
  /\ loc[c].pc = "idle"
  /\ prod.pc # "gone"
  /\ dequeueOvercommit < MaxOvercommit
  /\ \E max \in {1, MaxBulk} :
       Step(c, [NoLoc EXCEPT !.pc = "over", !.max = max, !.tail = tailIndex])
  /\ UNCHANGED Shared

(* ... dequeueOvercommit, ... *)
DequeueOvercommit(c) ==
  /\ loc[c].pc = "over"
  /\ Step(c, [loc[c] EXCEPT !.pc = "count", !.over = dequeueOvercommit])
  /\ UNCHANGED Shared

(* ... and dequeueOptimisticCount: with nothing in sight, return. *)
DequeueCount(c) ==
  /\ loc[c].pc = "count"
  /\ LET desired == loc[c].tail - (dequeueOptimisticCount - loc[c].over)
     IN Step(c, IF desired <= 0 THEN NoLoc
                ELSE [loc[c] EXCEPT !.pc = "claim", !.tail = 0, !.max = 0,
                                    !.count = IF desired < loc[c].max THEN desired ELSE loc[c].max])
  /\ UNCHANGED Shared

(* Raise dequeueOptimisticCount by the number of elements wanted. *)
DequeueClaim(c) ==
  /\ loc[c].pc = "claim"
  /\ dequeueOptimisticCount' = dequeueOptimisticCount + loc[c].count
  /\ Step(c, [loc[c] EXCEPT !.pc = "check", !.my = dequeueOptimisticCount])
  /\ UNCHANGED <<isExplicit, tailIndex, headIndex, dequeueOvercommit, tailBlock, blk, free, prod>>

(* Mutant: all that was wanted is taken. *)
DequeueCheckAll(c) ==
  /\ loc[c].pc = "check"
  /\ LET actual == tailIndex - (loc[c].my - loc[c].over)
         take == IF actual <= 0 THEN 0 ELSE loc[c].count
     IN Step(c, [loc[c] EXCEPT !.pc = IF take = loc[c].count THEN "head" ELSE "undo",
                               !.my = 0, !.over = loc[c].count - take, !.count = take])
  /\ UNCHANGED Shared

(* Load tailIndex again: how many of them are there?  The rest is an       *)
(* overcommitment. *)
DequeueCheck(c) ==
  /\ loc[c].pc = "check"
  /\ LET actual == tailIndex - (loc[c].my - loc[c].over)
         take == IF actual <= 0 THEN 0 ELSE IF loc[c].count < actual THEN loc[c].count ELSE actual
     IN Step(c, [loc[c] EXCEPT !.pc = IF take = loc[c].count THEN "head" ELSE "undo",
                               !.my = 0, !.over = loc[c].count - take, !.count = take])
  /\ UNCHANGED Shared

(* Mutant: nothing is given back. *)
DequeueUndoNot(c) ==
  /\ loc[c].pc = "undo"
  /\ Step(c, IF loc[c].count = 0 THEN NoLoc ELSE [loc[c] EXCEPT !.pc = "head", !.over = 0])
  /\ UNCHANGED Shared

(* Give back the overcommitment. *)
DequeueUndo(c) ==
  /\ loc[c].pc = "undo"
  /\ dequeueOvercommit' = dequeueOvercommit + loc[c].over
  /\ Step(c, IF loc[c].count = 0 THEN NoLoc ELSE [loc[c] EXCEPT !.pc = "head", !.over = 0])
  /\ UNCHANGED <<isExplicit, tailIndex, headIndex, dequeueOptimisticCount, tailBlock, blk, free, prod>>

(* Raise headIndex: the elements index .. index + count - 1 are ours. *)
DequeueHead(c) ==
  /\ loc[c].pc = "head"
  /\ headIndex' = headIndex + loc[c].count
  /\ Step(c, [loc[c] EXCEPT !.pc = "header", !.index = headIndex, !.over = 0])
  /\ UNCHANGED <<isExplicit, tailIndex, countVars, tailBlock, blk, free, prod>>

(* End of the claimed elements within the current block. *)
EndIndex(c) ==
  LET end == Base(loc[c].index) + BLOCK_SIZE
      all == loc[c].index + loc[c].count
  IN IF all < end THEN all ELSE end

(* Move the claimed elements of the current block out and destroy them,    *)
(* also when an assignment throws. *)
DequeueRead(c) ==
  /\ loc[c].pc = "read"
  /\ LET gone == Slots(loc[c].index, EndIndex(c))
     IN blk' = [blk EXCEPT ![loc[c].block].el = [o \in Offsets |-> IF o \in gone THEN Hole ELSE @[o]]]
  /\ Step(c, [loc[c] EXCEPT !.pc = "empty"])
  /\ UNCHANGED <<isExplicit, tailIndex, headIndex, countVars, tailBlock, free, prod>>

(* Done with a block: on to the next one, or return. *)
NextBlock(c, size) ==
  LET n == EndIndex(c) - loc[c].index
  IN IF n = loc[c].count THEN NoLoc
     ELSE [loc[c] EXCEPT !.pc = "block", !.index = @ + n, !.count = @ - n,
                         !.pos = (@ + 1) % size, !.block = nullptr]

ClaimStep(c) ==
  \/ DequeueTail(c) \/ DequeueOvercommit(c) \/ DequeueCount(c) \/ DequeueClaim(c)
  \/ DequeueCheck(c) \/ DequeueUndo(c) \/ DequeueHead(c) \/ DequeueRead(c)

=============================================================================
