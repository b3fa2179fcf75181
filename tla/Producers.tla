----------------------------- MODULE Producers -----------------------------
(***************************************************************************)
(* The queue of one producer, of either kind (ProducerBase::dequeue and    *)
(* dequeue_bulk choose by isExplicit), with its enqueuing thread and its   *)
(* consumers, and what has to hold of it.                                  *)
(***************************************************************************)
EXTENDS ExplicitProducer, ImplicitProducer, Units, TLC

vars == <<isExplicit, tailIndex, headIndex, dequeueOptimisticCount, dequeueOvercommit, tailBlock,
          blk, free, prod, loc, headers, pr_blockIndexSlotsUsed, pr_blockIndexSize,
          pr_blockIndexFront, undone, indices, entries>>

Init == BaseInit /\ ExplicitInit /\ ImplicitInit /\ (~isExplicit => headers # <<>>)

(* enqueue and enqueue_bulk. *)
EnqueueStep ==
  \/ isExplicit /\ ExplicitEnqueueStep /\ UNCHANGED blockIndexVars
  \/ ~isExplicit /\ ImplicitEnqueueStep /\ UNCHANGED indexVars
  \/ Publish /\ UNCHANGED <<indexVars, blockIndexVars>>

(* dequeue and dequeue_bulk. *)
DequeueStep(c) ==
  \/ ClaimStep(c) /\ UNCHANGED <<indexVars, blockIndexVars>>
  \/ isExplicit /\ ExplicitDequeueStep(c) /\ UNCHANGED blockIndexVars
  \/ ~isExplicit /\ ImplicitDequeueStep(c) /\ UNCHANGED indexVars

(* The destructor, when every call has returned: it destroys the elements  *)
(* left and gives up the blocks. *)
Destroyed == IF isExplicit THEN ExplicitDestroyed ELSE ImplicitDestroyed
Returned == IF isExplicit THEN InRing ELSE ImplicitReturned
Quiet == prod.pc = "idle" /\ \A c \in Consumers : loc[c].pc = "idle"

Destroy ==
  /\ Quiet
  /\ prod' = [NoProd EXCEPT !.pc = "gone"]
  /\ blk' = [b \in Blocks |-> [blk[b] EXCEPT !.el = [o \in Offsets |->
                IF <<b, o>> \in Destroyed THEN Hole ELSE @[o]]]]
  /\ free' = free \cup Returned
  /\ tailBlock' = nullptr
  /\ UNCHANGED <<isExplicit, tailIndex, headIndex, countVars, loc, indexVars, blockIndexVars>>

Next == EnqueueStep \/ (\E c \in Consumers : DequeueStep(c)) \/ Destroy

Spec == Init /\ [][Next]_vars

---------------------------------------------------------------------------

(* An explicit queue counts the blocks of an undone bulk call no longer.   *)
(* Its index goes wrong when the ring has outgrown it or an undone         *)
(* pr_blockIndexFront is not where it was; its destructor relies on the    *)
(* count itself. *)
Sound == ~(isExplicit /\ {"outgrown", "front"} \cap undone # {})
Counted == ~(isExplicit /\ "bulk" \in undone)

At(c, labels) == loc[c].pc \in labels

(* A consumer that is about to read finds its own elements, which nobody   *)
(* has read before, whatever was enqueued, reused, freed or replaced in    *)
(* the block index since it claimed them: the lookup determines the block  *)
(* the elements are in (lines 1956-1967, 2877-2893). *)
OwnElements ==
  \A c \in Consumers : At(c, {"read"}) =>
    /\ loc[c].block # nullptr
    /\ \A k \in loc[c].index .. EndIndex(c) - 1 : blk[loc[c].block].el[k % BLOCK_SIZE] = k

(* The same unless the index of an explicit queue went wrong: blocks that  *)
(* an undone bulk call left in the ring do no harm before that, however    *)
(* often they are used again. *)
ReadsOwn == Sound => OwnElements

(* The counters: what consumers have raised dequeueOptimisticCount by is   *)
(* claimed, given back or still in flight; and what they are about to      *)
(* claim is there ("guaranteed to be at least one element"). *)
InFlight(c) ==
  IF At(c, {"check", "head"}) THEN loc[c].count
  ELSE IF At(c, {"undo"}) THEN loc[c].count + loc[c].over ELSE 0

Granted(c) == IF At(c, {"undo", "head"}) THEN loc[c].count ELSE 0

ClaimsBacked ==
  /\ dequeueOptimisticCount = headIndex + dequeueOvercommit + Total([c \in Consumers |-> InFlight(c)])
  /\ headIndex + Total([c \in Consumers |-> Granted(c)]) <= tailIndex

(* The assertions of the code that speak of more than one thread: the      *)
(* producer finds no headIndex past tailIndex (lines 1827, 2041, 2437,     *)
(* 2598); flags are set and elements counted once (1537-1567); the index   *)
(* of an implicit queue is not empty at its tail and the entry found has   *)
(* the key of the block (2886, 2891); dequeueOvercommit never passes the   *)
(* claim made after it was loaded (1936, 2200, 2503, 2726); and the        *)
(* destructor finds the block headIndex is inside of (1752).  The others   *)
(* (2110, 2175, 2632, 2645, 2706, 2858, 2919) are about the locals of one  *)
(* call and hold by the text around them. *)
AssertionsHold ==
  /\ prod.pc \in {"head", "bulkHead"} => headIndex <= tailIndex
  /\ Sound => \A c \in Consumers :
       /\ At(c, {"empty"}) =>
            IF isExplicit THEN Slots(loc[c].index, EndIndex(c)) \cap blk[loc[c].block].emptyFlags = {}
            ELSE blk[loc[c].block].elementsCompletelyDequeued + EndIndex(c) - loc[c].index <= BLOCK_SIZE
       /\ At(c, {"entry"}) /\ ~isExplicit => entries[Mine(c)].key # INVALID_BLOCK_BASE
       /\ At(c, {"read"}) /\ ~isExplicit => entries[Mine(c)].key = Base(loc[c].index)
       /\ At(c, {"check"}) => loc[c].over <= loc[c].my
  /\ Counted /\ Quiet /\ isExplicit /\ headIndex % BLOCK_SIZE # 0 => HalfEntry.base < headIndex

(* Blocks are neither lost nor shared: a block in the pool holds no        *)
(* element and nobody uses it; a block outside is in the ring, in the      *)
(* index, or in the hands of the consumer that emptied it. *)
InIndex == {entries[i].value : i \in DOMAIN entries}

BlocksAccounted ==
  prod.pc # "gone" =>
    /\ \A b \in free :
         /\ \A o \in Offsets : blk[b].el[o] = Hole
         /\ \A c \in Consumers : At(c, {"read", "empty"}) => loc[c].block # b
    /\ isExplicit => Blocks \ free = InRing
    /\ ~isExplicit => \A b \in Blocks \ free :
         b \in InIndex \/ \E c \in Consumers : At(c, {"free"}) /\ loc[c].block = b

(* The destructor, run when every call has returned, leaves no block       *)
(* behind, whatever was undone; it destroys all elements left (lines 1739, *)
(* 2388) if the blocks are counted, and nothing else unless a constructor  *)
(* has thrown in a block that was left begun. *)
ElementsLeft == {l \in Blocks \X Offsets : blk[l[1]].el[l[2]] # Hole}

DestroysWhatIsLeft ==
  Quiet =>
    /\ Returned = Blocks \ free
    /\ Counted => ElementsLeft \subseteq Destroyed
    /\ Counted /\ ~(isExplicit /\ "throw" \in undone) => Destroyed \subseteq ElementsLeft

(* The queue implements the abstract one. *)
Sub == INSTANCE SubQueue WITH in <- tailIndex, out <- headIndex
ImplementsSubQueue == Sub!SubSpec

Symmetry == Permutations(Consumers) \cup Permutations(Blocks)

=============================================================================
