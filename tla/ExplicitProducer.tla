-------------------------- MODULE ExplicitProducer --------------------------
(***************************************************************************)
(* struct ExplicitProducer of concurrentqueue.h.  Its blocks form a ring   *)
(* that only grows; a block whose flags are all set is used again.  The    *)
(* block index is a circular array of (base, block) pairs; consumers find  *)
(* their block by its distance from the entry at front.  A full index is   *)
(* replaced by one of twice the size, the old one stays readable.          *)
(***************************************************************************)
EXTENDS ProducerBase

CONSTANT EXPLICIT_INITIAL_INDEX_SIZE

VARIABLES
  headers,                  \* block indices; blockIndex points to the last one
  pr_blockIndexSlotsUsed, pr_blockIndexSize, pr_blockIndexFront,
  undone                    \* history: what bulk calls that failed ("bulk") and constructors that
                            \* threw ("throw") left behind, and what became of it

prVars == <<pr_blockIndexSlotsUsed, pr_blockIndexSize, pr_blockIndexFront>>
indexVars == <<headers, pr_blockIndexSlotsUsed, pr_blockIndexSize, pr_blockIndexFront, undone>>

Entry(base, b) == [base |-> base, block |-> b]
Latest == headers[Len(headers)]

(* new_block_index: a header of twice the size with the used entries in    *)
(* its first slots.  It may fail for want of memory. *)
NewHeader(expose) ==
  LET used == pr_blockIndexSlotsUsed
      old(j) == Latest.entries[(pr_blockIndexFront - used + j) % pr_blockIndexSize]
  IN [size |-> 2 * pr_blockIndexSize, front |-> expose - 1,
      entries |-> [j \in 0 .. 2 * pr_blockIndexSize - 1 |->
                     IF j < used THEN old(j) ELSE Entry(Hole, nullptr)]]

new_block_index(expose) ==
  /\ headers' = Append(headers, NewHeader(expose))
  /\ pr_blockIndexSize' = 2 * pr_blockIndexSize
  /\ pr_blockIndexFront' = pr_blockIndexSlotsUsed

(* The constructor, whose own index allocation may fail too. *)
ExplicitInit ==
  /\ pr_blockIndexSlotsUsed = 0
  /\ pr_blockIndexFront = 0
  /\ undone = {}
  /\ \/ /\ pr_blockIndexSize = EXPLICIT_INITIAL_INDEX_SIZE
        /\ headers = <<[size |-> EXPLICIT_INITIAL_INDEX_SIZE, front |-> -1,
                        entries |-> [j \in 0 .. EXPLICIT_INITIAL_INDEX_SIZE - 1 |-> Entry(Hole, nullptr)]]>>
     \/ /\ pr_blockIndexSize = EXPLICIT_INITIAL_INDEX_SIZE \div 2
        /\ headers = <<>>

IndexFull == headers = <<>> \/ pr_blockIndexSlotsUsed = pr_blockIndexSize

---------------------------------------------------------------------------

Goto(l) == prod' = [prod EXCEPT !.pc = l]
Fail == prod' = NoProd
EnqueueVars == <<isExplicit, tailIndex, headIndex, countVars, free, loc>>

(* Can the block ahead be used again? *)
Reusable == tailBlock # nullptr /\ is_empty(blk[tailBlock].next)

(* The ring with block b inserted after tailBlock, prepared by prepare. *)
Inserted(b, prepared) ==
  IF tailBlock = nullptr THEN [blk EXCEPT ![b] = [prepared EXCEPT !.next = b]]
  ELSE [blk EXCEPT ![b] = [prepared EXCEPT !.next = blk[tailBlock].next], ![tailBlock].next = b]

(* enqueue: inside a block, construct the element; at a boundary reuse the *)
(* block ahead or ask for another one. *)
ExplicitEnqueue ==
  /\ prod.pc = "idle"
  /\ tailIndex < MaxElements
  /\ IF tailIndex % BLOCK_SIZE # 0
     THEN /\ prod' = [NoProd EXCEPT !.pc = "construct", !.count = 1, !.first = tailBlock]
          /\ UNCHANGED <<tailBlock, blk>>
     ELSE IF Reusable
     THEN /\ tailBlock' = blk[tailBlock].next
          /\ blk' = [blk EXCEPT ![blk[tailBlock].next] = reset_empty(@)]
          /\ prod' = [NoProd EXCEPT !.pc = "begun", !.count = 1, !.start = tailBlock,
                                    !.slots = pr_blockIndexSlotsUsed]
     ELSE /\ prod' = [NoProd EXCEPT !.pc = "head", !.count = 1, !.start = tailBlock,
                                    !.slots = pr_blockIndexSlotsUsed]
          /\ UNCHANGED <<tailBlock, blk>>
  /\ UNCHANGED <<EnqueueVars, indexVars>>

(* Load headIndex and test the limits. *)
ExplicitHead ==
  /\ prod.pc = "head"
  /\ IF Full(tailIndex) THEN Fail
     ELSE Goto(IF IndexFull THEN "index" ELSE "block")
  /\ UNCHANGED <<EnqueueVars, tailBlock, blk, indexVars>>

(* Replace the full index; CannotAlloc, or no memory: return false. *)
ExplicitIndex ==
  /\ prod.pc = "index"
  /\ \/ new_block_index(pr_blockIndexSlotsUsed) /\ Goto("block")
     \/ Fail /\ UNCHANGED <<headers, pr_blockIndexSize, pr_blockIndexFront>>
  /\ UNCHANGED <<EnqueueVars, tailBlock, blk, pr_blockIndexSlotsUsed, undone>>

(* The blocks of the ring. *)
InRing ==
  IF tailBlock = nullptr THEN {} ELSE {Ahead(tailBlock, n) : n \in 1 .. Cardinality(Blocks)}

(* History: the ring grows past the index ("outgrown"), which does not     *)
(* count the blocks of an undone bulk call. *)
Outgrown ==
  undone' = IF "bulk" \in undone /\ Cardinality(InRing) >= pr_blockIndexSize
            THEN undone \cup {"outgrown"} ELSE undone

(* Insert a block of the pool into the ring; no block: return false. *)
ExplicitBlock ==
  /\ prod.pc = "block"
  /\ \/ \E b \in free :
          /\ free' = free \ {b}
          /\ blk' = Inserted(b, reset_empty(blk[b]))
          /\ tailBlock' = b
          /\ pr_blockIndexSlotsUsed' = pr_blockIndexSlotsUsed + 1
          /\ Outgrown
          /\ Goto("begun")
     \/ /\ free = {}
        /\ Fail
        /\ UNCHANGED <<free, blk, tailBlock, pr_blockIndexSlotsUsed, undone>>
  /\ UNCHANGED <<isExplicit, tailIndex, headIndex, countVars, loc, headers,
                 pr_blockIndexSize, pr_blockIndexFront>>

(* The constructor throws: go back to the block before.  The new block     *)
(* stays in the ring, with its flags reset. *)
ExplicitThrow ==
  /\ MayThrow
  /\ prod.pc = "begun"
  /\ pr_blockIndexSlotsUsed' = prod.slots
  /\ tailBlock' = IF prod.start = nullptr THEN tailBlock ELSE prod.start
  /\ undone' = undone \cup {"throw"}
  /\ Fail
  /\ UNCHANGED <<EnqueueVars, blk, headers, pr_blockIndexSize, pr_blockIndexFront>>

(* Fill the next entry of the index. *)
ExplicitEntry ==
  /\ prod.pc = "begun"
  /\ headers' = [headers EXCEPT ![Len(headers)].entries[pr_blockIndexFront] = Entry(tailIndex, tailBlock)]
  /\ prod' = [prod EXCEPT !.pc = "front", !.first = tailBlock]
  /\ UNCHANGED <<EnqueueVars, tailBlock, blk, prVars, undone>>

(* Expose it. *)
ExplicitFront ==
  /\ prod.pc = "front"
  /\ headers' = [headers EXCEPT ![Len(headers)].front = pr_blockIndexFront]
  /\ pr_blockIndexFront' = (pr_blockIndexFront + 1) % pr_blockIndexSize
  /\ Goto("construct")
  /\ UNCHANGED <<EnqueueVars, tailBlock, blk, pr_blockIndexSlotsUsed, pr_blockIndexSize, undone>>

(* Construct the element, which nobody sees before tailIndex is stored. *)
ExplicitConstruct ==
  /\ prod.pc = "construct"
  /\ blk' = Constructed([k \in {tailIndex} |-> prod.first])
  /\ Goto("publish")
  /\ UNCHANGED <<EnqueueVars, tailBlock, indexVars>>

---------------------------------------------------------------------------

(* enqueue_bulk. *)
ExplicitBulk ==
  /\ prod.pc = "idle"
  /\ tailIndex + MaxBulk <= MaxElements
  /\ prod' = [NoProd EXCEPT !.pc = "ahead", !.bulk = TRUE, !.count = MaxBulk,
                            !.need = BlocksNeeded(tailIndex, MaxBulk),
                            !.base = Base(tailIndex + BLOCK_SIZE - 1),
                            !.start = tailBlock, !.front = pr_blockIndexFront,
                            !.slots = pr_blockIndexSlotsUsed]
  /\ UNCHANGED <<EnqueueVars, tailBlock, blk, indexVars>>

(* The entry at pr_blockIndexFront is b's; b is the first or a later block *)
(* of the call. *)
Enter(b, l) ==
  /\ headers' = [headers EXCEPT ![Len(headers)].entries[pr_blockIndexFront] = Entry(prod.base, b)]
  /\ pr_blockIndexFront' = (pr_blockIndexFront + 1) % pr_blockIndexSize
  /\ tailBlock' = b
  /\ prod' = [prod EXCEPT !.pc = l, !.need = @ - 1, !.base = @ + BLOCK_SIZE,
                          !.first = IF @ = nullptr THEN b ELSE @]

(* Use the blocks ahead that are empty. *)
BulkAhead ==
  /\ prod.pc = "ahead"
  /\ IF prod.need > 0 /\ Reusable /\ blk[tailBlock].next # prod.first
     THEN /\ Enter(blk[tailBlock].next, "ahead")
          /\ UNCHANGED <<pr_blockIndexSlotsUsed, pr_blockIndexSize>>
     ELSE /\ Goto(IF prod.need > 0 THEN "bulkHead" ELSE "bulkFill")
          /\ UNCHANGED <<tailBlock, headers, prVars>>
  /\ UNCHANGED <<EnqueueVars, blk, undone>>

(* Undo a bulk call, but keep the blocks it inserted.  History: it did, and *)
(* pr_blockIndexFront does not go back to the entry of its first block,    *)
(* because the index was replaced since ("front"). *)
Entered == BlocksNeeded(tailIndex, prod.count) - prod.need

BulkUndo(why) ==
  /\ pr_blockIndexFront' = prod.front
  /\ pr_blockIndexSlotsUsed' = prod.slots
  /\ tailBlock' = IF prod.start = nullptr THEN prod.first ELSE prod.start
  /\ undone' = IF prod.first = nullptr THEN undone
               ELSE undone \cup why \cup
                    IF prod.front = (pr_blockIndexFront - Entered) % pr_blockIndexSize
                    THEN {} ELSE {"front"}
  /\ Fail

(* Load headIndex for the next block. *)
BulkHead ==
  /\ prod.pc = "bulkHead"
  /\ IF Full(prod.base)
     THEN BulkUndo({"bulk"})
     ELSE /\ Goto(IF IndexFull THEN "bulkIndex" ELSE "bulkBlock")
          /\ UNCHANGED <<tailBlock, pr_blockIndexSlotsUsed, pr_blockIndexFront, undone>>
  /\ UNCHANGED <<EnqueueVars, blk, headers, pr_blockIndexSize>>

(* Replace the full index, or give up.  History: the call has begun with   *)
(* no block counted, so that the front exposed is -1 ("front"). *)
BulkIndex ==
  /\ prod.pc = "bulkIndex"
  /\ \/ /\ new_block_index(prod.slots)
        /\ prod' = [prod EXCEPT !.pc = "bulkBlock", !.front = prod.slots]
        /\ undone' = IF "bulk" \in undone /\ prod.slots = 0
                     THEN undone \cup {"front"} ELSE undone
        /\ UNCHANGED <<tailBlock, pr_blockIndexSlotsUsed>>
     \/ /\ BulkUndo({"bulk"})
        /\ UNCHANGED <<headers, pr_blockIndexSize>>
  /\ UNCHANGED <<EnqueueVars, blk>>

(* Insert a block of the pool, or give up. *)
BulkBlock ==
  /\ prod.pc = "bulkBlock"
  /\ \/ \E b \in free :
          /\ free' = free \ {b}
          /\ blk' = Inserted(b, set_all_empty(blk[b]))
          /\ Enter(b, IF prod.need > 1 THEN "bulkHead" ELSE "bulkFill")
          /\ pr_blockIndexSlotsUsed' = pr_blockIndexSlotsUsed + 1
          /\ Outgrown
          /\ UNCHANGED pr_blockIndexSize
     \/ /\ free = {}
        /\ BulkUndo({"bulk"})
        /\ UNCHANGED <<free, blk, headers, pr_blockIndexSize>>
  /\ UNCHANGED <<isExplicit, tailIndex, headIndex, countVars, loc>>

(* The blocks the call begins, and the block of each element. *)
BulkBlocks == {Ahead(prod.first, n) : n \in 0 .. BlocksNeeded(tailIndex, prod.count) - 1}
BulkAt ==
  [k \in tailIndex .. tailIndex + prod.count - 1 |->
    IF Base(k) < tailIndex THEN prod.start
    ELSE Ahead(prod.first, (Base(k) - Base(tailIndex + BLOCK_SIZE - 1)) \div BLOCK_SIZE)]

(* All blocks are there: reset their flags and construct the elements. *)
BulkFill ==
  /\ prod.pc = "bulkFill"
  /\ blk' = [b \in Blocks |-> LET r == Constructed(BulkAt)[b]
                              IN IF prod.first # nullptr /\ b \in BulkBlocks THEN reset_empty(r) ELSE r]
  /\ Goto(IF prod.first = nullptr THEN "publish" ELSE "bulkFront")
  /\ UNCHANGED <<EnqueueVars, tailBlock, indexVars>>

(* A constructor throws: destroy what was constructed and undo the call.   *)
(* The flags of the blocks stay reset. *)
BulkThrow ==
  /\ MayThrow
  /\ prod.pc = "bulkFill"
  /\ blk' = [b \in Blocks |-> IF prod.first # nullptr /\ b \in BulkBlocks THEN reset_empty(blk[b]) ELSE blk[b]]
  /\ BulkUndo({"bulk", "throw"})
  /\ UNCHANGED <<EnqueueVars, headers, pr_blockIndexSize>>

(* Expose the entries of the call. *)
BulkFront ==
  /\ prod.pc = "bulkFront"
  /\ headers' = [headers EXCEPT ![Len(headers)].front = (pr_blockIndexFront - 1) % pr_blockIndexSize]
  /\ Goto("publish")
  /\ UNCHANGED <<EnqueueVars, tailBlock, blk, prVars, undone>>

ExplicitEnqueueStep ==
  \/ ExplicitEnqueue \/ ExplicitHead \/ ExplicitIndex \/ ExplicitBlock \/ ExplicitThrow
  \/ ExplicitEntry \/ ExplicitFront \/ ExplicitConstruct
  \/ ExplicitBulk \/ BulkAhead \/ BulkHead \/ BulkIndex \/ BulkBlock
  \/ BulkFill \/ BulkThrow \/ BulkFront

---------------------------------------------------------------------------

(* The destructor: the entry of the block that headIndex is inside of,     *)
(* found by walking the index from its oldest entry; that block; ...       *)
HalfEntry ==
  LET at(n) == Latest.entries[(pr_blockIndexFront - pr_blockIndexSlotsUsed + n) % pr_blockIndexSize]
      past(n) == at(n).base + BLOCK_SIZE < headIndex
  IN at(CHOOSE n \in 0 .. pr_blockIndexSize : ~past(n) /\ \A m \in 0 .. n - 1 : past(m))

HalfDequeued == IF headIndex % BLOCK_SIZE = 0 THEN nullptr ELSE HalfEntry.block

(* ... the memory it destroys in block b: from headIndex or the start of   *)
(* the block on, to tailIndex or the end of the block.                     *)
DestroyedIn(b) ==
  LET first == IF b = HalfDequeued THEN headIndex % BLOCK_SIZE ELSE 0
      last == IF b = tailBlock /\ tailIndex % BLOCK_SIZE >= first /\ tailIndex % BLOCK_SIZE # 0
              THEN tailIndex % BLOCK_SIZE ELSE BLOCK_SIZE
  IN IF is_empty(b) THEN {} ELSE {b} \X (first .. last - 1)

ExplicitDestroyed == UNION {DestroyedIn(b) : b \in InRing}

---------------------------------------------------------------------------

(* A consumer loads blockIndex, ... *)
ExplicitHeader(c) ==
  /\ loc[c].pc = "header"
  /\ Step(c, [loc[c] EXCEPT !.pc = "front", !.header = Len(headers)])
  /\ UNCHANGED <<Shared, indexVars>>

(* ... its front, ... *)
ExplicitLoadFront(c) ==
  /\ loc[c].pc = "front"
  /\ Step(c, [loc[c] EXCEPT !.pc = "entry", !.pos = headers[loc[c].header].front])
  /\ UNCHANGED <<Shared, indexVars>>

(* ... the base of the entry at front, and counts blocks from there (any   *)
(* number if front is -1, where there is no entry); ... *)
ExplicitLoadBase(c) ==
  LET h == headers[loc[c].header]
      p == loc[c].pos
      offset == (Base(loc[c].index) - h.entries[p].base) \div BLOCK_SIZE
  IN /\ loc[c].pc = "entry"
     /\ \E pos \in (IF p = -1 THEN 0 .. h.size - 1 ELSE {(p + offset) % h.size}) :
          Step(c, [loc[c] EXCEPT !.pc = "block", !.pos = pos])
     /\ UNCHANGED <<Shared, indexVars>>

(* ... then the block of that entry. *)
ExplicitLoadBlock(c) ==
  /\ loc[c].pc = "block"
  /\ Step(c, [loc[c] EXCEPT !.pc = "read", !.block = headers[loc[c].header].entries[loc[c].pos].block])
  /\ UNCHANGED <<Shared, indexVars>>

(* Set the flags of the elements read. *)
ExplicitEmpty(c) ==
  /\ loc[c].pc = "empty"
  /\ blk' = [blk EXCEPT ![loc[c].block] = set_many_empty(@, loc[c].index, EndIndex(c))]
  /\ Step(c, NextBlock(c, headers[loc[c].header].size))
  /\ UNCHANGED <<isExplicit, tailIndex, headIndex, countVars, tailBlock, free, prod, indexVars>>

ExplicitDequeueStep(c) ==
  \/ ExplicitHeader(c) \/ ExplicitLoadFront(c) \/ ExplicitLoadBase(c) \/ ExplicitLoadBlock(c)
  \/ ExplicitEmpty(c)

=============================================================================
