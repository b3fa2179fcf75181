-------------------------- MODULE ImplicitProducer --------------------------
(***************************************************************************)
(* struct ImplicitProducer of concurrentqueue.h.  A block goes back to the *)
(* pool as soon as its last element is gone.  The block index is a         *)
(* circular array of pointers to entries (key, value): an entry is free    *)
(* while its value is null.  A larger index shares the entries of the one  *)
(* it replaces, so that consumers may go on with either.                   *)
(***************************************************************************)
EXTENDS ProducerBase

CONSTANT IMPLICIT_INITIAL_INDEX_SIZE

VARIABLES
  indices,    \* block indices; blockIndex points to the last one
  entries     \* all entries, in the order of their allocation

blockIndexVars == <<indices, entries>>

INVALID_BLOCK_BASE == 1
FreshEntry == [key |-> INVALID_BLOCK_BASE, value |-> nullptr]

Current == indices[Len(indices)]
Replace(r) == [indices EXCEPT ![Len(indices)] = r]

(* new_block_index: the old entries from the oldest on, then as many fresh *)
(* ones. *)
NewIndex ==
  LET prev == Current
      n == prev.capacity
  IN [capacity |-> 2 * n, tail |-> n - 1,
      index |-> [i \in 0 .. 2 * n - 1 |->
                   IF i < n THEN prev.index[(prev.tail + 1 + i) % n] ELSE Len(entries) + i - n + 1]]

(* The constructor, its index allocated. *)
ImplicitInit ==
  LET n == IMPLICIT_INITIAL_INDEX_SIZE
  IN /\ indices = <<[capacity |-> n, tail |-> n - 1, index |-> [i \in 0 .. n - 1 |-> i + 1]]>>
     /\ entries = [i \in 1 .. n |-> FreshEntry]

---------------------------------------------------------------------------

To(l) == prod' = [prod EXCEPT !.pc = l]
PutVars == <<isExplicit, tailIndex, headIndex, countVars, loc>>

(* enqueue and enqueue_bulk: with room in the tail block for all elements, *)
(* construct them; otherwise begin the blocks that are needed. *)
ImplicitEnqueue(n) ==
  /\ prod.pc = "idle"
  /\ tailIndex + n <= MaxElements
  /\ LET need == BlocksNeeded(tailIndex, n)
     IN prod' = [NoProd EXCEPT !.pc = IF need = 0 THEN "construct" ELSE "head",
                               !.bulk = n > 1, !.count = n, !.need = need,
                               !.base = Base(tailIndex + BLOCK_SIZE - 1), !.start = tailBlock]
  /\ UNCHANGED <<PutVars, tailBlock, blk, free, blockIndexVars>>

(* A call that begins no further block gives the ones it has back. *)
GiveUp ==
  /\ prod' = IF prod.first = nullptr THEN NoProd
             ELSE [prod EXCEPT !.pc = "undo", !.base = Base(tailIndex + BLOCK_SIZE - 1), !.need = 0]
  /\ UNCHANGED tailBlock

(* Load headIndex and test the limit. *)
ImplicitHead ==
  /\ prod.pc = "head"
  /\ IF Full(prod.base) THEN GiveUp ELSE To("insert") /\ UNCHANGED tailBlock
  /\ UNCHANGED <<PutVars, blk, free, blockIndexVars>>

(* The slot after the tail of an index, and its entry. *)
NextSlot(h) == (h.tail + 1) % h.capacity
NextEntry(h) == h.index[NextSlot(h)]

(* Mutant: an entry in use is taken. *)
InsertKeyAny ==
  /\ prod.pc = "insert"
  /\ entries' = [entries EXCEPT ![NextEntry(Current)].key = prod.base]
  /\ To("tail")
  /\ UNCHANGED <<PutVars, tailBlock, blk, free, indices>>

(* insert_block_index_entry: a free entry gets the key. *)
InsertKey ==
  /\ prod.pc = "insert"
  /\ LET e == entries[NextEntry(Current)]
     IN e.key = INVALID_BLOCK_BASE \/ e.value = nullptr
  /\ entries' = [entries EXCEPT ![NextEntry(Current)].key = prod.base]
  /\ To("tail")
  /\ UNCHANGED <<PutVars, tailBlock, blk, free, indices>>

(* No free entry: a larger index, whose next entry is free, or none for    *)
(* want of memory. *)
InsertGrow ==
  /\ prod.pc = "insert"
  /\ LET e == entries[NextEntry(Current)]
     IN e.key # INVALID_BLOCK_BASE /\ e.value # nullptr
  /\ \/ /\ indices' = Append(indices, NewIndex)
        /\ entries' = entries \o [i \in 1 .. Current.capacity |-> FreshEntry]
        /\ UNCHANGED <<prod, tailBlock>>
     \/ GiveUp /\ UNCHANGED blockIndexVars
  /\ UNCHANGED <<PutVars, blk, free>>

(* Store the tail of the index. *)
InsertTail ==
  /\ prod.pc = "tail"
  /\ indices' = Replace([Current EXCEPT !.tail = NextSlot(Current)])
  /\ To("block")
  /\ UNCHANGED <<PutVars, tailBlock, blk, free, entries>>

(* rewind_block_index_tail. *)
Rewound == [Current EXCEPT !.tail = (@ - 1) % Current.capacity]

(* The entry of an index, as the producer finds it. *)
EntryOf(i) ==
  LET h == Current
      offset == (Base(i) - entries[h.index[h.tail]].key) \div BLOCK_SIZE
  IN h.index[(h.tail + offset) % h.capacity]

(* A block of the pool gets its entry and joins the call's chain.  (The    *)
(* block of an enqueue keeps its next, which nobody reads; the model       *)
(* clears it too.) *)
ImplicitBlock ==
  /\ prod.pc = "block"
  /\ \E b \in free :
       /\ free' = free \ {b}
       /\ blk' = LET r == [blk EXCEPT ![b] = [reset_empty(@) EXCEPT !.next = nullptr]]
                 IN IF prod.bulk /\ (tailIndex % BLOCK_SIZE # 0 \/ prod.first # nullptr)
                    THEN [r EXCEPT ![tailBlock].next = b] ELSE r
       /\ entries' = [entries EXCEPT ![Current.index[Current.tail]].value = b]
       /\ tailBlock' = b
       /\ prod' = [prod EXCEPT !.pc = IF prod.need > 1 THEN "head" ELSE "construct",
                               !.need = @ - 1, !.base = @ + BLOCK_SIZE,
                               !.first = IF @ = nullptr THEN b ELSE @]
  /\ UNCHANGED <<PutVars, indices>>

(* No block, or (enqueue only) the constructor throws before the block has *)
(* its entry: rewind the index; the block goes back to the pool. *)
ImplicitNoBlock ==
  /\ prod.pc = "block"
  /\ free = {} \/ (MayThrow /\ ~prod.bulk)
  /\ indices' = Replace(Rewound)
  /\ entries' = [entries EXCEPT ![Current.index[Current.tail]].value = nullptr]
  /\ GiveUp
  /\ UNCHANGED <<PutVars, blk, free>>

(* Undo a bulk call, one block per step: clear its entry, rewind the       *)
(* index, return the block. *)
ImplicitUndo ==
  /\ prod.pc = "undo"
  /\ LET b == prod.first
     IN /\ entries' = [entries EXCEPT ![EntryOf(prod.base)].value = nullptr]
        /\ indices' = Replace(Rewound)
        /\ free' = free \cup {b}
        /\ IF blk[b].next = nullptr
           THEN prod' = NoProd /\ tailBlock' = prod.start
           ELSE prod' = [prod EXCEPT !.first = blk[b].next, !.base = @ + BLOCK_SIZE] /\ UNCHANGED tailBlock
  /\ UNCHANGED <<PutVars, blk>>

(* The block of each element of the call. *)
ImplicitAt ==
  [k \in tailIndex .. tailIndex + prod.count - 1 |->
    IF ~prod.bulk THEN tailBlock
    ELSE IF Base(k) < tailIndex THEN prod.start
    ELSE Ahead(prod.first, (Base(k) - Base(tailIndex + BLOCK_SIZE - 1)) \div BLOCK_SIZE)]

(* Construct the elements. *)
ImplicitConstruct ==
  /\ prod.pc = "construct"
  /\ blk' = Constructed(ImplicitAt)
  /\ To("publish")
  /\ UNCHANGED <<PutVars, tailBlock, free, blockIndexVars>>

(* A constructor throws in a bulk call: destroy, and undo the call. *)
ImplicitThrow ==
  /\ MayThrow
  /\ prod.pc = "construct" /\ prod.bulk
  /\ GiveUp
  /\ UNCHANGED <<PutVars, blk, free, blockIndexVars>>

ImplicitEnqueueStep ==
  \/ \E n \in {1, MaxBulk} : ImplicitEnqueue(n)
  \/ ImplicitHead \/ InsertKey \/ InsertGrow \/ InsertTail \/ ImplicitBlock \/ ImplicitNoBlock
  \/ ImplicitUndo \/ ImplicitConstruct \/ ImplicitThrow

---------------------------------------------------------------------------

(* The destructor: it walks the elements left, and returns each block it   *)
(* leaves behind and the tail block, if that is still the queue's own. *)
BlockOf(k) == entries[EntryOf(k)].value

ImplicitDestroyed == {<<BlockOf(k), k % BLOCK_SIZE>> : k \in headIndex .. tailIndex - 1}

(* Mutant: the tail block is thought to be gone when it is full. *)
ImplicitReturnedLess ==
  {BlockOf(k - 1) : k \in {k \in headIndex + 1 .. tailIndex - 1 : k % BLOCK_SIZE = 0}}
    \cup {b \in {tailBlock} \ {nullptr} : tailIndex % BLOCK_SIZE # 0}

ImplicitReturned ==
  {BlockOf(k - 1) : k \in {k \in headIndex + 1 .. tailIndex - 1 : k % BLOCK_SIZE = 0}}
    \cup {b \in {tailBlock} \ {nullptr} : headIndex # tailIndex \/ tailIndex % BLOCK_SIZE # 0}

---------------------------------------------------------------------------

(* get_block_index_index_for_index: a consumer loads blockIndex, ... *)
ImplicitHeader(c) ==
  /\ loc[c].pc = "header"
  /\ Step(c, [loc[c] EXCEPT !.pc = "front", !.header = Len(indices)])
  /\ UNCHANGED <<Shared, blockIndexVars>>

(* ... its tail, ... *)
ImplicitLoadTail(c) ==
  /\ loc[c].pc = "front"
  /\ Step(c, [loc[c] EXCEPT !.pc = "entry", !.pos = indices[loc[c].header].tail])
  /\ UNCHANGED <<Shared, blockIndexVars>>

(* ... and the key of the entry there. *)
ImplicitLoadKey(c) ==
  /\ loc[c].pc = "entry"
  /\ LET h == indices[loc[c].header]
         offset == (Base(loc[c].index) - entries[h.index[loc[c].pos]].key) \div BLOCK_SIZE
     IN Step(c, [loc[c] EXCEPT !.pc = "block", !.pos = (@ + offset) % h.capacity])
  /\ UNCHANGED <<Shared, blockIndexVars>>

(* The entry a consumer uses. *)
Mine(c) == indices[loc[c].header].index[loc[c].pos]

(* Load the value of the entry. *)
ImplicitLoadBlock(c) ==
  /\ loc[c].pc = "block"
  /\ Step(c, [loc[c] EXCEPT !.pc = "read", !.block = entries[Mine(c)].value])
  /\ UNCHANGED <<Shared, blockIndexVars>>

(* Count the elements read; whoever counts the last one frees the block. *)
ImplicitEmpty(c) ==
  /\ loc[c].pc = "empty"
  /\ LET r == set_many_empty(blk[loc[c].block], loc[c].index, EndIndex(c))
     IN /\ blk' = [blk EXCEPT ![loc[c].block] = r]
        /\ Step(c, IF r.elementsCompletelyDequeued = BLOCK_SIZE THEN [loc[c] EXCEPT !.pc = "unlink"]
                   ELSE NextBlock(c, indices[loc[c].header].capacity))
  /\ UNCHANGED <<isExplicit, tailIndex, headIndex, countVars, tailBlock, free, prod, blockIndexVars>>

(* Clear the entry, ... *)
ImplicitUnlink(c) ==
  /\ loc[c].pc = "unlink"
  /\ entries' = [entries EXCEPT ![Mine(c)].value = nullptr]
  /\ Step(c, [loc[c] EXCEPT !.pc = "free"])
  /\ UNCHANGED <<Shared, indices>>

(* Mutant: the block is not returned. *)
ImplicitFreeNot(c) ==
  /\ loc[c].pc = "free"
  /\ Step(c, NextBlock(c, indices[loc[c].header].capacity))
  /\ UNCHANGED <<Shared, blockIndexVars>>

(* ... and return the block to the pool.  Its next is not read again       *)
(* before it is set; the model forgets it. *)
ImplicitFree(c) ==
  /\ loc[c].pc = "free"
  /\ free' = free \cup {loc[c].block}
  /\ blk' = [blk EXCEPT ![loc[c].block].next = nullptr]
  /\ Step(c, NextBlock(c, indices[loc[c].header].capacity))
  /\ UNCHANGED <<isExplicit, tailIndex, headIndex, countVars, tailBlock, prod, blockIndexVars>>

ImplicitDequeueStep(c) ==
  \/ ImplicitHeader(c) \/ ImplicitLoadTail(c) \/ ImplicitLoadKey(c) \/ ImplicitLoadBlock(c)
  \/ ImplicitEmpty(c) \/ ImplicitUnlink(c) \/ ImplicitFree(c)

=============================================================================
