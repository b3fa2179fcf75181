------------------------------ MODULE BlockPool ------------------------------
(***************************************************************************)
(* Where blocks come from and go to: requisition_block of                  *)
(* concurrentqueue.h tries the initial pool, the free list, the hook       *)
(* ChildCreateBlock and the allocator, in this order.  The hook is         *)
(* CLockFreeMessageQueue's (lockfreemessagequeue.h): a table of pools,     *)
(* each a multiple of the one before, that grows under a spin lock but is  *)
(* read without it.                                                        *)
(*                                                                         *)
(* Pool 0 is the initial pool, pool k + 1 the one of slot k of             *)
(* m_pMaxAllocTimes, the last pool what the allocator gives; a block is    *)
(* the pair of its pool and its place there.                               *)
(***************************************************************************)
EXTENDS FreeList

CONSTANTS
  InitialBlocks,                      \* initialBlockPoolSize of the queue
  Capacity,                           \* size of the first pool of the table
  BASICQUEUE_MAX_ALLOCTIMES,          \* slots of the table
  BASICLOCFREEQUEUE_ALLOCMULTYTIMES,  \* growth factor
  MaxCreate,                          \* bound: blocks the allocator has left
  MaxAdds                             \* bound: blocks returned to the free list

VARIABLES
  initialBlockPoolIndex,   \* per existing pool: blocks drawn
  m_pMaxAllocTimes,        \* slots of the table that hold a pool
  m_nAllocateIndex,
  m_lock,                  \* is the spin lock taken?
  nAllocateIndex,          \* per thread: the local of ChildCreateBlock
  adds                     \* calls of add so far

tableVars == <<m_pMaxAllocTimes, m_nAllocateIndex, m_lock>>
vars == <<freeListHead, freeListRefs, freeListNext, held, pc, loc,
          initialBlockPoolIndex, m_pMaxAllocTimes, m_nAllocateIndex, m_lock, nAllocateIndex, adds>>

Slots == 0 .. BASICQUEUE_MAX_ALLOCTIMES - 1
Allocator == BASICQUEUE_MAX_ALLOCTIMES + 1

(* initialBlockPoolSize of each pool.  (Line 38 narrows the size to an int;  *)
(* sizes are taken to fit.) *)
PoolSize(k) ==
  IF k = 0 THEN InitialBlocks
  ELSE IF k = Allocator THEN MaxCreate
  ELSE Capacity * BASICLOCFREEQUEUE_ALLOCMULTYTIMES ^ (k - 1)

PoolBlocks == UNION {{<<k, i>> : i \in 0 .. PoolSize(k) - 1} : k \in 0 .. Allocator}

ASSUME PoolAssumption ==
  /\ BASICQUEUE_MAX_ALLOCTIMES \in Nat \ {0}
  /\ \A k \in 0 .. Allocator : PoolSize(k) \in Nat

ASSUME BlocksAssumption == Blocks = PoolBlocks

(* The constructors: pool 0 and slot 0 exist. *)
Init ==
  /\ ListInit
  /\ held = [t \in Threads |-> {}]
  /\ pc = [t \in Threads |-> "idle"]
  /\ loc = [t \in Threads |-> NoLocals]
  /\ initialBlockPoolIndex = [k \in 0 .. Allocator |-> 0]
  /\ m_pMaxAllocTimes = {0}
  /\ m_nAllocateIndex = 0
  /\ m_lock = FALSE
  /\ nAllocateIndex = [t \in Threads |-> 0]
  /\ adds = 0

---------------------------------------------------------------------------

(* requisition_block returns; its locals are gone. *)
Return(t) ==
  /\ Goto(t, "idle")
  /\ nAllocateIndex' = [nAllocateIndex EXCEPT ![t] = 0]

(* The first test of both GetBlock and try_get_block_from_initial_pool:    *)
(* anything left in pool k? *)
Ask(t, k, drawn, empty) ==
  /\ Goto(t, IF initialBlockPoolIndex[k] >= PoolSize(k) THEN empty ELSE drawn)
  /\ UNCHANGED <<listVars, held, loc, initialBlockPoolIndex, tableVars, nAllocateIndex>>

(* The fetch_add: others may have drawn the last block meanwhile. *)
Draw(t, k, empty) ==
  LET index == initialBlockPoolIndex[k]
  IN /\ initialBlockPoolIndex' = [initialBlockPoolIndex EXCEPT ![k] = index + 1]
     /\ IF index < PoolSize(k)
        THEN /\ held' = [held EXCEPT ![t] = @ \cup {<<k, index>>}]
             /\ Return(t)
        ELSE /\ Goto(t, empty)
             /\ UNCHANGED <<held, nAllocateIndex>>
     /\ UNCHANGED <<listVars, loc, tableVars>>

(* requisition_block. *)
RequisitionBlock(t) ==
  /\ pc[t] = "idle"
  /\ Goto(t, "initial")
  /\ UNCHANGED <<listVars, held, loc, initialBlockPoolIndex, tableVars, nAllocateIndex>>

(* try_get_block_from_initial_pool. *)
InitialAsk(t) == pc[t] = "initial" /\ Ask(t, 0, "initialDraw", "get")
InitialDraw(t) == pc[t] = "initialDraw" /\ Draw(t, 0, "get")

(* ChildCreateBlock, after the free list gave nothing: load                *)
(* m_nAllocateIndex. *)
ChildIndex(t) ==
  /\ pc[t] = "none"
  /\ nAllocateIndex' = [nAllocateIndex EXCEPT ![t] = m_nAllocateIndex]
  /\ loc' = [loc EXCEPT ![t] = NoLocals]
  /\ Goto(t, IF m_nAllocateIndex >= BASICQUEUE_MAX_ALLOCTIMES THEN "create" ELSE "data")
  /\ UNCHANGED <<listVars, held, initialBlockPoolIndex, tableVars>>

(* Load the pointer of that slot and follow it: a slot that is not filled  *)
(* yet holds a null pointer. *)
ChildData(t) ==
  /\ pc[t] = "data"
  /\ IF nAllocateIndex[t] \in m_pMaxAllocTimes
     THEN Ask(t, nAllocateIndex[t] + 1, "draw", "grow")
     ELSE /\ Goto(t, "crashed")
          /\ UNCHANGED <<listVars, held, loc, initialBlockPoolIndex, tableVars, nAllocateIndex>>

ChildDraw(t) == pc[t] = "draw" /\ Draw(t, nAllocateIndex[t] + 1, "grow")

(* The pool is used up: give up at the last slot, or take the lock. *)
ChildLock(t) ==
  /\ pc[t] = "grow"
  /\ \/ /\ nAllocateIndex[t] + 1 >= BASICQUEUE_MAX_ALLOCTIMES
        /\ Goto(t, "create")
        /\ UNCHANGED m_lock
     \/ /\ nAllocateIndex[t] + 1 < BASICQUEUE_MAX_ALLOCTIMES
        /\ ~m_lock
        /\ m_lock' = TRUE
        /\ Goto(t, "locked")
  /\ UNCHANGED <<listVars, held, loc, initialBlockPoolIndex, m_pMaxAllocTimes, m_nAllocateIndex, nAllocateIndex>>

(* Mutant: the index is not compared again. *)
ChildCheckNot(t) ==
  /\ pc[t] = "locked"
  /\ \E l \in {"storeIndex", "storePointer"} : Goto(t, l)
  /\ UNCHANGED <<listVars, held, loc, initialBlockPoolIndex, tableVars, nAllocateIndex>>

(* Under the lock: somebody else has grown the table, or it is ours to do. *)
(* The new pool is stored by m_pMaxAllocTimes[++m_nAllocateIndex] = new,   *)
(* whose two stores no rule orders for a reader without the lock. *)
ChildCheck(t) ==
  /\ pc[t] = "locked"
  /\ IF nAllocateIndex[t] # m_nAllocateIndex
     THEN Goto(t, "unlock")
     ELSE \E l \in {"storeIndex", "storePointer"} : Goto(t, l)
  /\ UNCHANGED <<listVars, held, loc, initialBlockPoolIndex, tableVars, nAllocateIndex>>

(* The two stores, in either order. *)
StoreIndex(t) ==
  /\ pc[t] \in {"storeIndex", "storeIndexLast"}
  /\ m_nAllocateIndex' = m_nAllocateIndex + 1
  /\ Goto(t, IF pc[t] = "storeIndex" THEN "storePointerLast" ELSE "unlock")
  /\ UNCHANGED <<listVars, held, loc, initialBlockPoolIndex, m_pMaxAllocTimes, m_lock, nAllocateIndex>>

StorePointer(t) ==
  /\ pc[t] \in {"storePointer", "storePointerLast"}
  /\ LET slot == IF pc[t] = "storePointer" THEN m_nAllocateIndex + 1 ELSE m_nAllocateIndex
     IN /\ m_pMaxAllocTimes' = m_pMaxAllocTimes \cup {slot}
        /\ initialBlockPoolIndex' = [initialBlockPoolIndex EXCEPT ![slot + 1] = 0]
  /\ Goto(t, IF pc[t] = "storePointer" THEN "storeIndexLast" ELSE "unlock")
  /\ UNCHANGED <<listVars, held, loc, m_nAllocateIndex, m_lock, nAllocateIndex>>

(* Release the lock and start over. *)
ChildUnlock(t) ==
  /\ pc[t] = "unlock"
  /\ m_lock' = FALSE
  /\ Goto(t, "none")
  /\ UNCHANGED <<listVars, held, loc, initialBlockPoolIndex, m_pMaxAllocTimes, m_nAllocateIndex, nAllocateIndex>>

(* The last resort: with CanAlloc a new block, unless memory is short;     *)
(* otherwise requisition_block returns a null pointer. *)
Create(t) ==
  /\ pc[t] = "create"
  /\ LET index == initialBlockPoolIndex[Allocator]
     IN \/ /\ index < MaxCreate
           /\ initialBlockPoolIndex' = [initialBlockPoolIndex EXCEPT ![Allocator] = index + 1]
           /\ held' = [held EXCEPT ![t] = @ \cup {<<Allocator, index>>}]
        \/ UNCHANGED <<initialBlockPoolIndex, held>>
  /\ Return(t)
  /\ UNCHANGED <<listVars, loc, tableVars>>

PoolStep(t) ==
  \/ RequisitionBlock(t) \/ InitialAsk(t) \/ InitialDraw(t)
  \/ ChildIndex(t) \/ ChildData(t) \/ ChildDraw(t) \/ ChildLock(t) \/ ChildCheck(t)
  \/ StoreIndex(t) \/ StorePointer(t) \/ ChildUnlock(t)
  \/ Create(t)

Next ==
  \E t \in Threads :
    \/ PoolStep(t) /\ UNCHANGED adds
    \/ ListStep(t) /\ UNCHANGED <<initialBlockPoolIndex, tableVars, nAllocateIndex, adds>>
    \/ /\ adds < MaxAdds
       /\ adds' = adds + 1
       /\ Add(t)
       /\ UNCHANGED <<initialBlockPoolIndex, tableVars, nAllocateIndex>>

Spec == Init /\ [][Next]_vars

---------------------------------------------------------------------------

(* Blocks a pool has handed out at some time. *)
Drawn == {b \in Blocks : b[2] < initialBlockPoolIndex[b[1]]}

(* No block is lost: a block that is not owned is on the free list, or one *)
(* thread is linking it, or it carries the bit and somebody who will link  *)
(* it still holds a reference. *)
NoBlockLost ==
  LET list == OnList
  IN \A b \in Drawn \ UNION {held[t] : t \in Threads} :
       \/ b \in list
       \/ Cardinality(Linking(b)) = 1
       \/ freeListRefs[b] >= SHOULD_BE_ON_FREELIST /\ Refer(b) # {}

(* The count of a block is one for the list (or the thread about to put it *)
(* there), one for each reference and two for a thread that took it off:   *)
(* the reason why freeListNext is stable between load and exchange. *)
RefsAccount ==
  LET list == OnList
  IN \A b \in Blocks :
       freeListRefs[b] % SHOULD_BE_ON_FREELIST =
         (IF b \in list \/ Counted(b) # {} THEN 1 ELSE 0)
         + Cardinality(Refer(b)) + 2 * Cardinality(Taking(b))

(* A slot of the table is filled once: no pool that gives out blocks is    *)
(* replaced by a fresh one. *)
GrownOnce ==
  [][\A k \in 1 .. Allocator : initialBlockPoolIndex'[k] >= initialBlockPoolIndex[k]]_vars

(* ChildCreateBlock never follows a null pointer. *)
NoNullPool == \A t \in Threads : pc[t] # "crashed"

(* The pool implements the abstract one. *)
Free == INSTANCE FreeBlocks WITH Threads <- Threads, Blocks <- Blocks, held <- held
ImplementsFreeBlocks == Free!FreeSpec

=============================================================================
