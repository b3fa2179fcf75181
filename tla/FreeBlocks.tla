----------------------------- MODULE FreeBlocks -----------------------------
(***************************************************************************)
(* What the block pool of concurrentqueue.h promises the producers: a      *)
(* block belongs to the pool or to one thread, requisition_block hands out *)
(* a block of the pool and add_block_to_free_list returns one.             *)
(***************************************************************************)
CONSTANTS Threads, Blocks

VARIABLE held   \* per thread: the blocks it owns

Taken == UNION {held[t] : t \in Threads}

FreeInit == held = [t \in Threads |-> {}]

Take(t, b) ==
  /\ b \notin Taken
  /\ held' = [held EXCEPT ![t] = @ \cup {b}]

Give(t, b) ==
  /\ b \in held[t]
  /\ held' = [held EXCEPT ![t] = @ \ {b}]

FreeNext == \E t \in Threads, b \in Blocks : Take(t, b) \/ Give(t, b)

FreeSpec == FreeInit /\ [][FreeNext]_held

=============================================================================
