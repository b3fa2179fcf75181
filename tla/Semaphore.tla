----------------------------- MODULE Semaphore -----------------------------
(***************************************************************************)
(* What LightweightSemaphore promises: signal adds units, and a wait that  *)
(* succeeds has taken units that were there.                               *)
(***************************************************************************)
EXTENDS Naturals

CONSTANT MaxBulk   \* units per call, at most

VARIABLE value

Release == \E n \in 1 .. MaxBulk : value' = value + n
Acquire == \E n \in 1 .. MaxBulk : n <= value /\ value' = value - n

SemaphoreSpec == value = 0 /\ [][Release \/ Acquire]_value

=============================================================================
