------------------------------ MODULE SubQueue ------------------------------
(***************************************************************************)
(* What one producer's queue of concurrentqueue.h promises: an enqueue, of *)
(* one element or in bulk, appears whole or not at all, and a dequeue      *)
(* claims elements that are there, each element once and in their order.   *)
(* Elements are numbered by the producer; in and out are the numbers of    *)
(* the next element to enqueue and to dequeue.                             *)
(***************************************************************************)
EXTENDS Naturals

CONSTANT MaxBulk   \* elements per call, at most

VARIABLES in, out

SubInit == in = 0 /\ out = 0

Put == \E n \in 1 .. MaxBulk : in' = in + n /\ UNCHANGED out
Claim == \E n \in 1 .. MaxBulk : out + n <= in /\ out' = out + n /\ UNCHANGED in

SubSpec == SubInit /\ [][Put \/ Claim]_<<in, out>>

=============================================================================
