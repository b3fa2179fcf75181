-------------------------- MODULE MCBlockingQueue --------------------------
(***************************************************************************)
(* BlockingConcurrentQueue for TLC.  Growing the hash tables and meeting   *)
(* other consumers are bounded apart: where every enqueuer has a token,    *)
(* and no table is used, consumers run against each other and MaxRaced     *)
(* elements are enqueued; otherwise one consumer's call is in progress at  *)
(* a time.                                                                 *)
(***************************************************************************)
EXTENDS BlockingConcurrentQueue, TLC

CONSTANT MaxRaced   \* bound: elements enqueued while consumers race

OneAtATime == \A c, d \in Consumers : c = d \/ NoWait \in {wait[c], wait[d]}

Bounded == IF \A t \in Enqueuers : withToken[t] THEN Enqueued + Promised <= MaxRaced ELSE OneAtATime

MCSpec == Init /\ [][Next /\ Bounded']_vars

Symmetry == Permutations(Enqueuers) \cup Permutations(Consumers)

=============================================================================
