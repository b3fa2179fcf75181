---------------------------- MODULE MCBlockPool ----------------------------
(***************************************************************************)
(* BlockPool for TLC.  Growing the table and the free list's races are     *)
(* bounded apart: two threads do everything, with MaxGrowAdds blocks       *)
(* returned; a third one meets them on the free list, where a block may    *)
(* leave and come back while somebody holds it as the old head, and then   *)
(* nobody goes on to grow the table.                                       *)
(***************************************************************************)
EXTENDS BlockPool, TLC

CONSTANT MaxGrowAdds   \* bound: blocks returned while the table grows

Working == {t \in Threads : pc[t] # "idle" \/ held[t] # {}}

VARIABLE team

Bounded ==
  /\ Working \subseteq team
  /\ IF Cardinality(team) > 2 THEN "locked" \notin {pc[t] : t \in Threads} ELSE adds <= MaxGrowAdds

MCInit == Init /\ team \in {T \in SUBSET Threads : Cardinality(T) \in {2, 3}}
MCSpec == MCInit /\ [][Next /\ UNCHANGED team /\ Bounded']_<<vars, team>>

Symmetry == Permutations(Threads)

=============================================================================
