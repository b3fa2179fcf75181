--------------------------- MODULE MCMicroQueue ---------------------------
(***************************************************************************)
(* MicroQueue for TLC, with a team of pushers that is chosen once: one of  *)
(* them, or all, who together draw fewer indices.  Threads of one kind are *)
(* interchangeable.                                                        *)
(***************************************************************************)
EXTENDS MicroQueue, TLC

CONSTANT MaxTeamPush   \* bound: indices drawn by several pushers

VARIABLE team

Alone == Cardinality(team) = 1

TeamInit == Init /\ team \in {{p} : p \in Pushers} \cup {Pushers}

TeamNext ==
  /\ \/ \E p \in team :
          \/ PushStep(p)
          \/ /\ Alone \/ m_nPreWriteIndex < CCLockfreeQueueStartIndex + MaxTeamPush
             /\ DrawPush(p)
     \/ \E c \in Poppers : DrawPop(c) \/ PopStep(c)
  /\ UNCHANGED team

TeamSpec == TeamInit /\ [][TeamNext]_<<vars, team>>

Interchangeable == Permutations(Pushers) \cup Permutations(Poppers)

(* With one producer line 230 frees a pool only when it is drained, nobody *)
(* uses a freed pool and nobody is left behind by m_pWrite or m_pRead,     *)
(* also in rings that slid before they were closed, where several          *)
(* producers have only FreshCloseSafe. *)
LoneProducerSafe == Alone => ReleasedDrained /\ NoUseAfterRelease /\ NobodyStranded
===========================================================================
