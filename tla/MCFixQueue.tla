---------------------------- MODULE MCFixQueue ----------------------------
(***************************************************************************)
(* CCLockfreeFixQueue with only some of the threads at work: a team that   *)
(* is chosen once and has a single producer or a single consumer.          *)
(***************************************************************************)
EXTENDS CCLockfreeFixQueue

VARIABLE team

(* The largest such teams.  A smaller one is a team with threads that      *)
(* never begin a call, and threads of one kind are interchangeable. *)
Teams ==
  {Poppers \cup {CHOOSE p \in Pushers : TRUE},
   Pushers \cup {CHOOSE c \in Poppers : TRUE}}

TeamInit == Init /\ team \in Teams

TeamNext ==
  /\ \/ \E p \in Pushers \cap team : PushTake(p) \/ PushStep(p)
     \/ \E c \in Poppers \cap team : PopCheck(c) \/ PopStep(c)
  /\ UNCHANGED team

TeamSpec ==
  /\ TeamInit
  /\ [][TeamNext]_<<vars, team>>
  /\ \A p \in Pushers : WF_vars(PushStep(p))
  /\ \A c \in Poppers : WF_vars(PopStep(c))
===========================================================================
