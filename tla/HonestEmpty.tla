---------------------------- MODULE HonestEmpty ----------------------------
(***************************************************************************)
(* CCLockfreeQueue observed by a client: may a Pop that returns false be   *)
(* explained by a moment at which the queue was empty?                     *)
(*                                                                         *)
(* A history variable records for every Pop in progress whether at some    *)
(* moment since it began no completed push was left unpopped.  Other pops  *)
(* that have not failed count as if they had already taken their payload,  *)
(* so that FALSE means: under no linearization was the queue empty.        *)
(***************************************************************************)
EXTENDS CCLockfreeQueue

VARIABLE mayBeEmpty  \* per popper: was the queue possibly empty meanwhile?

emptyVars == <<queueVars, mayBeEmpty>>

Completed ==
  m_nPreWriteIndex - CCLockfreeQueueStartIndex
    - Cardinality({p \in Pushers : pc[p] # "pushDone"})

Taken(c) ==
  m_nReadIndex - CCLockfreeQueueStartIndex
    + Cardinality({d \in Poppers \ {c} : call[d] \in {"check", "index"}})

PossiblyEmpty(c) == Completed <= Taken(c)

EmptyInit ==
  /\ QueueInit
  /\ mayBeEmpty = [c \in Poppers |-> FALSE]

EmptyNext ==
  /\ QueueNext
  /\ mayBeEmpty' = [c \in Poppers |->
       /\ call'[c] # "idle"
       /\ mayBeEmpty[c] \/ PossiblyEmpty(c)']

EmptySpec == EmptyInit /\ [][EmptyNext]_emptyVars

EmptyFairSpec == EmptySpec /\ QueueFairness

(* A Pop that is going to return false (lines 288-290) saw the queue empty *)
(* at some moment of its call. *)
EmptyIsHonest == \A c \in Poppers : call[c] = "undo" => mayBeEmpty[c]
===========================================================================
