------------------------------ MODULE FreeList ------------------------------
(***************************************************************************)
(* struct FreeList of concurrentqueue.h: a stack of blocks with a          *)
(* reference count per block instead of a tagged head.  A thread may read  *)
(* freeListNext of a block only while it holds a reference, and a block is *)
(* linked again only when its count is back at zero; who finds a count     *)
(* above zero leaves the linking to the thread that takes it to zero, with *)
(* the bit SHOULD_BE_ON_FREELIST.                                          *)
(*                                                                         *)
(* One action per access to shared memory, sequentially consistent.        *)
(***************************************************************************)
EXTENDS Naturals, FiniteSets

CONSTANTS Threads, Blocks, nullptr,
          SHOULD_BE_ON_FREELIST   \* the top bit of freeListRefs (2^31)

ASSUME BitAssumption ==
  /\ IsFiniteSet(Threads) /\ IsFiniteSet(Blocks)
  /\ SHOULD_BE_ON_FREELIST \in Nat
  /\ SHOULD_BE_ON_FREELIST > 2 * Cardinality(Threads) + 2
  /\ nullptr \notin Blocks

VARIABLES
  freeListHead,
  freeListRefs,   \* per block
  freeListNext,   \* per block
  held,           \* per thread: the blocks it owns (not in the code)
  pc,             \* per thread: its next access
  loc             \* per thread: its local variables

listVars == <<freeListHead, freeListRefs, freeListNext>>

(* Locals of try_get (head, prevHead, refs, next), of                      *)
(* add_knowing_refcount_is_zero (node, top), and whether the latter was    *)
(* called by try_get. *)
NoLocals == [head |-> nullptr, prevHead |-> nullptr, refs |-> 0, next |-> nullptr,
             node |-> nullptr, top |-> nullptr, getting |-> FALSE]

Goto(t, l) == pc' = [pc EXCEPT ![t] = l]

(* The loop condition of try_get. *)
Loop(head) == IF head = nullptr THEN "none" ELSE "refs"

(* add_knowing_refcount_is_zero returns, to try_get or to the caller of    *)
(* add. *)
AddReturn(t) ==
  /\ loc' = [loc EXCEPT ![t] = [NoLocals EXCEPT !.head = loc[t].head, !.getting = loc[t].getting]]
  /\ Goto(t, IF loc[t].getting THEN Loop(loc[t].head) ELSE "idle")

ListInit ==
  /\ freeListHead = nullptr
  /\ freeListRefs = [b \in Blocks |-> 0]
  /\ freeListNext = [b \in Blocks |-> nullptr]

---------------------------------------------------------------------------

(* add: set the bit; with a count of zero, link the block. *)
Add(t) ==
  /\ pc[t] = "idle"
  /\ \E b \in held[t] :
       /\ held' = [held EXCEPT ![t] = @ \ {b}]
       /\ freeListRefs' = [freeListRefs EXCEPT ![b] = @ + SHOULD_BE_ON_FREELIST]
       /\ IF freeListRefs[b] = 0
          THEN /\ loc' = [loc EXCEPT ![t].node = b]
               /\ Goto(t, "link")
          ELSE UNCHANGED <<loc, pc>>
  /\ UNCHANGED <<freeListHead, freeListNext>>

(* add_knowing_refcount_is_zero: load the head, ... *)
AddHead(t) ==
  /\ pc[t] = "link"
  /\ loc' = [loc EXCEPT ![t].top = freeListHead]
  /\ Goto(t, "linkNext")
  /\ UNCHANGED <<listVars, held>>

(* ... store freeListNext, ... *)
AddNext(t) ==
  /\ pc[t] = "linkNext"
  /\ freeListNext' = [freeListNext EXCEPT ![loc[t].node] = loc[t].top]
  /\ Goto(t, "linkRefs")
  /\ UNCHANGED <<freeListHead, freeListRefs, held, loc>>

(* ... store a count of one, the list's reference, ... *)
AddRefs(t) ==
  /\ pc[t] = "linkRefs"
  /\ freeListRefs' = [freeListRefs EXCEPT ![loc[t].node] = 1]
  /\ Goto(t, "linkHead")
  /\ UNCHANGED <<freeListHead, freeListNext, held, loc>>

(* ... and swing the head, if it is still the one loaded. *)
AddSwing(t) ==
  /\ pc[t] = "linkHead"
  /\ \/ /\ freeListHead = loc[t].top
        /\ freeListHead' = loc[t].node
        /\ AddReturn(t)
     \/ /\ freeListHead # loc[t].top
        /\ loc' = [loc EXCEPT ![t].top = freeListHead]
        /\ Goto(t, "relink")
        /\ UNCHANGED freeListHead
  /\ UNCHANGED <<freeListRefs, freeListNext, held>>

(* Mutant: the bit is set, and the list's reference kept. *)
AddRetryKeep(t) ==
  /\ pc[t] = "relink"
  /\ freeListRefs' = [freeListRefs EXCEPT ![loc[t].node] = @ + SHOULD_BE_ON_FREELIST]
  /\ IF freeListRefs[loc[t].node] = 1
     THEN Goto(t, "linkNext") /\ UNCHANGED loc
     ELSE AddReturn(t)
  /\ UNCHANGED <<freeListHead, freeListNext, held>>

(* The head changed: drop the list's reference and set the bit; try again  *)
(* only as the last one to hold a reference. *)
AddRetry(t) ==
  /\ pc[t] = "relink"
  /\ freeListRefs' = [freeListRefs EXCEPT ![loc[t].node] = @ + SHOULD_BE_ON_FREELIST - 1]
  /\ IF freeListRefs[loc[t].node] = 1
     THEN Goto(t, "linkNext") /\ UNCHANGED loc
     ELSE AddReturn(t)
  /\ UNCHANGED <<freeListHead, freeListNext, held>>

GetAgain(t) == loc' = [loc EXCEPT ![t] = NoLocals] /\ Goto(t, "get")

(* try_get: load the head. *)
GetHead(t) ==
  /\ pc[t] = "get"
  /\ loc' = [loc EXCEPT ![t] = [NoLocals EXCEPT !.head = freeListHead, !.getting = TRUE]]
  /\ Goto(t, Loop(freeListHead))
  /\ UNCHANGED <<listVars, held>>

(* Load the count of the head; with a count of zero, reload the head. *)
GetRefs(t) ==
  /\ pc[t] = "refs"
  /\ LET refs == freeListRefs[loc[t].head]
     IN IF refs % SHOULD_BE_ON_FREELIST = 0 THEN GetAgain(t)
        ELSE loc' = [loc EXCEPT ![t].refs = refs] /\ Goto(t, "ref")
  /\ UNCHANGED <<listVars, held>>

(* Mutant: the count loaded may have changed. *)
GetRefBlind(t) ==
  /\ pc[t] = "ref"
  /\ freeListRefs' = [freeListRefs EXCEPT ![loc[t].head] = @ + 1]
  /\ loc' = [loc EXCEPT ![t].refs = 0]
  /\ Goto(t, "next")
  /\ UNCHANGED <<freeListHead, freeListNext, held>>

(* Take a reference, if the count is still the one loaded. *)
GetRef(t) ==
  /\ pc[t] = "ref"
  /\ \/ /\ freeListRefs[loc[t].head] = loc[t].refs
        /\ freeListRefs' = [freeListRefs EXCEPT ![loc[t].head] = @ + 1]
        /\ loc' = [loc EXCEPT ![t].refs = 0]
        /\ Goto(t, "next")
     \/ /\ freeListRefs[loc[t].head] # loc[t].refs
        /\ GetAgain(t)
        /\ UNCHANGED freeListRefs
  /\ UNCHANGED <<freeListHead, freeListNext, held>>

(* Load freeListNext. *)
GetNext(t) ==
  /\ pc[t] = "next"
  /\ loc' = [loc EXCEPT ![t].next = freeListNext[loc[t].head]]
  /\ Goto(t, "swing")
  /\ UNCHANGED <<listVars, held>>

(* Swing the head to it; the failed exchange loads the new head. *)
GetSwing(t) ==
  /\ pc[t] = "swing"
  /\ \/ /\ freeListHead = loc[t].head
        /\ freeListHead' = loc[t].next
        /\ held' = [held EXCEPT ![t] = @ \cup {loc[t].head}]
        /\ loc' = [loc EXCEPT ![t].next = nullptr]
        /\ Goto(t, "unref2")
     \/ /\ freeListHead # loc[t].head
        /\ loc' = [loc EXCEPT ![t].prevHead = loc[t].head, ![t].head = freeListHead, ![t].next = nullptr]
        /\ Goto(t, "unref")
        /\ UNCHANGED <<freeListHead, held>>
  /\ UNCHANGED <<freeListRefs, freeListNext>>

(* Drop the own reference and the list's. *)
GetTake(t) ==
  /\ pc[t] = "unref2"
  /\ freeListRefs' = [freeListRefs EXCEPT ![loc[t].head] = @ - 2]
  /\ loc' = [loc EXCEPT ![t] = NoLocals]
  /\ Goto(t, "idle")
  /\ UNCHANGED <<freeListHead, freeListNext, held>>

(* Mutant: nobody links a block that was returned meanwhile. *)
GetDropOnly(t) ==
  /\ pc[t] = "unref"
  /\ freeListRefs' = [freeListRefs EXCEPT ![loc[t].prevHead] = @ - 1]
  /\ Goto(t, Loop(loc[t].head))
  /\ UNCHANGED <<freeListHead, freeListNext, held, loc>>

(* Drop the own reference; the last one links a block returned meanwhile. *)
GetDrop(t) ==
  /\ pc[t] = "unref"
  /\ freeListRefs' = [freeListRefs EXCEPT ![loc[t].prevHead] = @ - 1]
  /\ IF freeListRefs[loc[t].prevHead] = SHOULD_BE_ON_FREELIST + 1
     THEN /\ loc' = [loc EXCEPT ![t].node = loc[t].prevHead, ![t].prevHead = nullptr]
          /\ Goto(t, "link")
     ELSE /\ loc' = [loc EXCEPT ![t] = [NoLocals EXCEPT !.head = loc[t].head, !.getting = TRUE]]
          /\ Goto(t, Loop(loc[t].head))
  /\ UNCHANGED <<freeListHead, freeListNext, held>>

ListStep(t) ==
  \/ AddHead(t) \/ AddNext(t) \/ AddRefs(t) \/ AddSwing(t) \/ AddRetry(t)
  \/ GetHead(t) \/ GetRefs(t) \/ GetRef(t) \/ GetNext(t) \/ GetSwing(t)
  \/ GetTake(t) \/ GetDrop(t)

---------------------------------------------------------------------------

(* The blocks reached from the head. *)
OnList ==
  LET Reached[n \in 0 .. Cardinality(Blocks)] ==
        IF n = 0 THEN {freeListHead} \ {nullptr}
        ELSE LET r == Reached[n - 1]
             IN r \cup ({freeListNext[b] : b \in r} \ {nullptr})
  IN Reached[Cardinality(Blocks)]

(* Threads that link b, and those of them that have stored its count. *)
Linking(b) == {t \in Threads : /\ pc[t] \in {"link", "linkNext", "linkRefs", "linkHead", "relink"}
                               /\ loc[t].node = b}
Counted(b) == {t \in Linking(b) : pc[t] \in {"linkHead", "relink"}}

(* Threads that hold a reference to b, and the one that takes it. *)
Refer(b) == {t \in Threads : \/ pc[t] \in {"next", "swing"} /\ loc[t].head = b
                             \/ pc[t] = "unref" /\ loc[t].prevHead = b}
Taking(b) == {t \in Threads : pc[t] = "unref2" /\ loc[t].head = b}

=============================================================================
