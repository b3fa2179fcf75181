-------------------------- MODULE CCLockfreeQueue --------------------------
(***************************************************************************)
(* The class CCLockfreeQueue (cclockfreequeue.h): Push, Pop and GetSize on *)
(* top of the micro queues.                                                *)
(*                                                                         *)
(* Push draws its index from m_nPreWriteIndex.  Pop (the build defines     *)
(* USE_QUICKPOP_CCLOCKFREEQUEUE) first announces itself by incrementing    *)
(* m_nPreReadIndex; if the old value is before m_nPreWriteIndex it may     *)
(* draw an index from m_nReadIndex, otherwise it takes the announcement    *)
(* back and reports an empty queue.                                        *)
(*                                                                         *)
(* The module extends MicroQueue: the steps inside a micro queue are its   *)
(* PushStep and PopStep, and only the drawing of indices is replaced.      *)
(***************************************************************************)
EXTENDS MicroQueue

VARIABLES
  m_nPreReadIndex,  \* next announcement number
  call,             \* per popper: the next access of Pop before the micro queue
  pre,              \* per popper: nPreReadIndex
  sizing,           \* is GetSize between its two loads?
  nRead,            \* GetSize's first load
  size              \* the last result of GetSize

popVars == <<m_nPreReadIndex, call, pre>>
sizeVars == <<sizing, nRead, size>>
queueVars == <<m_nPreWriteIndex, m_nReadIndex, m_queue, heap, m_pPool, pc, loc,
               delivered, m_nPreReadIndex, call, pre, sizing, nRead, size>>

(* int32_t view of a uint32_t. *)
Signed(w) == IF w < WordSize \div 2 THEN w ELSE w - WordSize

(* Mutants: the test lets an equal index through, or asks for a distance   *)
(* of two. *)
uint32_t_not_before(a, b) == {Signed(Minus(b, a)) <= 0}
uint32_t_well_after(a, b) == {Signed(Minus(b, a)) < -1}

(* uint32_t_after(a, b), line 24: (int32_t)(b) - (int32_t)(a) < 0.  When   *)
(* the signed subtraction overflows the result is undefined: a build gives *)
(* the wrapped difference's sign, or compares the two numbers instead.     *)
uint32_t_after(a, b) ==
  LET exact == Signed(b) - Signed(a)
  IN {Signed(Word(exact)) < 0, exact < 0}

---------------------------------------------------------------------------

(* The constructor. *)
QueueInit ==
  /\ Init
  /\ m_nPreReadIndex = CCLockfreeQueueStartIndex
  /\ call = [c \in Poppers |-> "idle"]
  /\ pre = [c \in Poppers |-> 0]
  /\ sizing = FALSE
  /\ nRead = 0
  /\ size = 0

(* Push, lines 274-275. *)
Push(p) ==
  /\ DrawPush(p)
  /\ UNCHANGED <<popVars, sizeVars>>

(* Pop, line 281: announce. *)
PopAnnounce(c) ==
  /\ pc[c] = "popDone"
  /\ call[c] = "idle"
  /\ pre' = [pre EXCEPT ![c] = m_nPreReadIndex]
  /\ m_nPreReadIndex' = m_nPreReadIndex + 1
  /\ call' = [call EXCEPT ![c] = "check"]
  /\ UNCHANGED <<vars, sizeVars>>

(* Pop, lines 282-283: is there an index left for this announcement? *)
PopCheck(c) ==
  /\ call[c] = "check"
  /\ \E after \in uint32_t_after(Word(m_nPreWriteIndex), Word(pre[c])) :
       call' = [call EXCEPT ![c] = IF after THEN "index" ELSE "undo"]
  /\ UNCHANGED <<vars, m_nPreReadIndex, pre, sizeVars>>

(* Pop, lines 284-285: draw the read index and enter the micro queue. *)
PopIndex(c) ==
  /\ call[c] = "index"
  /\ EnterPop(c, m_nReadIndex)
  /\ m_nReadIndex' = m_nReadIndex + 1
  /\ call' = [call EXCEPT ![c] = "idle"]
  /\ pre' = [pre EXCEPT ![c] = 0]
  /\ UNCHANGED <<m_nPreWriteIndex, m_nPreReadIndex, sizeVars>>

(* Mutant: the announcement is not taken back. *)
PopUndoNot(c) ==
  /\ call[c] = "undo"
  /\ call' = [call EXCEPT ![c] = "idle"]
  /\ pre' = [pre EXCEPT ![c] = 0]
  /\ UNCHANGED <<vars, m_nPreReadIndex, sizeVars>>

(* Pop, lines 289-290: take the announcement back and return false. *)
PopUndo(c) ==
  /\ call[c] = "undo"
  /\ m_nPreReadIndex' = m_nPreReadIndex - 1
  /\ call' = [call EXCEPT ![c] = "idle"]
  /\ pre' = [pre EXCEPT ![c] = 0]
  /\ UNCHANGED <<vars, sizeVars>>

(* Mutant: GetSize uses the announcements instead of the read index. *)
SizeReadPre ==
  /\ ~ sizing
  /\ nRead' = Word(m_nPreReadIndex)
  /\ sizing' = TRUE
  /\ UNCHANGED <<vars, popVars, size>>

(* GetSize, line 269. *)
SizeRead ==
  /\ ~ sizing
  /\ nRead' = Word(m_nReadIndex)
  /\ sizing' = TRUE
  /\ UNCHANGED <<vars, popVars, size>>

(* GetSize, lines 270-271. *)
SizeWrite ==
  /\ sizing
  /\ size' = Minus(Word(m_nPreWriteIndex), nRead)
  /\ sizing' = FALSE
  /\ nRead' = 0
  /\ UNCHANGED <<vars, popVars>>

(* A step inside a micro queue. *)
PushInside(p) == PushStep(p) /\ UNCHANGED <<popVars, sizeVars>>
PopInside(c) == PopStep(c) /\ UNCHANGED <<popVars, sizeVars>>

PopCall(c) == PopCheck(c) \/ PopIndex(c) \/ PopUndo(c)

QueueNext ==
  \/ \E p \in Pushers : Push(p) \/ PushInside(p)
  \/ \E c \in Poppers : PopAnnounce(c) \/ PopCall(c) \/ PopInside(c)
  \/ SizeRead
  \/ SizeWrite

QueueSpec == QueueInit /\ [][QueueNext]_queueVars

(* Threads are preempted, never stopped, and a thread that pops keeps      *)
(* polling (PopContentNoNullFunc, cccontaintemplate.h lines 229-240). *)
QueueFairness ==
  /\ \A p \in Pushers : WF_queueVars(PushInside(p))
  /\ \A c \in Poppers :
       WF_queueVars(PopAnnounce(c) \/ PopCall(c) \/ PopInside(c))

---------------------------------------------------------------------------

Committed == {c \in Poppers : call[c] = "index"}
Announced == {c \in Poppers : call[c] # "idle"}

(* Indices are handed out in a range where neither a subtraction of two    *)
(* int32_t overflows nor a uint32_t wraps. *)
IndicesFit ==
  /\ IsFiniteSet(Poppers)
  /\ CCLockfreeQueueStartIndex + MaxPush + Cardinality(Poppers)
       < WordSize \div 2

(* The index counters are natural numbers and every popper is at a label   *)
(* of Pop. *)
QueueTypeOK ==
  /\ m_nPreWriteIndex \in Nat
  /\ m_nReadIndex \in Nat
  /\ m_nPreReadIndex \in Nat
  /\ call \in [Poppers -> {"idle", "check", "index", "undo"}]
  /\ pre \in [Poppers -> Nat]

(* An announcement is outstanding or has become a read index: taking it    *)
(* back (line 289) races with other announcements but loses none. *)
PreReadAccounts == m_nPreReadIndex = m_nReadIndex + Cardinality(Announced)

(* The poppers that will still find w large enough in line 283. *)
Hopeful(w) == {c \in Poppers : call[c] = "check" /\ pre[c] < w}

(* However far pushes get, there is an index for every pop that has passed *)
(* the test of line 283 or still can.  Announcement numbers repeat after   *)
(* an undo, so this does not follow from their being distinct. *)
CommitBound ==
  \A w \in m_nPreWriteIndex ..
            CCLockfreeQueueStartIndex + MaxPush + Cardinality(Poppers) :
    m_nReadIndex + Cardinality(Committed) + Cardinality(Hopeful(w)) <= w

(* No pop draws an index that no push has drawn: it would spin in line 141 *)
(* until a later push. *)
NeverOvertake == m_nReadIndex + Cardinality(Committed) <= m_nPreWriteIndex

(* GetSize never reports more than was pushed: it loads the read index     *)
(* first, so that the difference of two racing counters is not negative. *)
SizeSane == size <= m_nPreWriteIndex - CCLockfreeQueueStartIndex

(* Push and Pop hand indices to the micro queues the way MicroQueue        *)
(* assumes: the quick Pop of lines 279-291 implements DrawPop. *)
ImplementsMicroQueue == Spec

(* Every payload pushed is returned by some pop. *)
EveryPushDelivered ==
  \A n \in CCLockfreeQueueStartIndex ..
            CCLockfreeQueueStartIndex + MaxPush - 1 :
    (n < m_nPreWriteIndex) ~> WasDelivered(n)
===========================================================================
