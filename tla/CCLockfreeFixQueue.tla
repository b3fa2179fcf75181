------------------------ MODULE CCLockfreeFixQueue ------------------------
(***************************************************************************)
(* CCLockfreeFixQueue<T, defaultfixsize> (cclockfreefixqueue.h): a bounded *)
(* ring of defaultfixsize cells shared by any number of threads.           *)
(*                                                                         *)
(* Four counters drive it.  m_nSpace and m_nCanRead are semaphores taken   *)
(* by a fetch-and-decrement that is undone when the old value was not      *)
(* positive; m_nPreWrite and m_nRead hand out tickets, and ticket t uses   *)
(* cell t % defaultfixsize.  A cell's flag m_cWrite is the only            *)
(* synchronisation between the writer and the reader of that cell.         *)
(*                                                                         *)
(* One action is one access to shared memory.  The two semaphores are      *)
(* uint32_t read through a cast to int32_t, so they are kept as integers.  *)
(* The ticket counters wrap at 2^32, a multiple of defaultfixsize (a       *)
(* power of two, static_assert at line 17), so t % defaultfixsize is the   *)
(* same for the unbounded ticket, which also names the payload of a push.  *)
(***************************************************************************)
EXTENDS Integers, FiniteSets

CONSTANTS
  Pushers,          \* threads that call Push
  Poppers,          \* threads that call Pop
  defaultfixsize,   \* cells of the ring
  MaxPush           \* bound: Push is called while fewer tickets are issued

ASSUME SizeAssumption == defaultfixsize \in Nat \ {0}
ASSUME ThreadsAssumption ==
  /\ IsFiniteSet(Pushers)
  /\ IsFiniteSet(Poppers)
  /\ Pushers \cap Poppers = {}
ASSUME MaxPushAssumption == MaxPush \in Nat

VARIABLES
  m_nSpace,      \* free cells not promised to a push
  m_nCanRead,    \* completed pushes not promised to a pop
  m_nPreWrite,   \* next write ticket
  m_nRead,       \* next read ticket
  m_cWrite,      \* per cell: the written flag
  m_data,        \* per cell: the payload
  pc,            \* per thread: the next access it makes
  ticket,        \* per thread: the ticket it holds
  delivered      \* history: <<read ticket, payload>> of every completed read

vars == <<m_nSpace, m_nCanRead, m_nPreWrite, m_nRead, m_cWrite, m_data,
          pc, ticket, delivered>>

Threads == Pushers \cup Poppers
Cells == 0 .. defaultfixsize - 1
Cell(t) == t % defaultfixsize

(* The payload of a cell no push has reached: the constructor's memset.    *)
NoData == -1

PushLabels == {"pushDone", "pushTicket", "pushSpin", "pushData", "pushFlag",
               "pushCount", "pushUndo"}
PopLabels == {"popDone", "popTake", "popTicket", "popSpin", "popData",
              "popClear", "popSpace", "popUndo"}

Goto(t, label) == pc' = [pc EXCEPT ![t] = label]

---------------------------------------------------------------------------

(* The constructor. *)
Init ==
  /\ m_nSpace = defaultfixsize
  /\ m_nCanRead = 0
  /\ m_nPreWrite = 0
  /\ m_nRead = 0
  /\ m_cWrite = [c \in Cells |-> FALSE]
  /\ m_data = [c \in Cells |-> NoData]
  /\ pc = [t \in Threads |-> IF t \in Pushers THEN "pushDone" ELSE "popDone"]
  /\ ticket = [t \in Threads |-> 0]
  /\ delivered = {}

(* Mutant: off by one, a space of zero is taken too. *)
PushTakeZero(p) ==
  /\ pc[p] = "pushDone"
  /\ m_nPreWrite < MaxPush
  /\ m_nSpace' = m_nSpace - 1
  /\ Goto(p, IF m_nSpace >= 0 THEN "pushTicket" ELSE "pushUndo")
  /\ UNCHANGED <<m_nCanRead, m_nPreWrite, m_nRead, m_cWrite, m_data, ticket,
                 delivered>>

(* Push, line 28: take one unit of space, or find none. *)
PushTake(p) ==
  /\ pc[p] = "pushDone"
  /\ m_nPreWrite < MaxPush
  /\ m_nSpace' = m_nSpace - 1
  /\ Goto(p, IF m_nSpace > 0 THEN "pushTicket" ELSE "pushUndo")
  /\ UNCHANGED <<m_nCanRead, m_nPreWrite, m_nRead, m_cWrite, m_data, ticket,
                 delivered>>

(* Push, line 31: draw the write ticket. *)
PushTicket(p) ==
  /\ pc[p] = "pushTicket"
  /\ ticket' = [ticket EXCEPT ![p] = m_nPreWrite]
  /\ m_nPreWrite' = m_nPreWrite + 1
  /\ Goto(p, "pushSpin")
  /\ UNCHANGED <<m_nSpace, m_nCanRead, m_nRead, m_cWrite, m_data, delivered>>

(* Mutant: the push trusts the space semaphore and does not wait. *)
PushSpinNot(p) ==
  /\ pc[p] = "pushSpin"
  /\ Goto(p, "pushData")
  /\ UNCHANGED <<m_nSpace, m_nCanRead, m_nPreWrite, m_nRead, m_cWrite, m_data,
                 ticket, delivered>>

(* Push, lines 32-34: the loop that waits for the cell's flag to clear. *)
PushSpin(p) ==
  /\ pc[p] = "pushSpin"
  /\ ~ m_cWrite[Cell(ticket[p])]
  /\ Goto(p, "pushData")
  /\ UNCHANGED <<m_nSpace, m_nCanRead, m_nPreWrite, m_nRead, m_cWrite, m_data,
                 ticket, delivered>>

(* Push, line 35: store the payload. *)
PushData(p) ==
  /\ pc[p] = "pushData"
  /\ m_data' = [m_data EXCEPT ![Cell(ticket[p])] = ticket[p]]
  /\ Goto(p, "pushFlag")
  /\ UNCHANGED <<m_nSpace, m_nCanRead, m_nPreWrite, m_nRead, m_cWrite, ticket,
                 delivered>>

(* Mutant: the flag is not set. *)
PushFlagNot(p) ==
  /\ pc[p] = "pushFlag"
  /\ Goto(p, "pushCount")
  /\ UNCHANGED <<m_nSpace, m_nCanRead, m_nPreWrite, m_nRead, m_cWrite, m_data,
                 ticket, delivered>>

(* Push, line 36: publish the cell. *)
PushFlag(p) ==
  /\ pc[p] = "pushFlag"
  /\ m_cWrite' = [m_cWrite EXCEPT ![Cell(ticket[p])] = TRUE]
  /\ Goto(p, "pushCount")
  /\ UNCHANGED <<m_nSpace, m_nCanRead, m_nPreWrite, m_nRead, m_data, ticket,
                 delivered>>

(* Push, lines 37-38: let one pop through and return true. *)
PushCount(p) ==
  /\ pc[p] = "pushCount"
  /\ m_nCanRead' = m_nCanRead + 1
  /\ Goto(p, "pushDone")
  /\ UNCHANGED <<m_nSpace, m_nPreWrite, m_nRead, m_cWrite, m_data, ticket,
                 delivered>>

(* Mutant: a refused push keeps the unit of space. *)
PushUndoNot(p) ==
  /\ pc[p] = "pushUndo"
  /\ Goto(p, "pushDone")
  /\ UNCHANGED <<m_nSpace, m_nCanRead, m_nPreWrite, m_nRead, m_cWrite, m_data,
                 ticket, delivered>>

(* Push, lines 40-41: give the unit of space back and return false. *)
PushUndo(p) ==
  /\ pc[p] = "pushUndo"
  /\ m_nSpace' = m_nSpace + 1
  /\ Goto(p, "pushDone")
  /\ UNCHANGED <<m_nCanRead, m_nPreWrite, m_nRead, m_cWrite, m_data, ticket,
                 delivered>>

(* Pop, lines 44-46: return false at once when the plain read shows none. *)
PopCheck(c) ==
  /\ pc[c] = "popDone"
  /\ m_nCanRead > 0
  /\ Goto(c, "popTake")
  /\ UNCHANGED <<m_nSpace, m_nCanRead, m_nPreWrite, m_nRead, m_cWrite, m_data,
                 ticket, delivered>>

(* Pop, lines 47-48: take one readable unit, or find none. *)
PopTake(c) ==
  /\ pc[c] = "popTake"
  /\ m_nCanRead' = m_nCanRead - 1
  /\ Goto(c, IF m_nCanRead > 0 THEN "popTicket" ELSE "popUndo")
  /\ UNCHANGED <<m_nSpace, m_nPreWrite, m_nRead, m_cWrite, m_data, ticket,
                 delivered>>

(* Pop, line 50: draw the read ticket. *)
PopTicket(c) ==
  /\ pc[c] = "popTicket"
  /\ ticket' = [ticket EXCEPT ![c] = m_nRead]
  /\ m_nRead' = m_nRead + 1
  /\ Goto(c, "popSpin")
  /\ UNCHANGED <<m_nSpace, m_nCanRead, m_nPreWrite, m_cWrite, m_data,
                 delivered>>

(* Pop, lines 51-53: the loop that waits for the cell's flag. *)
PopSpin(c) ==
  /\ pc[c] = "popSpin"
  /\ m_cWrite[Cell(ticket[c])]
  /\ Goto(c, "popData")
  /\ UNCHANGED <<m_nSpace, m_nCanRead, m_nPreWrite, m_nRead, m_cWrite, m_data,
                 ticket, delivered>>

(* Pop, line 54: load the payload. *)
PopData(c) ==
  /\ pc[c] = "popData"
  /\ delivered' = delivered \cup {<<ticket[c], m_data[Cell(ticket[c])]>>}
  /\ Goto(c, "popClear")
  /\ UNCHANGED <<m_nSpace, m_nCanRead, m_nPreWrite, m_nRead, m_cWrite, m_data,
                 ticket>>

(* Mutant: the flag is not cleared. *)
PopClearNot(c) ==
  /\ pc[c] = "popClear"
  /\ Goto(c, "popSpace")
  /\ UNCHANGED <<m_nSpace, m_nCanRead, m_nPreWrite, m_nRead, m_cWrite, m_data,
                 ticket, delivered>>

(* Pop, line 55: release the cell. *)
PopClear(c) ==
  /\ pc[c] = "popClear"
  /\ m_cWrite' = [m_cWrite EXCEPT ![Cell(ticket[c])] = FALSE]
  /\ Goto(c, "popSpace")
  /\ UNCHANGED <<m_nSpace, m_nCanRead, m_nPreWrite, m_nRead, m_data, ticket,
                 delivered>>

(* Pop, lines 56-57: give one unit of space back and return true. *)
PopSpace(c) ==
  /\ pc[c] = "popSpace"
  /\ m_nSpace' = m_nSpace + 1
  /\ Goto(c, "popDone")
  /\ UNCHANGED <<m_nCanRead, m_nPreWrite, m_nRead, m_cWrite, m_data, ticket,
                 delivered>>

(* Mutant: the undo goes to the ticket counter. *)
PopUndoTicket(c) ==
  /\ pc[c] = "popUndo"
  /\ m_nRead' = m_nRead - 1
  /\ Goto(c, "popDone")
  /\ UNCHANGED <<m_nSpace, m_nCanRead, m_nPreWrite, m_cWrite, m_data, ticket,
                 delivered>>

(* Pop, lines 59-60: give the readable unit back and return false. *)
PopUndo(c) ==
  /\ pc[c] = "popUndo"
  /\ m_nCanRead' = m_nCanRead + 1
  /\ Goto(c, "popDone")
  /\ UNCHANGED <<m_nSpace, m_nPreWrite, m_nRead, m_cWrite, m_data, ticket,
                 delivered>>

(* The rest of a call once it has begun. *)
PushStep(p) ==
  \/ PushTicket(p)
  \/ PushSpin(p)
  \/ PushData(p)
  \/ PushFlag(p)
  \/ PushCount(p)
  \/ PushUndo(p)

PopStep(c) ==
  \/ PopTake(c)
  \/ PopTicket(c)
  \/ PopSpin(c)
  \/ PopData(c)
  \/ PopClear(c)
  \/ PopSpace(c)
  \/ PopUndo(c)

Next ==
  \/ \E p \in Pushers : PushTake(p) \/ PushStep(p)
  \/ \E c \in Poppers : PopCheck(c) \/ PopStep(c)

Spec == Init /\ [][Next]_vars

(* Threads are preempted, never stopped: a call that has begun goes on.    *)
(* Nothing obliges a thread to call again. *)
FairSpec ==
  /\ Spec
  /\ \A p \in Pushers : WF_vars(PushStep(p))
  /\ \A c \in Poppers : WF_vars(PopStep(c))

---------------------------------------------------------------------------

(* The counters are integers, tickets are natural numbers, and a thread's  *)
(* label is one of the operation it runs. *)
TypeOK ==
  /\ m_nSpace \in Int
  /\ m_nCanRead \in Int
  /\ m_nPreWrite \in Nat
  /\ m_nRead \in Nat
  /\ m_cWrite \in [Cells -> BOOLEAN]
  /\ m_data \in [Cells -> Int]
  /\ pc \in [Threads -> PushLabels \cup PopLabels]
  /\ \A p \in Pushers : pc[p] \in PushLabels
  /\ \A c \in Poppers : pc[c] \in PopLabels
  /\ ticket \in [Threads -> Nat]
  /\ delivered \subseteq Nat \X Int

(* How many threads are at one of these labels. *)
CountAt(labels) == Cardinality({t \in Threads : pc[t] \in labels})

PushInFlight == {"pushSpin", "pushData", "pushFlag", "pushCount"}
PopInFlight == {"popSpin", "popData", "popClear", "popSpace"}

(* Neither semaphore leaks a unit, whatever the interleaving of takes,     *)
(* undos and completions: space plus promises plus outstanding tickets is  *)
(* the size of the ring (lines 28, 40, 56), and every write ticket is      *)
(* readable, promised, read or still being written (lines 37, 47, 59). *)
Accounts ==
  /\ m_nSpace + CountAt({"pushUndo"}) + CountAt({"pushTicket"})
       + CountAt(PopInFlight) + m_nPreWrite - m_nRead = defaultfixsize
  /\ m_nCanRead + CountAt({"popUndo"}) + CountAt({"popTicket"})
       + CountAt(PushInFlight) + m_nRead = m_nPreWrite

(* Reads never overtake writes and writes never lap reads: as many write   *)
(* tickets as there are read tickets belong to completed pushes, and the   *)
(* tickets between a pop in flight and the newest push fit in the ring. *)
TicketsBounded ==
  /\ m_nRead + CountAt({"popTicket"}) + CountAt(PushInFlight) <= m_nPreWrite
  /\ m_nPreWrite + CountAt({"pushTicket"}) + CountAt(PopInFlight)
       <= m_nRead + defaultfixsize

(* FIFO and exactly once: the pop with read ticket t returns the payload   *)
(* of the push with write ticket t. *)
DeliveredInOrder == \A d \in delivered : d[1] = d[2]

(* Exactly once: no payload is returned by two pops (lines 43-61).  It is  *)
(* the count the harness takes of each message, received as often as sent. *)
DeliveredOnce == \A d, e \in delivered : d[2] = e[2] => d = e

(* A payload is overwritten (line 35) only after some pop has returned it. *)
OverwriteOnlyRead ==
  [][\A c \in Cells : m_data'[c] # m_data[c] =>
       \/ m_data[c] = NoData
       \/ \E d \in delivered : d[2] = m_data[c]]_vars

(* A push that has drawn a ticket returns: the spin of lines 32-34 ends. *)
PushReturns ==
  \A p \in Pushers : (pc[p] = "pushSpin") ~> (pc[p] = "pushDone")

(* A pop that has drawn a ticket returns: the spin of lines 51-53 ends. *)
PopReturns ==
  \A c \in Poppers : (pc[c] = "popSpin") ~> (pc[c] = "popDone")
===========================================================================
