---------------------------- MODULE MicroQueue ----------------------------
(***************************************************************************)
(* The array m_queue of micro queues of CCLockfreeQueue                    *)
(* (cclockfreequeue.h): a chain of rings per micro queue, entered by       *)
(* pushes and pops that already hold an index.                             *)
(*                                                                         *)
(* Index n goes to micro queue n % ThreadWriteIndexModeIndex.  A push      *)
(* stores into the ring m_pWrite points to; the push whose index comes     *)
(* right after that ring's window either finds the ring's older half fully *)
(* read and slides the window over it, or closes the ring (m_bNoWrite) and *)
(* links one of twice the size behind it.  A pop works on the ring m_pRead *)
(* points to; the pop whose index comes right after the window of a closed *)
(* ring waits until the ring is drained, moves m_pRead on and frees the    *)
(* pool.                                                                   *)
(*                                                                         *)
(* One action is one access to memory other threads write.  Accesses are   *)
(* sequentially consistent: the code runs on x86 (it includes emmintrin.h),*)
(* every shared field is volatile or atomic, and every operation starts    *)
(* with a locked instruction.  How indices are handed out is the business  *)
(* of CCLockfreeQueue; here it is abstracted to its promise: pushes and    *)
(* pops draw consecutive indices and no pop draws an index before a push   *)
(* has drawn it.                                                           *)
(*                                                                         *)
(* Indices are kept as unbounded tickets; Word(n) is the uint32_t the code *)
(* holds.  A push's ticket also names its payload.                         *)
(***************************************************************************)
EXTENDS Circle, Sequences, FiniteSets

CONSTANTS
  Pushers,                     \* threads that call Push
  Poppers,                     \* threads that call Pop
  CCLockfreeQueueStartIndex,   \* the first index
  CirclePointNumber,           \* slots for rings in a micro queue
  MaxPush                      \* bound: number of indices drawn by pushes

ASSUME ThreadsAssumption == Pushers \cap Poppers = {}
ASSUME StartAssumption ==
  /\ CCLockfreeQueueStartIndex \in Nat
  /\ CCLockfreeQueueStartIndex % ThreadWriteIndexModeIndex = 0
ASSUME SlotsAssumption == CirclePointNumber \in Nat \ {0}
ASSUME MaxPushAssumption == MaxPush \in Nat

VARIABLES
  m_nPreWriteIndex,  \* next index a push draws
  m_nReadIndex,      \* next index a pop draws
  m_queue,           \* per micro queue: its pointers and counters
  heap,              \* per micro queue: the rings allocated, in order
  m_pPool,           \* per micro queue: the pools of those rings
  pc,                \* per thread: the next access it makes
  loc,               \* per thread: the locals of its call
  delivered          \* history: <<index, payload>> of every completed read

indexVars == <<m_nPreWriteIndex, m_nReadIndex>>
vars == <<m_nPreWriteIndex, m_nReadIndex, m_queue, heap, m_pPool, pc, loc,
          delivered>>

Threads == Pushers \cup Poppers
Micros == 0 .. ThreadWriteIndexModeIndex - 1
Slots == 0 .. CirclePointNumber - 1

PushLabels == {"pushDone", "pushEnter", "pushLoad", "pushBegin", "pushScan",
               "pushAdvance", "pushNoWrite", "pushAwait", "pushNext",
               "pushGrow", "pushStore", "pushLink", "pushCount",
               "pushRetry", "pushData", "pushSign"}
PopLabels == {"popDone", "popEnter", "popBegin", "popAsk", "popAwait",
              "popNext", "popBump", "popTurn", "popRelease", "popRetry",
              "popSpin", "popData", "popClear"}

(* Locals.  index: nPreWriteIndex or nRead.  own: pCircle or pReadCircle.  *)
(* this: the ring PushPosition or PopPosition runs on.  begin:             *)
(* nGetBeginIndex.  scan: the loop counter.  next: nextCircle, or the new  *)
(* m_nReadCircle.  nested: in the PushPosition call of line 202.           *)
NoCall == [index |-> 0, own |-> 1, this |-> 1, begin |-> 0, scan |-> 0,
           next |-> 0, nested |-> FALSE]

MicroOf(n) == Word(n) % ThreadWriteIndexModeIndex
Index(t) == loc[t].index
Micro(t) == MicroOf(Index(t))

(* The ring a thread works on, its pool, and how far its index is from the *)
(* begin of the ring's window (nDis). *)
This(t) == heap[Micro(t)][loc[t].this]
Pool(t) == m_pPool[Micro(t)][loc[t].this]
Distance(t) == Minus(Word(Index(t)), This(t).m_nBeginIndex)

Goto(t, label) == pc' = [pc EXCEPT ![t] = label]

(* The end of a call: its locals are gone. *)
Return(t, label) ==
  /\ Goto(t, label)
  /\ loc' = [loc EXCEPT ![t] = NoCall]

---------------------------------------------------------------------------

(* InitMicroQueue for every micro queue. *)
Init ==
  /\ m_nPreWriteIndex = CCLockfreeQueueStartIndex
  /\ m_nReadIndex = CCLockfreeQueueStartIndex
  /\ m_queue = [q \in Micros |->
                 [m_nWriteCircle |-> 0, m_nReadCircle |-> 0,
                  m_pWrite |-> 1, m_pRead |-> 1,
                  m_pCircle |-> [s \in Slots |-> IF s = 0 THEN 1 ELSE 0]]]
  /\ heap = [q \in Micros |->
              <<CreateCircle(CCLockfreeQueueStartIndex + q)>>]
  /\ m_pPool = [q \in Micros |->
                 <<NewPool(CreateCircle(CCLockfreeQueueStartIndex + q))>>]
  /\ pc = [t \in Threads |-> IF t \in Pushers THEN "pushDone" ELSE "popDone"]
  /\ loc = [t \in Threads |-> NoCall]
  /\ delivered = {}

(***************************************************************************)
(* PushMicroQueue and PushPosition.                                        *)
(***************************************************************************)

(* A push that drew index n calls PushMicroQueue. *)
EnterPush(p, n) ==
  /\ pc[p] = "pushDone"
  /\ loc' = [loc EXCEPT ![p] = [NoCall EXCEPT !.index = n]]
  /\ Goto(p, "pushEnter")
  /\ UNCHANGED <<m_queue, heap, m_pPool, delivered>>

(* Line 187, and lines 209-212 of the loop: pCircle = m_pWrite. *)
PushLoadOwn(p) ==
  /\ pc[p] \in {"pushEnter", "pushRetry"}
  /\ loc' = [loc EXCEPT ![p].own = m_queue[Micro(p)].m_pWrite]
  /\ Goto(p, "pushLoad")
  /\ UNCHANGED <<indexVars, m_queue, heap, m_pPool, delivered>>

(* Line 191: the call goes through m_pWrite, loaded again. *)
PushLoadThis(p) ==
  /\ pc[p] = "pushLoad"
  /\ loc' = [loc EXCEPT ![p].this = m_queue[Micro(p)].m_pWrite]
  /\ Goto(p, "pushBegin")
  /\ UNCHANGED <<indexVars, m_queue, heap, m_pPool, delivered>>

(* Mutant: any index past the window, not only the next one, scans. *)
PushLoadBeginAtLeast(p) ==
  /\ pc[p] = "pushBegin"
  /\ loc' = [loc EXCEPT ![p].begin = This(p).m_nBeginIndex, ![p].scan = 0]
  /\ Goto(p, IF Distance(p) < CheckTotalSize(This(p)) THEN "pushData"
                                                      ELSE "pushScan")
  /\ UNCHANGED <<indexVars, m_queue, heap, m_pPool, delivered>>

(* Lines 60-66: load m_nBeginIndex and compare the distance. *)
PushLoadBegin(p) ==
  /\ pc[p] = "pushBegin"
  /\ loc' = [loc EXCEPT ![p].begin = This(p).m_nBeginIndex, ![p].scan = 0]
  /\ \/ Distance(p) < CheckTotalSize(This(p)) /\ Goto(p, "pushData")
     \/ Distance(p) = CheckTotalSize(This(p)) /\ Goto(p, "pushScan")
     \/ /\ Distance(p) > CheckTotalSize(This(p))
        /\ Goto(p, IF loc[p].nested THEN "pushDone" ELSE "pushRetry")
  /\ UNCHANGED <<indexVars, m_queue, heap, m_pPool, delivered>>

(* Mutant: the scan looks at the lap of a cell, not at its read bit. *)
PushScanLap(p) ==
  /\ pc[p] = "pushScan"
  /\ LET k == loc[p].scan
         sign == Pool(p)[ScanCell(This(p), Index(p), k)].m_nWrite
         passed == sign - (sign % 2) = ScanSign(This(p), Index(p), k)
     IN /\ loc' = [loc EXCEPT ![p].scan = IF passed THEN k + 1 ELSE k]
        /\ Goto(p, IF ~ passed THEN "pushNoWrite"
                   ELSE IF k + 1 = PerSize(This(p)) THEN "pushAdvance"
                   ELSE "pushScan")
  /\ UNCHANGED <<indexVars, m_queue, heap, m_pPool, delivered>>

(* Lines 73-75: is the next cell of the older half read? *)
PushScan(p) ==
  /\ pc[p] = "pushScan"
  /\ LET k == loc[p].scan
         sign == Pool(p)[ScanCell(This(p), Index(p), k)].m_nWrite
     IN \/ /\ sign = ScanSign(This(p), Index(p), k)
           /\ loc' = [loc EXCEPT ![p].scan = k + 1]
           /\ Goto(p, IF k + 1 = PerSize(This(p)) THEN "pushAdvance"
                                                   ELSE "pushScan")
        \/ /\ sign # ScanSign(This(p), Index(p), k)
           /\ Goto(p, "pushNoWrite")
           /\ UNCHANGED loc
  /\ UNCHANGED <<indexVars, m_queue, heap, m_pPool, delivered>>

(* Line 94: slide the window over the older half. *)
PushAdvance(p) ==
  /\ pc[p] = "pushAdvance"
  /\ heap' = [heap EXCEPT ![Micro(p)][loc[p].this].m_nBeginIndex =
                AdvancedBegin(This(p), loc[p].begin)]
  /\ Goto(p, "pushData")
  /\ UNCHANGED <<indexVars, m_queue, m_pPool, loc, delivered>>

(* Line 76: close the ring. *)
PushNoWrite(p) ==
  /\ pc[p] = "pushNoWrite"
  /\ heap' = [heap EXCEPT ![Micro(p)][loc[p].this].m_bNoWrite = TRUE]
  /\ Goto(p, "pushAwait")
  /\ UNCHANGED <<indexVars, m_queue, m_pPool, loc, delivered>>

(* Mutant: the ring is replaced without waiting for its cells. *)
PushAwaitNothing(p) ==
  /\ pc[p] = "pushAwait"
  /\ Goto(p, IF loc[p].nested THEN "pushDone" ELSE "pushNext")
  /\ UNCHANGED <<indexVars, m_queue, heap, m_pPool, loc, delivered>>

(* Lines 78-91: wait, cell by cell, for the rest of the older half and for *)
(* the other half to be non-zero. *)
PushAwait(p) ==
  /\ pc[p] = "pushAwait"
  /\ LET k == loc[p].scan IN
       /\ Pool(p)[ScanCell(This(p), Index(p), k)].m_nWrite # 0
       /\ loc' = [loc EXCEPT ![p].scan = k + 1]
       /\ \/ k + 1 < This(p).m_nTotalSize /\ Goto(p, "pushAwait")
          \/ /\ k + 1 = This(p).m_nTotalSize
             /\ Goto(p, IF loc[p].nested THEN "pushDone" ELSE "pushNext")
  /\ UNCHANGED <<indexVars, m_queue, heap, m_pPool, delivered>>

(* Mutant: m_nWriteCircle is incremented in place, before the slot is set. *)
PushNextEarly(p) ==
  /\ pc[p] = "pushNext"
  /\ loc' = [loc EXCEPT ![p].next = m_queue[Micro(p)].m_nWriteCircle + 1]
  /\ m_queue' = [m_queue EXCEPT ![Micro(p)].m_nWriteCircle = @ + 1]
  /\ Goto(p, "pushGrow")
  /\ UNCHANGED <<indexVars, heap, m_pPool, delivered>>

(* Line 196: nextCircle = m_nWriteCircle + 1. *)
PushNext(p) ==
  /\ pc[p] = "pushNext"
  /\ loc' = [loc EXCEPT ![p].next = m_queue[Micro(p)].m_nWriteCircle + 1]
  /\ Goto(p, "pushGrow")
  /\ UNCHANGED <<indexVars, m_queue, heap, m_pPool, delivered>>

(* Line 197: make the next ring from pCircle, which line 187 or 212 loaded *)
(* before the ring that returned 1 was looked up. *)
PushGrow(p) ==
  /\ pc[p] = "pushGrow"
  /\ LET q == Micro(p)
         ring == CreateNextCircle(heap[q][loc[p].own])
     IN /\ heap' = [heap EXCEPT ![q] = Append(@, ring)]
        /\ m_pPool' = [m_pPool EXCEPT ![q] = Append(@, NewPool(ring))]
        /\ loc' = [loc EXCEPT ![p].own = Len(heap[q]) + 1]
  /\ Goto(p, "pushStore")
  /\ UNCHANGED <<indexVars, m_queue, delivered>>

(* Line 198: store the ring in its slot.  A slot past the array is         *)
(* undefined behaviour; SlotsSound says the guard never blocks. *)
PushStore(p) ==
  /\ pc[p] = "pushStore"
  /\ loc[p].next \in Slots
  /\ m_queue' = [m_queue EXCEPT ![Micro(p)].m_pCircle[loc[p].next] =
                   loc[p].own]
  /\ Goto(p, "pushLink")
  /\ UNCHANGED <<indexVars, heap, m_pPool, loc, delivered>>

(* Line 200: m_pWrite = pCircle. *)
PushLink(p) ==
  /\ pc[p] = "pushLink"
  /\ m_queue' = [m_queue EXCEPT ![Micro(p)].m_pWrite = loc[p].own]
  /\ Goto(p, "pushCount")
  /\ UNCHANGED <<indexVars, heap, m_pPool, loc, delivered>>

(* Mutant: m_nWriteCircle is not updated. *)
PushCountNot(p) ==
  /\ pc[p] = "pushCount"
  /\ loc' = [loc EXCEPT ![p].this = loc[p].own, ![p].nested = TRUE]
  /\ Goto(p, "pushBegin")
  /\ UNCHANGED <<indexVars, m_queue, heap, m_pPool, delivered>>

(* Lines 201-203: m_nWriteCircle = nextCircle, then PushPosition on the    *)
(* new ring, whose result is ignored. *)
PushCount(p) ==
  /\ pc[p] = "pushCount"
  /\ m_queue' = [m_queue EXCEPT ![Micro(p)].m_nWriteCircle = loc[p].next]
  /\ loc' = [loc EXCEPT ![p].this = loc[p].own, ![p].nested = TRUE]
  /\ Goto(p, "pushBegin")
  /\ UNCHANGED <<indexVars, heap, m_pPool, delivered>>

(* Line 103: store the payload. *)
PushData(p) ==
  /\ pc[p] = "pushData"
  /\ m_pPool' = [m_pPool EXCEPT
       ![Micro(p)][loc[p].this][CellOf(This(p), Index(p))].m_pData =
         Index(p)]
  /\ Goto(p, "pushSign")
  /\ UNCHANGED <<indexVars, m_queue, heap, loc, delivered>>

(* Lines 104-105: publish the cell and return. *)
PushSign(p) ==
  /\ pc[p] = "pushSign"
  /\ m_pPool' = [m_pPool EXCEPT
       ![Micro(p)][loc[p].this][CellOf(This(p), Index(p))].m_nWrite =
         WrittenSign(This(p), Index(p))]
  /\ Return(p, "pushDone")
  /\ UNCHANGED <<indexVars, m_queue, heap, delivered>>

(***************************************************************************)
(* PopMicroQueue and PopPosition.                                          *)
(***************************************************************************)

(* A pop that drew index n calls PopMicroQueue. *)
EnterPop(c, n) ==
  /\ pc[c] = "popDone"
  /\ loc' = [loc EXCEPT ![c] = [NoCall EXCEPT !.index = n]]
  /\ Goto(c, "popEnter")
  /\ UNCHANGED <<m_queue, heap, m_pPool, delivered>>

(* Lines 217, 231 and 238-241: pReadCircle = m_pRead. *)
PopLoadOwn(c) ==
  /\ pc[c] \in {"popEnter", "popRetry"}
  /\ loc' = [loc EXCEPT ![c].this = m_queue[Micro(c)].m_pRead]
  /\ Goto(c, "popBegin")
  /\ UNCHANGED <<indexVars, m_queue, heap, m_pPool, delivered>>

(* Lines 108-114: load m_nBeginIndex and compare the distance. *)
PopLoadBegin(c) ==
  /\ pc[c] = "popBegin"
  /\ loc' = [loc EXCEPT ![c].begin = This(c).m_nBeginIndex, ![c].scan = 0]
  /\ \/ Distance(c) < CheckTotalSize(This(c)) /\ Goto(c, "popSpin")
     \/ Distance(c) = CheckTotalSize(This(c)) /\ Goto(c, "popAsk")
     \/ Distance(c) > CheckTotalSize(This(c)) /\ Goto(c, "popRetry")
  /\ UNCHANGED <<indexVars, m_queue, heap, m_pPool, delivered>>

(* Lines 115 and 133: is the ring closed? *)
PopAsk(c) ==
  /\ pc[c] = "popAsk"
  /\ Goto(c, IF This(c).m_bNoWrite THEN "popAwait" ELSE "popRetry")
  /\ UNCHANGED <<indexVars, m_queue, heap, m_pPool, loc, delivered>>

(* Mutant: only the older half of the ring is drained. *)
PopAwaitHalf(c) ==
  /\ pc[c] = "popAwait"
  /\ LET k == loc[c].scan IN
       /\ Pool(c)[ScanCell(This(c), Index(c), k)].m_nWrite
            = ScanSign(This(c), Index(c), k)
       /\ loc' = [loc EXCEPT ![c].scan = k + 1]
       /\ Goto(c, IF k + 1 = PerSize(This(c)) THEN "popNext" ELSE "popAwait")
  /\ UNCHANGED <<indexVars, m_queue, heap, m_pPool, delivered>>

(* Lines 121-131: wait, cell by cell, for both halves to be read. *)
PopAwait(c) ==
  /\ pc[c] = "popAwait"
  /\ LET k == loc[c].scan IN
       /\ Pool(c)[ScanCell(This(c), Index(c), k)].m_nWrite
            = ScanSign(This(c), Index(c), k)
       /\ loc' = [loc EXCEPT ![c].scan = k + 1]
       /\ Goto(c, IF k + 1 = This(c).m_nTotalSize THEN "popNext"
                                                  ELSE "popAwait")
  /\ UNCHANGED <<indexVars, m_queue, heap, m_pPool, delivered>>

(* Lines 226-228: wait for a next ring. *)
PopNext(c) ==
  /\ pc[c] = "popNext"
  /\ m_queue[Micro(c)].m_nReadCircle # m_queue[Micro(c)].m_nWriteCircle
  /\ Goto(c, "popBump")
  /\ UNCHANGED <<indexVars, m_queue, heap, m_pPool, loc, delivered>>

(* Line 229: ++m_nReadCircle. *)
PopBump(c) ==
  /\ pc[c] = "popBump"
  /\ m_queue' = [m_queue EXCEPT ![Micro(c)].m_nReadCircle = @ + 1]
  /\ loc' = [loc EXCEPT ![c].next = m_queue[Micro(c)].m_nReadCircle + 1]
  /\ Goto(c, "popTurn")
  /\ UNCHANGED <<indexVars, heap, m_pPool, delivered>>

(* Line 229: m_pRead = m_pCircle[m_nReadCircle].  Following a slot nobody  *)
(* filled is undefined behaviour; SlotsSound says the guard never blocks. *)
PopTurn(c) ==
  /\ pc[c] = "popTurn"
  /\ LET q == Micro(c) IN
       /\ loc[c].next \in Slots
       /\ m_queue[q].m_pCircle[loc[c].next] # 0
       /\ m_queue' = [m_queue EXCEPT ![q].m_pRead =
                      m_queue[q].m_pCircle[loc[c].next]]
  /\ Goto(c, "popRelease")
  /\ UNCHANGED <<indexVars, heap, m_pPool, loc, delivered>>

(* Line 230: ReleasePool. *)
PopRelease(c) ==
  /\ pc[c] = "popRelease"
  /\ heap' = [heap EXCEPT ![Micro(c)][loc[c].this].m_bReleased = TRUE]
  /\ Goto(c, "popRetry")
  /\ UNCHANGED <<indexVars, m_queue, m_pPool, loc, delivered>>

(* Mutant: the pop waits for any sign, not for the one of its index. *)
PopSpinAny(c) ==
  /\ pc[c] = "popSpin"
  /\ Pool(c)[CellOf(This(c), Index(c))].m_nWrite # 0
  /\ Goto(c, "popData")
  /\ UNCHANGED <<indexVars, m_queue, heap, m_pPool, loc, delivered>>

(* Lines 141-143: wait for the payload of this very index. *)
PopSpin(c) ==
  /\ pc[c] = "popSpin"
  /\ Pool(c)[CellOf(This(c), Index(c))].m_nWrite
       = WrittenSign(This(c), Index(c))
  /\ Goto(c, "popData")
  /\ UNCHANGED <<indexVars, m_queue, heap, m_pPool, loc, delivered>>

(* Line 144: load the payload. *)
PopData(c) ==
  /\ pc[c] = "popData"
  /\ delivered' = delivered \cup
       {<<Index(c), Pool(c)[CellOf(This(c), Index(c))].m_pData>>}
  /\ Goto(c, "popClear")
  /\ UNCHANGED <<indexVars, m_queue, heap, m_pPool, loc>>

(* Lines 145-146: mark the cell read and return. *)
PopClear(c) ==
  /\ pc[c] = "popClear"
  /\ m_pPool' = [m_pPool EXCEPT
       ![Micro(c)][loc[c].this][CellOf(This(c), Index(c))].m_nWrite =
         ReadSign(This(c), Index(c))]
  /\ Return(c, "popDone")
  /\ UNCHANGED <<indexVars, m_queue, heap, delivered>>

---------------------------------------------------------------------------

(* Steps of a call that is inside the micro queue. *)
PushStep(p) ==
  \/ PushLoadOwn(p) \/ PushLoadThis(p) \/ PushLoadBegin(p)
  \/ PushScan(p) \/ PushAdvance(p) \/ PushNoWrite(p) \/ PushAwait(p)
  \/ PushNext(p) \/ PushGrow(p) \/ PushStore(p)
  \/ PushLink(p) \/ PushCount(p)
  \/ PushData(p) \/ PushSign(p)

PopStep(c) ==
  \/ PopLoadOwn(c) \/ PopLoadBegin(c) \/ PopAsk(c) \/ PopAwait(c)
  \/ PopNext(c) \/ PopBump(c) \/ PopTurn(c) \/ PopRelease(c)
  \/ PopSpin(c) \/ PopData(c) \/ PopClear(c)

(* The index layer's promise. *)
DrawPush(p) ==
  /\ m_nPreWriteIndex < CCLockfreeQueueStartIndex + MaxPush
  /\ EnterPush(p, m_nPreWriteIndex)
  /\ m_nPreWriteIndex' = m_nPreWriteIndex + 1
  /\ UNCHANGED m_nReadIndex

DrawPop(c) ==
  /\ m_nReadIndex < m_nPreWriteIndex
  /\ EnterPop(c, m_nReadIndex)
  /\ m_nReadIndex' = m_nReadIndex + 1
  /\ UNCHANGED m_nPreWriteIndex

Next ==
  \/ \E p \in Pushers : DrawPush(p) \/ PushStep(p)
  \/ \E c \in Poppers : DrawPop(c) \/ PopStep(c)

Spec == Init /\ [][Next]_vars

(* Threads are preempted, never stopped: each one inside a call keeps      *)
(* taking steps, and a thread that pops keeps popping. *)
FairSpec ==
  /\ Spec
  /\ \A p \in Pushers : WF_vars(PushStep(p))
  /\ \A c \in Poppers : WF_vars(PopStep(c)) /\ WF_vars(DrawPop(c))

---------------------------------------------------------------------------

Ring == [m_nResBeginIndex : 0 .. WordSize - 1,
         m_nBeginIndex    : 0 .. WordSize - 1,
         m_nTotalSize     : Nat \ {0},
         m_bNoWrite       : BOOLEAN,
         m_bReleased      : BOOLEAN]

Cell == [m_pData : Int, m_nWrite : Nat]

MicroQueues == [m_nWriteCircle : Nat, m_nReadCircle : Nat,
                m_pWrite : Nat, m_pRead : Nat, m_pCircle : [Slots -> Nat]]

Locals == [index : Nat, own : Nat, this : Nat, begin : 0 .. WordSize - 1,
           scan : Nat, next : Nat, nested : BOOLEAN]

(* Every pointer a thread or a micro queue holds refers to an allocated    *)
(* ring, every ring has a pool of its size, and a thread's label is one of *)
(* the operation it runs. *)
TypeOK ==
  /\ m_nPreWriteIndex \in Nat
  /\ m_nReadIndex \in Nat
  /\ m_queue \in [Micros -> MicroQueues]
  /\ heap \in [Micros -> Seq(Ring)]
  /\ DOMAIN m_pPool = Micros
  /\ \A q \in Micros :
       /\ DOMAIN m_pPool[q] = DOMAIN heap[q]
       /\ \A i \in DOMAIN heap[q] :
            m_pPool[q][i] \in [0 .. heap[q][i].m_nTotalSize - 1 -> Cell]
       /\ m_queue[q].m_pWrite \in DOMAIN heap[q]
       /\ m_queue[q].m_pRead \in DOMAIN heap[q]
       /\ \A s \in Slots : m_queue[q].m_pCircle[s] \in {0} \cup DOMAIN heap[q]
  /\ pc \in [Threads -> PushLabels \cup PopLabels]
  /\ \A p \in Pushers : pc[p] \in PushLabels
  /\ \A c \in Poppers : pc[c] \in PopLabels
  /\ loc \in [Threads -> Locals]
  /\ \A t \in Threads : {loc[t].own, loc[t].this} \subseteq
                           DOMAIN heap[Micro(t)]
  /\ delivered \subseteq Nat \X Int

(* FIFO: the pop that drew index n returns the payload of the push that    *)
(* drew index n (lines 100-104 against 137-144), however often the cell    *)
(* was reused in between. *)
DeliveredInOrder == \A d \in delivered : d[1] = d[2]

WasDelivered(n) == \E d \in delivered : d[1] = n
Drawn == CCLockfreeQueueStartIndex .. m_nPreWriteIndex - 1

(* The indices of micro queue q from a ring's creation up to end. *)
Below(q, ring, end) ==
  {n \in Drawn :
     /\ MicroOf(n) = q
     /\ Minus(Word(n), ring.m_nResBeginIndex)
          < Minus(end, ring.m_nResBeginIndex)}

(* Line 94 never slides a window over an index whose payload has not been  *)
(* read: the sign bytes tell a read cell from a written one and one lap    *)
(* from the other (lines 68-75). *)
SlidOverRead ==
  \A q \in Micros : \A i \in DOMAIN heap[q] :
    \A n \in Below(q, heap[q][i], heap[q][i].m_nBeginIndex) : WasDelivered(n)

WindowEnd(ring) == Word(ring.m_nBeginIndex + CheckTotalSize(ring))

(* Line 230 frees a pool only when every payload stored in the ring has    *)
(* been read (the waits of lines 121-130). *)
ReleasedDrained ==
  \A q \in Micros : \A i \in DOMAIN heap[q] :
    heap[q][i].m_bReleased =>
      \A n \in Below(q, heap[q][i], WindowEnd(heap[q][i])) : WasDelivered(n)

TouchesPool(t) ==
  pc[t] \in {"pushScan", "pushAwait", "pushData", "pushSign", "popAwait",
             "popSpin", "popData", "popClear"}

(* No thread is about to read or write a pool that line 150 has freed:     *)
(* pools are reclaimed without reference counts or hazard pointers. *)
NoUseAfterRelease ==
  \A t \in Threads : TouchesPool(t) => ~ This(t).m_bReleased

(* An index lies before the first one a ring ever accepts. *)
Behind(n, ring) == Minus(Word(n), ring.m_nResBeginIndex) >= WordSize \div 2

(* m_pWrite and m_pRead move on only when no thread that still has to load *)
(* them holds an index of the ring left behind; such a thread would spin   *)
(* in lines 190-213 or 219-245 for ever. *)
NobodyStranded ==
  /\ \A p \in Pushers :
       pc[p] \in {"pushEnter", "pushLoad", "pushRetry"} =>
         ~ Behind(Index(p), heap[Micro(p)][m_queue[Micro(p)].m_pWrite])
  /\ \A c \in Poppers :
       pc[c] \in {"popEnter", "popRetry"} =>
         ~ Behind(Index(c), heap[Micro(c)][m_queue[Micro(c)].m_pRead])

PushesAt(q, labels) == {p \in Pushers : Micro(p) = q /\ pc[p] \in labels}

(* The equality test of line 66 is the only mutual exclusion between the   *)
(* unsynchronised writes of lines 94 and 196-201: in a micro queue at most *)
(* one push at a time decides about the ring m_pWrite points to, and at    *)
(* most one is between reading m_nWriteCircle and writing it back. *)
OneCloser ==
  \A q \in Micros :
    /\ Cardinality(PushesAt(q, {"pushScan", "pushAdvance", "pushNoWrite",
                                "pushAwait", "pushNext", "pushGrow",
                                "pushStore", "pushLink"})) <= 1
    /\ Cardinality(PushesAt(q, {"pushNext", "pushGrow", "pushStore",
                                "pushLink", "pushCount"})) <= 1

(* Lines 198 and 229 stay inside m_pCircle, which nothing checks, and a    *)
(* pop follows a slot only after a push has filled it. *)
SlotsSound ==
  /\ \A p \in Pushers : pc[p] = "pushStore" => loc[p].next \in Slots
  /\ \A c \in Poppers : pc[c] = "popTurn" =>
       /\ loc[c].next \in Slots
       /\ m_queue[Micro(c)].m_pCircle[loc[c].next] # 0

(* The rings of a micro queue tile its indices: a ring starts where the    *)
(* last window of the ring before it ended, so that no index belongs to    *)
(* two rings and none to no ring (lines 44 and 197). *)
Chained ==
  \A q \in Micros : \A i \in 1 .. Len(heap[q]) - 1 :
    heap[q][i + 1].m_nResBeginIndex = WindowEnd(heap[q][i])

(* The push that grew the chain finds its own index in the new ring: line  *)
(* 202 ignores PushPosition's result and would lose the payload. *)
GrowerStores ==
  \A p \in Pushers : pc[p] = "pushBegin" /\ loc[p].nested =>
    Distance(p) < CheckTotalSize(This(p))

ClosedFresh ==
  \A q \in Micros : \A i \in DOMAIN heap[q] :
    heap[q][i].m_bNoWrite =>
      heap[q][i].m_nBeginIndex = heap[q][i].m_nResBeginIndex

(* While every ring that was closed was closed before its window ever      *)
(* slid, moving on to the next ring is safe: nobody uses a freed pool,     *)
(* nobody is stranded, nothing unread is freed.  The wait of lines 78-90   *)
(* is sound for a first lap, where non-zero means written. *)
FreshCloseSafe ==
  ClosedFresh => NoUseAfterRelease /\ NobodyStranded /\ ReleasedDrained

(* A pop that drew an index returns; the benchmark joins its pop threads   *)
(* (cccontaintemplate.h lines 305-307). *)
PopReturns ==
  \A c \in Poppers : (pc[c] = "popEnter") ~> (pc[c] = "popDone")
===========================================================================
