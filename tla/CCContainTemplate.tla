------------------------- MODULE CCContainTemplate -------------------------
(***************************************************************************)
(* The benchmark (cccontaintemplate.h, driven by main.cpp): how messages   *)
(* are sent, received and accounted for around a queue.                    *)
(*                                                                         *)
(* main runs a series of rounds on one CCLockfreeQueue, then the timed     *)
(* ("heavy") test on the same queue, then rounds on a CCLockfreeFixQueue.  *)
(* In a round nThreadCount threads push every message of their unit once   *)
(* and are joined, then as many threads pop until the queue is empty.  In  *)
(* the timed test pushing and popping threads run together until main      *)
(* sets m_statusTimeFinish.  Each ends by comparing, message by message,   *)
(* how often it was sent and received.                                     *)
(*                                                                         *)
(* The queue is what its users expect: Push and Pop take effect at once.   *)
(* One action is one access to memory other threads write; what a pushing  *)
(* thread does to its own unit is part of its push.  A message is the pair *)
(* of its unit (m_nIndex) and its number (m_nCtxID).  Sleeping, timing and *)
(* printing change nothing and are left out.                               *)
(***************************************************************************)
EXTENDS Integers, Sequences

CONSTANTS
  TIMES_FAST,     \* messages of a round, over all units
  POW2SIZE,       \* cells of the fixed queue
  nTimes,         \* how often main repeats the series of rounds
  nRepeatTimes,   \* rounds per number of threads
  nMinThread,     \* threads of the first rounds
  nMaxThread,     \* threads are doubled up to this number
  MaxTicks,       \* how often the timed test looks at the queue's size
  WaitSize,       \* the size above which pushing pauses
  MaxPushTime     \* bound: pushes of a unit in the timed test

ASSUME RoundsAssumption ==
  /\ nTimes \in Nat \ {0} /\ nRepeatTimes \in Nat \ {0}
  /\ nMinThread \in Nat \ {0} /\ nMaxThread \in Nat
  /\ nMinThread <= nMaxThread
ASSUME SizesAssumption ==
  /\ TIMES_FAST \in Nat /\ POW2SIZE \in Nat
  /\ nMaxThread <= TIMES_FAST /\ TIMES_FAST <= POW2SIZE
ASSUME TimedAssumption ==
  MaxTicks \in Nat /\ WaitSize \in Nat /\ MaxPushTime \in Nat

VARIABLES
  container,           \* the messages in the queue, oldest first
  m_pNode,             \* per message: how often it was sent and received
  m_nPushTime,         \* per unit: pushes begun
  m_statusTimeFinish,  \* "Ready", "Wait" or "Finish"
  run,                 \* main: queue, times and repeat, nThreadCount
  phase,               \* main: where it is
  ticks,               \* main: looks at the queue's size so far
  pushing,             \* per pushing thread: its next access
  popping,             \* per popping thread: its next access
  hand                 \* per popping thread: the message being received,
                       \* the m_nReceived it loaded, and where it goes then

mgrVars == <<m_pNode, m_nPushTime, m_statusTimeFinish>>
mainVars == <<run, phase, ticks>>
vars == <<container, m_pNode, m_nPushTime, m_statusTimeFinish, run, phase,
          ticks, pushing, popping, hand>>

(* CCContainUnitThread::Init: m_nCount messages for each of n units. *)
m_nCount(n) == TIMES_FAST \div n
Units(n) == 0 .. n - 1
Nodes(n) == Units(n) \X (0 .. m_nCount(n) - 1)

NoHand == [node |-> <<0, 0>>, received |-> 0, then |-> "done"]

(* A new manager for n units.  Threads that are not started count as done. *)
NewMgr(n) ==
  /\ m_pNode' = [d \in Nodes(n) |-> [m_nSend |-> 0, m_nReceived |-> 0]]
  /\ m_nPushTime' = [u \in Units(n) |-> 0]
  /\ m_statusTimeFinish' = "Ready"

StartPush(n, label) == pushing' = [u \in Units(n) |-> label]
StartPop(n, label) ==
  /\ popping' = [c \in Units(n) |-> label]
  /\ hand' = [c \in Units(n) |-> NoHand]

Round(queue, times, n, repeat) ==
  [queue |-> queue, times |-> times, nThreadCount |-> n, repeat |-> repeat]

Init ==
  /\ container = <<>>
  /\ m_pNode = [d \in Nodes(nMinThread) |-> [m_nSend |-> 0, m_nReceived |-> 0]]
  /\ m_nPushTime = [u \in Units(nMinThread) |-> 0]
  /\ m_statusTimeFinish = "Ready"
  /\ run = Round("CCLockfreeQueue", 0, nMinThread, 0)
  /\ phase = "push"
  /\ ticks = 0
  /\ pushing = [u \in Units(nMinThread) |-> "content"]
  /\ popping = <<>>
  /\ hand = <<>>

---------------------------------------------------------------------------
(* Pushing threads. *)

(* getPushCtx(m_nPushTime++): count the send and return the message. *)
Send(u, count) ==
  LET node == <<u, m_nPushTime[u] % count>> IN
    /\ m_pNode' = [m_pNode EXCEPT ![node].m_nSend = @ + 1]
    /\ m_nPushTime' = [m_nPushTime EXCEPT ![u] = @ + 1]
    /\ container' =
         IF run.queue = "CCLockfreeFixQueue" /\ Len(container) >= POW2SIZE
         THEN container          \* Push returns false, which nobody tests
         ELSE Append(container, node)

(* PushContentFunc: push the next message, or leave after the last. *)
PushContentFunc(u) ==
  LET count == m_nCount(run.nThreadCount) IN
    /\ pushing[u] = "content"
    /\ \/ /\ m_nPushTime[u] < count
          /\ Send(u, count)
          /\ UNCHANGED pushing
       \/ /\ m_nPushTime[u] >= count
          /\ m_nPushTime' = [m_nPushTime EXCEPT ![u] = @ + 1]
          /\ pushing' = [pushing EXCEPT ![u] = "done"]
          /\ UNCHANGED <<container, m_pNode>>
    /\ UNCHANGED <<m_statusTimeFinish, mainVars, popping, hand>>

(* PushContentNoNullFunc: look at the status.  At the bound a thread is    *)
(* held back until the test is over. *)
PushStatus(u) ==
  /\ pushing[u] = "status"
  /\ \/ /\ m_statusTimeFinish = "Ready"
        /\ m_nPushTime[u] < MaxPushTime
        /\ pushing' = [pushing EXCEPT ![u] = "push"]
     \/ /\ m_statusTimeFinish = "Finish"
        /\ pushing' = [pushing EXCEPT ![u] = "done"]
  /\ UNCHANGED <<container, mgrVars, mainVars, popping, hand>>

(* PushContentNoNullFunc: the push of a thread that has seen Ready. *)
PushContentNoNull(u) ==
  /\ pushing[u] = "push"
  /\ Send(u, m_nCount(run.nThreadCount))
  /\ pushing' = [pushing EXCEPT ![u] = "status"]
  /\ UNCHANGED <<m_statusTimeFinish, mainVars, popping, hand>>

---------------------------------------------------------------------------
(* Popping threads. *)

(* PopContentNoNullFunc: look at the status before each pop. *)
PopStatus(c) ==
  /\ popping[c] = "status"
  /\ popping' = [popping EXCEPT ![c] =
       IF m_statusTimeFinish = "Finish" THEN "drain" ELSE "pop"]
  /\ UNCHANGED <<container, mgrVars, mainVars, pushing, hand>>

(* Where a popping thread goes after a message, and when there is none. *)
After(label) == IF label = "pop" THEN "status" ELSE "drain"
Otherwise(label) == IF label = "pop" THEN "status" ELSE "done"

(* Mutant: a draining thread leaves after one message. *)
PopContentOnce(c) ==
  /\ popping[c] \in {"pop", "drain"}
  /\ IF container = <<>>
     THEN /\ popping' = [popping EXCEPT ![c] = Otherwise(@)]
          /\ UNCHANGED <<container, hand>>
     ELSE /\ container' = Tail(container)
          /\ hand' = [hand EXCEPT ![c].node = Head(container),
                                  ![c].then = Otherwise(popping[c])]
          /\ popping' = [popping EXCEPT ![c] = "load"]
  /\ UNCHANGED <<mgrVars, mainVars, pushing>>

(* The loops of PopContentFunc and PopContentNoNullFunc ("drain" is also   *)
(* the first of them): pop a message, or find none. *)
PopContent(c) ==
  /\ popping[c] \in {"pop", "drain"}
  /\ IF container = <<>>
     THEN /\ popping' = [popping EXCEPT ![c] = Otherwise(@)]
          /\ UNCHANGED <<container, hand>>
     ELSE /\ container' = Tail(container)
          /\ hand' = [hand EXCEPT ![c].node = Head(container),
                                  ![c].then = After(popping[c])]
          /\ popping' = [popping EXCEPT ![c] = "load"]
  /\ UNCHANGED <<mgrVars, mainVars, pushing>>

(* Receive: the load of m_nReceived++, which is not atomic.  A message of  *)
(* no node is an access outside the array; ReceiveInBounds says there is   *)
(* none. *)
ReceiveLoad(c) ==
  /\ popping[c] = "load"
  /\ hand[c].node \in DOMAIN m_pNode
  /\ hand' = [hand EXCEPT ![c].received = m_pNode[hand[c].node].m_nReceived]
  /\ popping' = [popping EXCEPT ![c] = "store"]
  /\ UNCHANGED <<container, mgrVars, mainVars, pushing>>

(* Receive: the store of m_nReceived++. *)
ReceiveStore(c) ==
  /\ popping[c] = "store"
  /\ m_pNode' = [m_pNode EXCEPT ![hand[c].node].m_nReceived =
                   hand[c].received + 1]
  /\ popping' = [popping EXCEPT ![c] = hand[c].then]
  /\ hand' = [hand EXCEPT ![c] = NoHand]
  /\ UNCHANGED <<container, m_nPushTime, m_statusTimeFinish, mainVars, pushing>>

---------------------------------------------------------------------------
(* main. *)

AllDone(threads) == \A t \in DOMAIN threads : threads[t] = "done"

(* Mutant: main joins only one of the pushing threads. *)
JoinPushOne ==
  /\ phase = "push"
  /\ \E u \in DOMAIN pushing : pushing[u] = "done"
  /\ StartPop(run.nThreadCount, "drain")
  /\ phase' = "pop"
  /\ UNCHANGED <<container, mgrVars, run, ticks, pushing>>

(* A round: join the pushing threads, start the popping ones. *)
JoinPush ==
  /\ phase = "push"
  /\ AllDone(pushing)
  /\ StartPop(run.nThreadCount, "drain")
  /\ phase' = "pop"
  /\ UNCHANGED <<container, mgrVars, run, ticks, pushing>>

(* A round: join the popping threads. *)
JoinPop ==
  /\ phase = "pop"
  /\ AllDone(popping)
  /\ phase' = "check"
  /\ UNCHANGED <<container, mgrVars, run, ticks, pushing, popping, hand>>

CheckIsSuccess ==
  \A d \in DOMAIN m_pNode :
    m_pNode[d].m_nReceived = m_pNode[d].m_nSend /\ m_pNode[d].m_nSend # 0

(* The loops around a round (RepeatCCContainUnitThread,                    *)
(* PowerOfTwoThreadCountTest, main).  A failed check ends the repetitions  *)
(* of a number of threads; line 290 drops that result and the rest of the  *)
(* series goes on with the same queue. *)
MoreRepeats == CheckIsSuccess /\ run.repeat + 1 < nRepeatTimes
MoreThreads == run.nThreadCount * 2 <= nMaxThread
MoreTimes == run.times + 1 < nTimes

NextRounds ==
  IF MoreRepeats THEN {[run EXCEPT !.repeat = @ + 1]}
  ELSE IF MoreThreads
       THEN {[run EXCEPT !.nThreadCount = @ * 2, !.repeat = 0]}
       ELSE IF MoreTimes
            THEN {Round(run.queue, run.times + 1, nMinThread, 0)}
            ELSE {}

(* After a check: the next round on the same queue. *)
NextRound ==
  /\ phase = "check"
  /\ run' \in NextRounds
  /\ NewMgr(run'.nThreadCount)
  /\ StartPush(run'.nThreadCount, "content")
  /\ StartPop(0, "done")
  /\ phase' = "push"
  /\ UNCHANGED <<container, ticks>>

(* After the last round: the timed test, with one pushing thread less than *)
(* popping ones. *)
StartTimed ==
  /\ phase = "check"
  /\ run.queue = "CCLockfreeQueue"
  /\ NextRounds = {}
  /\ LET n == IF nMinThread - 1 = 0 THEN 1 ELSE nMinThread - 1 IN
       /\ run' = Round(run.queue, 0, n, 0)
       /\ NewMgr(n)
       /\ StartPush(n, "status")
  /\ StartPop(nMinThread, "status")
  /\ phase' = "timed"
  /\ ticks' = 0
  /\ UNCHANGED container

(* The timed test, line 387: look at the queue's size. *)
GetContainSize ==
  /\ phase = "timed"
  /\ ticks < MaxTicks
  /\ phase' = IF Len(container) > WaitSize THEN "wait" ELSE "ready"
  /\ ticks' = ticks + 1
  /\ UNCHANGED <<container, mgrVars, run, pushing, popping, hand>>

(* Lines 388 and 391: pause the pushing threads or let them go on. *)
SetTimeWaitReady ==
  /\ phase \in {"wait", "ready"}
  /\ m_statusTimeFinish' = IF phase = "wait" THEN "Wait" ELSE "Ready"
  /\ phase' = "timed"
  /\ UNCHANGED <<container, m_pNode, m_nPushTime, run, ticks, pushing, popping,
                 hand>>

(* Mutant: the test ends without a word to the threads. *)
SetTimeFinishNot ==
  /\ phase = "timed"
  /\ phase' = "join"
  /\ UNCHANGED <<container, mgrVars, run, ticks, pushing, popping, hand>>

(* Line 394: the time is up. *)
SetTimeFinish ==
  /\ phase = "timed"
  /\ m_statusTimeFinish' = "Finish"
  /\ phase' = "join"
  /\ UNCHANGED <<container, m_pNode, m_nPushTime, run, ticks, pushing, popping,
                 hand>>

(* Lines 396-401: join all threads. *)
JoinTimed ==
  /\ phase = "join"
  /\ AllDone(pushing)
  /\ AllDone(popping)
  /\ phase' = "verdict"
  /\ UNCHANGED <<container, mgrVars, run, ticks, pushing, popping, hand>>

(* After the timed test: rounds on a new fixed queue. *)
StartFix ==
  /\ phase = "verdict"
  /\ container' = <<>>
  /\ run' = Round("CCLockfreeFixQueue", 0, nMinThread, 0)
  /\ NewMgr(nMinThread)
  /\ StartPush(nMinThread, "content")
  /\ StartPop(0, "done")
  /\ phase' = "push"
  /\ ticks' = 0

(* After the last round on the fixed queue. *)
Finish ==
  /\ phase = "check"
  /\ run.queue = "CCLockfreeFixQueue"
  /\ NextRounds = {}
  /\ phase' = "end"
  /\ UNCHANGED <<container, mgrVars, run, ticks, pushing, popping, hand>>

PushThread(u) ==
  PushContentFunc(u) \/ PushStatus(u) \/ PushContentNoNull(u)
PopThread(c) ==
  PopStatus(c) \/ PopContent(c) \/ ReceiveLoad(c) \/ ReceiveStore(c)
Main ==
  \/ JoinPush \/ JoinPop \/ NextRound \/ StartTimed \/ GetContainSize
  \/ SetTimeWaitReady \/ SetTimeFinish \/ JoinTimed \/ StartFix \/ Finish

Next ==
  \/ \E u \in DOMAIN pushing : PushThread(u)
  \/ \E c \in DOMAIN popping : PopThread(c)
  \/ Main

(* Every thread is scheduled again and again.  Main's loop of line 381     *)
(* ends because time goes on: ticks count its seconds. *)
Threads == 0 .. nMaxThread - 1
Spec ==
  /\ Init /\ [][Next]_vars
  /\ WF_vars(Main)
  /\ \A t \in Threads :
       /\ WF_vars(t \in DOMAIN pushing /\ PushThread(t))
       /\ WF_vars(t \in DOMAIN popping /\ PopThread(t))

---------------------------------------------------------------------------

(* The check of a round, CheckIsSuccess at line 309, never fails on a      *)
(* queue that works: every message is sent and received exactly once,      *)
(* although the threads that count receptions do not synchronise.          *)
RoundsSucceed == phase = "check" => CheckIsSuccess

(* A message in the queue or in a thread's hands belongs to the current    *)
(* manager.  Lines 63 and 103 use its fields as array indices without a    *)
(* check, and the next manager has other bounds: a message left behind by  *)
(* an earlier round would be written outside the array. *)
ReceiveInBounds ==
  /\ \A i \in DOMAIN container : container[i] \in DOMAIN m_pNode
  /\ \A c \in DOMAIN popping :
       popping[c] \in {"load", "store"} => hand[c].node \in DOMAIN m_pNode

(* Every join returns and main comes to its end. *)
BenchmarkEnds == <>(phase = "end")

===========================================================================
