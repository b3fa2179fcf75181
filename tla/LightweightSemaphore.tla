------------------------ MODULE LightweightSemaphore ------------------------
(***************************************************************************)
(* class LightweightSemaphore of blockingconcurrentqueue.h: a count of     *)
(* units in user space, below zero when threads wait for the operating     *)
(* system's semaphore m_sema.  One action per access to shared memory; a   *)
(* loop around a compare-and-swap that only retries is one action.  wait   *)
(* and waitMany are the same code but for the last step, tryWaitMany(max - *)
(* 1); a call of wait is one of waitMany with max 1.                       *)
(***************************************************************************)
EXTENDS Integers, FiniteSets

CONSTANTS
  Waiters,
  Signallers,
  MaxUnits        \* bound: units per call

VARIABLES
  m_count,
  m_sema,         \* the value of the system's semaphore
  wait,           \* per waiter: pc, mode and max of the call, units got
  toRelease       \* per signaller: posts to m_sema it still has to make

Modes == {"try", "wait", "timed"}
NoWait == [pc |-> "idle", mode |-> "try", max |-> 1, got |-> 0]

SemaInit ==
  /\ m_count = 0 /\ m_sema = 0
  /\ wait = [c \in Waiters |-> NoWait]
  /\ toRelease = [t \in Signallers |-> 0]

WaitStep(c, r) == wait' = [wait EXCEPT ![c] = r]
Acquired(r, n) == [r EXCEPT !.pc = "acquired", !.mode = "try", !.got = n]
(* One unit is there: waitMany goes on to take more. *)
Woken(r) == IF r.max = 1 THEN Acquired(r, 1) ELSE [r EXCEPT !.pc = "more", !.mode = "try"]
Least(a, b) == IF a < b THEN a ELSE b

(* tryWait and tryWaitMany, with which every call begins.  Only the        *)
(* waiting ones go on when there is no unit. *)
TryWaitMany(c, mode, max) ==
  LET r == [wait[c] EXCEPT !.mode = mode, !.max = max]
  IN /\ wait[c].pc = "idle"
     /\ IF m_count > 0
        THEN /\ m_count' = m_count - Least(m_count, max)
             /\ WaitStep(c, Acquired(r, Least(m_count, max)))
        ELSE /\ WaitStep(c, IF mode = "try" THEN NoWait ELSE [r EXCEPT !.pc = "spin"])
             /\ UNCHANGED m_count
  /\ UNCHANGED <<m_sema, toRelease>>

(* waitWithPartialSpinning: a unit comes while the thread spins, ... *)
SpinTake(c) ==
  /\ wait[c].pc = "spin" /\ m_count > 0
  /\ m_count' = m_count - Least(m_count, wait[c].max)
  /\ WaitStep(c, Acquired(wait[c], Least(m_count, wait[c].max)))
  /\ UNCHANGED <<m_sema, toRelease>>

(* ... or it takes one anyway and waits for it, if there was none. *)
SpinOver(c) ==
  /\ wait[c].pc = "spin"
  /\ m_count' = m_count - 1
  /\ WaitStep(c, IF m_count > 0 THEN Woken(wait[c]) ELSE [wait[c] EXCEPT !.pc = "sema"])
  /\ UNCHANGED <<m_sema, toRelease>>

(* m_sema.wait() and m_sema.timed_wait(). *)
SemaWait(c) ==
  /\ wait[c].pc = "sema" /\ m_sema > 0
  /\ m_sema' = m_sema - 1
  /\ WaitStep(c, Woken(wait[c]))
  /\ UNCHANGED <<m_count, toRelease>>

SemaTimeout(c) ==
  /\ wait[c].pc = "sema" /\ wait[c].mode = "timed"
  /\ WaitStep(c, [wait[c] EXCEPT !.pc = "adjust"])
  /\ UNCHANGED <<m_count, m_sema, toRelease>>

(* After a timeout: put the count back if it is negative; otherwise a      *)
(* signal has counted this thread as woken. *)
Adjust(c) ==
  /\ wait[c].pc = "adjust"
  /\ IF m_count < 0
     THEN m_count' = m_count + 1 /\ WaitStep(c, NoWait)
     ELSE WaitStep(c, [wait[c] EXCEPT !.pc = "claim"]) /\ UNCHANGED m_count
  /\ UNCHANGED <<m_sema, toRelease>>

(* Mutant: the thread gives up when the post is not there yet. *)
AdjustClaimOnce(c) ==
  /\ wait[c].pc = "claim"
  /\ m_sema' = m_sema - (IF m_sema > 0 THEN 1 ELSE 0)
  /\ WaitStep(c, IF m_sema > 0 THEN Woken(wait[c]) ELSE NoWait)
  /\ UNCHANGED <<m_count, toRelease>>

(* m_sema.try_wait() of the same loop. *)
AdjustClaim(c) ==
  /\ wait[c].pc = "claim"
  /\ IF m_sema > 0
     THEN m_sema' = m_sema - 1 /\ WaitStep(c, Woken(wait[c]))
     ELSE WaitStep(c, [wait[c] EXCEPT !.pc = "adjust"]) /\ UNCHANGED m_sema
  /\ UNCHANGED <<m_count, toRelease>>

(* tryWaitMany(max - 1) at the end of waitMany. *)
More(c) ==
  /\ wait[c].pc = "more"
  /\ LET n == IF m_count > 0 THEN Least(m_count, wait[c].max - 1) ELSE 0
     IN m_count' = m_count - n /\ WaitStep(c, Acquired(wait[c], 1 + n))
  /\ UNCHANGED <<m_sema, toRelease>>

(* Mutant: a bulk signal wakes one waiter. *)
SignalOne(t, n) ==
  /\ m_count' = m_count + n
  /\ toRelease' = [toRelease EXCEPT ![t] = IF m_count < 0 THEN 1 ELSE 0]
  /\ UNCHANGED <<m_sema, wait>>

(* signal: count the units, then wake as many as wait for them. *)
Signal(t, n) ==
  /\ m_count' = m_count + n
  /\ toRelease' = [toRelease EXCEPT ![t] = IF m_count < 0 THEN Least(-m_count, n) ELSE 0]
  /\ UNCHANGED <<m_sema, wait>>

Post(t) ==
  /\ toRelease[t] > 0
  /\ m_sema' = m_sema + 1
  /\ toRelease' = [toRelease EXCEPT ![t] = @ - 1]
  /\ UNCHANGED <<m_count, wait>>

SemaphoreStep(c) ==
  \/ SpinTake(c) \/ SpinOver(c) \/ SemaWait(c) \/ SemaTimeout(c) \/ Adjust(c) \/ AdjustClaim(c) \/ More(c)

---------------------------------------------------------------------------

(* The threads that have counted themselves and hold no unit yet, and the  *)
(* posts that are owed to them. *)
Waiting == {c \in Waiters : wait[c].pc \in {"sema", "adjust", "claim"}}
Owed == {tk \in Signallers \X (1 .. MaxUnits) : tk[2] <= toRelease[tk[1]]}

(* Every thread counted as waiting is owed exactly one wake-up: the count  *)
(* is below zero for it, or a signal is about to post for it, or has: no   *)
(* wake-up is lost when a timeout meets a signal, and none is left over to *)
(* let a later thread through without a unit. *)
WakeupsOwed ==
  Cardinality(Waiting) = m_sema + Cardinality(Owed) + (IF m_count < 0 THEN -m_count ELSE 0)

(* The units of the abstract semaphore. *)
Value == m_count + Cardinality(Waiting)

=============================================================================
