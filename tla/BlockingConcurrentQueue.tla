---------------------- MODULE BlockingConcurrentQueue ----------------------
(***************************************************************************)
(* class BlockingConcurrentQueue: a ConcurrentQueue whose dequeuing calls  *)
(* first take units from a LightweightSemaphore and then repeat            *)
(* inner.try_dequeue, or try_dequeue_bulk, until it has brought an element *)
(* for each unit; an enqueue that succeeds signals its elements.           *)
(***************************************************************************)
EXTENDS ConcurrentQueue, Units

VARIABLES m_count, m_sema, wait, toRelease

semaVars == <<m_count, m_sema, wait, toRelease>>

INSTANCE LightweightSemaphore WITH Waiters <- Consumers, Signallers <- Enqueuers, MaxUnits <- MaxBulk

queueVars == <<producers, list, producerCount, hashVars, tokenVars, withToken, enq, deq>>
vars == <<queueVars, semaVars>>

Init == QueueInit /\ SemaInit

(* Mutant: a bulk call asks for max elements whatever it got. *)
TakeMax(c) ==
  /\ IF wait'[c].pc = "acquired"
     THEN DeqStep(c, [deq[c] EXCEPT !.pc = "pass", !.max = wait'[c].max, !.need = wait'[c].max])
     ELSE UNCHANGED deq
  /\ UNCHANGED <<producers, tokenVars, DequeueVars>>

(* With units in hand, into the loop around try_dequeue. *)
Take(c) ==
  /\ IF wait'[c].pc = "acquired"
     THEN DeqStep(c, [deq[c] EXCEPT !.pc = "pass", !.max = wait'[c].max, !.need = wait'[c].got])
     ELSE UNCHANGED deq
  /\ UNCHANGED <<producers, tokenVars, DequeueVars>>

(* The calls of a consumer: mode says what it does without a unit. *)
Dequeue(c) ==
  /\ \E mode \in Modes, max \in {1, MaxBulk} : TryWaitMany(c, mode, max)
  /\ Take(c)

SemaStep(c) == SemaphoreStep(c) /\ Take(c)

(* The loop goes on until it has brought an element for each unit. *)
LoopStep(c) ==
  /\ PassStep(c)
  /\ IF deq'[c].pc = "idle" THEN WaitStep(c, NoWait) ELSE UNCHANGED wait
  /\ UNCHANGED <<m_count, m_sema, toRelease>>

(* enqueue and enqueue_bulk signal after the inner queue's have succeeded. *)
Signalling(t) ==
  /\ IF toRelease'[t] = 0 THEN EnqReturn(t) ELSE EnqStep(t, [enq[t] EXCEPT !.pc = "post", !.count = 0])
  /\ UNCHANGED <<producers, listVars, hashVars, EnqueueVars>>

SignalElements(t) == enq[t].pc = "signal" /\ Signal(t, enq[t].count) /\ Signalling(t)
PostElements(t) == enq[t].pc = "post" /\ Post(t) /\ Signalling(t)

ConsumerStep(c) ==
  \/ SemaStep(c)
  \/ LoopStep(c)

EnqueuerStep(t) ==
  \/ ProducerStep(t) /\ UNCHANGED semaVars
  \/ SignalElements(t)
  \/ PostElements(t)

Call ==
  \/ \E c \in Consumers : Dequeue(c)
  \/ /\ \E t \in Enqueuers : MakeToken(t) \/ DropToken(t) \/ \E n \in {1, MaxBulk} : Enqueue(t, n)
     /\ UNCHANGED semaVars

Next ==
  \/ Call
  \/ \E c \in Consumers : ConsumerStep(c)
  \/ \E t \in Enqueuers : EnqueuerStep(t)

Spec == Init /\ [][Next]_vars

---------------------------------------------------------------------------

InQueue == Total([i \in DOMAIN producers |-> producers[i].in - producers[i].out])
Held == Total([c \in Consumers |-> deq[c].need + (IF wait[c].pc = "more" THEN 1 ELSE 0)])
Unsignalled == Total([t \in Enqueuers |-> IF enq[t].pc = "signal" THEN enq[t].count ELSE 0])

(* Each unit stands for one element: the elements in the producers' queues *)
(* are those of the units nobody holds, those a consumer holds a unit for, *)
(* and those not yet signalled.  So the loop around try_dequeue, which     *)
(* has no other exit, always has an element to find. *)
UnitsBacked == Value + Held + Unsignalled = InQueue

(* The semaphore does what a semaphore does. *)
Abstract == INSTANCE Semaphore WITH value <- Value
ImplementsSemaphore == Abstract!SemaphoreSpec

=============================================================================
