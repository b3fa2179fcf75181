---------------------- MODULE CCContainTemplateProofs ----------------------
(***************************************************************************)
(* The rounds of the benchmark, for any numbers of threads, messages,      *)
(* repetitions and pushes: every message of a round is sent once, is in    *)
(* the queue, in one thread's hands or received, and is received once;     *)
(* and no message outlives the manager whose arrays it indexes.            *)
(***************************************************************************)
EXTENDS CCContainTemplate, SequenceTheorems, FiniteSetTheorems, TLAPS

Count == m_nCount(run.nThreadCount)
Mine == Nodes(run.nThreadCount)

(* Which phases belong to a round, and which to the timed test. *)
RoundPhases == {"push", "pop", "check", "end"}
TimedPhases == {"timed", "wait", "ready", "join", "verdict"}

Holds(c) == popping[c] \in {"load", "store"}
Queued(d) == \E i \in 1 .. Len(container) : container[i] = d
Held(d) == \E c \in DOMAIN popping : Holds(c) /\ hand[c].node = d

(* The types, with the bounds of the current manager: a message in the     *)
(* queue or in a thread's hands is one of its own. *)
Hands == [node : Nat \X Nat, received : Nat, then : {"status", "drain", "done"}]

RunSound ==
  /\ run.nThreadCount \in 1 .. nMaxThread
  /\ phase \in RoundPhases \cup TimedPhases

MgrSound ==
  /\ m_pNode \in [Mine -> [m_nSend : Nat, m_nReceived : Nat]]
  /\ m_nPushTime \in [Units(run.nThreadCount) -> Nat]

ThreadsSound ==
  /\ pushing \in [Units(run.nThreadCount) -> {"content", "status", "push", "done"}]
  /\ popping \in [DOMAIN popping -> {"status", "pop", "drain", "load", "store", "done"}]
  /\ hand \in [DOMAIN popping -> Hands]
  /\ \A c \in DOMAIN popping : Holds(c) => hand[c].node \in Mine

Bounds == RunSound /\ MgrSound /\ ThreadsSound /\ container \in Seq(Mine)

(* In a round a pushing thread sends its messages in order, each once. *)
PushSound(u) ==
  \/ pushing[u] = "content" /\ phase = "push" /\ m_nPushTime[u] <= Count
  \/ pushing[u] = "done" /\ m_nPushTime[u] > Count

(* A message of a round has been sent or not, and received or not; if it   *)
(* was sent and not received, it is in the queue or in a thread's hands,   *)
(* and in no other case. *)
NodeSound(d) ==
  /\ m_pNode[d].m_nSend = IF d[2] < m_nPushTime[d[1]] THEN 1 ELSE 0
  /\ m_pNode[d].m_nReceived \in 0 .. m_pNode[d].m_nSend
  /\ Queued(d) \/ Held(d) <=> m_pNode[d].m_nSend = 1 /\ m_pNode[d].m_nReceived = 0

(* A message is in one place only. *)
OnePlace ==
  /\ \A i, j \in 1 .. Len(container) : container[i] = container[j] => i = j
  /\ \A c \in DOMAIN popping : Holds(c) => ~Queued(hand[c].node)
  /\ \A c, e \in DOMAIN popping : Holds(c) /\ Holds(e) /\ hand[c].node = hand[e].node => c = e

(* A popping thread of a round knows that nobody else counts the message   *)
(* in its hands, and leaves only when the queue is empty, which it stays. *)
PopSound(c) ==
  /\ popping[c] \in {"drain", "load", "store", "done"}
  /\ Holds(c) => hand[c].then = "drain"
  /\ popping[c] = "store" => hand[c].received = 0
  /\ popping[c] = "done" => container = <<>>

RoundSound ==
  /\ \A u \in Units(run.nThreadCount) : PushSound(u)
  /\ \A d \in Mine : NodeSound(d)
  /\ OnePlace
  /\ \A c \in DOMAIN popping : PopSound(c)
  /\ DOMAIN popping = IF phase = "push" THEN {} ELSE Units(run.nThreadCount)
  /\ phase \in {"check", "end"} => AllDone(popping)

TimedSound ==
  \A u \in Units(run.nThreadCount) : pushing[u] # "content"

BenchInv ==
  /\ Bounds
  /\ phase \in RoundPhases => RoundSound
  /\ phase \in TimedPhases => TimedSound

---------------------------------------------------------------------------

(* Each unit has a message, and all units together have no more than       *)
(* TIMES_FAST. *)
LEMMA Counts ==
  ASSUME RunSound
  PROVE  /\ run.nThreadCount \in Nat /\ run.nThreadCount >= 1
         /\ run.nThreadCount <= nMaxThread /\ nMaxThread \in Nat
         /\ Count \in Nat /\ Count >= 1
         /\ run.nThreadCount * Count <= POW2SIZE /\ POW2SIZE \in Nat
         /\ 0 \in Units(run.nThreadCount)
<1> DEFINE n == run.nThreadCount
<1>1. n \in Nat /\ n >= 1 /\ n <= nMaxThread /\ nMaxThread \in Nat
  BY RoundsAssumption DEF RunSound
<1>2. TIMES_FAST \in Nat /\ POW2SIZE \in Nat /\ n <= TIMES_FAST /\ TIMES_FAST <= POW2SIZE
  BY <1>1, SizesAssumption
<1>3. Count = TIMES_FAST \div n
  BY DEF Count, m_nCount
<1> HIDE DEF n
<1>4. Count \in Nat /\ n * Count <= TIMES_FAST /\ TIMES_FAST < n * Count + n
  BY <1>1, <1>2, <1>3
<1>5. Count >= 1
  <2>1. CASE Count = 0
    BY <1>1, <1>2, <1>4, <2>1
  <2> QED
    BY <1>4, <2>1
<1>6. n * Count \in Nat
  BY <1>1, <1>4
<1>7. n * Count <= POW2SIZE
  BY <1>2, <1>4, <1>6
<1> QED
  BY <1>1, <1>2, <1>4, <1>5, <1>7 DEF n, Units

LEMMA FirstNumbers ==
  ASSUME NEW k \in Nat
  PROVE  IsFiniteSet(0 .. k - 1) /\ Cardinality(0 .. k - 1) = k
<1>1. 0 \in Int /\ k - 1 \in Int
  OBVIOUS
<1>2. /\ IsFiniteSet(0 .. k - 1)
      /\ Cardinality(0 .. k - 1) = IF 0 > k - 1 THEN 0 ELSE (k - 1) - 0 + 1
  BY <1>1, FS_Interval
<1> QED
  BY <1>2

(* A set of different messages that lacks one of the round's is smaller    *)
(* than the fixed queue. *)
LEMMA RoomForOne ==
  ASSUME RunSound, container \in Seq(Mine),
         \A i, j \in 1 .. Len(container) : container[i] = container[j] => i = j,
         NEW d \in Mine, ~Queued(d)
  PROVE  Len(container) < POW2SIZE
<1> DEFINE n == run.nThreadCount
           rest == Mine \ {d}
           len == Len(container)
<1>1. n \in Nat /\ Count \in Nat /\ n >= 1 /\ n * Count <= POW2SIZE /\ POW2SIZE \in Nat
  BY Counts
<1>2. IsFiniteSet(Mine) /\ Cardinality(Mine) = n * Count
  <2>1. IsFiniteSet(Units(n)) /\ Cardinality(Units(n)) = n
    <3>1. IsFiniteSet(0 .. n - 1) /\ Cardinality(0 .. n - 1) = n
      BY <1>1, FirstNumbers
    <3> QED
      BY <3>1 DEF Units
  <2>2. IsFiniteSet(0 .. Count - 1) /\ Cardinality(0 .. Count - 1) = Count
    BY <1>1, FirstNumbers
  <2>3. Mine = Units(n) \X (0 .. Count - 1)
    BY DEF Mine, Nodes, Count
  <2> HIDE DEF n
  <2> QED
    BY <2>1, <2>2, <2>3, FS_Product
<1>3. IsFiniteSet(rest) /\ Cardinality(rest) = n * Count - 1
  <2> HIDE DEF n
  <2> QED
    BY <1>2, FS_RemoveElement
<1>4. len \in Nat /\ IsFiniteSet(1 .. len) /\ Cardinality(1 .. len) = len
  <2>1. len \in Nat
    BY DEF Mine
  <2> HIDE DEF len
  <2>2. IsFiniteSet(1 .. len) /\ Cardinality(1 .. len) = len
    BY <2>1, FS_Interval
  <2> QED
    BY <2>1, <2>2
<1>5. container \in Injection(1 .. len, rest)
  <2>1. container \in [1 .. len -> Mine]
    BY DEF Mine
  <2>2. \A i \in 1 .. len : container[i] # d
    BY DEF Queued
  <2>3. container \in [1 .. len -> rest]
    BY <2>1, <2>2
  <2> HIDE DEF rest
  <2> QED
    BY <2>3 DEF Injection, IsInjective
<1>6. Cardinality(1 .. len) <= Cardinality(rest)
  <2> HIDE DEF rest, len
  <2> QED
    BY <1>3, <1>5, FS_Injection
<1>7. n * Count \in Nat
  BY <1>1
<1> HIDE DEF n, len, rest
<1>8. len < POW2SIZE
  BY <1>1, <1>3, <1>4, <1>6, <1>7
<1> QED
  BY <1>8 DEF len

(* A new manager and its pushing threads. *)
LEMMA FreshRound ==
  ASSUME run'.nThreadCount \in 1 .. nMaxThread, phase' = "push", container' = <<>>,
         NewMgr(run'.nThreadCount), StartPush(run'.nThreadCount, "content"), StartPop(0, "done")
  PROVE  BenchInv'
<1> DEFINE n == run'.nThreadCount
<1>1. n \in Nat
  BY RoundsAssumption
<1>2. RunSound'
  BY DEF RunSound, RoundPhases
<1>3. Count' \in Nat /\ Count' >= 1
  <2>1. TIMES_FAST \in Nat /\ n >= 1 /\ Count' = TIMES_FAST \div n
    BY RoundsAssumption, SizesAssumption DEF Count, m_nCount
  <2>2. n <= TIMES_FAST
    BY <1>1, RoundsAssumption, SizesAssumption
  <2> HIDE DEF n
  <2>3. Count' \in Nat /\ TIMES_FAST < n * Count' + n
    BY <1>1, <2>1
  <2>4. CASE Count' = 0
    BY <1>1, <2>1, <2>2, <2>3, <2>4
  <2> QED
    BY <2>3, <2>4
<1>4. /\ m_pNode' = [d \in Mine' |-> [m_nSend |-> 0, m_nReceived |-> 0]]
      /\ m_nPushTime' = [u \in Units(n) |-> 0]
  BY DEF NewMgr, Mine
<1>5. pushing' = [u \in Units(n) |-> "content"]
  BY DEF StartPush
<1>6. DOMAIN popping' = {} /\ popping' = [c \in {} |-> "done"] /\ hand' = [c \in {} |-> NoHand]
  BY DEF StartPop, Units
<1>7. MgrSound'
  BY <1>4 DEF MgrSound
<1>8. ThreadsSound'
  BY <1>5, <1>6 DEF ThreadsSound
<1>9. container' \in Seq(Mine')
  BY EmptySeq
<1>10. \A u \in Units(n) : PushSound(u)'
  BY <1>3, <1>4, <1>5 DEF PushSound
<1>11. ASSUME NEW d \in Mine' PROVE NodeSound(d)'
  <2>1. m_pNode'[d].m_nSend = 0 /\ m_pNode'[d].m_nReceived = 0
    BY <1>4
  <2>2. d[1] \in Units(n) /\ d[2] \in 0 .. Count' - 1
    BY <1>11 DEF Mine, Nodes, Count
  <2>3. m_nPushTime'[d[1]] = 0 /\ ~(d[2] < 0)
    BY <1>3, <1>4, <2>2
  <2>4. ~Queued(d)' /\ ~Held(d)'
    <3>1. Len(container') = 0
      BY EmptySeq
    <3> QED
      BY <1>6, <3>1 DEF Queued, Held
  <2>5. ~(d[2] < m_nPushTime'[d[1]])
    BY <2>3
  <2> QED
    BY <2>1, <2>4, <2>5 DEF NodeSound
<1>12. OnePlace'
  <2>1. Len(container') = 0
    BY EmptySeq
  <2> QED
    BY <1>6, <2>1 DEF OnePlace
<1>13. RoundSound'
  BY <1>6, <1>10, <1>11, <1>12 DEF RoundSound
<1> QED
  BY <1>2, <1>7, <1>8, <1>9, <1>13 DEF BenchInv, Bounds, TimedPhases

---------------------------------------------------------------------------
(* Steps of a round. *)

(* After the popping threads are joined nothing is left. *)
LEMMA RoundOver ==
  ASSUME BenchInv, phase \in {"pop", "check", "end"}, phase = "pop" => AllDone(popping)
  PROVE  container = <<>> /\ CheckIsSuccess /\ AllDone(popping)
<1>1. RunSound /\ RoundSound /\ MgrSound
  BY DEF BenchInv, Bounds, RoundPhases
<1>2. AllDone(popping) /\ DOMAIN popping = Units(run.nThreadCount)
  BY <1>1 DEF RoundSound
<1>3. container = <<>>
  <2>1. 0 \in DOMAIN popping
    BY <1>1, <1>2, Counts
  <2> QED
    BY <1>1, <1>2, <2>1 DEF RoundSound, PopSound, AllDone
<1>4. ASSUME NEW d \in Mine PROVE m_pNode[d].m_nSend = 1 /\ m_pNode[d].m_nReceived = 1
  <2>1. d[1] \in Units(run.nThreadCount) /\ d[2] \in 0 .. Count - 1
    BY <1>4 DEF Mine, Nodes, Count
  <2>2. PushSound(d[1]) /\ phase # "push" /\ NodeSound(d)
    BY <1>1, <1>4, <2>1 DEF RoundSound
  <2>3. m_nPushTime[d[1]] > Count /\ m_nPushTime[d[1]] \in Nat
    BY <1>1, <2>1, <2>2 DEF PushSound, MgrSound
  <2>4. m_pNode[d].m_nSend = 1
    <3>1. Count \in Nat
      BY <1>1, Counts
    <3>2. d[2] < m_nPushTime[d[1]]
      BY <2>1, <2>3, <3>1
    <3> QED
      BY <2>2, <3>2 DEF NodeSound
  <2>5. ~Queued(d)
    BY <1>3, EmptySeq DEF Queued
  <2>6. ~Held(d)
    BY <1>2 DEF Held, Holds, AllDone
  <2> QED
    BY <2>2, <2>4, <2>5, <2>6 DEF NodeSound
<1>5. CheckIsSuccess
  BY <1>1, <1>4 DEF CheckIsSuccess, MgrSound
<1> QED
  BY <1>2, <1>3, <1>5

(* What a pushing thread of a round sends. *)
LEMMA SendInRound ==
  ASSUME BenchInv, NEW u \in DOMAIN pushing, pushing[u] = "content", m_nPushTime[u] < Count,
         Send(u, Count),
         UNCHANGED <<m_statusTimeFinish, mainVars, pushing, popping, hand>>
  PROVE  BenchInv'
<1> DEFINE node == <<u, m_nPushTime[u]>>
<1>1. Bounds /\ RunSound /\ MgrSound /\ ThreadsSound /\ container \in Seq(Mine)
  BY DEF BenchInv, Bounds
<1>2. u \in Units(run.nThreadCount)
  BY <1>1 DEF ThreadsSound
<1>3. phase \in RoundPhases /\ RoundSound
  BY <1>1, <1>2 DEF BenchInv, RunSound, TimedSound
<1>4. phase = "push" /\ DOMAIN popping = {}
  BY <1>2, <1>3 DEF RoundSound, PushSound
<1>5. Count \in Nat /\ m_nPushTime[u] \in Nat /\ POW2SIZE \in Nat
  BY <1>1, <1>2, Counts DEF MgrSound
<1>6. node \in Mine
  BY <1>2, <1>5 DEF Mine, Nodes, Count
<1>7. m_nPushTime[u] % Count = m_nPushTime[u]
  BY <1>5
<1>8. m_pNode[node].m_nSend = 0 /\ m_pNode[node].m_nReceived = 0 /\ ~Queued(node)
  <2>1. NodeSound(node)
    BY <1>3, <1>6 DEF RoundSound
  <2>2. ~(node[2] < m_nPushTime[node[1]])
    BY <1>5
  <2> QED
    BY <2>1, <2>2 DEF NodeSound
<1>9. /\ m_pNode' = [m_pNode EXCEPT ![node].m_nSend = @ + 1]
      /\ m_nPushTime' = [m_nPushTime EXCEPT ![u] = @ + 1]
      /\ container' = Append(container, node)
  <2>1. Len(container) < POW2SIZE
    BY <1>1, <1>3, <1>6, <1>8, RoomForOne DEF RoundSound, OnePlace
  <2>2. Len(container) \in Nat
    BY <1>1
  <2>3. ~(Len(container) >= POW2SIZE)
    BY <1>5, <2>1, <2>2
  <2> QED
    BY <1>7, <2>3 DEF Send
<1>10. run' = run /\ phase' = phase /\ popping' = popping /\ hand' = hand /\ pushing' = pushing
  BY DEF mainVars
<1>11. Mine' = Mine /\ Count' = Count
  BY <1>10 DEF Mine, Count
<1> HIDE DEF node
<1>12. /\ m_pNode'[node].m_nSend = 1 /\ m_pNode'[node].m_nReceived = 0
       /\ \A d \in Mine \ {node} : m_pNode'[d] = m_pNode[d]
       /\ m_pNode' \in [Mine -> [m_nSend : Nat, m_nReceived : Nat]]
  BY <1>1, <1>6, <1>8, <1>9 DEF MgrSound
<1>13. /\ m_nPushTime'[u] = m_nPushTime[u] + 1
       /\ \A v \in Units(run.nThreadCount) \ {u} : m_nPushTime'[v] = m_nPushTime[v]
       /\ m_nPushTime' \in [Units(run.nThreadCount) -> Nat]
  BY <1>1, <1>2, <1>5, <1>9 DEF MgrSound
<1>14. /\ container' \in Seq(Mine)
       /\ Len(container') = Len(container) + 1 /\ Len(container) \in Nat
       /\ container'[Len(container) + 1] = node
       /\ \A i \in 1 .. Len(container) : container'[i] = container[i]
  BY <1>1, <1>6, <1>9
<1>15. ASSUME NEW d \in Mine PROVE Queued(d)' <=> Queued(d) \/ d = node
  BY <1>14 DEF Queued
<1>16. \A d \in Mine : ~Held(d) /\ ~Held(d)'
  BY <1>4, <1>10 DEF Held
<1>17. ASSUME NEW d \in Mine PROVE NodeSound(d)'
  <2>0. NodeSound(d) /\ d[1] \in Units(run.nThreadCount) /\ d[2] \in 0 .. Count - 1 /\ d = <<d[1], d[2]>>
    BY <1>3 DEF RoundSound, Mine, Nodes, Count
  <2>1. CASE d = node
    <3>1. d[2] < m_nPushTime'[d[1]]
      BY <1>5, <1>13, <2>1 DEF node
    <3> QED
      BY <1>12, <1>15, <2>1, <3>1 DEF NodeSound
  <2>2. CASE d # node
    <3>1. d[2] < m_nPushTime'[d[1]] <=> d[2] < m_nPushTime[d[1]]
      <4>1. CASE d[1] = u
        <5>1. d[2] # m_nPushTime[u]
          BY <2>0, <2>2, <4>1 DEF node
        <5> QED
          BY <1>5, <1>13, <2>0, <4>1, <5>1
      <4>2. CASE d[1] # u
        BY <1>13, <2>0, <4>2
      <4> QED
        BY <4>1, <4>2
    <3> QED
      BY <1>12, <1>15, <1>16, <2>0, <2>2, <3>1 DEF NodeSound
  <2> QED
    BY <2>1, <2>2
<1>18. OnePlace'
  <2>1. ASSUME NEW i \in 1 .. Len(container'), NEW j \in 1 .. Len(container'), container'[i] = container'[j]
        PROVE  i = j
    <3>1. i \in 1 .. Len(container) \/ i = Len(container) + 1
      BY <1>14
    <3>2. j \in 1 .. Len(container) \/ j = Len(container) + 1
      BY <1>14
    <3> QED
      BY <1>3, <1>8, <1>14, <2>1, <3>1, <3>2 DEF RoundSound, OnePlace, Queued
  <2> QED
    BY <1>4, <1>10, <2>1 DEF OnePlace
<1>19. \A v \in Units(run.nThreadCount) : PushSound(v)'
  <2>1. ASSUME NEW v \in Units(run.nThreadCount) PROVE PushSound(v)'
    <3>1. PushSound(v)
      BY <1>3 DEF RoundSound
    <3>2. CASE v = u
      <4>1. m_nPushTime[u] + 1 <= Count
        BY <1>5
      <4> QED
        BY <1>4, <1>10, <1>11, <1>13, <3>2, <4>1 DEF PushSound
    <3>3. CASE v # u
      BY <1>10, <1>11, <1>13, <3>1, <3>3 DEF PushSound
    <3> QED
      BY <3>2, <3>3
  <2> QED
    BY <2>1
<1>20. RoundSound'
  BY <1>4, <1>10, <1>11, <1>17, <1>18, <1>19 DEF RoundSound
<1>21. Bounds'
  BY <1>1, <1>10, <1>11, <1>12, <1>13, <1>14 DEF Bounds, RunSound, MgrSound, ThreadsSound, Holds
<1> QED
  BY <1>4, <1>10, <1>20, <1>21 DEF BenchInv, TimedPhases

(* A pushing thread that has sent its messages leaves. *)
LEMMA LastPush ==
  ASSUME BenchInv, NEW u \in DOMAIN pushing, pushing[u] = "content", m_nPushTime[u] >= Count,
         m_nPushTime' = [m_nPushTime EXCEPT ![u] = @ + 1],
         pushing' = [pushing EXCEPT ![u] = "done"],
         UNCHANGED <<container, m_pNode, m_statusTimeFinish, mainVars, popping, hand>>
  PROVE  BenchInv'
<1>1. Bounds /\ RunSound /\ MgrSound /\ ThreadsSound
  BY DEF BenchInv, Bounds
<1>2. u \in Units(run.nThreadCount)
  BY <1>1 DEF ThreadsSound
<1>3. phase \in RoundPhases /\ RoundSound
  BY <1>1, <1>2 DEF BenchInv, RunSound, TimedSound
<1>4. phase = "push" /\ DOMAIN popping = {}
  BY <1>2, <1>3 DEF RoundSound, PushSound
<1>5. Count \in Nat /\ m_nPushTime[u] \in Nat
  BY <1>1, <1>2, Counts DEF MgrSound
<1>6. run' = run /\ phase' = phase /\ popping' = popping /\ hand' = hand /\ container' = container /\ m_pNode' = m_pNode
  BY DEF mainVars
<1>7. Mine' = Mine /\ Count' = Count
  BY <1>6 DEF Mine, Count
<1>8. /\ m_nPushTime'[u] = m_nPushTime[u] + 1
      /\ \A v \in Units(run.nThreadCount) \ {u} : m_nPushTime'[v] = m_nPushTime[v]
      /\ m_nPushTime' \in [Units(run.nThreadCount) -> Nat]
  BY <1>1, <1>2, <1>5 DEF MgrSound
<1>9. /\ pushing'[u] = "done"
      /\ \A v \in Units(run.nThreadCount) \ {u} : pushing'[v] = pushing[v]
      /\ pushing' \in [Units(run.nThreadCount) -> {"content", "status", "push", "done"}]
  BY <1>1, <1>2 DEF ThreadsSound
<1>10. ASSUME NEW v \in Units(run.nThreadCount) PROVE PushSound(v)'
  <2>1. PushSound(v)
    BY <1>3 DEF RoundSound
  <2>2. CASE v = u
    <3>1. m_nPushTime'[u] > Count
      BY <1>5, <1>8
    <3> QED
      BY <1>7, <1>9, <2>2, <3>1 DEF PushSound
  <2>3. CASE v # u
    BY <1>6, <1>7, <1>8, <1>9, <2>1, <2>3 DEF PushSound
  <2> QED
    BY <2>2, <2>3
<1>11. ASSUME NEW d \in Mine PROVE NodeSound(d)'
  <2>0. NodeSound(d) /\ d[1] \in Units(run.nThreadCount) /\ d[2] \in 0 .. Count - 1
    BY <1>3 DEF RoundSound, Mine, Nodes, Count
  <2>1. d[2] < m_nPushTime'[d[1]] <=> d[2] < m_nPushTime[d[1]]
    <3>1. CASE d[1] = u
      BY <1>5, <1>8, <2>0, <3>1
    <3>2. CASE d[1] # u
      BY <1>8, <2>0, <3>2
    <3> QED
      BY <3>1, <3>2
  <2>2. (Queued(d)' <=> Queued(d)) /\ (Held(d)' <=> Held(d))
    BY <1>6 DEF Queued, Held, Holds
  <2> QED
    BY <1>6, <2>0, <2>1, <2>2 DEF NodeSound
<1>12. OnePlace'
  BY <1>3, <1>6 DEF RoundSound, OnePlace, Holds, Queued
<1>13. RoundSound'
  BY <1>4, <1>6, <1>7, <1>10, <1>11, <1>12 DEF RoundSound
<1>14. Bounds'
  BY <1>1, <1>6, <1>7, <1>8, <1>9 DEF Bounds, RunSound, MgrSound, ThreadsSound, Holds
<1> QED
  BY <1>4, <1>6, <1>13, <1>14 DEF BenchInv, TimedPhases

LEMMA PushContentFuncKeeps ==
  ASSUME BenchInv, NEW u \in DOMAIN pushing, PushContentFunc(u)
  PROVE  BenchInv'
<1>1. pushing[u] = "content" /\ Count = m_nCount(run.nThreadCount)
  BY DEF PushContentFunc, Count
<1>2. CASE m_nPushTime[u] < Count /\ Send(u, Count) /\ UNCHANGED pushing
  BY <1>1, <1>2, SendInRound DEF PushContentFunc
<1>3. CASE /\ m_nPushTime[u] >= Count
           /\ m_nPushTime' = [m_nPushTime EXCEPT ![u] = @ + 1]
           /\ pushing' = [pushing EXCEPT ![u] = "done"]
           /\ UNCHANGED <<container, m_pNode>>
  BY <1>1, <1>3, LastPush DEF PushContentFunc
<1> QED
  BY <1>1, <1>2, <1>3 DEF PushContentFunc

(* Main joins the pushing threads and starts the popping ones. *)
LEMMA JoinPushKeeps ==
  ASSUME BenchInv, JoinPush
  PROVE  BenchInv'
<1>1. Bounds /\ RunSound /\ MgrSound /\ ThreadsSound /\ RoundSound
  BY DEF BenchInv, Bounds, JoinPush, RoundPhases
<1>2. /\ run' = run /\ container' = container /\ m_pNode' = m_pNode /\ m_nPushTime' = m_nPushTime
      /\ pushing' = pushing /\ phase = "push" /\ phase' = "pop" /\ AllDone(pushing)
  BY DEF JoinPush, mgrVars
<1>3. Mine' = Mine /\ Count' = Count
  BY <1>2 DEF Mine, Count
<1>4. /\ DOMAIN popping' = Units(run.nThreadCount)
      /\ popping' = [c \in Units(run.nThreadCount) |-> "drain"]
      /\ hand' = [c \in Units(run.nThreadCount) |-> NoHand]
  BY DEF JoinPush, StartPop
<1>5. DOMAIN popping = {}
  BY <1>1, <1>2 DEF RoundSound
<1>6. \A u \in Units(run.nThreadCount) : PushSound(u)'
  BY <1>1, <1>2, <1>3 DEF RoundSound, PushSound, AllDone, ThreadsSound
<1>7. ASSUME NEW d \in Mine PROVE NodeSound(d)'
  <2>1. NodeSound(d)
    BY <1>1 DEF RoundSound
  <2>2. (Queued(d)' <=> Queued(d)) /\ ~Held(d)' /\ ~Held(d)
    BY <1>2, <1>4, <1>5 DEF Queued, Held, Holds
  <2> QED
    BY <1>2, <2>1, <2>2 DEF NodeSound
<1>8. OnePlace'
  BY <1>1, <1>2, <1>4 DEF RoundSound, OnePlace, Holds
<1>9. \A c \in DOMAIN popping' : PopSound(c)'
  BY <1>4 DEF PopSound, Holds
<1>10. RoundSound'
  BY <1>2, <1>3, <1>4, <1>6, <1>7, <1>8, <1>9 DEF RoundSound
<1>11. NoHand \in Hands
  BY DEF NoHand, Hands
<1>12. Bounds'
  BY <1>1, <1>2, <1>3, <1>4, <1>11 DEF Bounds, RunSound, MgrSound, ThreadsSound, Holds, RoundPhases
<1> QED
  BY <1>2, <1>10, <1>12 DEF BenchInv, TimedPhases

(* Main only goes on, in a round. *)
LEMMA MainGoesOn ==
  ASSUME BenchInv, JoinPop \/ Finish
  PROVE  BenchInv'
<1>1. Bounds /\ RunSound /\ MgrSound /\ ThreadsSound /\ RoundSound
  BY DEF BenchInv, Bounds, JoinPop, Finish, RoundPhases
<1>2. /\ run' = run /\ container' = container /\ m_pNode' = m_pNode /\ m_nPushTime' = m_nPushTime
      /\ pushing' = pushing /\ popping' = popping /\ hand' = hand
      /\ phase \in {"pop", "check"} /\ phase' \in {"check", "end"}
  BY DEF JoinPop, Finish, mgrVars
<1>3. AllDone(popping)
  BY RoundOver DEF JoinPop, Finish
<1>4. Mine' = Mine /\ Count' = Count
  BY <1>2 DEF Mine, Count
<1>5. \A u \in Units(run.nThreadCount) : PushSound(u)'
  BY <1>1, <1>2, <1>4 DEF RoundSound, PushSound
<1>6. ASSUME NEW d \in Mine PROVE NodeSound(d)'
  <2>1. NodeSound(d)
    BY <1>1 DEF RoundSound
  <2>2. (Queued(d)' <=> Queued(d)) /\ (Held(d)' <=> Held(d))
    BY <1>2 DEF Queued, Held, Holds
  <2> QED
    BY <1>2, <2>1, <2>2 DEF NodeSound
<1>7. OnePlace'
  BY <1>1, <1>2 DEF RoundSound, OnePlace, Holds, Queued
<1>8. \A c \in DOMAIN popping' : PopSound(c)'
  BY <1>1, <1>2 DEF RoundSound, PopSound, Holds
<1>9. RoundSound'
  BY <1>1, <1>2, <1>3, <1>4, <1>5, <1>6, <1>7, <1>8 DEF RoundSound, AllDone
<1>10. Bounds'
  BY <1>1, <1>2, <1>4 DEF Bounds, RunSound, MgrSound, ThreadsSound, Holds, RoundPhases
<1> QED
  BY <1>2, <1>9, <1>10 DEF BenchInv, TimedPhases

(* The number of threads of the next round. *)
LEMMA NextRoundKeeps ==
  ASSUME BenchInv, NextRound
  PROVE  BenchInv'
<1>1. RunSound
  BY DEF BenchInv, Bounds
<1>2. container' = <<>>
  BY RoundOver DEF NextRound
<1>3. run'.nThreadCount \in 1 .. nMaxThread
  <2>0. /\ run.nThreadCount \in Nat /\ run.nThreadCount >= 1 /\ nMaxThread \in Nat
        /\ run.nThreadCount \in 1 .. nMaxThread /\ nMinThread \in 1 .. nMaxThread
    BY <1>1, Counts, RoundsAssumption DEF RunSound
  <2>1. CASE run' = [run EXCEPT !.repeat = @ + 1]
    BY <2>0, <2>1
  <2>2. CASE MoreThreads /\ run' = [run EXCEPT !.nThreadCount = @ * 2, !.repeat = 0]
    <3>1. run.nThreadCount * 2 \in 1 .. nMaxThread
      BY <2>0, <2>2 DEF MoreThreads
    <3>2. CASE "nThreadCount" \in DOMAIN run
      BY <2>2, <3>1, <3>2
    <3>3. CASE "nThreadCount" \notin DOMAIN run
      BY <2>2, <3>1, <3>3
    <3> QED
      BY <3>2, <3>3
  <2>3. CASE run' = Round(run.queue, run.times + 1, nMinThread, 0)
    BY <2>0, <2>3 DEF Round
  <2>4. \/ run' = [run EXCEPT !.repeat = @ + 1]
        \/ MoreThreads /\ run' = [run EXCEPT !.nThreadCount = @ * 2, !.repeat = 0]
        \/ run' = Round(run.queue, run.times + 1, nMinThread, 0)
    <3>1. run' \in NextRounds
      BY DEF NextRound
    <3> QED
      BY <3>1 DEF NextRounds
  <2> QED
    BY <2>1, <2>2, <2>3, <2>4
<1> QED
  BY <1>2, <1>3, FreshRound DEF NextRound

---------------------------------------------------------------------------
(* Steps of popping threads, in a round or in the timed test. *)

(* What a popping thread leaves alone. *)
LEMMA PopFrame ==
  ASSUME NEW c \in DOMAIN popping, PopContent(c) \/ ReceiveLoad(c) \/ ReceiveStore(c)
  PROVE  /\ run' = run /\ phase' = phase /\ pushing' = pushing /\ m_nPushTime' = m_nPushTime
         /\ Mine' = Mine /\ Count' = Count
BY DEF PopContent, ReceiveLoad, ReceiveStore, mgrVars, mainVars, Mine, Count

LEMMA PopBounds ==
  ASSUME BenchInv, NEW c \in DOMAIN popping, PopContent(c) \/ ReceiveLoad(c) \/ ReceiveStore(c)
  PROVE  Bounds' /\ DOMAIN popping' = DOMAIN popping /\ (phase \in TimedPhases => TimedSound')
<1>1. Bounds /\ RunSound /\ MgrSound /\ ThreadsSound /\ container \in Seq(Mine)
  BY DEF BenchInv, Bounds
<1>2. /\ run' = run /\ phase' = phase /\ pushing' = pushing /\ m_nPushTime' = m_nPushTime
      /\ Mine' = Mine
  BY PopFrame
<1>3. phase \in TimedPhases => TimedSound'
  BY <1>2 DEF BenchInv, TimedSound
<1>4. hand[c] \in Hands /\ Mine \subseteq Nat \X Nat
  <2>1. Units(run.nThreadCount) \subseteq Nat /\ 0 .. Count - 1 \subseteq Nat
    BY <1>1, Counts DEF Units
  <2>2. Mine = Units(run.nThreadCount) \X (0 .. Count - 1)
    BY DEF Mine, Nodes, Count
  <2> QED
    BY <1>1, <2>1, <2>2 DEF ThreadsSound
<1>5. CASE PopContent(c)
  <2>1. CASE container = <<>>
    <3>1. /\ popping' = [popping EXCEPT ![c] = Otherwise(@)] /\ hand' = hand /\ container' = container
          /\ m_pNode' = m_pNode
      BY <1>5, <2>1 DEF PopContent, mgrVars
    <3>2. popping'[c] \in {"status", "done"} /\ popping' \in [DOMAIN popping -> {"status", "pop", "drain", "load", "store", "done"}]
      BY <1>1, <3>1 DEF Otherwise, ThreadsSound
    <3>3. \A e \in DOMAIN popping \ {c} : popping'[e] = popping[e]
      BY <3>1
    <3>4. ThreadsSound'
      BY <1>1, <1>2, <3>1, <3>2, <3>3 DEF ThreadsSound, Holds
    <3> QED
      BY <1>1, <1>2, <1>3, <3>1, <3>2, <3>4 DEF Bounds, RunSound, MgrSound
  <2>2. CASE container # <<>>
    <3>1. /\ container' = Tail(container)
          /\ hand' = [hand EXCEPT ![c].node = Head(container), ![c].then = After(popping[c])]
          /\ popping' = [popping EXCEPT ![c] = "load"]
          /\ m_pNode' = m_pNode
      BY <1>5, <2>2 DEF PopContent, mgrVars
    <3>2. Head(container) \in Mine /\ container' \in Seq(Mine)
      BY <1>1, <2>2, <3>1, HeadTailProperties
    <3>3. After(popping[c]) \in {"status", "drain"}
      BY DEF After
    <3>4. hand'[c] \in Hands /\ hand'[c].node \in Mine /\ hand' \in [DOMAIN popping -> Hands]
      BY <1>1, <1>4, <3>1, <3>2, <3>3 DEF ThreadsSound, Hands
    <3>5. \A e \in DOMAIN popping \ {c} : popping'[e] = popping[e] /\ hand'[e] = hand[e]
      BY <1>1, <3>1 DEF ThreadsSound
    <3>6. popping' \in [DOMAIN popping -> {"status", "pop", "drain", "load", "store", "done"}]
      BY <1>1, <3>1 DEF ThreadsSound
    <3>7. ThreadsSound'
      BY <1>1, <1>2, <3>4, <3>5, <3>6 DEF ThreadsSound, Holds
    <3> QED
      BY <1>1, <1>2, <1>3, <3>1, <3>2, <3>6, <3>7 DEF Bounds, RunSound, MgrSound
  <2> QED
    BY <2>1, <2>2
<1>6. CASE ReceiveLoad(c)
  <2>1. /\ popping[c] = "load" /\ hand[c].node \in Mine
        /\ hand' = [hand EXCEPT ![c].received = m_pNode[hand[c].node].m_nReceived]
        /\ popping' = [popping EXCEPT ![c] = "store"] /\ container' = container /\ m_pNode' = m_pNode
    BY <1>1, <1>6 DEF ReceiveLoad, mgrVars, MgrSound
  <2>2. m_pNode[hand[c].node].m_nReceived \in Nat
    BY <1>1, <2>1 DEF MgrSound
  <2>3. hand'[c] \in Hands /\ hand'[c].node \in Mine /\ hand' \in [DOMAIN popping -> Hands]
    BY <1>1, <1>4, <2>1, <2>2 DEF ThreadsSound, Hands
  <2>4. \A e \in DOMAIN popping \ {c} : popping'[e] = popping[e] /\ hand'[e] = hand[e]
    BY <1>1, <2>1 DEF ThreadsSound
  <2>5. popping' \in [DOMAIN popping -> {"status", "pop", "drain", "load", "store", "done"}]
    BY <1>1, <2>1 DEF ThreadsSound
  <2>6. ThreadsSound'
    BY <1>1, <1>2, <2>3, <2>4, <2>5 DEF ThreadsSound, Holds
  <2> QED
    BY <1>1, <1>2, <1>3, <2>1, <2>5, <2>6 DEF Bounds, RunSound, MgrSound
<1>7. CASE ReceiveStore(c)
  <2>1. /\ popping[c] = "store" /\ hand[c].node \in Mine
        /\ m_pNode' = [m_pNode EXCEPT ![hand[c].node].m_nReceived = hand[c].received + 1]
        /\ hand' = [hand EXCEPT ![c] = NoHand]
        /\ popping' = [popping EXCEPT ![c] = hand[c].then] /\ container' = container
    BY <1>1, <1>7 DEF ReceiveStore, ThreadsSound, Holds
  <2>2. hand[c].received + 1 \in Nat /\ hand[c].then \in {"status", "drain", "done"}
    BY <1>4 DEF Hands
  <2>3. m_pNode' \in [Mine -> [m_nSend : Nat, m_nReceived : Nat]]
    BY <1>1, <2>1, <2>2 DEF MgrSound
  <2>4. NoHand \in Hands
    BY DEF NoHand, Hands
  <2>5. hand' \in [DOMAIN popping -> Hands]
    BY <1>1, <2>1, <2>4 DEF ThreadsSound
  <2>6. \A e \in DOMAIN popping \ {c} : popping'[e] = popping[e] /\ hand'[e] = hand[e]
    BY <1>1, <2>1 DEF ThreadsSound
  <2>7. /\ popping'[c] \in {"status", "drain", "done"}
        /\ popping' \in [DOMAIN popping -> {"status", "pop", "drain", "load", "store", "done"}]
    BY <1>1, <2>1, <2>2 DEF ThreadsSound
  <2>8. ThreadsSound'
    BY <1>1, <1>2, <2>5, <2>6, <2>7 DEF ThreadsSound, Holds
  <2> QED
    BY <1>1, <1>2, <1>3, <2>1, <2>3, <2>7, <2>8 DEF Bounds, RunSound, MgrSound
<1> QED
  BY <1>5, <1>6, <1>7

(* In a round, a popping thread finds the queue empty. *)
LEMMA PopNothing ==
  ASSUME BenchInv, phase \in RoundPhases, NEW c \in DOMAIN popping, PopContent(c), container = <<>>
  PROVE  RoundSound'
<1>1. Bounds /\ RunSound /\ ThreadsSound /\ RoundSound
  BY DEF BenchInv, Bounds
<1>2. /\ run' = run /\ phase' = phase /\ pushing' = pushing /\ m_nPushTime' = m_nPushTime
      /\ Mine' = Mine /\ Count' = Count
  BY PopFrame
<1>3. popping[c] = "drain"
  BY <1>1 DEF PopContent, RoundSound, PopSound
<1>4. /\ popping' = [popping EXCEPT ![c] = "done"] /\ hand' = hand /\ container' = container
      /\ m_pNode' = m_pNode
  BY <1>3 DEF PopContent, mgrVars, Otherwise
<1>5. ASSUME NEW e \in DOMAIN popping PROVE Holds(e)' <=> Holds(e)
  BY <1>3, <1>4 DEF Holds
<1>6. DOMAIN popping' = DOMAIN popping
  BY <1>4
<1>7. ASSUME NEW d \in Mine PROVE NodeSound(d)'
  <2>1. NodeSound(d)
    BY <1>1 DEF RoundSound
  <2>2. (Queued(d)' <=> Queued(d)) /\ (Held(d)' <=> Held(d))
    BY <1>4, <1>5, <1>6 DEF Queued, Held
  <2> QED
    BY <1>2, <1>4, <2>1, <2>2 DEF NodeSound
<1>8. OnePlace'
  BY <1>1, <1>4, <1>5, <1>6 DEF RoundSound, OnePlace, Queued
<1>9. ASSUME NEW e \in DOMAIN popping PROVE PopSound(e)'
  <2>1. PopSound(e)
    BY <1>1 DEF RoundSound
  <2>2. CASE e = c
    BY <1>3, <1>4, <1>5, <2>2 DEF PopSound, Holds
  <2>3. CASE e # c
    BY <1>4, <1>5, <2>1, <2>3 DEF PopSound
  <2> QED
    BY <2>2, <2>3
<1>10. ~AllDone(popping)
  BY <1>3 DEF AllDone
<1>11. \A u \in Units(run.nThreadCount) : PushSound(u)'
  BY <1>1, <1>2 DEF RoundSound, PushSound
<1> QED
  BY <1>1, <1>2, <1>6, <1>7, <1>8, <1>9, <1>10, <1>11 DEF RoundSound

(* In a round, a popping thread takes the oldest message into its hands. *)
LEMMA PopFound ==
  ASSUME BenchInv, phase \in RoundPhases, NEW c \in DOMAIN popping, PopContent(c), container # <<>>
  PROVE  RoundSound'
<1> DEFINE node == Head(container)
<1>1. Bounds /\ RunSound /\ ThreadsSound /\ RoundSound /\ container \in Seq(Mine)
  BY DEF BenchInv, Bounds
<1>2. /\ run' = run /\ phase' = phase /\ pushing' = pushing /\ m_nPushTime' = m_nPushTime
      /\ Mine' = Mine /\ Count' = Count
  BY PopFrame
<1>3. popping[c] = "drain"
  BY <1>1 DEF PopContent, RoundSound, PopSound
<1>4. /\ container' = Tail(container)
      /\ hand' = [hand EXCEPT ![c].node = node, ![c].then = "drain"]
      /\ popping' = [popping EXCEPT ![c] = "load"]
      /\ m_pNode' = m_pNode
  BY <1>3 DEF PopContent, mgrVars, After
<1>5. /\ node \in Mine /\ node = container[1]
      /\ Len(container) \in Nat /\ Len(container) >= 1
      /\ Len(container') = Len(container) - 1
      /\ \A i \in 1 .. Len(container') : container'[i] = container[i + 1]
  <2>1. node = container[1] /\ Len(Tail(container)) = Len(container) - 1 /\ Len(container) \in Nat
        /\ \A i \in 1 .. Len(Tail(container)) : Tail(container)[i] = container[i + 1]
    BY <1>1, HeadTailProperties
  <2>2. Len(container) # 0 /\ node \in Mine
    BY <1>1, HeadTailProperties
  <2> QED
    BY <1>4, <2>1, <2>2
<1>6. /\ popping'[c] = "load" /\ hand'[c].node = node /\ hand'[c].then = "drain"
      /\ \A e \in DOMAIN popping \ {c} : popping'[e] = popping[e] /\ hand'[e] = hand[e]
      /\ DOMAIN popping' = DOMAIN popping
  <2>1. DOMAIN hand = DOMAIN popping /\ hand[c] \in Hands
    BY <1>1 DEF ThreadsSound
  <2> QED
    BY <1>4, <2>1 DEF Hands
<1> HIDE DEF node
<1>7. Queued(node)
  BY <1>5 DEF Queued
<1>8. ~Holds(c) /\ Holds(c)' /\ \A e \in DOMAIN popping \ {c} : Holds(e)' <=> Holds(e)
  BY <1>3, <1>6 DEF Holds
<1>9. ASSUME NEW d \in Mine PROVE Queued(d)' <=> Queued(d) /\ d # node
  <2>1. ASSUME NEW i \in 1 .. Len(container'), container'[i] = d PROVE Queued(d) /\ d # node
    <3>1. i + 1 \in 1 .. Len(container) /\ 1 \in 1 .. Len(container) /\ container[i + 1] = d /\ i + 1 # 1
      BY <1>5, <2>1
    <3> QED
      BY <1>1, <1>5, <3>1 DEF Queued, RoundSound, OnePlace
  <2>2. ASSUME NEW i \in 1 .. Len(container), container[i] = d, d # node PROVE Queued(d)'
    <3>1. i # 1
      BY <1>5, <2>2
    <3>2. i - 1 \in 1 .. Len(container') /\ (i - 1) + 1 = i
      BY <1>5, <3>1
    <3>3. container'[i - 1] = d
      BY <1>5, <2>2, <3>2
    <3> QED
      BY <3>2, <3>3 DEF Queued
  <2> QED
    BY <2>1, <2>2 DEF Queued
<1>10. ASSUME NEW d \in Mine PROVE Held(d)' <=> Held(d) \/ d = node
  <2>1. d = node => Held(d)'
    BY <1>6, <1>8 DEF Held
  <2>2. Held(d) => Held(d)'
    BY <1>6, <1>8 DEF Held
  <2>3. Held(d)' => Held(d) \/ d = node
    BY <1>6, <1>8 DEF Held
  <2> QED
    BY <2>1, <2>2, <2>3
<1>11. ASSUME NEW d \in Mine PROVE NodeSound(d)'
  <2>1. NodeSound(d)
    BY <1>1 DEF RoundSound
  <2>2. Queued(d)' \/ Held(d)' <=> Queued(d) \/ Held(d)
    BY <1>7, <1>9, <1>10
  <2> QED
    BY <1>2, <1>4, <2>1, <2>2 DEF NodeSound
<1>12. OnePlace'
  <2>1. ASSUME NEW i \in 1 .. Len(container'), NEW j \in 1 .. Len(container'), container'[i] = container'[j]
        PROVE  i = j
    <3>1. i + 1 \in 1 .. Len(container) /\ j + 1 \in 1 .. Len(container) /\ container[i + 1] = container[j + 1]
      BY <1>5, <2>1
    <3>2. i + 1 = j + 1
      BY <1>1, <3>1 DEF RoundSound, OnePlace
    <3> QED
      BY <3>2
  <2>2. ASSUME NEW e \in DOMAIN popping, Holds(e)', NEW i \in 1 .. Len(container')
        PROVE  container'[i] # hand'[e].node
    <3>1. PICK d : d = hand'[e].node
      OBVIOUS
    <3>2. d \in Mine /\ (Queued(d) => d = node)
      <4>1. CASE e = c
        BY <1>5, <1>6, <3>1, <4>1
      <4>2. CASE e # c
        <5>1. Holds(e) /\ d = hand[e].node
          BY <1>6, <1>8, <2>2, <3>1, <4>2
        <5> QED
          BY <1>1, <5>1 DEF ThreadsSound, RoundSound, OnePlace
      <4> QED
        BY <4>1, <4>2
    <3>3. ~Queued(d)'
      BY <1>9, <3>2
    <3> QED
      BY <3>1, <3>3 DEF Queued
  <2>3. ASSUME NEW e \in DOMAIN popping \ {c}, Holds(e)' PROVE hand'[e].node # node
    <3>1. Holds(e) /\ hand'[e] = hand[e]
      BY <1>6, <1>8, <2>3
    <3> QED
      BY <1>1, <1>7, <3>1 DEF RoundSound, OnePlace
  <2>4. ASSUME NEW e \in DOMAIN popping, NEW f \in DOMAIN popping,
               Holds(e)' /\ Holds(f)' /\ hand'[e].node = hand'[f].node
        PROVE  e = f
    <3>1. CASE e = c \/ f = c
      BY <1>6, <2>3, <2>4, <3>1
    <3>2. CASE e # c /\ f # c
      BY <1>1, <1>6, <1>8, <2>4, <3>2 DEF RoundSound, OnePlace
    <3> QED
      BY <3>1, <3>2
  <2> QED
    BY <1>6, <2>1, <2>2, <2>4 DEF OnePlace, Queued
<1>13. ASSUME NEW e \in DOMAIN popping PROVE PopSound(e)'
  <2>1. PopSound(e)
    BY <1>1 DEF RoundSound
  <2>2. CASE e = c
    BY <1>6, <2>2 DEF PopSound, Holds
  <2>3. CASE e # c
    <3>1. popping[e] # "done"
      BY <2>1 DEF PopSound
    <3> QED
      BY <1>6, <1>8, <2>1, <2>3, <3>1 DEF PopSound
  <2> QED
    BY <2>2, <2>3
<1>14. ~AllDone(popping)
  BY <1>3 DEF AllDone
<1>15. \A u \in Units(run.nThreadCount) : PushSound(u)'
  BY <1>1, <1>2 DEF RoundSound, PushSound
<1> QED
  BY <1>1, <1>2, <1>6, <1>11, <1>12, <1>13, <1>14, <1>15 DEF RoundSound

(* In a round, the load of m_nReceived++ finds it zero. *)
LEMMA LoadKeeps ==
  ASSUME BenchInv, phase \in RoundPhases, NEW c \in DOMAIN popping, ReceiveLoad(c)
  PROVE  RoundSound'
<1>1. Bounds /\ RunSound /\ ThreadsSound /\ RoundSound
  BY DEF BenchInv, Bounds
<1>2. /\ run' = run /\ phase' = phase /\ pushing' = pushing /\ m_nPushTime' = m_nPushTime
      /\ Mine' = Mine /\ Count' = Count
  BY PopFrame
<1>3. /\ popping[c] = "load" /\ container' = container /\ m_pNode' = m_pNode
      /\ hand' = [hand EXCEPT ![c].received = m_pNode[hand[c].node].m_nReceived]
      /\ popping' = [popping EXCEPT ![c] = "store"]
  BY DEF ReceiveLoad, mgrVars
<1>4. m_pNode[hand[c].node].m_nReceived = 0
  <2>1. Holds(c) /\ hand[c].node \in Mine /\ Held(hand[c].node)
    BY <1>1, <1>3 DEF Holds, ThreadsSound, Held
  <2> QED
    BY <1>1, <2>1 DEF RoundSound, NodeSound
<1>5. /\ popping'[c] = "store" /\ hand'[c].received = 0
      /\ hand'[c].node = hand[c].node /\ hand'[c].then = hand[c].then
      /\ DOMAIN popping' = DOMAIN popping
      /\ \A e \in DOMAIN popping \ {c} : popping'[e] = popping[e] /\ hand'[e] = hand[e]
  <2>1. DOMAIN hand = DOMAIN popping /\ hand[c] \in Hands
    BY <1>1 DEF ThreadsSound
  <2> QED
    BY <1>3, <1>4, <2>1 DEF Hands
<1>6. \A e \in DOMAIN popping : (Holds(e)' <=> Holds(e)) /\ hand'[e].node = hand[e].node
  BY <1>3, <1>5 DEF Holds
<1>7. ASSUME NEW d \in Mine PROVE NodeSound(d)'
  <2>1. NodeSound(d)
    BY <1>1 DEF RoundSound
  <2>2. (Queued(d)' <=> Queued(d)) /\ (Held(d)' <=> Held(d))
    BY <1>3, <1>5, <1>6 DEF Queued, Held
  <2> QED
    BY <1>2, <1>3, <2>1, <2>2 DEF NodeSound
<1>8. OnePlace'
  BY <1>1, <1>3, <1>5, <1>6 DEF RoundSound, OnePlace, Queued
<1>9. ASSUME NEW e \in DOMAIN popping PROVE PopSound(e)'
  <2>1. PopSound(e)
    BY <1>1 DEF RoundSound
  <2>2. CASE e = c
    BY <1>3, <1>5, <2>1, <2>2 DEF PopSound, Holds
  <2>3. CASE e # c
    BY <1>3, <1>5, <1>6, <2>1, <2>3 DEF PopSound
  <2> QED
    BY <2>2, <2>3
<1>10. ~AllDone(popping)
  BY <1>3 DEF AllDone
<1>11. \A u \in Units(run.nThreadCount) : PushSound(u)'
  BY <1>1, <1>2 DEF RoundSound, PushSound
<1> QED
  BY <1>1, <1>2, <1>5, <1>7, <1>8, <1>9, <1>10, <1>11 DEF RoundSound

(* In a round, the store of m_nReceived++ makes it one. *)
LEMMA StoreKeeps ==
  ASSUME BenchInv, phase \in RoundPhases, NEW c \in DOMAIN popping, ReceiveStore(c)
  PROVE  RoundSound'
<1> DEFINE node == hand[c].node
<1>1. Bounds /\ RunSound /\ MgrSound /\ ThreadsSound /\ RoundSound
  BY DEF BenchInv, Bounds
<1>2. /\ run' = run /\ phase' = phase /\ pushing' = pushing /\ m_nPushTime' = m_nPushTime
      /\ Mine' = Mine /\ Count' = Count
  BY PopFrame
<1>3. popping[c] = "store" /\ Holds(c) /\ node \in Mine /\ Held(node)
  BY <1>1 DEF ReceiveStore, Holds, ThreadsSound, Held
<1>4. hand[c].received = 0 /\ hand[c].then = "drain"
  BY <1>1, <1>3 DEF RoundSound, PopSound
<1>5. /\ container' = container
      /\ m_pNode' = [m_pNode EXCEPT ![node].m_nReceived = 1]
      /\ popping' = [popping EXCEPT ![c] = "drain"]
      /\ hand' = [hand EXCEPT ![c] = NoHand]
  BY <1>4 DEF ReceiveStore
<1>6. /\ popping'[c] = "drain" /\ DOMAIN popping' = DOMAIN popping
      /\ \A e \in DOMAIN popping \ {c} : popping'[e] = popping[e] /\ hand'[e] = hand[e]
  BY <1>1, <1>5 DEF ThreadsSound
<1>7. m_pNode[node].m_nSend = 1 /\ ~Queued(node)
  BY <1>1, <1>3 DEF RoundSound, NodeSound, OnePlace
<1>8. /\ m_pNode'[node].m_nReceived = 1 /\ m_pNode'[node].m_nSend = 1
      /\ \A d \in Mine \ {node} : m_pNode'[d] = m_pNode[d]
  BY <1>1, <1>3, <1>5, <1>7 DEF MgrSound
<1>9. ~Holds(c)' /\ \A e \in DOMAIN popping \ {c} : Holds(e)' <=> Holds(e)
  BY <1>6 DEF Holds
<1>10. ASSUME NEW d \in Mine PROVE Held(d)' <=> Held(d) /\ d # node
  <2>1. \A e \in DOMAIN popping \ {c} : Holds(e) => hand[e].node # node
    BY <1>1, <1>3 DEF RoundSound, OnePlace
  <2> HIDE DEF node
  <2>2. Held(d)' => Held(d) /\ d # node
    BY <1>6, <1>9, <2>1 DEF Held
  <2>3. Held(d) /\ d # node => Held(d)'
    BY <1>6, <1>9 DEF Held, node
  <2> QED
    BY <2>2, <2>3
<1>11. ASSUME NEW d \in Mine PROVE NodeSound(d)'
  <2>1. NodeSound(d) /\ (Queued(d)' <=> Queued(d))
    BY <1>1, <1>5 DEF RoundSound, Queued
  <2>2. NodeSound(node)
    BY <1>1, <1>3 DEF RoundSound
  <2> HIDE DEF node
  <2>3. CASE d = node
    <3>1. ~Queued(d)' /\ ~Held(d)'
      BY <1>7, <1>10, <2>1, <2>3
    <3>2. d[2] < m_nPushTime'[d[1]]
      BY <1>2, <1>7, <2>2, <2>3 DEF NodeSound
    <3> QED
      BY <1>8, <2>3, <3>1, <3>2 DEF NodeSound
  <2>4. CASE d # node
    BY <1>2, <1>8, <1>10, <2>1, <2>4 DEF NodeSound
  <2> QED
    BY <2>3, <2>4
<1>12. OnePlace'
  BY <1>1, <1>5, <1>6, <1>9 DEF RoundSound, OnePlace, Queued
<1>13. ASSUME NEW e \in DOMAIN popping PROVE PopSound(e)'
  <2>1. PopSound(e)
    BY <1>1 DEF RoundSound
  <2>2. CASE e = c
    BY <1>6, <1>9, <2>2 DEF PopSound
  <2>3. CASE e # c
    BY <1>5, <1>6, <1>9, <2>1, <2>3 DEF PopSound
  <2> QED
    BY <2>2, <2>3
<1>14. ~AllDone(popping)
  BY <1>3 DEF AllDone
<1>15. \A u \in Units(run.nThreadCount) : PushSound(u)'
  BY <1>1, <1>2 DEF RoundSound, PushSound
<1> QED
  BY <1>1, <1>2, <1>6, <1>11, <1>12, <1>13, <1>14, <1>15 DEF RoundSound

(* A popping thread, in its round or in the timed test. *)
LEMMA PopThreadKeeps ==
  ASSUME BenchInv, NEW c \in DOMAIN popping, PopContent(c) \/ ReceiveLoad(c) \/ ReceiveStore(c)
  PROVE  BenchInv'
<1>1. Bounds' /\ phase' = phase /\ (phase \in TimedPhases => TimedSound')
  BY PopBounds, PopFrame
<1>2. ASSUME phase \in RoundPhases PROVE RoundSound'
  BY <1>2, PopNothing, PopFound, LoadKeeps, StoreKeeps
<1> QED
  BY <1>1, <1>2 DEF BenchInv

---------------------------------------------------------------------------
(* Steps of the timed test. *)

(* A pushing thread that looks at the status, and a popping one. *)
LEMMA StatusKeeps ==
  ASSUME BenchInv,
         (\E u \in DOMAIN pushing : PushStatus(u)) \/ (\E c \in DOMAIN popping : PopStatus(c))
  PROVE  BenchInv'
<1>1. Bounds /\ RunSound /\ MgrSound /\ ThreadsSound /\ container \in Seq(Mine)
  BY DEF BenchInv, Bounds
<1>2. phase \notin RoundPhases
  BY <1>1 DEF BenchInv, RoundSound, PushSound, PopSound, PushStatus, PopStatus, ThreadsSound
<1>3. phase \in TimedPhases /\ TimedSound
  BY <1>1, <1>2 DEF RunSound, BenchInv
<1>4. /\ run' = run /\ phase' = phase /\ container' = container
      /\ m_pNode' = m_pNode /\ m_nPushTime' = m_nPushTime /\ hand' = hand
  BY DEF PushStatus, PopStatus, mgrVars, mainVars
<1>5. Mine' = Mine
  BY <1>4 DEF Mine
<1>6. CASE \E u \in DOMAIN pushing : PushStatus(u)
  <2>1. PICK u \in DOMAIN pushing : PushStatus(u)
    BY <1>6
  <2>2. popping' = popping /\ (pushing' = [pushing EXCEPT ![u] = "push"] \/ pushing' = [pushing EXCEPT ![u] = "done"])
    BY <2>1 DEF PushStatus
  <2>3. ThreadsSound'
    BY <1>1, <1>4, <1>5, <2>2 DEF ThreadsSound, Holds
  <2>4. TimedSound'
    BY <1>1, <1>3, <1>4, <2>2 DEF TimedSound, ThreadsSound
  <2> QED
    BY <1>1, <1>2, <1>4, <1>5, <2>3, <2>4 DEF BenchInv, Bounds, RunSound, MgrSound
<1>7. CASE \E c \in DOMAIN popping : PopStatus(c)
  <2>1. PICK c \in DOMAIN popping : PopStatus(c)
    BY <1>7
  <2>2. pushing' = pushing /\ (popping' = [popping EXCEPT ![c] = "drain"] \/ popping' = [popping EXCEPT ![c] = "pop"])
    BY <2>1 DEF PopStatus
  <2>3. ThreadsSound'
    BY <1>1, <1>4, <1>5, <2>2 DEF ThreadsSound, Holds
  <2>4. TimedSound'
    BY <1>3, <1>4, <2>2 DEF TimedSound
  <2> QED
    BY <1>1, <1>2, <1>4, <1>5, <2>3, <2>4 DEF BenchInv, Bounds, RunSound, MgrSound
<1> QED
  BY <1>6, <1>7

(* A push of the timed test. *)
LEMMA TimedPushKeeps ==
  ASSUME BenchInv, NEW u \in DOMAIN pushing, PushContentNoNull(u)
  PROVE  BenchInv'
<1> DEFINE node == <<u, m_nPushTime[u] % Count>>
<1>1. Bounds /\ RunSound /\ MgrSound /\ ThreadsSound /\ container \in Seq(Mine)
  BY DEF BenchInv, Bounds
<1>2. u \in Units(run.nThreadCount) /\ pushing[u] = "push"
  BY <1>1 DEF ThreadsSound, PushContentNoNull
<1>3. phase \notin RoundPhases
  BY <1>2 DEF BenchInv, RoundSound, PushSound
<1>4. phase \in TimedPhases /\ TimedSound
  BY <1>1, <1>3 DEF RunSound, BenchInv
<1>5. /\ run' = run /\ phase' = phase /\ popping' = popping /\ hand' = hand
      /\ pushing' = [pushing EXCEPT ![u] = "status"]
      /\ m_pNode' = [m_pNode EXCEPT ![node].m_nSend = @ + 1]
      /\ m_nPushTime' = [m_nPushTime EXCEPT ![u] = @ + 1]
      /\ container' = container \/ container' = Append(container, node)
  BY DEF PushContentNoNull, Send, mainVars, Count
<1>6. Mine' = Mine
  BY <1>5 DEF Mine
<1>7. node \in Mine
  <2>1. Count \in Nat /\ Count >= 1 /\ m_nPushTime[u] \in Nat
    BY <1>1, <1>2, Counts DEF MgrSound
  <2>2. m_nPushTime[u] % Count \in 0 .. Count - 1
    BY <2>1
  <2> QED
    BY <1>2, <2>2 DEF Mine, Nodes, Count
<1> HIDE DEF node
<1>8. container' \in Seq(Mine)
  BY <1>1, <1>5, <1>7
<1>9. MgrSound'
  <2>1. m_pNode[node] \in [m_nSend : Nat, m_nReceived : Nat] /\ m_nPushTime[u] + 1 \in Nat
    BY <1>1, <1>2, <1>7 DEF MgrSound
  <2>2. m_pNode' \in [Mine -> [m_nSend : Nat, m_nReceived : Nat]]
    <3> DEFINE r == [m_pNode[node] EXCEPT !.m_nSend = @ + 1]
    <3>1. r \in [m_nSend : Nat, m_nReceived : Nat]
      BY <2>1
    <3>2. m_pNode' = [m_pNode EXCEPT ![node] = r]
      BY <1>5
    <3> HIDE DEF r
    <3> QED
      BY <1>1, <3>1, <3>2 DEF MgrSound
  <2>3. m_nPushTime' \in [Units(run.nThreadCount) -> Nat]
    BY <1>1, <1>2, <1>5, <2>1 DEF MgrSound
  <2> QED
    BY <1>5, <1>6, <2>2, <2>3 DEF MgrSound
<1>10. ThreadsSound'
  BY <1>1, <1>5, <1>6 DEF ThreadsSound, Holds
<1>11. TimedSound'
  BY <1>1, <1>4, <1>5 DEF TimedSound, ThreadsSound
<1> QED
  BY <1>1, <1>3, <1>5, <1>6, <1>8, <1>9, <1>10, <1>11 DEF BenchInv, Bounds, RunSound

(* The timed test begins with an empty queue and a new manager. *)
LEMMA StartTimedKeeps ==
  ASSUME BenchInv, StartTimed
  PROVE  BenchInv'
<1> DEFINE n == IF nMinThread - 1 = 0 THEN 1 ELSE nMinThread - 1
<1>1. n \in 1 .. nMaxThread
  BY RoundsAssumption
<1>2. container' = <<>>
  BY RoundOver DEF StartTimed
<1>3. /\ run' = Round(run.queue, 0, n, 0) /\ NewMgr(n) /\ StartPush(n, "status")
      /\ StartPop(nMinThread, "status") /\ phase' = "timed"
  BY DEF StartTimed
<1> HIDE DEF n
<1>4. run'.nThreadCount = n /\ Mine' = Nodes(n)
  BY <1>3 DEF Round, Mine
<1>5. /\ m_pNode' = [d \in Nodes(n) |-> [m_nSend |-> 0, m_nReceived |-> 0]]
      /\ m_nPushTime' = [u \in Units(n) |-> 0]
      /\ pushing' = [u \in Units(n) |-> "status"]
      /\ popping' = [c \in Units(nMinThread) |-> "status"]
      /\ hand' = [c \in Units(nMinThread) |-> NoHand]
  BY <1>3 DEF NewMgr, StartPush, StartPop
<1>6. NoHand \in Hands
  BY DEF NoHand, Hands
<1>7. RunSound' /\ phase' \notin RoundPhases
  BY <1>1, <1>3, <1>4 DEF RunSound, RoundPhases, TimedPhases
<1>8. MgrSound'
  BY <1>4, <1>5 DEF MgrSound
<1>9. ThreadsSound'
  BY <1>4, <1>5, <1>6 DEF ThreadsSound, Holds
<1>10. TimedSound'
  BY <1>4, <1>5 DEF TimedSound
<1>11. container' \in Seq(Mine')
  BY <1>2, EmptySeq
<1> QED
  BY <1>7, <1>8, <1>9, <1>10, <1>11 DEF BenchInv, Bounds

(* Main's steps during the timed test. *)
LEMMA TimedMainKeeps ==
  ASSUME BenchInv, GetContainSize \/ SetTimeWaitReady \/ SetTimeFinish \/ JoinTimed
  PROVE  BenchInv'
<1>1. /\ run' = run /\ container' = container /\ m_pNode' = m_pNode /\ m_nPushTime' = m_nPushTime
      /\ pushing' = pushing /\ popping' = popping /\ hand' = hand
      /\ phase \in TimedPhases /\ phase' \in TimedPhases
  BY DEF GetContainSize, SetTimeWaitReady, SetTimeFinish, JoinTimed, mgrVars, TimedPhases
<1>2. Mine' = Mine
  BY <1>1 DEF Mine
<1>3. Bounds /\ TimedSound
  BY <1>1 DEF BenchInv
<1>4. Bounds'
  BY <1>1, <1>2, <1>3 DEF Bounds, RunSound, MgrSound, ThreadsSound, Holds
<1>5. phase' \notin RoundPhases
  BY <1>1 DEF RoundPhases, TimedPhases
<1> QED
  BY <1>1, <1>3, <1>4, <1>5 DEF BenchInv, TimedSound

(* The rounds on the fixed queue begin with an empty one. *)
LEMMA StartFixKeeps ==
  ASSUME BenchInv, StartFix
  PROVE  BenchInv'
<1>1. run'.nThreadCount = nMinThread /\ nMinThread \in 1 .. nMaxThread
  BY RoundsAssumption DEF StartFix, Round
<1> QED
  BY <1>1, FreshRound DEF StartFix

---------------------------------------------------------------------------

LEMMA BenchInit == Init => BenchInv
<1> SUFFICES ASSUME Init PROVE BenchInv
  OBVIOUS
<1>1. /\ container = <<>> /\ phase = "push" /\ popping = <<>> /\ hand = <<>>
      /\ run.nThreadCount = nMinThread
      /\ m_pNode = [d \in Mine |-> [m_nSend |-> 0, m_nReceived |-> 0]]
      /\ m_nPushTime = [u \in Units(run.nThreadCount) |-> 0]
      /\ pushing = [u \in Units(run.nThreadCount) |-> "content"]
  BY DEF Init, Round, Mine
<1>2. RunSound
  BY <1>1, RoundsAssumption DEF RunSound, RoundPhases
<1>3. Count \in Nat
  BY <1>2, Counts
<1>4. DOMAIN popping = {} /\ DOMAIN hand = {} /\ Len(container) = 0
  BY <1>1, EmptySeq
<1>5. popping = [c \in {} |-> "done"] /\ hand = [c \in {} |-> NoHand]
  BY <1>1, <1>4
<1>6. MgrSound /\ container \in Seq(Mine)
  BY <1>1, EmptySeq DEF MgrSound
<1>7. ThreadsSound
  BY <1>1, <1>4, <1>5 DEF ThreadsSound
<1>8. \A u \in Units(run.nThreadCount) : PushSound(u)
  BY <1>1, <1>3 DEF PushSound
<1>9. ASSUME NEW d \in Mine PROVE NodeSound(d)
  <2>1. m_pNode[d].m_nSend = 0 /\ m_pNode[d].m_nReceived = 0
    BY <1>1
  <2>2. d[1] \in Units(run.nThreadCount) /\ d[2] \in 0 .. Count - 1
    BY <1>9 DEF Mine, Nodes, Count
  <2>3. ~(d[2] < m_nPushTime[d[1]])
    BY <1>1, <1>3, <2>2
  <2>4. ~Queued(d) /\ ~Held(d)
    BY <1>4 DEF Queued, Held
  <2> QED
    BY <2>1, <2>3, <2>4 DEF NodeSound
<1>10. OnePlace
  BY <1>4 DEF OnePlace
<1>11. RoundSound
  BY <1>1, <1>4, <1>8, <1>9, <1>10 DEF RoundSound
<1> QED
  BY <1>1, <1>2, <1>6, <1>7, <1>11 DEF BenchInv, Bounds, TimedPhases

LEMMA BenchNext == BenchInv /\ [Next]_vars => BenchInv'
<1> SUFFICES ASSUME BenchInv, [Next]_vars PROVE BenchInv'
  OBVIOUS
<1>1. ASSUME NEW u \in DOMAIN pushing, PushThread(u) PROVE BenchInv'
  BY <1>1, PushContentFuncKeeps, StatusKeeps, TimedPushKeeps DEF PushThread
<1>2. ASSUME NEW c \in DOMAIN popping, PopThread(c) PROVE BenchInv'
  BY <1>2, StatusKeeps, PopThreadKeeps DEF PopThread
<1>3. CASE Main
  BY <1>3, JoinPushKeeps, MainGoesOn, NextRoundKeeps, StartTimedKeeps, TimedMainKeeps, StartFixKeeps DEF Main
<1>4. CASE UNCHANGED vars
  <2>1. /\ run' = run /\ container' = container /\ m_pNode' = m_pNode /\ m_nPushTime' = m_nPushTime
        /\ pushing' = pushing /\ popping' = popping /\ hand' = hand /\ phase' = phase
    BY <1>4 DEF vars
  <2> QED
    BY <2>1 DEF BenchInv, Bounds, RunSound, MgrSound, ThreadsSound, RoundSound, TimedSound, PushSound,
       NodeSound, OnePlace, PopSound, Holds, Queued, Held, AllDone, Mine, Count
<1> QED
  BY <1>1, <1>2, <1>3, <1>4 DEF Next

(* Every message of every round is sent and received exactly once, with    *)
(* the unsynchronised m_nReceived++ of Receive, in rounds of any size: the *)
(* check at line 309 never fails on a queue that works. *)
THEOREM BenchRoundsSucceed == Spec => []RoundsSucceed
<1>1. BenchInv => RoundsSucceed
  BY RoundOver DEF RoundsSucceed
<1> QED
  BY <1>1, BenchInit, BenchNext, PTL DEF Spec

(* Every message that is received, in rounds and in the timed test, lies   *)
(* in the arrays of the manager that receives it. *)
THEOREM BenchReceivesInBounds == Spec => []ReceiveInBounds
<1>1. BenchInv => ReceiveInBounds
  <2> SUFFICES ASSUME BenchInv PROVE ReceiveInBounds
    OBVIOUS
  <2>1. container \in Seq(Mine) /\ DOMAIN m_pNode = Mine /\ ThreadsSound
    BY DEF BenchInv, Bounds, MgrSound
  <2> QED
    BY <2>1 DEF ReceiveInBounds, ThreadsSound, Holds
<1> QED
  BY <1>1, BenchInit, BenchNext, PTL DEF Spec

=============================================================================
