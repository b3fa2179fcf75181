--------------------- MODULE CCLockfreeFixQueueProofs ---------------------
(***************************************************************************)
(* CCLockfreeFixQueue for every ring size and every finite set of threads: *)
(* type correctness, the soundness of its two semaphores, and, with one    *)
(* producer or one consumer, that every payload is returned in order, once *)
(* and before its cell is written again.                                   *)
(***************************************************************************)
EXTENDS MCFixQueue, Counting

Labels == PushLabels \cup PopLabels

(* The ring index of a ticket is a cell. *)
LEMMA CellType == \A n \in Nat : Cell(n) \in Cells
BY SizeAssumption DEF Cell, Cells

(* The constructor establishes the types. *)
LEMMA InitType == Init => TypeOK
BY SizeAssumption, ThreadsAssumption
   DEF Init, TypeOK, PushLabels, PopLabels, NoData, Cells, Threads

(* Every access of Push keeps the types. *)
LEMMA PushType ==
  ASSUME TypeOK, NEW p \in Pushers, PushTake(p) \/ PushStep(p)
  PROVE  TypeOK'
<1> USE CellType, ThreadsAssumption DEF TypeOK, Goto, Threads, PushLabels, PopLabels
<1>1. CASE PushTake(p)  BY <1>1 DEF PushTake
<1>2. CASE PushTicket(p)  BY <1>2 DEF PushTicket
<1>3. CASE PushSpin(p)  BY <1>3 DEF PushSpin
<1>4. CASE PushData(p)  BY <1>4 DEF PushData
<1>5. CASE PushFlag(p)  BY <1>5 DEF PushFlag
<1>6. CASE PushCount(p)  BY <1>6 DEF PushCount
<1>7. CASE PushUndo(p)  BY <1>7 DEF PushUndo
<1> QED
  BY <1>1, <1>2, <1>3, <1>4, <1>5, <1>6, <1>7 DEF PushStep

(* Every access of Pop keeps the types. *)
LEMMA PopType ==
  ASSUME TypeOK, NEW c \in Poppers, PopCheck(c) \/ PopStep(c)
  PROVE  TypeOK'
<1> USE CellType, ThreadsAssumption DEF TypeOK, Goto, Threads, PushLabels, PopLabels
<1>1. CASE PopCheck(c)  BY <1>1 DEF PopCheck
<1>2. CASE PopTake(c)  BY <1>2 DEF PopTake
<1>3. CASE PopTicket(c)  BY <1>3 DEF PopTicket
<1>4. CASE PopSpin(c)  BY <1>4 DEF PopSpin
<1>5. CASE PopData(c)  BY <1>5 DEF PopData
<1>6. CASE PopClear(c)  BY <1>6 DEF PopClear
<1>7. CASE PopSpace(c)  BY <1>7 DEF PopSpace
<1>8. CASE PopUndo(c)  BY <1>8 DEF PopUndo
<1> QED
  BY <1>1, <1>2, <1>3, <1>4, <1>5, <1>6, <1>7, <1>8 DEF PopStep

(* Every pointer, counter and label of the queue keeps its type, for any   *)
(* ring size and any threads. *)
THEOREM TypeCorrect == Spec => []TypeOK
<1>1. TypeOK /\ [Next]_vars => TypeOK'
  <2> SUFFICES ASSUME TypeOK, [Next]_vars PROVE TypeOK'
    OBVIOUS
  <2>1. CASE Next
    BY <2>1, PushType, PopType DEF Next
  <2>2. CASE UNCHANGED vars
    BY <2>2 DEF TypeOK, vars
  <2> QED
    BY <2>1, <2>2
<1> QED
  BY <1>1, InitType, PTL DEF Spec

---------------------------------------------------------------------------

At(labels) == {t \in Threads : pc[t] \in labels}

LEMMA CountAtType ==
  ASSUME NEW labels
  PROVE  IsFiniteSet(At(labels)) /\ CountAt(labels) \in Nat
<1>1. IsFiniteSet(Threads)
  BY ThreadsAssumption, FS_Union DEF Threads
<1>2. IsFiniteSet(At(labels))
  BY <1>1, FS_Subset DEF At
<1> QED
  BY <1>2, FS_CardinalityType DEF At, CountAt

(* A thread that goes from one label to another changes the number of      *)
(* threads at a set of labels by its own joining and leaving. *)
LEMMA Moved ==
  ASSUME TypeOK, NEW t \in Threads, NEW label, Goto(t, label), NEW labels
  PROVE  /\ CountAt(labels) \in Nat
         /\ CountAt(labels)' \in Nat
         /\ CountAt(labels)' = CountAt(labels) + Has(label, labels)
                                               - Has(pc[t], labels)
<1>1. At(labels) \ {t} = At(labels)' \ {t}
  BY DEF TypeOK, Goto, At
<1>2. IsFiniteSet(At(labels))
  BY CountAtType
<1>3. /\ t \in At(labels) <=> pc[t] \in labels
      /\ t \in At(labels)' <=> label \in labels
  BY DEF TypeOK, Goto, At
<1>4. /\ Cardinality(At(labels)) \in Nat
      /\ Cardinality(At(labels)') \in Nat
      /\ Cardinality(At(labels)') = Cardinality(At(labels))
           + Has(t, At(labels)') - Has(t, At(labels))
  BY <1>1, <1>2, CountStep
<1>5. /\ Has(t, At(labels)') = Has(label, labels)
      /\ Has(t, At(labels)) = Has(pc[t], labels)
  BY <1>3 DEF Has
<1> QED
  BY <1>4, <1>5 DEF CountAt, At

(* Moved, for the labels the semaphores' accounts are about. *)
LEMMA Tally ==
  ASSUME TypeOK, NEW t \in Threads, NEW label, Goto(t, label)
  PROVE
    /\ CountAt({"pushUndo"}) \in Nat /\ CountAt({"pushUndo"})' \in Nat
    /\ CountAt({"pushUndo"})' = CountAt({"pushUndo"})
         + Has(label, {"pushUndo"}) - Has(pc[t], {"pushUndo"})
    /\ CountAt({"pushTicket"}) \in Nat /\ CountAt({"pushTicket"})' \in Nat
    /\ CountAt({"pushTicket"})' = CountAt({"pushTicket"})
         + Has(label, {"pushTicket"}) - Has(pc[t], {"pushTicket"})
    /\ CountAt(PopInFlight) \in Nat /\ CountAt(PopInFlight)' \in Nat
    /\ CountAt(PopInFlight)' = CountAt(PopInFlight)
         + Has(label, PopInFlight) - Has(pc[t], PopInFlight)
    /\ CountAt({"popUndo"}) \in Nat /\ CountAt({"popUndo"})' \in Nat
    /\ CountAt({"popUndo"})' = CountAt({"popUndo"})
         + Has(label, {"popUndo"}) - Has(pc[t], {"popUndo"})
    /\ CountAt({"popTicket"}) \in Nat /\ CountAt({"popTicket"})' \in Nat
    /\ CountAt({"popTicket"})' = CountAt({"popTicket"})
         + Has(label, {"popTicket"}) - Has(pc[t], {"popTicket"})
    /\ CountAt(PushInFlight) \in Nat /\ CountAt(PushInFlight)' \in Nat
    /\ CountAt(PushInFlight)' = CountAt(PushInFlight)
         + Has(label, PushInFlight) - Has(pc[t], PushInFlight)
<1>1. /\ CountAt({"pushUndo"}) \in Nat /\ CountAt({"pushUndo"})' \in Nat
      /\ CountAt({"pushUndo"})' = CountAt({"pushUndo"})
           + Has(label, {"pushUndo"}) - Has(pc[t], {"pushUndo"})
  BY Moved
<1>2. /\ CountAt({"pushTicket"}) \in Nat /\ CountAt({"pushTicket"})' \in Nat
      /\ CountAt({"pushTicket"})' = CountAt({"pushTicket"})
           + Has(label, {"pushTicket"}) - Has(pc[t], {"pushTicket"})
  BY Moved
<1>3. /\ CountAt(PopInFlight) \in Nat /\ CountAt(PopInFlight)' \in Nat
      /\ CountAt(PopInFlight)' = CountAt(PopInFlight)
           + Has(label, PopInFlight) - Has(pc[t], PopInFlight)
  BY Moved
<1>4. /\ CountAt({"popUndo"}) \in Nat /\ CountAt({"popUndo"})' \in Nat
      /\ CountAt({"popUndo"})' = CountAt({"popUndo"})
           + Has(label, {"popUndo"}) - Has(pc[t], {"popUndo"})
  BY Moved
<1>5. /\ CountAt({"popTicket"}) \in Nat /\ CountAt({"popTicket"})' \in Nat
      /\ CountAt({"popTicket"})' = CountAt({"popTicket"})
           + Has(label, {"popTicket"}) - Has(pc[t], {"popTicket"})
  BY Moved
<1>6. /\ CountAt(PushInFlight) \in Nat /\ CountAt(PushInFlight)' \in Nat
      /\ CountAt(PushInFlight)' = CountAt(PushInFlight)
           + Has(label, PushInFlight) - Has(pc[t], PushInFlight)
  BY Moved
<1> QED
  BY <1>1, <1>2, <1>3, <1>4, <1>5, <1>6

(* The inductive invariant: the accounts balance, and neither semaphore    *)
(* has handed out more units than it had. *)
Inv == TypeOK /\ Accounts /\ TicketsBounded

(* Before the first call all counts are zero. *)
LEMMA InitInv == Init => Inv
<1> SUFFICES ASSUME Init PROVE Accounts /\ TicketsBounded
  BY InitType DEF Inv
<1>1. \A labels \in {{"pushUndo"}, {"pushTicket"}, PopInFlight, {"popUndo"},
                     {"popTicket"}, PushInFlight} : At(labels) = {}
  BY DEF Init, At, PushInFlight, PopInFlight
<1>2. \A labels \in {{"pushUndo"}, {"pushTicket"}, PopInFlight, {"popUndo"},
                     {"popTicket"}, PushInFlight} : CountAt(labels) = 0
  BY <1>1, FS_EmptySet DEF CountAt, At
<1> QED
  BY <1>2, SizeAssumption DEF Init, Accounts, TicketsBounded

(* How many threads are at the labels the accounts are about, and the      *)
(* accounts in these numbers. *)
PushUndos == CountAt({"pushUndo"})
PushTickets == CountAt({"pushTicket"})
PopsRunning == CountAt(PopInFlight)
PopUndos == CountAt({"popUndo"})
PopTickets == CountAt({"popTicket"})
PushesRunning == CountAt(PushInFlight)

Balanced ==
  /\ m_nSpace + PushUndos + PushTickets + PopsRunning + m_nPreWrite - m_nRead
       = defaultfixsize
  /\ m_nCanRead + PopUndos + PopTickets + PushesRunning + m_nRead = m_nPreWrite
  /\ m_nRead + PopTickets + PushesRunning <= m_nPreWrite
  /\ m_nPreWrite + PushTickets + PopsRunning <= m_nRead + defaultfixsize

LEMMA BalancedIs ==
  /\ Balanced <=> Accounts /\ TicketsBounded
  /\ Balanced' <=> Accounts' /\ TicketsBounded'
BY DEF Balanced, Accounts, TicketsBounded, PushUndos, PushTickets, PopsRunning,
       PopUndos, PopTickets, PushesRunning

(* Every access of Push keeps the accounts. *)
LEMMA PushAccounts ==
  ASSUME Inv, NEW p \in Pushers, PushTake(p) \/ PushStep(p)
  PROVE  Accounts' /\ TicketsBounded'
<1>0. /\ TypeOK /\ p \in Threads
      /\ m_nSpace \in Int /\ m_nCanRead \in Int /\ m_nPreWrite \in Nat
      /\ m_nRead \in Nat /\ defaultfixsize \in Nat
      /\ Balanced /\ PushUndos \in Nat /\ PushTickets \in Nat /\ PopsRunning \in Nat
      /\ PopUndos \in Nat /\ PopTickets \in Nat /\ PushesRunning \in Nat
  BY CountAtType, SizeAssumption, BalancedIs DEF Inv, TypeOK, Threads, PushUndos, PushTickets,
         PopsRunning, PopUndos, PopTickets, PushesRunning
<1>1. CASE PushTake(p)
  <2>1. CASE m_nSpace > 0
    <3>1. Goto(p, "pushTicket") /\ pc[p] = "pushDone"
      BY <1>1, <2>1 DEF PushTake, Goto
    <3>2. /\ PushUndos' = PushUndos
          /\ PushTickets' = PushTickets + 1
          /\ PopsRunning' = PopsRunning
          /\ PopUndos' = PopUndos
          /\ PopTickets' = PopTickets
          /\ PushesRunning' = PushesRunning
      BY <1>0, <3>1, Tally
         DEF Has, PushInFlight, PopInFlight, PushUndos, PushTickets,
         PopsRunning, PopUndos, PopTickets, PushesRunning
    <3>3. /\ m_nSpace' = m_nSpace - 1
          /\ m_nCanRead' = m_nCanRead
          /\ m_nPreWrite' = m_nPreWrite
          /\ m_nRead' = m_nRead
      BY <1>1, <2>1 DEF PushTake
    <3>4. Balanced'
      BY <1>0, <2>1, <3>2, <3>3 DEF Balanced
    <3> QED
      BY <3>4, BalancedIs
  <2>2. CASE ~ (m_nSpace > 0)
    <3>1. Goto(p, "pushUndo") /\ pc[p] = "pushDone"
      BY <1>1, <2>2 DEF PushTake, Goto
    <3>2. /\ PushUndos' = PushUndos + 1
          /\ PushTickets' = PushTickets
          /\ PopsRunning' = PopsRunning
          /\ PopUndos' = PopUndos
          /\ PopTickets' = PopTickets
          /\ PushesRunning' = PushesRunning
      BY <1>0, <3>1, Tally
         DEF Has, PushInFlight, PopInFlight, PushUndos, PushTickets,
         PopsRunning, PopUndos, PopTickets, PushesRunning
    <3>3. /\ m_nSpace' = m_nSpace - 1
          /\ m_nCanRead' = m_nCanRead
          /\ m_nPreWrite' = m_nPreWrite
          /\ m_nRead' = m_nRead
      BY <1>1, <2>2 DEF PushTake
    <3>4. Balanced'
      BY <1>0, <2>2, <3>2, <3>3 DEF Balanced
    <3> QED
      BY <3>4, BalancedIs
  <2> QED
    BY <2>1, <2>2
<1>2. CASE PushTicket(p)
  <2>1. Goto(p, "pushSpin") /\ pc[p] = "pushTicket"
    BY <1>2 DEF PushTicket, Goto
  <2>2. /\ PushUndos' = PushUndos
        /\ PushTickets' = PushTickets - 1
        /\ PopsRunning' = PopsRunning
        /\ PopUndos' = PopUndos
        /\ PopTickets' = PopTickets
        /\ PushesRunning' = PushesRunning + 1
    BY <1>0, <2>1, Tally
       DEF Has, PushInFlight, PopInFlight, PushUndos, PushTickets,
         PopsRunning, PopUndos, PopTickets, PushesRunning
  <2>3. /\ m_nSpace' = m_nSpace
        /\ m_nCanRead' = m_nCanRead
        /\ m_nPreWrite' = m_nPreWrite + 1
        /\ m_nRead' = m_nRead
    BY <1>2 DEF PushTicket
  <2>4. Balanced'
    BY <1>0, <2>2, <2>3 DEF Balanced
  <2> QED
    BY <2>4, BalancedIs
<1>3. CASE PushSpin(p)
  <2>1. Goto(p, "pushData") /\ pc[p] = "pushSpin"
    BY <1>3 DEF PushSpin, Goto
  <2>2. /\ PushUndos' = PushUndos
        /\ PushTickets' = PushTickets
        /\ PopsRunning' = PopsRunning
        /\ PopUndos' = PopUndos
        /\ PopTickets' = PopTickets
        /\ PushesRunning' = PushesRunning
    BY <1>0, <2>1, Tally
       DEF Has, PushInFlight, PopInFlight, PushUndos, PushTickets,
         PopsRunning, PopUndos, PopTickets, PushesRunning
  <2>3. /\ m_nSpace' = m_nSpace
        /\ m_nCanRead' = m_nCanRead
        /\ m_nPreWrite' = m_nPreWrite
        /\ m_nRead' = m_nRead
    BY <1>3 DEF PushSpin
  <2>4. Balanced'
    BY <1>0, <2>2, <2>3 DEF Balanced
  <2> QED
    BY <2>4, BalancedIs
<1>4. CASE PushData(p)
  <2>1. Goto(p, "pushFlag") /\ pc[p] = "pushData"
    BY <1>4 DEF PushData, Goto
  <2>2. /\ PushUndos' = PushUndos
        /\ PushTickets' = PushTickets
        /\ PopsRunning' = PopsRunning
        /\ PopUndos' = PopUndos
        /\ PopTickets' = PopTickets
        /\ PushesRunning' = PushesRunning
    BY <1>0, <2>1, Tally
       DEF Has, PushInFlight, PopInFlight, PushUndos, PushTickets,
         PopsRunning, PopUndos, PopTickets, PushesRunning
  <2>3. /\ m_nSpace' = m_nSpace
        /\ m_nCanRead' = m_nCanRead
        /\ m_nPreWrite' = m_nPreWrite
        /\ m_nRead' = m_nRead
    BY <1>4 DEF PushData
  <2>4. Balanced'
    BY <1>0, <2>2, <2>3 DEF Balanced
  <2> QED
    BY <2>4, BalancedIs
<1>5. CASE PushFlag(p)
  <2>1. Goto(p, "pushCount") /\ pc[p] = "pushFlag"
    BY <1>5 DEF PushFlag, Goto
  <2>2. /\ PushUndos' = PushUndos
        /\ PushTickets' = PushTickets
        /\ PopsRunning' = PopsRunning
        /\ PopUndos' = PopUndos
        /\ PopTickets' = PopTickets
        /\ PushesRunning' = PushesRunning
    BY <1>0, <2>1, Tally
       DEF Has, PushInFlight, PopInFlight, PushUndos, PushTickets,
         PopsRunning, PopUndos, PopTickets, PushesRunning
  <2>3. /\ m_nSpace' = m_nSpace
        /\ m_nCanRead' = m_nCanRead
        /\ m_nPreWrite' = m_nPreWrite
        /\ m_nRead' = m_nRead
    BY <1>5 DEF PushFlag
  <2>4. Balanced'
    BY <1>0, <2>2, <2>3 DEF Balanced
  <2> QED
    BY <2>4, BalancedIs
<1>6. CASE PushCount(p)
  <2>1. Goto(p, "pushDone") /\ pc[p] = "pushCount"
    BY <1>6 DEF PushCount, Goto
  <2>2. /\ PushUndos' = PushUndos
        /\ PushTickets' = PushTickets
        /\ PopsRunning' = PopsRunning
        /\ PopUndos' = PopUndos
        /\ PopTickets' = PopTickets
        /\ PushesRunning' = PushesRunning - 1
    BY <1>0, <2>1, Tally
       DEF Has, PushInFlight, PopInFlight, PushUndos, PushTickets,
         PopsRunning, PopUndos, PopTickets, PushesRunning
  <2>3. /\ m_nSpace' = m_nSpace
        /\ m_nCanRead' = m_nCanRead + 1
        /\ m_nPreWrite' = m_nPreWrite
        /\ m_nRead' = m_nRead
    BY <1>6 DEF PushCount
  <2>4. Balanced'
    BY <1>0, <2>2, <2>3 DEF Balanced
  <2> QED
    BY <2>4, BalancedIs
<1>7. CASE PushUndo(p)
  <2>1. Goto(p, "pushDone") /\ pc[p] = "pushUndo"
    BY <1>7 DEF PushUndo, Goto
  <2>2. /\ PushUndos' = PushUndos - 1
        /\ PushTickets' = PushTickets
        /\ PopsRunning' = PopsRunning
        /\ PopUndos' = PopUndos
        /\ PopTickets' = PopTickets
        /\ PushesRunning' = PushesRunning
    BY <1>0, <2>1, Tally
       DEF Has, PushInFlight, PopInFlight, PushUndos, PushTickets,
         PopsRunning, PopUndos, PopTickets, PushesRunning
  <2>3. /\ m_nSpace' = m_nSpace + 1
        /\ m_nCanRead' = m_nCanRead
        /\ m_nPreWrite' = m_nPreWrite
        /\ m_nRead' = m_nRead
    BY <1>7 DEF PushUndo
  <2>4. Balanced'
    BY <1>0, <2>2, <2>3 DEF Balanced
  <2> QED
    BY <2>4, BalancedIs
<1> QED
  BY <1>1, <1>2, <1>3, <1>4, <1>5, <1>6, <1>7 DEF PushStep

(* Every access of Pop keeps the accounts. *)
LEMMA PopAccounts ==
  ASSUME Inv, NEW c \in Poppers, PopCheck(c) \/ PopStep(c)
  PROVE  Accounts' /\ TicketsBounded'
<1>0. /\ TypeOK /\ c \in Threads
      /\ m_nSpace \in Int /\ m_nCanRead \in Int /\ m_nPreWrite \in Nat
      /\ m_nRead \in Nat /\ defaultfixsize \in Nat
      /\ Balanced /\ PushUndos \in Nat /\ PushTickets \in Nat /\ PopsRunning \in Nat
      /\ PopUndos \in Nat /\ PopTickets \in Nat /\ PushesRunning \in Nat
  BY CountAtType, SizeAssumption, BalancedIs DEF Inv, TypeOK, Threads, PushUndos, PushTickets,
         PopsRunning, PopUndos, PopTickets, PushesRunning
<1>1. CASE PopCheck(c)
  <2>1. Goto(c, "popTake") /\ pc[c] = "popDone"
    BY <1>1 DEF PopCheck, Goto
  <2>2. /\ PushUndos' = PushUndos
        /\ PushTickets' = PushTickets
        /\ PopsRunning' = PopsRunning
        /\ PopUndos' = PopUndos
        /\ PopTickets' = PopTickets
        /\ PushesRunning' = PushesRunning
    BY <1>0, <2>1, Tally
       DEF Has, PushInFlight, PopInFlight, PushUndos, PushTickets,
         PopsRunning, PopUndos, PopTickets, PushesRunning
  <2>3. /\ m_nSpace' = m_nSpace
        /\ m_nCanRead' = m_nCanRead
        /\ m_nPreWrite' = m_nPreWrite
        /\ m_nRead' = m_nRead
    BY <1>1 DEF PopCheck
  <2>4. Balanced'
    BY <1>0, <2>2, <2>3 DEF Balanced
  <2> QED
    BY <2>4, BalancedIs
<1>2. CASE PopTake(c)
  <2>1. CASE m_nCanRead > 0
    <3>1. Goto(c, "popTicket") /\ pc[c] = "popTake"
      BY <1>2, <2>1 DEF PopTake, Goto
    <3>2. /\ PushUndos' = PushUndos
          /\ PushTickets' = PushTickets
          /\ PopsRunning' = PopsRunning
          /\ PopUndos' = PopUndos
          /\ PopTickets' = PopTickets + 1
          /\ PushesRunning' = PushesRunning
      BY <1>0, <3>1, Tally
         DEF Has, PushInFlight, PopInFlight, PushUndos, PushTickets,
         PopsRunning, PopUndos, PopTickets, PushesRunning
    <3>3. /\ m_nSpace' = m_nSpace
          /\ m_nCanRead' = m_nCanRead - 1
          /\ m_nPreWrite' = m_nPreWrite
          /\ m_nRead' = m_nRead
      BY <1>2, <2>1 DEF PopTake
    <3>4. Balanced'
      BY <1>0, <2>1, <3>2, <3>3 DEF Balanced
    <3> QED
      BY <3>4, BalancedIs
  <2>2. CASE ~ (m_nCanRead > 0)
    <3>1. Goto(c, "popUndo") /\ pc[c] = "popTake"
      BY <1>2, <2>2 DEF PopTake, Goto
    <3>2. /\ PushUndos' = PushUndos
          /\ PushTickets' = PushTickets
          /\ PopsRunning' = PopsRunning
          /\ PopUndos' = PopUndos + 1
          /\ PopTickets' = PopTickets
          /\ PushesRunning' = PushesRunning
      BY <1>0, <3>1, Tally
         DEF Has, PushInFlight, PopInFlight, PushUndos, PushTickets,
         PopsRunning, PopUndos, PopTickets, PushesRunning
    <3>3. /\ m_nSpace' = m_nSpace
          /\ m_nCanRead' = m_nCanRead - 1
          /\ m_nPreWrite' = m_nPreWrite
          /\ m_nRead' = m_nRead
      BY <1>2, <2>2 DEF PopTake
    <3>4. Balanced'
      BY <1>0, <2>2, <3>2, <3>3 DEF Balanced
    <3> QED
      BY <3>4, BalancedIs
  <2> QED
    BY <2>1, <2>2
<1>3. CASE PopTicket(c)
  <2>1. Goto(c, "popSpin") /\ pc[c] = "popTicket"
    BY <1>3 DEF PopTicket, Goto
  <2>2. /\ PushUndos' = PushUndos
        /\ PushTickets' = PushTickets
        /\ PopsRunning' = PopsRunning + 1
        /\ PopUndos' = PopUndos
        /\ PopTickets' = PopTickets - 1
        /\ PushesRunning' = PushesRunning
    BY <1>0, <2>1, Tally
       DEF Has, PushInFlight, PopInFlight, PushUndos, PushTickets,
         PopsRunning, PopUndos, PopTickets, PushesRunning
  <2>3. /\ m_nSpace' = m_nSpace
        /\ m_nCanRead' = m_nCanRead
        /\ m_nPreWrite' = m_nPreWrite
        /\ m_nRead' = m_nRead + 1
    BY <1>3 DEF PopTicket
  <2>4. Balanced'
    BY <1>0, <2>2, <2>3 DEF Balanced
  <2> QED
    BY <2>4, BalancedIs
<1>4. CASE PopSpin(c)
  <2>1. Goto(c, "popData") /\ pc[c] = "popSpin"
    BY <1>4 DEF PopSpin, Goto
  <2>2. /\ PushUndos' = PushUndos
        /\ PushTickets' = PushTickets
        /\ PopsRunning' = PopsRunning
        /\ PopUndos' = PopUndos
        /\ PopTickets' = PopTickets
        /\ PushesRunning' = PushesRunning
    BY <1>0, <2>1, Tally
       DEF Has, PushInFlight, PopInFlight, PushUndos, PushTickets,
         PopsRunning, PopUndos, PopTickets, PushesRunning
  <2>3. /\ m_nSpace' = m_nSpace
        /\ m_nCanRead' = m_nCanRead
        /\ m_nPreWrite' = m_nPreWrite
        /\ m_nRead' = m_nRead
    BY <1>4 DEF PopSpin
  <2>4. Balanced'
    BY <1>0, <2>2, <2>3 DEF Balanced
  <2> QED
    BY <2>4, BalancedIs
<1>5. CASE PopData(c)
  <2>1. Goto(c, "popClear") /\ pc[c] = "popData"
    BY <1>5 DEF PopData, Goto
  <2>2. /\ PushUndos' = PushUndos
        /\ PushTickets' = PushTickets
        /\ PopsRunning' = PopsRunning
        /\ PopUndos' = PopUndos
        /\ PopTickets' = PopTickets
        /\ PushesRunning' = PushesRunning
    BY <1>0, <2>1, Tally
       DEF Has, PushInFlight, PopInFlight, PushUndos, PushTickets,
         PopsRunning, PopUndos, PopTickets, PushesRunning
  <2>3. /\ m_nSpace' = m_nSpace
        /\ m_nCanRead' = m_nCanRead
        /\ m_nPreWrite' = m_nPreWrite
        /\ m_nRead' = m_nRead
    BY <1>5 DEF PopData
  <2>4. Balanced'
    BY <1>0, <2>2, <2>3 DEF Balanced
  <2> QED
    BY <2>4, BalancedIs
<1>6. CASE PopClear(c)
  <2>1. Goto(c, "popSpace") /\ pc[c] = "popClear"
    BY <1>6 DEF PopClear, Goto
  <2>2. /\ PushUndos' = PushUndos
        /\ PushTickets' = PushTickets
        /\ PopsRunning' = PopsRunning
        /\ PopUndos' = PopUndos
        /\ PopTickets' = PopTickets
        /\ PushesRunning' = PushesRunning
    BY <1>0, <2>1, Tally
       DEF Has, PushInFlight, PopInFlight, PushUndos, PushTickets,
         PopsRunning, PopUndos, PopTickets, PushesRunning
  <2>3. /\ m_nSpace' = m_nSpace
        /\ m_nCanRead' = m_nCanRead
        /\ m_nPreWrite' = m_nPreWrite
        /\ m_nRead' = m_nRead
    BY <1>6 DEF PopClear
  <2>4. Balanced'
    BY <1>0, <2>2, <2>3 DEF Balanced
  <2> QED
    BY <2>4, BalancedIs
<1>7. CASE PopSpace(c)
  <2>1. Goto(c, "popDone") /\ pc[c] = "popSpace"
    BY <1>7 DEF PopSpace, Goto
  <2>2. /\ PushUndos' = PushUndos
        /\ PushTickets' = PushTickets
        /\ PopsRunning' = PopsRunning - 1
        /\ PopUndos' = PopUndos
        /\ PopTickets' = PopTickets
        /\ PushesRunning' = PushesRunning
    BY <1>0, <2>1, Tally
       DEF Has, PushInFlight, PopInFlight, PushUndos, PushTickets,
         PopsRunning, PopUndos, PopTickets, PushesRunning
  <2>3. /\ m_nSpace' = m_nSpace + 1
        /\ m_nCanRead' = m_nCanRead
        /\ m_nPreWrite' = m_nPreWrite
        /\ m_nRead' = m_nRead
    BY <1>7 DEF PopSpace
  <2>4. Balanced'
    BY <1>0, <2>2, <2>3 DEF Balanced
  <2> QED
    BY <2>4, BalancedIs
<1>8. CASE PopUndo(c)
  <2>1. Goto(c, "popDone") /\ pc[c] = "popUndo"
    BY <1>8 DEF PopUndo, Goto
  <2>2. /\ PushUndos' = PushUndos
        /\ PushTickets' = PushTickets
        /\ PopsRunning' = PopsRunning
        /\ PopUndos' = PopUndos - 1
        /\ PopTickets' = PopTickets
        /\ PushesRunning' = PushesRunning
    BY <1>0, <2>1, Tally
       DEF Has, PushInFlight, PopInFlight, PushUndos, PushTickets,
         PopsRunning, PopUndos, PopTickets, PushesRunning
  <2>3. /\ m_nSpace' = m_nSpace
        /\ m_nCanRead' = m_nCanRead + 1
        /\ m_nPreWrite' = m_nPreWrite
        /\ m_nRead' = m_nRead
    BY <1>8 DEF PopUndo
  <2>4. Balanced'
    BY <1>0, <2>2, <2>3 DEF Balanced
  <2> QED
    BY <2>4, BalancedIs
<1> QED
  BY <1>1, <1>2, <1>3, <1>4, <1>5, <1>6, <1>7, <1>8 DEF PopStep

(* Every step keeps the accounts. *)
LEMMA InvNext == Inv /\ [Next]_vars => Inv'
<1> SUFFICES ASSUME Inv, [Next]_vars PROVE Inv'
  OBVIOUS
<1>1. TypeOK
  BY DEF Inv
<1>2. CASE Next
  <2>1. CASE \E p \in Pushers : PushTake(p) \/ PushStep(p)
    BY <1>1, <2>1, PushType, PushAccounts DEF Inv
  <2>2. CASE \E c \in Poppers : PopCheck(c) \/ PopStep(c)
    BY <1>1, <2>2, PopType, PopAccounts DEF Inv
  <2> QED
    BY <1>2, <2>1, <2>2 DEF Next
<1>3. CASE UNCHANGED vars
  BY <1>3 DEF Inv, TypeOK, Accounts, TicketsBounded, CountAt, vars
<1> QED
  BY <1>2, <1>3

(* The semaphores of CCLockfreeFixQueue never leak a unit, for any ring    *)
(* size and any finite number of producers and consumers. *)
THEOREM UnitsAccounted == Spec => []Accounts
<1>1. Inv => Accounts
  BY DEF Inv
<1> QED
  BY <1>1, InitInv, InvNext, PTL DEF Spec

(* Reads never overtake writes and writes never lap reads. *)
THEOREM SemaphoresSound == Spec => []TicketsBounded
<1>1. Inv => TicketsBounded
  BY DEF Inv
<1> QED
  BY <1>1, InitInv, InvNext, PTL DEF Spec

---------------------------------------------------------------------------

(***************************************************************************)
(* The ring with one producer or one consumer.  A write ticket is          *)
(* unwritten until its flag is set, a read ticket is taken until its flag  *)
(* is cleared, and a ticket is live while it is unread or taken.           *)
(***************************************************************************)

Writing == {"pushSpin", "pushData", "pushFlag"}
Reading == {"popSpin", "popData", "popClear"}

Unwritten(n) == \E p \in Pushers : pc[p] \in Writing /\ ticket[p] = n
Taken(n) == \E c \in Poppers : pc[c] \in Reading /\ ticket[c] = n
Live(n) == n \in m_nRead .. m_nPreWrite - 1 \/ Taken(n)
Written(n) == Live(n) /\ ~Unwritten(n)

(* A written ticket's cell holds its payload behind a set flag, and only   *)
(* written tickets have set flags. *)
CellsSound == \A n \in Nat : Written(n) => m_cWrite[Cell(n)] /\ m_data[Cell(n)] = n
FlagsSound == \A i \in Cells : m_cWrite[i] => \E n \in Nat : Written(n) /\ Cell(n) = i

(* A push works on a live ticket and on a cell no other push works on,     *)
(* past its spin on a clear one. *)
PushSound(p) ==
  pc[p] \in Writing =>
    /\ Live(ticket[p])
    /\ pc[p] # "pushSpin" => ~m_cWrite[Cell(ticket[p])]
    /\ pc[p] = "pushFlag" => m_data[Cell(ticket[p])] = ticket[p]
    /\ \A q \in Pushers \ {p} : pc[q] \in Writing => Cell(ticket[q]) # Cell(ticket[p])

(* A pop works on a ticket of its own, past its spin on a written one. *)
PopSound(c) ==
  pc[c] \in Reading =>
    /\ ticket[c] < m_nRead
    /\ pc[c] # "popSpin" => ~Unwritten(ticket[c])
    /\ pc[c] = "popClear" => <<ticket[c], ticket[c]>> \in delivered
    /\ \A d \in Poppers \ {c} : pc[d] \in Reading => ticket[d] # ticket[c]

(* What a cell holds is nothing, a live ticket's payload or one that a pop *)
(* has returned. *)
PayloadSound(i) ==
  \/ m_data[i] = NoData
  \/ /\ m_data[i] \in Nat /\ Cell(m_data[i]) = i
     /\ Live(m_data[i]) \/ \E d \in delivered : d[2] = m_data[i]

(* Only the team works; a lone producer holds the last write ticket and a  *)
(* lone consumer the last read ticket. *)
OnePusher == \A p, q \in Pushers \cap team : p = q
OnePopper == \A c, d \in Poppers \cap team : c = d

Sided ==
  /\ OnePusher \/ OnePopper
  /\ \A p \in Pushers \ team : pc[p] = "pushDone"
  /\ \A c \in Poppers \ team : pc[c] = "popDone"
  /\ OnePusher => \A p \in Pushers : pc[p] \in PushInFlight => ticket[p] = m_nPreWrite - 1
  /\ OnePopper => \A c \in Poppers : pc[c] \in PopInFlight => ticket[c] = m_nRead - 1

RingSound ==
  /\ CellsSound
  /\ FlagsSound
  /\ \A p \in Pushers : PushSound(p)
  /\ \A c \in Poppers : PopSound(c)
  /\ \A i \in Cells : PayloadSound(i)

RingInv == Inv /\ Sided /\ RingSound /\ DeliveredInOrder


(* Two tickets less than a lap apart have different cells. *)
LEMMA CellsApart ==
  ASSUME NEW m \in Nat, NEW n \in Nat, m <= n, n < m + defaultfixsize, Cell(m) = Cell(n)
  PROVE  m = n
<1> DEFINE N == defaultfixsize
<1>1. N \in Nat /\ N > 0
  BY SizeAssumption
<1>2. ASSUME NEW k \in Nat
      PROVE  k \div N \in Nat /\ k = N * (k \div N) + (k % N) /\ k % N \in Nat
  BY <1>1
<1>3. PICK a \in Nat, b \in Nat, r \in Nat : m = N * a + r /\ n = N * b + r
  BY <1>2 DEF Cell
<1> HIDE DEF N
<1>4. CASE b <= a
  <2>1. N * b <= N * a
    BY <1>1, <1>4
  <2> QED
    BY <1>1, <1>3, <2>1
<1>5. CASE b > a
  <2>1. N * (a + 1) <= N * b
    BY <1>1, <1>5
  <2>2. N * (a + 1) = N * a + N
    BY <1>1
  <2> QED
    BY <1>1, <1>3, <2>1, <2>2 DEF N
<1> QED
  BY <1>4, <1>5

(* A thread at a label is counted. *)
LEMMA Present ==
  ASSUME NEW t \in Threads, NEW labels, pc[t] \in labels
  PROVE  CountAt(labels) >= 1
<1>1. t \in At(labels)
  BY DEF At
<1>2. CountAt(labels) # 0
  BY <1>1, CountAtType, FS_EmptySet DEF CountAt, At
<1> QED
  BY <1>2, CountAtType

(* What the semaphores promise a thread by where it stands. *)
LEMMA Promised ==
  ASSUME Inv, NEW t \in Threads
  PROVE  /\ m_nRead \in Nat /\ m_nPreWrite \in Nat /\ m_nRead <= m_nPreWrite
         /\ m_nPreWrite <= m_nRead + defaultfixsize
         /\ pc[t] \in PushInFlight \cup {"popTicket"} => m_nRead < m_nPreWrite
         /\ pc[t] = "pushTicket" => m_nPreWrite < m_nRead + defaultfixsize
         /\ pc[t] \in PopInFlight => m_nPreWrite < m_nRead + defaultfixsize
<1>1. /\ CountAt({"popTicket"}) \in Nat /\ CountAt(PushInFlight) \in Nat
      /\ CountAt({"pushTicket"}) \in Nat /\ CountAt(PopInFlight) \in Nat
  BY CountAtType
<1>2. /\ pc[t] \in {"popTicket"} => CountAt({"popTicket"}) >= 1
      /\ pc[t] \in {"pushTicket"} => CountAt({"pushTicket"}) >= 1
      /\ pc[t] \in PushInFlight => CountAt(PushInFlight) >= 1
      /\ pc[t] \in PopInFlight => CountAt(PopInFlight) >= 1
  BY Present
<1>3. m_nRead \in Nat /\ m_nPreWrite \in Nat /\ defaultfixsize \in Nat
  BY SizeAssumption DEF Inv, TypeOK
<1> QED
  BY <1>1, <1>2, <1>3 DEF Inv, TicketsBounded

(* A push that is about to draw and a pop in flight together leave two     *)
(* cells of the ring. *)
LEMMA BothPromised ==
  ASSUME Inv, NEW t \in Threads, NEW u \in Threads, pc[t] = "pushTicket", pc[u] \in PopInFlight
  PROVE  m_nPreWrite + 1 < m_nRead + defaultfixsize
<1>1. /\ CountAt({"pushTicket"}) \in Nat /\ CountAt(PopInFlight) \in Nat
  BY CountAtType
<1>2. CountAt({"pushTicket"}) >= 1 /\ CountAt(PopInFlight) >= 1
  BY Present
<1>3. m_nRead \in Nat /\ m_nPreWrite \in Nat /\ defaultfixsize \in Nat
  BY SizeAssumption DEF Inv, TypeOK
<1> QED
  BY <1>1, <1>2, <1>3 DEF Inv, TicketsBounded

(* With one consumer the live tickets are less than a lap apart, and so is *)
(* the ticket a push is about to draw. *)
LEMMA OneLap ==
  ASSUME Inv, Sided, OnePopper
  PROVE  \E r \in Nat : /\ \A n \in Nat : Live(n) => r <= n /\ n < r + defaultfixsize
                        /\ \A t \in Threads : pc[t] = "pushTicket" =>
                             r <= m_nPreWrite /\ m_nPreWrite < r + defaultfixsize
<1>0. m_nRead \in Nat /\ m_nPreWrite \in Nat /\ defaultfixsize \in Nat
  BY SizeAssumption DEF Inv, TypeOK
<1>1. CASE \E c \in Poppers : pc[c] \in Reading
  <2>1. PICK c \in Poppers : pc[c] \in Reading
    BY <1>1
  <2>2. pc[c] \in PopInFlight /\ c \in Threads /\ ticket[c] \in Nat /\ ticket[c] = m_nRead - 1
    BY <2>1 DEF Reading, PopInFlight, Sided, Inv, TypeOK, Threads
  <2>3. m_nPreWrite < m_nRead + defaultfixsize /\ m_nRead <= m_nPreWrite
    BY <2>2, Promised
  <2>4. ASSUME NEW n \in Nat, Live(n) PROVE ticket[c] <= n /\ n < ticket[c] + defaultfixsize
    <3>1. CASE n \in m_nRead .. m_nPreWrite - 1
      BY <1>0, <2>2, <2>3, <3>1
    <3>2. CASE Taken(n)
      <4>1. n = m_nRead - 1
        BY <3>2 DEF Taken, Sided, Reading, PopInFlight
      <4> QED
        BY <1>0, <2>2, <2>3, <4>1, SizeAssumption
    <3> QED
      BY <2>4, <3>1, <3>2 DEF Live
  <2>5. ASSUME NEW t \in Threads, pc[t] = "pushTicket"
        PROVE  ticket[c] <= m_nPreWrite /\ m_nPreWrite < ticket[c] + defaultfixsize
    <3>1. m_nPreWrite + 1 < m_nRead + defaultfixsize
      BY <2>2, <2>5, BothPromised
    <3> QED
      BY <1>0, <2>2, <2>3, <3>1
  <2> QED
    BY <2>2, <2>4, <2>5
<1>2. CASE ~ \E c \in Poppers : pc[c] \in Reading
  <2>1. ASSUME NEW n \in Nat, Live(n) PROVE m_nRead <= n /\ n < m_nRead + defaultfixsize
    <3>1. n \in m_nRead .. m_nPreWrite - 1
      BY <1>2, <2>1 DEF Live, Taken
    <3>2. m_nPreWrite <= m_nRead + defaultfixsize
      <4>1. /\ CountAt({"pushTicket"}) \in Nat /\ CountAt(PopInFlight) \in Nat
        BY CountAtType
      <4> QED
        BY <1>0, <4>1 DEF Inv, TicketsBounded
    <3> QED
      BY <1>0, <3>1, <3>2
  <2>2. ASSUME NEW t \in Threads, pc[t] = "pushTicket"
        PROVE  m_nRead <= m_nPreWrite /\ m_nPreWrite < m_nRead + defaultfixsize
    BY <2>2, Promised
  <2> QED
    BY <1>0, <2>1, <2>2
<1> QED
  BY <1>1, <1>2

(* So with one consumer no two live tickets share a cell. *)
LEMMA OneTicketACell ==
  ASSUME Inv, Sided, OnePopper, NEW m \in Nat, NEW n \in Nat, Live(m), Live(n), Cell(m) = Cell(n)
  PROVE  m = n
<1>1. PICK r \in Nat : \A k \in Nat : Live(k) => r <= k /\ k < r + defaultfixsize
  BY OneLap
<1>2. /\ r <= m /\ m < r + defaultfixsize /\ r <= n /\ n < r + defaultfixsize
      /\ defaultfixsize \in Nat
  BY <1>1, SizeAssumption
<1>3. CASE m <= n
  BY <1>2, <1>3, CellsApart
<1>4. CASE n <= m
  BY <1>2, <1>4, CellsApart
<1> QED
  BY <1>3, <1>4

(* With one producer no ticket of a pop is unwritten. *)
LEMMA TakenWritten ==
  ASSUME Inv, Sided, OnePusher, NEW c \in Poppers, PopSound(c), pc[c] \in Reading
  PROVE  ~Unwritten(ticket[c])
<1>1. ASSUME NEW p \in Pushers, pc[p] \in Writing PROVE ticket[p] # ticket[c]
  <2>1. p \in Threads /\ pc[p] \in PushInFlight /\ ticket[p] = m_nPreWrite - 1
    BY <1>1 DEF Sided, Writing, PushInFlight, Threads
  <2>2. m_nRead < m_nPreWrite /\ m_nRead \in Nat /\ m_nPreWrite \in Nat
    BY <2>1, Promised
  <2>3. ticket[c] < m_nRead /\ ticket[c] \in Nat
    BY DEF PopSound, Inv, TypeOK, Threads
  <2> QED
    BY <2>1, <2>2, <2>3
<1> QED
  BY <1>1 DEF Unwritten


(* A thread that is on no ticket before and after its step, and touches    *)
(* neither a ticket counter nor a cell, leaves the ring as it is. *)
LEMMA QuietRing ==
  ASSUME TypeOK, RingSound, NEW t \in Threads, NEW label, Goto(t, label),
         pc[t] \notin Writing \cup Reading, label \notin Writing \cup Reading,
         UNCHANGED <<m_nPreWrite, m_nRead, m_cWrite, m_data, ticket, delivered>>
  PROVE  RingSound'
<1>1. \A u \in Threads : /\ pc'[u] \in Writing \cup Reading <=> pc[u] \in Writing \cup Reading
                         /\ pc'[u] \in Writing \cup Reading => pc'[u] = pc[u]
  BY DEF TypeOK, Goto
<1>2. /\ \A p \in Pushers : (pc'[p] \in Writing <=> pc[p] \in Writing)
                            /\ (pc'[p] \in Writing => pc'[p] = pc[p])
      /\ \A c \in Poppers : (pc'[c] \in Reading <=> pc[c] \in Reading)
                            /\ (pc'[c] \in Reading => pc'[c] = pc[c])
  BY <1>1 DEF Threads
<1>3. \A n : /\ Unwritten(n)' <=> Unwritten(n)
             /\ Live(n)' <=> Live(n)
  BY <1>2 DEF Unwritten, Live, Taken
<1>4. \A n : Written(n)' <=> Written(n)
  BY <1>3 DEF Written
<1>5. CellsSound' /\ FlagsSound'
  BY <1>4 DEF RingSound, CellsSound, FlagsSound
<1>6. ASSUME NEW p \in Pushers PROVE PushSound(p)'
  BY <1>2, <1>3 DEF RingSound, PushSound
<1>7. ASSUME NEW c \in Poppers PROVE PopSound(c)'
  BY <1>2, <1>3 DEF RingSound, PopSound
<1>8. ASSUME NEW i \in Cells PROVE PayloadSound(i)'
  BY <1>3 DEF RingSound, PayloadSound
<1> QED
  BY <1>5, <1>6, <1>7, <1>8 DEF RingSound

(* A push that draws a ticket gets a cell no other push works on. *)
LEMMA FreshCell ==
  ASSUME Inv, Sided, RingSound, NEW p \in Pushers, pc[p] = "pushTicket",
         NEW q \in Pushers \ {p}, pc[q] \in Writing
  PROVE  Cell(ticket[q]) # Cell(m_nPreWrite)
<1>1. p \in team /\ q \in team
  BY DEF Sided, Writing
<1>2. OnePopper
  BY <1>1 DEF Sided, OnePusher
<1>3. PICK r \in Nat : /\ \A n \in Nat : Live(n) => r <= n /\ n < r + defaultfixsize
                       /\ r <= m_nPreWrite /\ m_nPreWrite < r + defaultfixsize
  BY <1>2, OneLap DEF Threads
<1>4. /\ Live(ticket[q]) /\ ticket[q] \in Nat /\ ticket[q] < m_nPreWrite
      /\ m_nPreWrite \in Nat /\ defaultfixsize \in Nat
  <2>1. Live(ticket[q]) /\ ticket[q] \in Nat
    BY DEF RingSound, PushSound, Inv, TypeOK, Threads
  <2>2. m_nRead \in Nat /\ m_nPreWrite \in Nat /\ m_nRead <= m_nPreWrite /\ defaultfixsize \in Nat
    BY Promised, SizeAssumption DEF Threads
  <2>3. Taken(ticket[q]) => ticket[q] < m_nRead
    BY DEF Taken, RingSound, PopSound
  <2> QED
    BY <2>1, <2>2, <2>3 DEF Live
<1>5. r <= ticket[q]
  BY <1>3, <1>4
<1>6. ticket[q] <= m_nPreWrite /\ m_nPreWrite < ticket[q] + defaultfixsize
  BY <1>3, <1>4, <1>5
<1> QED
  BY <1>4, <1>6, CellsApart

(* Drawing a write ticket keeps the ring sound. *)
LEMMA TicketRing ==
  ASSUME Inv, Sided, RingSound, NEW p \in Pushers, PushTicket(p)
  PROVE  RingSound'
<1>1. /\ pc[p] = "pushTicket" /\ m_nPreWrite \in Nat /\ m_nRead \in Nat /\ m_nRead <= m_nPreWrite
      /\ p \in Threads
  BY Promised DEF PushTicket, Threads
<1>2. /\ pc'[p] = "pushSpin" /\ ticket'[p] = m_nPreWrite
      /\ \A t \in Threads \ {p} : pc'[t] = pc[t] /\ ticket'[t] = ticket[t]
      /\ m_nPreWrite' = m_nPreWrite + 1
      /\ UNCHANGED <<m_nRead, m_cWrite, m_data, delivered>>
  BY <1>1 DEF PushTicket, Goto, Inv, TypeOK
<1>3. /\ \A q \in Pushers \ {p} : pc'[q] = pc[q] /\ ticket'[q] = ticket[q]
      /\ \A c \in Poppers : pc'[c] = pc[c] /\ ticket'[c] = ticket[c]
      /\ \A t \in Threads : ticket[t] \in Nat
  BY <1>2, ThreadsAssumption DEF Threads, Inv, TypeOK
<1>4. \A n : Taken(n)' <=> Taken(n)
  BY <1>3 DEF Taken
<1>5. \A n : Live(n)' <=> Live(n) \/ n = m_nPreWrite
  <2>1. m_nRead .. m_nPreWrite = m_nRead .. m_nPreWrite - 1 \cup {m_nPreWrite}
    BY <1>1
  <2>2. m_nPreWrite' - 1 = m_nPreWrite
    BY <1>1, <1>2
  <2> QED
    BY <1>2, <1>4, <2>1, <2>2 DEF Live
<1>6. \A n : Unwritten(n)' <=> Unwritten(n) \/ n = m_nPreWrite
  BY <1>1, <1>2, <1>3 DEF Unwritten, Writing
<1>7. ASSUME NEW c \in Poppers, pc[c] \in Reading PROVE ticket[c] < m_nPreWrite
  <2>1. ticket[c] < m_nRead /\ ticket[c] \in Nat
    BY <1>3, <1>7 DEF RingSound, PopSound, Threads
  <2> QED
    BY <1>1, <2>1
<1>8. ~Live(m_nPreWrite)
  <2>1. ~Taken(m_nPreWrite)
    BY <1>1, <1>3, <1>7 DEF Taken
  <2> QED
    BY <1>1, <2>1 DEF Live
<1>9. \A n : Written(n)' <=> Written(n)
  BY <1>5, <1>6, <1>8 DEF Written
<1>10. CellsSound' /\ FlagsSound'
  BY <1>2, <1>9 DEF RingSound, CellsSound, FlagsSound
<1>11. ASSUME NEW q \in Pushers PROVE PushSound(q)'
  <2>1. CASE q = p
    BY <1>1, <1>2, <1>3, <1>5, <2>1, FreshCell DEF PushSound
  <2>2. CASE q # p
    BY <1>1, <1>2, <1>3, <1>5, <2>2, FreshCell DEF PushSound, RingSound
  <2> QED
    BY <2>1, <2>2
<1>12. ASSUME NEW c \in Poppers PROVE PopSound(c)'
  <2>1. pc[c] \in Reading => ticket[c] # m_nPreWrite
    BY <1>1, <1>3, <1>7 DEF Threads
  <2> QED
    BY <1>2, <1>3, <1>6, <2>1 DEF PopSound, RingSound
<1>13. ASSUME NEW i \in Cells PROVE PayloadSound(i)'
  BY <1>2, <1>5 DEF PayloadSound, RingSound
<1> QED
  BY <1>10, <1>11, <1>12, <1>13 DEF RingSound


(* A push that goes on with its ticket moves no other thread and no        *)
(* ticket. *)
LEMMA PushMoves ==
  ASSUME Inv, NEW p \in Pushers, NEW label, Goto(p, label), UNCHANGED ticket
  PROVE  /\ pc'[p] = label
         /\ \A q \in Pushers \ {p} : pc'[q] = pc[q]
         /\ \A c \in Poppers : pc'[c] = pc[c]
         /\ \A t \in Threads : ticket[t] \in Nat /\ ticket'[t] = ticket[t]
         /\ \A n : UNCHANGED m_nRead /\ UNCHANGED m_nPreWrite => (Live(n)' <=> Live(n))
<1>1. /\ pc'[p] = label /\ \A t \in Threads \ {p} : pc'[t] = pc[t]
      /\ \A t \in Threads : ticket[t] \in Nat /\ ticket'[t] = ticket[t]
  BY DEF Inv, TypeOK, Goto, Threads
<1>2. /\ \A q \in Pushers \ {p} : pc'[q] = pc[q]
      /\ \A c \in Poppers : pc'[c] = pc[c]
  BY <1>1, ThreadsAssumption DEF Threads
<1>3. \A n : Taken(n)' <=> Taken(n)
  BY <1>1, <1>2 DEF Taken
<1> QED
  BY <1>1, <1>2, <1>3 DEF Live

(* Passing the spin of line 32 keeps the ring sound. *)
LEMMA PushSpinRing ==
  ASSUME Inv, Sided, RingSound, NEW p \in Pushers, PushSpin(p)
  PROVE  RingSound'
<1>1. /\ pc[p] = "pushSpin" /\ ~m_cWrite[Cell(ticket[p])] /\ Goto(p, "pushData")
      /\ UNCHANGED <<m_nPreWrite, m_nRead, m_cWrite, m_data, ticket, delivered>>
  BY DEF PushSpin
<1>2. /\ pc'[p] = "pushData" /\ \A q \in Pushers \ {p} : pc'[q] = pc[q]
      /\ \A c \in Poppers : pc'[c] = pc[c]
      /\ \A n : Live(n)' <=> Live(n)
  BY <1>1, PushMoves
<1>3. \A n : Unwritten(n)' <=> Unwritten(n)
  BY <1>1, <1>2 DEF Unwritten, Writing
<1>4. \A n : Written(n)' <=> Written(n)
  BY <1>2, <1>3 DEF Written
<1>5. CellsSound' /\ FlagsSound'
  BY <1>1, <1>4 DEF RingSound, CellsSound, FlagsSound
<1>6. ASSUME NEW q \in Pushers PROVE PushSound(q)'
  <2>1. CASE q = p
    BY <1>1, <1>2, <2>1 DEF RingSound, PushSound, Writing
  <2>2. CASE q # p
    BY <1>1, <1>2, <2>2 DEF RingSound, PushSound, Writing
  <2> QED
    BY <2>1, <2>2
<1>7. ASSUME NEW c \in Poppers PROVE PopSound(c)'
  BY <1>1, <1>2, <1>3 DEF RingSound, PopSound
<1>8. ASSUME NEW i \in Cells PROVE PayloadSound(i)'
  BY <1>1, <1>2 DEF RingSound, PayloadSound
<1> QED
  BY <1>5, <1>6, <1>7, <1>8 DEF RingSound

(* The payload a push overwrites has been returned by a pop: no live       *)
(* ticket but its own has that cell. *)
LEMMA OverwritesRead ==
  ASSUME Inv, RingSound, NEW p \in Pushers, pc[p] = "pushData"
  PROVE  /\ ticket[p] \in Nat /\ Cell(ticket[p]) \in Cells
         /\ \A n \in Nat : Written(n) => Cell(n) # Cell(ticket[p])
         /\ \/ m_data[Cell(ticket[p])] \in {NoData, ticket[p]}
            \/ \E d \in delivered : d[2] = m_data[Cell(ticket[p])]
<1>1. ticket[p] \in Nat /\ Cell(ticket[p]) \in Cells
  BY CellType DEF Inv, TypeOK, Threads
<1>2. ~m_cWrite[Cell(ticket[p])] /\ \A q \in Pushers \ {p} : pc[q] \in Writing => Cell(ticket[q]) # Cell(ticket[p])
  BY DEF RingSound, PushSound, Writing
<1>3. ASSUME NEW n \in Nat, Written(n) PROVE Cell(n) # Cell(ticket[p])
  BY <1>2, <1>3 DEF RingSound, CellsSound
<1>4. ASSUME NEW n \in Nat, Live(n), Cell(n) = Cell(ticket[p]) PROVE n = ticket[p]
  BY <1>2, <1>3, <1>4 DEF Written, Unwritten
<1> QED
  BY <1>1, <1>3, <1>4 DEF RingSound, PayloadSound

(* Storing the payload keeps the ring sound. *)
LEMMA PushDataRing ==
  ASSUME Inv, Sided, RingSound, NEW p \in Pushers, PushData(p)
  PROVE  RingSound'
<1>1. /\ pc[p] = "pushData" /\ Goto(p, "pushFlag")
      /\ m_data' = [m_data EXCEPT ![Cell(ticket[p])] = ticket[p]]
      /\ UNCHANGED <<m_nPreWrite, m_nRead, m_cWrite, ticket, delivered>>
  BY DEF PushData
<1>2. /\ pc'[p] = "pushFlag" /\ \A q \in Pushers \ {p} : pc'[q] = pc[q]
      /\ \A c \in Poppers : pc'[c] = pc[c]
      /\ \A n : Live(n)' <=> Live(n)
  BY <1>1, PushMoves
<1>3. /\ ticket[p] \in Nat /\ Cell(ticket[p]) \in Cells
      /\ \A n \in Nat : Written(n) => Cell(n) # Cell(ticket[p])
  BY <1>1, OverwritesRead
<1>4. m_data'[Cell(ticket[p])] = ticket[p] /\ \A i \in Cells \ {Cell(ticket[p])} : m_data'[i] = m_data[i]
  BY <1>1, <1>3 DEF Inv, TypeOK
<1>5. \A n : Unwritten(n)' <=> Unwritten(n)
  BY <1>1, <1>2 DEF Unwritten, Writing
<1>6. \A n : Written(n)' <=> Written(n)
  BY <1>2, <1>5 DEF Written
<1>7. CellsSound' /\ FlagsSound'
  BY <1>1, <1>3, <1>4, <1>6, CellType DEF RingSound, CellsSound, FlagsSound
<1>8. ASSUME NEW q \in Pushers PROVE PushSound(q)'
  <2>1. CASE q = p
    BY <1>1, <1>2, <1>4, <2>1 DEF RingSound, PushSound, Writing
  <2>2. CASE q # p
    <3>1. pc[q] \in Writing => Cell(ticket[q]) # Cell(ticket[p]) /\ Cell(ticket[q]) \in Cells
      BY <1>1, <2>2, CellType DEF RingSound, PushSound, Writing, Inv, TypeOK, Threads
    <3> QED
      BY <1>1, <1>2, <1>4, <2>2, <3>1 DEF RingSound, PushSound, Writing
  <2> QED
    BY <2>1, <2>2
<1>9. ASSUME NEW c \in Poppers PROVE PopSound(c)'
  BY <1>1, <1>2, <1>5 DEF RingSound, PopSound
<1>10. Live(ticket[p])
  BY <1>1 DEF RingSound, PushSound, Writing
<1>11. ASSUME NEW i \in Cells PROVE PayloadSound(i)'
  <2>1. CASE i = Cell(ticket[p])
    BY <1>2, <1>3, <1>4, <1>10, <2>1 DEF PayloadSound
  <2>2. CASE i # Cell(ticket[p])
    BY <1>1, <1>2, <1>4, <2>2 DEF RingSound, PayloadSound
  <2> QED
    BY <2>1, <2>2
<1> QED
  BY <1>7, <1>8, <1>9, <1>11 DEF RingSound

(* Publishing the cell keeps the ring sound. *)
LEMMA PushFlagRing ==
  ASSUME Inv, Sided, RingSound, NEW p \in Pushers, PushFlag(p)
  PROVE  RingSound'
<1>1. /\ pc[p] = "pushFlag" /\ Goto(p, "pushCount")
      /\ m_cWrite' = [m_cWrite EXCEPT ![Cell(ticket[p])] = TRUE]
      /\ UNCHANGED <<m_nPreWrite, m_nRead, m_data, ticket, delivered>>
  BY DEF PushFlag
<1>2. /\ pc'[p] = "pushCount" /\ \A q \in Pushers \ {p} : pc'[q] = pc[q]
      /\ \A c \in Poppers : pc'[c] = pc[c]
      /\ \A n : Live(n)' <=> Live(n)
      /\ \A t \in Threads : ticket[t] \in Nat
  BY <1>1, PushMoves
<1>3. /\ ticket[p] \in Nat /\ Cell(ticket[p]) \in Cells /\ Live(ticket[p])
      /\ m_data[Cell(ticket[p])] = ticket[p]
      /\ \A q \in Pushers \ {p} : pc[q] \in Writing => Cell(ticket[q]) # Cell(ticket[p])
  BY <1>1, <1>2, CellType DEF RingSound, PushSound, Writing, Threads
<1>4. m_cWrite'[Cell(ticket[p])] /\ \A i \in Cells \ {Cell(ticket[p])} : m_cWrite'[i] <=> m_cWrite[i]
  BY <1>1, <1>3, Zenon DEF Inv, TypeOK
<1>5. \A n : Unwritten(n)' <=> Unwritten(n) /\ n # ticket[p]
  BY <1>1, <1>2, <1>3 DEF Unwritten, Writing
<1>6. \A n : Written(n)' <=> Written(n) \/ n = ticket[p]
  BY <1>2, <1>3, <1>5 DEF Written
<1>7. CellsSound'
  <2> SUFFICES ASSUME NEW n \in Nat, Written(n)' PROVE m_cWrite'[Cell(n)] /\ m_data[Cell(n)] = n
    BY <1>1 DEF CellsSound
  <2>1. CASE n = ticket[p]
    BY <1>3, <1>4, <2>1
  <2>2. CASE n # ticket[p]
    BY <1>4, <1>6, <2>2, CellType DEF RingSound, CellsSound
  <2> QED
    BY <2>1, <2>2
<1>8. FlagsSound'
  <2> SUFFICES ASSUME NEW i \in Cells, m_cWrite'[i] PROVE \E n \in Nat : Written(n)' /\ Cell(n) = i
    BY DEF FlagsSound
  <2>1. CASE i = Cell(ticket[p])
    BY <1>3, <1>6, <2>1
  <2>2. CASE i # Cell(ticket[p])
    BY <1>4, <1>6, <2>2 DEF RingSound, FlagsSound
  <2> QED
    BY <2>1, <2>2
<1>9. ASSUME NEW q \in Pushers PROVE PushSound(q)'
  <2>1. CASE q = p
    BY <1>2, <2>1 DEF PushSound, Writing
  <2>2. CASE q # p
    <3>1. pc[q] \in Writing => Cell(ticket[q]) # Cell(ticket[p]) /\ Cell(ticket[q]) \in Cells
      BY <1>2, <1>3, <2>2, CellType DEF Threads
    <3> QED
      BY <1>1, <1>2, <1>4, <2>2, <3>1 DEF RingSound, PushSound, Writing
  <2> QED
    BY <2>1, <2>2
<1>10. ASSUME NEW c \in Poppers PROVE PopSound(c)'
  BY <1>1, <1>2, <1>5 DEF RingSound, PopSound
<1>11. ASSUME NEW i \in Cells PROVE PayloadSound(i)'
  BY <1>1, <1>2 DEF RingSound, PayloadSound
<1> QED
  BY <1>7, <1>8, <1>9, <1>10, <1>11 DEF RingSound


(* A pop moves no push, and no other pop. *)
LEMMA PopMoves ==
  ASSUME Inv, NEW c \in Poppers, NEW label, Goto(c, label)
  PROVE  /\ pc'[c] = label
         /\ \A d \in Poppers \ {c} : pc'[d] = pc[d]
         /\ \A p \in Pushers : pc'[p] = pc[p]
         /\ \A t \in Threads : ticket[t] \in Nat
<1>1. /\ pc'[c] = label /\ \A t \in Threads \ {c} : pc'[t] = pc[t]
      /\ \A t \in Threads : ticket[t] \in Nat
  BY DEF Inv, TypeOK, Goto, Threads
<1> QED
  BY <1>1, ThreadsAssumption DEF Threads

(* Drawing a read ticket keeps the ring sound: the ticket stays live. *)
LEMMA PopTicketRing ==
  ASSUME Inv, Sided, RingSound, NEW c \in Poppers, PopTicket(c)
  PROVE  RingSound'
<1>1. /\ pc[c] = "popTicket" /\ Goto(c, "popSpin")
      /\ ticket' = [ticket EXCEPT ![c] = m_nRead] /\ m_nRead' = m_nRead + 1
      /\ UNCHANGED <<m_nPreWrite, m_cWrite, m_data, delivered>>
  BY DEF PopTicket
<1>2. /\ pc'[c] = "popSpin" /\ \A d \in Poppers \ {c} : pc'[d] = pc[d]
      /\ \A p \in Pushers : pc'[p] = pc[p]
      /\ \A t \in Threads : ticket[t] \in Nat
  BY <1>1, PopMoves
<1>3. /\ ticket'[c] = m_nRead /\ \A d \in Poppers \ {c} : ticket'[d] = ticket[d]
      /\ \A p \in Pushers : ticket'[p] = ticket[p]
  BY <1>1, ThreadsAssumption DEF Inv, TypeOK, Threads
<1>4. m_nRead \in Nat /\ m_nPreWrite \in Nat /\ m_nRead < m_nPreWrite
  BY <1>1, Promised DEF Threads
<1>5. \A n : Taken(n)' <=> Taken(n) \/ n = m_nRead
  BY <1>1, <1>2, <1>3 DEF Taken, Reading
<1>6. \A n : Live(n)' <=> Live(n)
  <2>1. m_nRead .. m_nPreWrite - 1 = (m_nRead + 1 .. m_nPreWrite - 1) \cup {m_nRead}
    BY <1>4
  <2> QED
    BY <1>1, <1>5, <2>1 DEF Live
<1>7. \A n : Unwritten(n)' <=> Unwritten(n)
  BY <1>2, <1>3 DEF Unwritten
<1>8. \A n : Written(n)' <=> Written(n)
  BY <1>6, <1>7 DEF Written
<1>9. CellsSound' /\ FlagsSound'
  BY <1>1, <1>8 DEF RingSound, CellsSound, FlagsSound
<1>10. ASSUME NEW p \in Pushers PROVE PushSound(p)'
  BY <1>1, <1>2, <1>3, <1>6 DEF RingSound, PushSound
<1>11. ASSUME NEW d \in Poppers PROVE PopSound(d)'
  <2>1. ASSUME NEW e \in Poppers, pc[e] \in Reading PROVE ticket[e] < m_nRead /\ ticket[e] \in Nat
    BY <1>2, <2>1 DEF RingSound, PopSound, Threads
  <2>2. ASSUME NEW e \in Poppers, pc[e] \in Reading PROVE ticket[e] # m_nRead /\ ticket[e] < m_nRead + 1
    BY <1>4, <2>1, <2>2
  <2>3. CASE d = c
    BY <1>1, <1>2, <1>3, <1>4, <2>2, <2>3 DEF PopSound
  <2>4. CASE d # c
    BY <1>1, <1>2, <1>3, <1>7, <2>2, <2>4 DEF RingSound, PopSound
  <2> QED
    BY <2>3, <2>4
<1>12. ASSUME NEW i \in Cells PROVE PayloadSound(i)'
  BY <1>1, <1>6 DEF RingSound, PayloadSound
<1> QED
  BY <1>9, <1>10, <1>11, <1>12 DEF RingSound

(* A pop that finds its cell's flag set has found its own push's flag. *)
LEMMA OwnFlag ==
  ASSUME Inv, Sided, RingSound, NEW c \in Poppers, pc[c] \in Reading, m_cWrite[Cell(ticket[c])]
  PROVE  ~Unwritten(ticket[c])
<1>1. ticket[c] \in Nat /\ Cell(ticket[c]) \in Cells /\ Live(ticket[c])
  BY CellType DEF Inv, TypeOK, Threads, Live, Taken
<1>2. CASE OnePusher
  BY <1>2, TakenWritten DEF RingSound
<1>3. CASE OnePopper
  <2>1. PICK n \in Nat : Written(n) /\ Cell(n) = Cell(ticket[c])
    BY <1>1 DEF RingSound, FlagsSound
  <2>2. n = ticket[c]
    BY <1>1, <1>3, <2>1, OneTicketACell DEF Written
  <2> QED
    BY <2>1, <2>2 DEF Written
<1> QED
  BY <1>2, <1>3 DEF Sided

(* A pop between its spin and its clear holds a written ticket. *)
LEMMA HoldsWritten ==
  ASSUME Inv, RingSound, NEW c \in Poppers, pc[c] \in {"popData", "popClear"}
  PROVE  /\ ticket[c] \in Nat /\ Cell(ticket[c]) \in Cells /\ ~Unwritten(ticket[c])
         /\ Written(ticket[c]) /\ m_data[Cell(ticket[c])] = ticket[c]
<1>1. ticket[c] \in Nat /\ Cell(ticket[c]) \in Cells /\ Live(ticket[c])
  BY CellType DEF Inv, TypeOK, Threads, Live, Taken, Reading
<1>2. ~Unwritten(ticket[c])
  BY DEF RingSound, PopSound, Reading
<1> QED
  BY <1>1, <1>2 DEF Written, RingSound, CellsSound

(* Passing the spin of line 51 and loading the payload keep the ring       *)
(* sound. *)
LEMMA PopReadRing ==
  ASSUME Inv, Sided, RingSound, NEW c \in Poppers, PopSpin(c) \/ PopData(c)
  PROVE  RingSound'
<1>1. PICK label : /\ pc[c] \in {"popSpin", "popData"} /\ label \in {"popData", "popClear"}
                   /\ Goto(c, label) /\ ~Unwritten(ticket[c])
                   /\ UNCHANGED <<m_nPreWrite, m_nRead, m_cWrite, m_data, ticket>>
                   /\ delivered \subseteq delivered'
                   /\ label = "popClear" => <<ticket[c], ticket[c]>> \in delivered'
  <2>1. CASE PopSpin(c)
    <3>1. ~Unwritten(ticket[c])
      BY <2>1, OwnFlag DEF PopSpin, Reading
    <3> QED
      BY <2>1, <3>1 DEF PopSpin
  <2>2. CASE PopData(c)
    <3>1. ~Unwritten(ticket[c]) /\ m_data[Cell(ticket[c])] = ticket[c]
      BY <2>2, HoldsWritten DEF PopData
    <3> QED
      BY <2>2, <3>1 DEF PopData
  <2> QED
    BY <2>1, <2>2
<1>2. /\ pc'[c] = label /\ \A d \in Poppers \ {c} : pc'[d] = pc[d]
      /\ \A p \in Pushers : pc'[p] = pc[p]
  BY <1>1, PopMoves
<1>3. \A n : /\ Taken(n)' <=> Taken(n)
             /\ Unwritten(n)' <=> Unwritten(n)
  BY <1>1, <1>2 DEF Taken, Reading, Unwritten
<1>4. \A n : (Live(n)' <=> Live(n)) /\ (Written(n)' <=> Written(n))
  BY <1>1, <1>3 DEF Live, Written
<1>5. CellsSound' /\ FlagsSound'
  BY <1>1, <1>4 DEF RingSound, CellsSound, FlagsSound
<1>6. ASSUME NEW p \in Pushers PROVE PushSound(p)'
  BY <1>1, <1>2, <1>4 DEF RingSound, PushSound
<1>7. ASSUME NEW d \in Poppers PROVE PopSound(d)'
  <2>1. CASE d = c
    BY <1>1, <1>2, <1>3, <2>1 DEF RingSound, PopSound, Reading
  <2>2. CASE d # c
    BY <1>1, <1>2, <1>3, <2>2 DEF RingSound, PopSound, Reading
  <2> QED
    BY <2>1, <2>2
<1>8. ASSUME NEW i \in Cells PROVE PayloadSound(i)'
  BY <1>1, <1>4 DEF RingSound, PayloadSound
<1> QED
  BY <1>5, <1>6, <1>7, <1>8 DEF RingSound

(* Releasing the cell keeps the ring sound: its ticket is live no more,    *)
(* and its payload has been returned. *)
LEMMA PopClearRing ==
  ASSUME Inv, Sided, RingSound, NEW c \in Poppers, PopClear(c)
  PROVE  RingSound'
<1>1. /\ pc[c] = "popClear" /\ Goto(c, "popSpace")
      /\ m_cWrite' = [m_cWrite EXCEPT ![Cell(ticket[c])] = FALSE]
      /\ UNCHANGED <<m_nPreWrite, m_nRead, m_data, ticket, delivered>>
  BY DEF PopClear
<1>2. /\ pc'[c] = "popSpace" /\ \A d \in Poppers \ {c} : pc'[d] = pc[d]
      /\ \A p \in Pushers : pc'[p] = pc[p]
      /\ \A t \in Threads : ticket[t] \in Nat
  BY <1>1, PopMoves
<1>3. /\ ticket[c] \in Nat /\ Cell(ticket[c]) \in Cells /\ ~Unwritten(ticket[c])
      /\ m_data[Cell(ticket[c])] = ticket[c]
  BY <1>1, HoldsWritten
<1>4. /\ ticket[c] < m_nRead /\ <<ticket[c], ticket[c]>> \in delivered
      /\ \A d \in Poppers \ {c} : pc[d] \in Reading => ticket[d] # ticket[c]
  BY <1>1 DEF RingSound, PopSound, Reading
<1>5. ~m_cWrite'[Cell(ticket[c])] /\ \A i \in Cells \ {Cell(ticket[c])} : m_cWrite'[i] <=> m_cWrite[i]
  BY <1>1, <1>3, Zenon DEF Inv, TypeOK
<1>6. \A n : Taken(n)' <=> Taken(n) /\ n # ticket[c]
  BY <1>1, <1>2, <1>4 DEF Taken, Reading
<1>7. \A n : Live(n)' <=> Live(n) /\ n # ticket[c]
  <2>1. ticket[c] \notin m_nRead .. m_nPreWrite - 1
    BY <1>3, <1>4 DEF Inv, TypeOK
  <2> QED
    BY <1>1, <1>6, <2>1 DEF Live
<1>8. \A n : Unwritten(n)' <=> Unwritten(n)
  BY <1>1, <1>2 DEF Unwritten
<1>9. \A n : Written(n)' <=> Written(n) /\ n # ticket[c]
  BY <1>7, <1>8 DEF Written
<1>10. CellsSound'
  <2> SUFFICES ASSUME NEW n \in Nat, Written(n)' PROVE m_cWrite'[Cell(n)] /\ m_data[Cell(n)] = n
    BY <1>1 DEF CellsSound
  <2>1. m_cWrite[Cell(n)] /\ m_data[Cell(n)] = n /\ n # ticket[c]
    BY <1>9 DEF RingSound, CellsSound
  <2>2. Cell(n) # Cell(ticket[c]) /\ Cell(n) \in Cells
    BY <1>3, <2>1, CellType
  <2> QED
    BY <1>5, <2>1, <2>2
<1>11. FlagsSound'
  <2> SUFFICES ASSUME NEW i \in Cells, m_cWrite'[i] PROVE \E n \in Nat : Written(n)' /\ Cell(n) = i
    BY DEF FlagsSound
  <2>1. i # Cell(ticket[c])
    BY <1>5
  <2> QED
    BY <1>5, <1>9, <2>1 DEF RingSound, FlagsSound
<1>12. ASSUME NEW p \in Pushers PROVE PushSound(p)'
  <2>1. pc[p] \in Writing => ticket[p] # ticket[c]
    BY <1>3 DEF Unwritten
  <2>2. Cell(ticket[p]) \in Cells
    BY <1>2, CellType DEF Threads
  <2>3. pc[p] \in Writing /\ pc[p] # "pushSpin" => ~m_cWrite'[Cell(ticket[p])]
    BY <1>5, <2>2 DEF RingSound, PushSound
  <2> QED
    BY <1>1, <1>2, <1>7, <2>1, <2>3 DEF RingSound, PushSound
<1>13. ASSUME NEW d \in Poppers PROVE PopSound(d)'
  <2>1. CASE d = c
    BY <1>2, <2>1 DEF PopSound, Reading
  <2>2. CASE d # c
    BY <1>1, <1>2, <1>8, <2>2 DEF RingSound, PopSound, Reading
  <2> QED
    BY <2>1, <2>2
<1>14. ASSUME NEW i \in Cells PROVE PayloadSound(i)'
  <2>1. \E d \in delivered : d[2] = ticket[c]
    BY <1>4
  <2> QED
    BY <1>1, <1>7, <2>1 DEF RingSound, PayloadSound
<1> QED
  BY <1>10, <1>11, <1>12, <1>13, <1>14 DEF RingSound


(* Only the team moves, and a lone thread of its kind draws the tickets in *)
(* order. *)
LEMMA SidedStep ==
  ASSUME Inv, Sided, TeamNext
  PROVE  Sided'
<1>1. UNCHANGED team
  BY DEF TeamNext
<1>2. (OnePusher' <=> OnePusher) /\ (OnePopper' <=> OnePopper)
  BY <1>1 DEF OnePusher, OnePopper
<1>3. m_nRead \in Nat /\ m_nPreWrite \in Nat
  BY DEF Inv, TypeOK
<1>4. ASSUME NEW p \in Pushers \cap team, PushTake(p) \/ PushStep(p) PROVE Sided'
  <2>1. PICK label : Goto(p, label)
    BY <1>4 DEF PushTake, PushStep, PushTicket, PushSpin, PushData, PushFlag, PushCount, PushUndo
  <2>2. /\ pc'[p] = label /\ \A t \in Threads \ {p} : pc'[t] = pc[t]
    BY <2>1 DEF Inv, TypeOK, Goto, Threads
  <2>3. /\ \A q \in Pushers \ {p} : pc'[q] = pc[q]
        /\ \A c \in Poppers : pc'[c] = pc[c]
    BY <2>2, ThreadsAssumption DEF Threads
  <2>4. CASE PushTicket(p)
    <3>1. /\ ticket'[p] = m_nPreWrite /\ \A c \in Poppers : ticket'[c] = ticket[c]
          /\ m_nPreWrite' = m_nPreWrite + 1 /\ m_nRead' = m_nRead
      BY <2>4, ThreadsAssumption DEF PushTicket, Inv, TypeOK, Threads
    <3>2. OnePusher => \A q \in Pushers \ {p} : pc[q] = "pushDone"
      BY DEF OnePusher, Sided
    <3>3. ticket'[p] = m_nPreWrite' - 1
      BY <1>3, <3>1
    <3> QED
      BY <1>1, <1>2, <2>3, <3>1, <3>2, <3>3 DEF Sided, PushInFlight
  <2>5. CASE ~PushTicket(p)
    <3>1. UNCHANGED <<ticket, m_nPreWrite, m_nRead>> /\ (pc'[p] \in PushInFlight => pc[p] \in PushInFlight)
      BY <1>4, <2>5, <2>2 DEF PushTake, PushStep, PushSpin, PushData, PushFlag, PushCount, PushUndo, PushInFlight,
         Goto, Inv, TypeOK, Threads
    <3> QED
      BY <1>1, <1>2, <2>3, <3>1 DEF Sided
  <2> QED
    BY <2>4, <2>5
<1>5. ASSUME NEW c \in Poppers \cap team, PopCheck(c) \/ PopStep(c) PROVE Sided'
  <2>1. PICK label : Goto(c, label)
    BY <1>5 DEF PopCheck, PopStep, PopTake, PopTicket, PopSpin, PopData, PopClear, PopSpace, PopUndo
  <2>2. /\ pc'[c] = label /\ \A d \in Poppers \ {c} : pc'[d] = pc[d]
        /\ \A p \in Pushers : pc'[p] = pc[p]
    BY <2>1, PopMoves
  <2>3. CASE PopTicket(c)
    <3>1. /\ ticket'[c] = m_nRead /\ \A p \in Pushers : ticket'[p] = ticket[p]
          /\ m_nRead' = m_nRead + 1 /\ m_nPreWrite' = m_nPreWrite
      BY <2>3, ThreadsAssumption DEF PopTicket, Inv, TypeOK, Threads
    <3>2. OnePopper => \A d \in Poppers \ {c} : pc[d] = "popDone"
      BY DEF OnePopper, Sided
    <3>3. ticket'[c] = m_nRead' - 1
      BY <1>3, <3>1
    <3> QED
      BY <1>1, <1>2, <2>2, <3>1, <3>2, <3>3 DEF Sided, PopInFlight
  <2>4. CASE ~PopTicket(c)
    <3>1. UNCHANGED <<ticket, m_nPreWrite, m_nRead>> /\ (pc'[c] \in PopInFlight => pc[c] \in PopInFlight)
      BY <1>5, <2>4, <2>2 DEF PopCheck, PopStep, PopTake, PopSpin, PopData, PopClear, PopSpace, PopUndo, PopInFlight,
         Goto, Inv, TypeOK, Threads
    <3> QED
      BY <1>1, <1>2, <2>2, <3>1 DEF Sided
  <2> QED
    BY <2>3, <2>4
<1> QED
  BY <1>4, <1>5 DEF TeamNext

(* Every access of Push keeps the ring sound. *)
LEMMA PushRing ==
  ASSUME Inv, Sided, RingSound, NEW p \in Pushers, PushTake(p) \/ PushStep(p)
  PROVE  RingSound'
<1>1. TypeOK /\ p \in Threads
  BY DEF Inv, Threads
<1>2. CASE PushTake(p) \/ PushCount(p) \/ PushUndo(p)
  <2>1. PICK label : /\ Goto(p, label) /\ pc[p] \notin Writing \cup Reading /\ label \notin Writing \cup Reading
                     /\ UNCHANGED <<m_nPreWrite, m_nRead, m_cWrite, m_data, ticket, delivered>>
    BY <1>2 DEF PushTake, PushCount, PushUndo, Writing, Reading
  <2> QED
    BY <1>1, <2>1, QuietRing
<1> QED
  BY <1>2, TicketRing, PushSpinRing, PushDataRing, PushFlagRing DEF PushStep

(* Every access of Pop keeps the ring sound. *)
LEMMA PopRing ==
  ASSUME Inv, Sided, RingSound, NEW c \in Poppers, PopCheck(c) \/ PopStep(c)
  PROVE  RingSound'
<1>1. TypeOK /\ c \in Threads
  BY DEF Inv, Threads
<1>2. CASE PopCheck(c) \/ PopTake(c) \/ PopSpace(c) \/ PopUndo(c)
  <2>1. PICK label : /\ Goto(c, label) /\ pc[c] \notin Writing \cup Reading /\ label \notin Writing \cup Reading
                     /\ UNCHANGED <<m_nPreWrite, m_nRead, m_cWrite, m_data, ticket, delivered>>
    BY <1>2 DEF PopCheck, PopTake, PopSpace, PopUndo, Writing, Reading
  <2> QED
    BY <1>1, <2>1, QuietRing
<1> QED
  BY <1>2, PopTicketRing, PopReadRing, PopClearRing DEF PopStep

(* Only PopData returns a payload, and it is its own ticket's. *)
LEMMA DeliveryStep ==
  ASSUME Inv, RingSound, DeliveredInOrder, Next
  PROVE  DeliveredInOrder'
<1>1. CASE \E c \in Poppers : PopData(c)
  <2>1. PICK c \in Poppers : PopData(c)
    BY <1>1
  <2>2. m_data[Cell(ticket[c])] = ticket[c]
    BY <2>1, HoldsWritten DEF PopData
  <2> QED
    BY <2>1, <2>2 DEF PopData, DeliveredInOrder
<1>2. CASE ~ \E c \in Poppers : PopData(c)
  <2>1. UNCHANGED delivered
    BY <1>2 DEF Next, PushTake, PushStep, PushTicket, PushSpin, PushData, PushFlag, PushCount, PushUndo,
       PopCheck, PopStep, PopTake, PopTicket, PopSpin, PopClear, PopSpace, PopUndo
  <2> QED
    BY <2>1 DEF DeliveredInOrder
<1> QED
  BY <1>1, <1>2

(* Before the first call no ticket is live and no flag is set. *)
LEMMA RingInit == TeamInit => RingInv
<1> SUFFICES ASSUME TeamInit PROVE RingInv
  OBVIOUS
<1>1. Init /\ team \in Teams /\ Inv
  BY InitInv DEF TeamInit
<1>2. OnePusher \/ OnePopper
  BY <1>1, ThreadsAssumption DEF Teams, OnePusher, OnePopper
<1>3. /\ \A p \in Pushers : pc[p] = "pushDone"
      /\ \A c \in Poppers : pc[c] = "popDone"
  BY <1>1, ThreadsAssumption DEF Init, Threads
<1>4. Sided
  BY <1>2, <1>3 DEF Sided, PushInFlight, PopInFlight
<1>5. \A n : ~Live(n)
  BY <1>1, <1>3 DEF Init, Live, Taken, Reading
<1>6. CellsSound /\ FlagsSound
  BY <1>1, <1>5 DEF Init, CellsSound, FlagsSound, Written
<1>7. /\ \A p \in Pushers : PushSound(p)
      /\ \A c \in Poppers : PopSound(c)
  BY <1>3 DEF PushSound, PopSound, Writing, Reading
<1>8. \A i \in Cells : PayloadSound(i)
  BY <1>1 DEF Init, PayloadSound
<1> QED
  BY <1>1, <1>4, <1>6, <1>7, <1>8 DEF Init, RingInv, RingSound, DeliveredInOrder

(* Every step of a team keeps the invariant. *)
LEMMA RingNext == RingInv /\ [TeamNext]_<<vars, team>> => RingInv'
<1> SUFFICES ASSUME RingInv, [TeamNext]_<<vars, team>> PROVE RingInv'
  OBVIOUS
<1> Inv /\ Sided /\ RingSound /\ DeliveredInOrder /\ TypeOK
  BY DEF RingInv, Inv
<1>1. CASE TeamNext
  <2>1. Next
    BY <1>1 DEF TeamNext, Next
  <2>2. CASE \E p \in Pushers : PushTake(p) \/ PushStep(p)
    BY <1>1, <2>1, <2>2, PushType, PushAccounts, SidedStep, PushRing, DeliveryStep DEF Inv, RingInv
  <2>3. CASE \E c \in Poppers : PopCheck(c) \/ PopStep(c)
    BY <1>1, <2>1, <2>3, PopType, PopAccounts, SidedStep, PopRing, DeliveryStep DEF Inv, RingInv
  <2> QED
    BY <2>1, <2>2, <2>3 DEF Next
<1>2. CASE UNCHANGED <<vars, team>>
  <2>1. Inv' /\ DeliveredInOrder'
    BY <1>2 DEF Inv, TypeOK, Accounts, TicketsBounded, CountAt, vars, DeliveredInOrder
  <2>2. Sided'
    BY <1>2 DEF Sided, OnePusher, OnePopper, vars
  <2>3. RingSound'
    BY <1>2 DEF RingSound, CellsSound, FlagsSound, PushSound, PopSound, PayloadSound, Written, Live,
       Unwritten, Taken, vars
  <2> QED
    BY <2>1, <2>2, <2>3 DEF RingInv
<1> QED
  BY <1>1, <1>2

(* With one producer and any consumers, or one consumer and any producers, *)
(* the pop with read ticket t returns the payload of write ticket t: FIFO  *)
(* and exactly once, for any ring size. *)
THEOREM OneSidedInOrder == TeamSpec => []DeliveredInOrder
<1>1. RingInv => DeliveredInOrder
  BY DEF RingInv
<1> QED
  BY <1>1, RingInit, RingNext, PTL DEF TeamSpec

(* Used so, a push overwrites (line 35) no payload but one that a pop has  *)
(* already returned. *)
THEOREM OneSidedOverwrite == TeamSpec => OverwriteOnlyRead
<1>1. RingInv /\ [TeamNext]_<<vars, team>> =>
        [\A c \in Cells : m_data'[c] # m_data[c] =>
           \/ m_data[c] = NoData
           \/ \E d \in delivered : d[2] = m_data[c]]_vars
  <2> SUFFICES ASSUME RingInv, [TeamNext]_<<vars, team>>, NEW c \in Cells, m_data'[c] # m_data[c]
               PROVE  m_data[c] = NoData \/ \E d \in delivered : d[2] = m_data[c]
    OBVIOUS
  <2>0. Inv /\ RingSound
    BY DEF RingInv
  <2>1. CASE \E p \in Pushers : PushData(p)
    <3>1. PICK p \in Pushers : PushData(p)
      BY <2>1
    <3>2. /\ ticket[p] \in Nat /\ Cell(ticket[p]) \in Cells
          /\ \/ m_data[Cell(ticket[p])] \in {NoData, ticket[p]}
             \/ \E d \in delivered : d[2] = m_data[Cell(ticket[p])]
      BY <2>0, <3>1, OverwritesRead DEF PushData
    <3> QED
      BY <2>0, <3>1, <3>2 DEF PushData, Inv, TypeOK
  <2>2. CASE ~ \E p \in Pushers : PushData(p)
    <3>1. UNCHANGED m_data
      BY <2>2 DEF TeamNext, PushTake, PushStep, PushTicket, PushSpin, PushFlag, PushCount, PushUndo,
         PopCheck, PopStep, PopTake, PopTicket, PopSpin, PopData, PopClear, PopSpace, PopUndo, vars
    <3> QED
      BY <3>1
  <2> QED
    BY <2>1, <2>2
<1> QED
  BY <1>1, RingInit, RingNext, PTL DEF TeamSpec, OverwriteOnlyRead

===========================================================================
