------------------------ MODULE BlockingQueueProofs ------------------------
(***************************************************************************)
(* BlockingConcurrentQueue for any threads, any bulk size and any size of  *)
(* the first hash table.  First its semaphore: it loses and invents no     *)
(* wake-up and does what a semaphore does.  Then the producers a thread    *)
(* works on: no two threads ever enqueue to the same one, and the tables   *)
(* that lead to it never fill up.                                          *)
(***************************************************************************)
EXTENDS BlockingConcurrentQueue, Counting, SequenceTheorems

Linked == {list[i] : i \in 1 .. Len(list)}

Enqs == [pc : {"idle", "lookup", "insert", "count", "resize", "grow", "unlock", "room", "scan",
               "create", "link", "put", "signal", "post", "failed"},
         token : 0 .. Len(producers), hash : 0 .. Len(hashes), newCount : Int,
         producer : 0 .. Len(producers), pos : 0 .. Len(list), count : 0 .. MaxBulk]
Records == [isExplicit : BOOLEAN, inactive : BOOLEAN, in : Nat, out : Nat]
Hashes == [capacity : Nat \ {0}, keys : SUBSET Enqueuers, value : [Enqueuers -> 0 .. Len(producers)]]

Looking == {"count", "resize", "grow", "unlock", "room", "insert"}

(* What a call knows at each of its labels: how many elements it enqueues, *)
(* the table it looks at, and the producer it found. *)
EnqSound(t, r) ==
  /\ \/ r.count > 0
     \/ r.pc \in {"idle", "scan", "post", "failed"}
     \/ r.pc \in {"create", "link"} /\ withToken[t]
  /\ r.pc = "scan" => withToken[t]
  /\ r.pc \in Looking \cup {"lookup"} => ~withToken[t]
  /\ r.pc \in Looking \cup {"create", "link"} /\ ~withToken[t] => r.hash # 0
  /\ r.pc \in {"put", "insert", "link"} => r.producer # None

(* The types of what enqueuers work on; no producer has given more than it *)
(* was given, and a key comes with its producer. *)
SharedType ==
  /\ producers \in Seq(Records)
  /\ \A i \in 1 .. Len(producers) : producers[i].out <= producers[i].in
  /\ list \in Seq(1 .. Len(producers))
  /\ producerCount = Len(producers)
  /\ hashes \in Seq(Hashes) /\ hashes # <<>>
  /\ \A h \in 1 .. Len(hashes) : \A t \in hashes[h].keys : hashes[h].value[t] # None /\ ~withToken[t]
  /\ implicitProducerHashCount \in Int
  /\ implicitProducerHashResizeInProgress \in BOOLEAN
  /\ withToken \in [Enqueuers \cup Consumers -> BOOLEAN]
EnqType ==
  /\ enq \in [Enqueuers -> Enqs]
  /\ \A t \in Enqueuers : EnqSound(t, enq[t])
EnqueueType == SharedType /\ EnqType

Waits == [pc : {"idle", "spin", "sema", "adjust", "claim", "more", "acquired"},
          mode : Modes, max : 1 .. MaxBulk, got : 0 .. MaxBulk]

(* A call that takes a second step may take more than one unit, and one    *)
(* that has its units has some; the units a call has in hand. *)
WaitSound(w) == (w.pc = "more" => w.max > 1) /\ (w.pc = "acquired" => w.got > 0)
Grip(w) == IF w.pc = "acquired" THEN w.got ELSE IF w.pc = "more" THEN 1 ELSE 0

(* The types of the semaphore; only a call that signals has posts to make. *)
SemaType ==
  /\ m_count \in Int /\ m_sema \in Nat
  /\ wait \in [Consumers -> Waits]
  /\ toRelease \in [Enqueuers -> 0 .. MaxBulk]
  /\ \A t \in Enqueuers : toRelease[t] > 0 => enq[t].pc = "post"
  /\ \A c \in Consumers : WaitSound(wait[c])

Deqs == [pc : {"idle", "pass", "score", "size", "visit"}, max : 1 .. MaxBulk, need : 0 .. MaxBulk,
         todo : Seq(Linked), tail : 0 .. Len(list), first : BOOLEAN, size : Nat,
         best : Linked \cup {None}, bestSize : Nat, nonEmpty : Nat]
Tokens == [initialOffset : Nat, lastKnownGlobalOffset : Int, itemsConsumedFromCurrent : Nat,
           currentProducer : Linked \cup {None}, desiredProducer : Linked \cup {None}]

(* A pass has producers to go on to until it ends, the best score belongs  *)
(* to a producer, and a call that has units knows how many; a token knows  *)
(* its producers together. *)
DeqSound(d) ==
  /\ d.pc \in {"score", "size", "visit"} => d.todo # <<>>
  /\ IF d.nonEmpty = 0 THEN d.bestSize = 0 ELSE d.best # None
  /\ d.pc = "idle" <=> d.need = 0
TokenSound(k) ==
  /\ k.lastKnownGlobalOffset <= globalExplicitConsumerOffset
  /\ k.desiredProducer # None => k.currentProducer # None

(* The types of what consumers work on, who visit linked producers only. *)
DequeueType ==
  /\ globalExplicitConsumerOffset \in Nat
  /\ deq \in [Consumers -> Deqs]
  /\ token \in [Consumers -> Tokens]
  /\ \A c \in Consumers :
       /\ DeqSound(deq[c]) /\ TokenSound(token[c])
       /\ wait[c].pc = "acquired" <=> deq[c].need > 0

TypeInv == EnqueueType /\ SemaType /\ DequeueType

---------------------------------------------------------------------------
(* The semaphore *)

WaitingLabels == {"sema", "adjust", "claim"}

(* A thread that goes on to r joins or leaves the waiting ones. *)
LEMMA WaitingStep ==
  ASSUME SemaType, NEW c \in Consumers, NEW r, WaitStep(c, r)
  PROVE  /\ Cardinality(Waiting) \in Nat /\ Cardinality(Waiting)' \in Nat
         /\ Cardinality(Waiting)' = Cardinality(Waiting)
              + Has(r.pc, WaitingLabels) - Has(wait[c].pc, WaitingLabels)
<1>1. Waiting \ {c} = Waiting' \ {c}
  BY DEF Waiting, SemaType, WaitStep
<1>2. IsFiniteSet(Waiting)
  BY QueueThreadsAssumption, FS_Subset DEF Waiting
<1>3. /\ c \in Waiting <=> wait[c].pc \in WaitingLabels
      /\ c \in Waiting' <=> r.pc \in WaitingLabels
  BY DEF Waiting, SemaType, WaitStep, WaitingLabels
<1>4. /\ Cardinality(Waiting) \in Nat /\ Cardinality(Waiting') \in Nat
      /\ Cardinality(Waiting') = Cardinality(Waiting) + Has(c, Waiting') - Has(c, Waiting)
  BY <1>1, <1>2, CountStep
<1>5. /\ Has(c, Waiting') = Has(r.pc, WaitingLabels)
      /\ Has(c, Waiting) = Has(wait[c].pc, WaitingLabels)
  BY <1>3 DEF Has
<1> QED
  BY <1>4, <1>5

(* The posts owed are the units of toRelease. *)
LEMMA OwedUnits ==
  ASSUME SemaType
  PROVE  Owed = Units(toRelease) /\ IsFiniteSet(Owed) /\ Cardinality(Owed) \in Nat
<1>1. toRelease \in [Enqueuers -> 0 .. MaxBulk]
  BY DEF SemaType
<1>2. Owed = Units(toRelease)
  BY <1>1, BulkAssumption DEF Owed, Units
<1>3. IsFiniteSet(Enqueuers \X (1 .. MaxBulk))
  <2>1. IsFiniteSet(1 .. MaxBulk)
    BY BulkAssumption, FS_Interval
  <2> QED
    BY <2>1, QueueThreadsAssumption, FS_Product, Zenon
<1>4. IsFiniteSet(Owed)
  BY <1>3, FS_Subset DEF Owed
<1> QED
  BY <1>2, <1>4, FS_CardinalityType

(* Signalling changes what is owed by what the signaller owes. *)
LEMMA OwedStep ==
  ASSUME SemaType, NEW t \in Enqueuers, NEW n \in 0 .. MaxBulk,
         toRelease' = [toRelease EXCEPT ![t] = n]
  PROVE  /\ Cardinality(Owed) \in Nat /\ Cardinality(Owed)' \in Nat
         /\ Cardinality(Owed)' = Cardinality(Owed) + n - toRelease[t]
<1>1. toRelease \in [Enqueuers -> 0 .. MaxBulk] /\ toRelease' \in [Enqueuers -> 0 .. MaxBulk]
  BY DEF SemaType
<1>2. toRelease \in [Enqueuers -> Nat] /\ toRelease' \in [Enqueuers -> Nat]
  BY <1>1, BulkAssumption
<1>3. Owed = Units(toRelease) /\ IsFiniteSet(Units(toRelease))
  BY OwedUnits
<1>4. Owed' = Units(toRelease')
  BY <1>1, BulkAssumption DEF Owed, Units
<1>5. /\ Total(toRelease) \in Nat /\ Total([toRelease EXCEPT ![t] = n]) \in Nat
      /\ Total([toRelease EXCEPT ![t] = n]) = Total(toRelease) + n - toRelease[t]
  <2>1. n \in Nat
    BY BulkAssumption
  <2>2. ASSUME NEW f \in [Enqueuers -> Nat], IsFiniteSet(Units(f))
        PROVE  /\ Total(f) \in Nat /\ Total([f EXCEPT ![t] = n]) \in Nat
               /\ Total([f EXCEPT ![t] = n]) = Total(f) + n - f[t]
    BY <2>1, <2>2, TotalExcept
  <2> QED
    BY <1>2, <1>3, <2>2
<1> QED
  BY <1>3, <1>4, <1>5 DEF Total

(* The records a waiting call goes through. *)
LEMMA AcquiredType ==
  ASSUME NEW w \in Waits, NEW n \in 1 .. MaxBulk
  PROVE  /\ Acquired(w, n) \in Waits
         /\ Acquired(w, n).pc = "acquired" /\ Acquired(w, n).got = n /\ Acquired(w, n).max = w.max
<1>1. n \in 0 .. MaxBulk /\ "try" \in Modes
  BY BulkAssumption DEF Modes
<1>2. Acquired(w, n) \in Waits
  BY <1>1 DEF Waits, Acquired
<1>3. Acquired(w, n).pc = "acquired" /\ Acquired(w, n).got = n /\ Acquired(w, n).max = w.max
  BY DEF Waits, Acquired
<1> QED
  BY <1>2, <1>3

LEMMA WokenType ==
  ASSUME NEW w \in Waits
  PROVE  /\ Woken(w) \in Waits
         /\ Woken(w).pc \in {"acquired", "more"}
         /\ WaitSound(Woken(w)) /\ Grip(Woken(w)) = 1
<1>1. CASE w.max = 1
  BY <1>1, AcquiredType, BulkAssumption DEF Woken, WaitSound, Grip
<1>2. CASE w.max # 1
  <2> DEFINE r == [w EXCEPT !.pc = "more", !.mode = "try"]
  <2>1. Woken(w) = r
    BY <1>2 DEF Woken
  <2>2. "try" \in Modes
    BY DEF Modes
  <2>3. r \in Waits /\ r.pc = "more" /\ r.max = w.max
    BY <2>2 DEF Waits
  <2>4. w.max > 1
    BY <1>2, BulkAssumption DEF Waits
  <2> QED
    BY <2>1, <2>3, <2>4 DEF WaitSound, Grip
<1> QED
  BY <1>1, <1>2

(* What the semaphore's users see: units come or are taken. *)
ValueStep == (Abstract!Release \/ Abstract!Acquire) \/ UNCHANGED Value

(* The units a call takes are the ones it then has in hand. *)
GripStep(c) == Value \in Int /\ Value' = Value + Grip(wait[c]) - Grip(wait'[c])

LEMMA GripType ==
  ASSUME SemaType, NEW c \in Consumers, NEW r \in Waits, WaitStep(c, r)
  PROVE  Grip(wait[c]) \in Int /\ Grip(r) \in Int /\ wait'[c] = r
<1>1. ASSUME NEW w \in Waits PROVE Grip(w) \in Int
  BY BulkAssumption DEF Waits, Grip
<1> QED
  BY <1>1 DEF SemaType, WaitStep

LEMMA WaitType ==
  ASSUME SemaType, UNCHANGED <<enq, toRelease>>, NEW c \in Consumers, NEW r \in Waits, WaitStep(c, r),
         m_count' \in Int, m_sema' \in Nat, WaitSound(r)
  PROVE  SemaType' /\ UNCHANGED Cardinality(Owed)
<1>1. SemaType'
  BY DEF SemaType, WaitStep
<1>2. UNCHANGED Cardinality(Owed)
  BY DEF Owed
<1> QED
  BY <1>1, <1>2

(* A wait takes units that are there, and thereby leaves the waiting ones  *)
(* and the wake-ups owed to them in balance. *)
LEMMA Acquires ==
  ASSUME SemaType, WakeupsOwed, UNCHANGED <<enq, toRelease, m_sema>>, NEW c \in Consumers, NEW r \in Waits,
         WaitStep(c, r), wait[c].pc \notin WaitingLabels, r.pc \notin WaitingLabels,
         WaitSound(r),
         NEW n \in 1 .. MaxBulk, Grip(r) = Grip(wait[c]) + n, m_count > 0, n <= m_count, m_count' = m_count - n
  PROVE  SemaType' /\ WakeupsOwed' /\ ValueStep /\ GripStep(c)
<1>1. m_count \in Int /\ m_sema \in Nat /\ n \in Int /\ m_count' \in Int /\ m_sema' \in Nat
  BY BulkAssumption DEF SemaType
<1>2. SemaType' /\ UNCHANGED Cardinality(Owed)
  BY <1>1, WaitType
<1>3. Cardinality(Waiting) \in Nat /\ Cardinality(Waiting)' = Cardinality(Waiting)
  BY WaitingStep DEF Has
<1>4. WakeupsOwed'
  BY <1>1, <1>2, <1>3 DEF WakeupsOwed
<1>5. Value \in Int /\ n <= Value /\ Value' = Value - n
  BY <1>1, <1>3 DEF Value
<1>6. Abstract!Acquire
  BY <1>5 DEF Abstract!Acquire
<1>7. GripStep(c)
  BY <1>1, <1>5, GripType DEF GripStep
<1> QED
  BY <1>2, <1>4, <1>6, <1>7 DEF ValueStep

(* A thread that was waiting is woken: it takes one unit that is there,    *)
(* since the post it took was owed to somebody. *)
LEMMA Wakes ==
  ASSUME SemaType, WakeupsOwed, UNCHANGED <<enq, toRelease, m_count>>, NEW c \in Consumers,
         wait[c].pc \in WaitingLabels, m_sema > 0, m_sema' = m_sema - 1, WaitStep(c, Woken(wait[c]))
  PROVE  SemaType' /\ WakeupsOwed' /\ ValueStep /\ GripStep(c)
<1> DEFINE r == Woken(wait[c])
<1>1. r \in Waits /\ r.pc \notin WaitingLabels /\ WaitSound(r) /\ Grip(r) = 1
  BY WokenType DEF SemaType, WaitingLabels
<1>2. m_count \in Int /\ m_count' = m_count /\ m_sema \in Nat /\ m_sema' \in Nat
  BY DEF SemaType
<1> HIDE DEF r
<1>3. SemaType' /\ UNCHANGED Cardinality(Owed)
  BY <1>1, <1>2, WaitType DEF r
<1>4. Cardinality(Waiting) \in Nat /\ Cardinality(Waiting)' = Cardinality(Waiting) - 1
  <2>1. WaitStep(c, r)
    BY DEF r
  <2> QED
    BY <1>1, <2>1, WaitingStep DEF Has
<1>5. Cardinality(Owed) \in Nat
  BY OwedUnits
<1>6. WakeupsOwed'
  BY <1>2, <1>3, <1>4, <1>5 DEF WakeupsOwed
<1>7. Value \in Int /\ 1 <= Value /\ Value' = Value - 1
  BY <1>2, <1>4, <1>5 DEF WakeupsOwed, Value
<1>8. Abstract!Acquire
  BY <1>7, BulkAssumption DEF Abstract!Acquire
<1>9. GripStep(c)
  <2>1. Grip(wait[c]) = 0
    BY DEF Grip, WaitingLabels
  <2>2. WaitStep(c, r)
    BY DEF r
  <2> QED
    BY <1>1, <1>7, <2>1, <2>2, GripType DEF GripStep
<1> QED
  BY <1>3, <1>6, <1>8, <1>9 DEF ValueStep

(* The other steps of a thread take no unit: it counts itself as waiting,  *)
(* stops doing so, or only moves on. *)
LEMMA Moves ==
  ASSUME SemaType, WakeupsOwed, UNCHANGED <<enq, toRelease, m_sema>>, NEW c \in Consumers, NEW r \in Waits,
         WaitStep(c, r), WaitSound(r), Grip(r) = Grip(wait[c]),
         m_count' = m_count + Has(wait[c].pc, WaitingLabels) - Has(r.pc, WaitingLabels),
         m_count' # m_count => m_count <= 0 /\ m_count' <= 0
  PROVE  SemaType' /\ WakeupsOwed' /\ ValueStep /\ GripStep(c)
<1>1. m_count \in Int /\ m_sema \in Nat /\ m_count' \in Int /\ m_sema' \in Nat
  BY DEF SemaType, Has
<1>2. SemaType' /\ UNCHANGED Cardinality(Owed)
  BY <1>1, WaitType
<1>3. /\ Cardinality(Waiting) \in Nat /\ Cardinality(Waiting)' \in Nat
      /\ Cardinality(Waiting)' = Cardinality(Waiting)
           + Has(r.pc, WaitingLabels) - Has(wait[c].pc, WaitingLabels)
  BY WaitingStep
<1>4. Cardinality(Waiting)' - Cardinality(Waiting) = m_count - m_count'
  BY <1>1, <1>3 DEF Has
<1>5. Cardinality(Owed) \in Nat
  BY OwedUnits
<1>6. WakeupsOwed'
  BY <1>1, <1>2, <1>3, <1>4, <1>5 DEF WakeupsOwed
<1>7. Value \in Int /\ Value' = Value
  BY <1>1, <1>3, <1>4 DEF Value
<1>8. GripStep(c)
  BY <1>7, GripType DEF GripStep
<1> QED
  BY <1>2, <1>6, <1>7, <1>8 DEF ValueStep

LEMMA LeastFacts ==
  ASSUME NEW a \in Int, NEW b \in 1 .. MaxBulk, a > 0
  PROVE  Least(a, b) \in 1 .. MaxBulk /\ Least(a, b) <= a /\ Least(a, b) <= b
BY BulkAssumption DEF Least

(* Every call begins with units taken, or with none there. *)
LEMMA CallSema ==
  ASSUME SemaType, WakeupsOwed, UNCHANGED enq, NEW c \in Consumers,
         NEW mode \in Modes, NEW max \in {1, MaxBulk}, TryWaitMany(c, mode, max)
  PROVE  SemaType' /\ WakeupsOwed' /\ ValueStep /\ GripStep(c)
<1> DEFINE w == [wait[c] EXCEPT !.mode = mode, !.max = max]
<1>1. wait[c] \in Waits /\ max \in 1 .. MaxBulk /\ m_count \in Int
  BY BulkAssumption DEF SemaType
<1>2. w \in Waits /\ wait[c].pc = "idle"
  BY <1>1 DEF Waits, TryWaitMany
<1>3. UNCHANGED <<enq, toRelease, m_sema>>
  BY DEF TryWaitMany
<1>4. CASE m_count > 0
  <2> DEFINE n == Least(m_count, max)
             r == Acquired(w, n)
  <2>1. n \in 1 .. MaxBulk /\ n <= m_count
    BY <1>1, <1>4, LeastFacts
  <2>2. m_count' = m_count - n /\ WaitStep(c, r)
    BY <1>4 DEF TryWaitMany
  <2>3. r \in Waits /\ r.pc = "acquired" /\ r.got = n
    BY <1>2, <2>1, AcquiredType
  <2> HIDE DEF w, n, r
  <2> QED
    BY <1>2, <1>3, <1>4, <2>1, <2>2, <2>3, Acquires DEF WaitingLabels, WaitSound, Grip
<1>5. CASE ~ (m_count > 0)
  <2> DEFINE r == IF mode = "try" THEN NoWait ELSE [w EXCEPT !.pc = "spin"]
  <2>1. m_count' = m_count /\ WaitStep(c, r)
    BY <1>5 DEF TryWaitMany
  <2>2. r \in Waits /\ r.pc \in {"idle", "spin"}
    <3>1. NoWait \in Waits /\ NoWait.pc = "idle"
      BY BulkAssumption DEF Waits, NoWait, Modes
    <3> HIDE DEF w
    <3>2. [w EXCEPT !.pc = "spin"] \in Waits /\ [w EXCEPT !.pc = "spin"].pc = "spin"
      BY <1>2 DEF Waits
    <3> QED
      BY <3>1, <3>2
  <2> HIDE DEF w, r
  <2>3. Has(wait[c].pc, WaitingLabels) = 0 /\ Has(r.pc, WaitingLabels) = 0
    BY <1>2, <2>2 DEF Has, WaitingLabels
  <2> QED
    BY <1>1, <1>2, <1>3, <2>1, <2>2, <2>3, Moves DEF WaitSound, Grip
<1> QED
  BY <1>4, <1>5

(* Each step of a call that waits. *)
LEMMA StepSema ==
  ASSUME SemaType, WakeupsOwed, UNCHANGED enq, NEW c \in Consumers, SemaphoreStep(c)
  PROVE  SemaType' /\ WakeupsOwed' /\ ValueStep /\ GripStep(c)
<1> DEFINE w == wait[c]
<1>1. w \in Waits /\ m_count \in Int /\ m_sema \in Nat /\ w.max \in 1 .. MaxBulk
  BY DEF SemaType, Waits
<1>2. CASE SpinTake(c)
  <2> DEFINE n == Least(m_count, w.max)
             r == Acquired(w, n)
  <2>1. n \in 1 .. MaxBulk /\ n <= m_count /\ m_count > 0
    BY <1>1, <1>2, LeastFacts DEF SpinTake
  <2>2. m_count' = m_count - n /\ WaitStep(c, r) /\ w.pc = "spin" /\ UNCHANGED <<toRelease, m_sema>>
    BY <1>2 DEF SpinTake
  <2>3. r \in Waits /\ r.pc = "acquired" /\ r.got = n
    BY <1>1, <2>1, AcquiredType
  <2> HIDE DEF n, r
  <2> QED
    BY <2>1, <2>2, <2>3, Acquires DEF WaitingLabels, WaitSound, Grip
<1>3. CASE SpinOver(c)
  <2>1. w.pc = "spin" /\ m_count' = m_count - 1 /\ UNCHANGED <<toRelease, m_sema>>
    BY <1>3 DEF SpinOver
  <2>2. CASE m_count > 0
    <3> DEFINE r == Woken(w)
    <3>1. WaitStep(c, r)
      BY <1>3, <2>2 DEF SpinOver
    <3>2. r \in Waits /\ r.pc \in {"acquired", "more"} /\ WaitSound(r) /\ Grip(r) = 1
      BY <1>1, WokenType
    <3>3. 1 \in 1 .. MaxBulk /\ 1 <= m_count
      BY <1>1, <2>2, BulkAssumption
    <3> HIDE DEF r
    <3>4. Grip(wait[c]) = 0
      BY <2>1 DEF Grip
    <3> QED
      BY <2>1, <2>2, <3>1, <3>2, <3>3, <3>4, Acquires DEF WaitingLabels
  <2>3. CASE ~ (m_count > 0)
    <3> DEFINE r == [w EXCEPT !.pc = "sema"]
    <3>1. WaitStep(c, r)
      BY <1>3, <2>3 DEF SpinOver
    <3>2. r \in Waits /\ r.pc = "sema"
      BY <1>1 DEF Waits
    <3> HIDE DEF r
    <3>3. Has(wait[c].pc, WaitingLabels) = 0 /\ Has(r.pc, WaitingLabels) = 1
      BY <2>1, <3>2 DEF Has, WaitingLabels
    <3>4. /\ m_count' = m_count + Has(wait[c].pc, WaitingLabels) - Has(r.pc, WaitingLabels)
          /\ m_count <= 0 /\ m_count' <= 0
      BY <1>1, <2>1, <2>3, <3>3
    <3> QED
      BY <2>1, <3>1, <3>2, <3>4, Moves DEF WaitSound, Grip
  <2> QED
    BY <2>2, <2>3
<1>4. CASE SemaWait(c)
  BY <1>4, Wakes DEF SemaWait, WaitingLabels
<1>5. CASE SemaTimeout(c)
  <2> DEFINE r == [w EXCEPT !.pc = "adjust"]
  <2>1. w.pc = "sema" /\ WaitStep(c, r) /\ UNCHANGED <<m_count, toRelease, m_sema>>
    BY <1>5 DEF SemaTimeout
  <2>2. r \in Waits /\ r.pc = "adjust"
    BY <1>1 DEF Waits
  <2> HIDE DEF r
  <2>3. Has(wait[c].pc, WaitingLabels) = 1 /\ Has(r.pc, WaitingLabels) = 1
    BY <2>1, <2>2 DEF Has, WaitingLabels
  <2> QED
    BY <1>1, <2>1, <2>2, <2>3, Moves DEF WaitSound, Grip
<1>6. CASE Adjust(c)
  <2>1. w.pc = "adjust" /\ UNCHANGED <<toRelease, m_sema>>
    BY <1>6 DEF Adjust
  <2>2. CASE m_count < 0
    <3>1. m_count' = m_count + 1 /\ WaitStep(c, NoWait)
      BY <1>6, <2>2 DEF Adjust
    <3>2. NoWait \in Waits /\ NoWait.pc = "idle"
      BY BulkAssumption DEF Waits, NoWait, Modes
    <3>3. Has(wait[c].pc, WaitingLabels) = 1 /\ Has(NoWait.pc, WaitingLabels) = 0
      BY <2>1, <3>2 DEF Has, WaitingLabels
    <3>4. /\ m_count' = m_count + Has(wait[c].pc, WaitingLabels) - Has(NoWait.pc, WaitingLabels)
          /\ m_count <= 0 /\ m_count' <= 0
      BY <1>1, <2>2, <3>1, <3>3
    <3> QED
      BY <2>1, <3>1, <3>2, <3>4, Moves DEF WaitSound, Grip
  <2>3. CASE ~ (m_count < 0)
    <3> DEFINE r == [w EXCEPT !.pc = "claim"]
    <3>1. WaitStep(c, r) /\ UNCHANGED m_count
      BY <1>6, <2>3 DEF Adjust
    <3>2. r \in Waits /\ r.pc = "claim"
      BY <1>1 DEF Waits
    <3> HIDE DEF r
    <3>3. Has(wait[c].pc, WaitingLabels) = 1 /\ Has(r.pc, WaitingLabels) = 1
      BY <2>1, <3>2 DEF Has, WaitingLabels
    <3> QED
      BY <1>1, <2>1, <3>1, <3>2, <3>3, Moves DEF WaitSound, Grip
  <2> QED
    BY <2>2, <2>3
<1>7. CASE AdjustClaim(c)
  <2>1. w.pc = "claim" /\ UNCHANGED <<toRelease, m_count>>
    BY <1>7 DEF AdjustClaim
  <2>2. CASE m_sema > 0
    BY <1>7, <2>1, <2>2, Wakes DEF AdjustClaim, WaitingLabels
  <2>3. CASE ~ (m_sema > 0)
    <3> DEFINE r == [w EXCEPT !.pc = "adjust"]
    <3>1. WaitStep(c, r) /\ UNCHANGED m_sema
      BY <1>7, <2>3 DEF AdjustClaim
    <3>2. r \in Waits /\ r.pc = "adjust"
      BY <1>1 DEF Waits
    <3> HIDE DEF r
    <3>3. Has(wait[c].pc, WaitingLabels) = 1 /\ Has(r.pc, WaitingLabels) = 1
      BY <2>1, <3>2 DEF Has, WaitingLabels
    <3> QED
      BY <1>1, <2>1, <3>1, <3>2, <3>3, Moves DEF WaitSound, Grip
  <2> QED
    BY <2>2, <2>3
<1>8. CASE More(c)
  <2> DEFINE n == IF m_count > 0 THEN Least(m_count, w.max - 1) ELSE 0
             r == Acquired(w, 1 + n)
  <2>1. /\ w.pc = "more" /\ m_count' = m_count - n /\ WaitStep(c, r)
        /\ UNCHANGED <<toRelease, m_sema>>
    BY <1>8 DEF More
  <2>2. w.max > 1
    BY <2>1 DEF SemaType, WaitSound
  <2>3. /\ n \in Int /\ 0 <= n /\ n <= w.max - 1
        /\ (m_count > 0 => 1 <= n /\ n <= m_count) /\ (~ (m_count > 0) => n = 0)
    BY <1>1, <2>2, BulkAssumption DEF Least
  <2>4. 1 + n \in 1 .. MaxBulk
    BY <1>1, <2>3, BulkAssumption
  <2>5. r \in Waits /\ r.pc = "acquired" /\ r.got = 1 + n
    BY <1>1, <2>4, AcquiredType
  <2> HIDE DEF n, r
  <2>6. WaitSound(r) /\ Grip(r) = Grip(wait[c]) + n
    BY <2>1, <2>3, <2>5 DEF WaitSound, Grip
  <2>7. CASE m_count > 0
    <3>1. n \in 1 .. MaxBulk /\ n <= m_count
      BY <2>3, <2>4, <2>7, BulkAssumption
    <3> QED
      BY <2>1, <2>5, <2>7, <2>6, <3>1, Acquires DEF WaitingLabels
  <2>8. CASE ~ (m_count > 0)
    <3>1. Has(wait[c].pc, WaitingLabels) = 0 /\ Has(r.pc, WaitingLabels) = 0
      BY <2>1, <2>5 DEF Has, WaitingLabels
    <3>2. m_count' = m_count /\ Grip(r) = Grip(wait[c])
      BY <1>1, <2>1, <2>3, <2>5, <2>8, <2>6 DEF Grip
    <3> QED
      BY <1>1, <2>1, <2>5, <2>6, <3>1, <3>2, Moves
  <2> QED
    BY <2>7, <2>8
<1> QED
  BY <1>2, <1>3, <1>4, <1>5, <1>6, <1>7, <1>8 DEF SemaphoreStep

(* A signal adds units and owes a wake-up to as many threads as it finds   *)
(* waiting for them; a post pays one. *)
LEMMA SignalSema ==
  ASSUME SemaType, WakeupsOwed, NEW t \in Enqueuers, toRelease[t] = 0, NEW n \in 1 .. MaxBulk, Signal(t, n)
  PROVE  /\ WakeupsOwed' /\ ValueStep /\ Value \in Int /\ Value' = Value + n
         /\ m_count' \in Int /\ m_sema' \in Nat /\ wait' = wait
         /\ toRelease' \in [Enqueuers -> 0 .. MaxBulk]
         /\ \A u \in Enqueuers : u # t => toRelease'[u] = toRelease[u]
<1> DEFINE k == IF m_count < 0 THEN Least(-m_count, n) ELSE 0
<1>1. /\ m_count' = m_count + n /\ toRelease' = [toRelease EXCEPT ![t] = k]
      /\ m_sema' = m_sema /\ wait' = wait
  BY DEF Signal
<1>2. m_count \in Int /\ m_sema \in Nat /\ n \in Int /\ toRelease \in [Enqueuers -> 0 .. MaxBulk]
  BY BulkAssumption DEF SemaType
<1>3. /\ k \in 0 .. MaxBulk
      /\ m_count < 0 => k = IF -m_count < n THEN -m_count ELSE n
      /\ ~ (m_count < 0) => k = 0
  BY <1>2, BulkAssumption DEF Least
<1> HIDE DEF k
<1>4. Cardinality(Owed) \in Nat /\ Cardinality(Owed)' = Cardinality(Owed) + k
  <2>1. k \in Int
    BY <1>3, BulkAssumption
  <2>2. /\ Cardinality(Owed) \in Nat
        /\ Cardinality(Owed)' = Cardinality(Owed) + k - toRelease[t]
    BY <1>1, <1>3, OwedStep
  <2> QED
    BY <2>1, <2>2
<1>5. Cardinality(Waiting)' = Cardinality(Waiting)
  BY <1>1 DEF Waiting
<1>6. Cardinality(Waiting) \in Nat
  BY QueueThreadsAssumption, FS_Subset, FS_CardinalityType DEF Waiting
<1>7. WakeupsOwed'
  BY <1>1, <1>2, <1>3, <1>4, <1>5, <1>6, BulkAssumption DEF WakeupsOwed
<1>8. Value \in Int /\ Value' = Value + n
  BY <1>1, <1>2, <1>5, <1>6 DEF Value
<1>9. Abstract!Release
  BY <1>8 DEF Abstract!Release
<1>10. /\ toRelease' \in [Enqueuers -> 0 .. MaxBulk]
       /\ \A u \in Enqueuers : u # t => toRelease'[u] = toRelease[u]
  BY <1>1, <1>2, <1>3
<1> QED
  BY <1>1, <1>2, <1>7, <1>8, <1>9, <1>10 DEF ValueStep

LEMMA PostSema ==
  ASSUME SemaType, WakeupsOwed, NEW t \in Enqueuers, Post(t)
  PROVE  /\ WakeupsOwed' /\ ValueStep /\ Value' = Value
         /\ m_count' \in Int /\ m_sema' \in Nat /\ wait' = wait
         /\ toRelease' \in [Enqueuers -> 0 .. MaxBulk]
         /\ \A u \in Enqueuers : u # t => toRelease'[u] = toRelease[u]
<1> DEFINE k == toRelease[t] - 1
<1>1. /\ toRelease[t] > 0 /\ m_sema' = m_sema + 1 /\ toRelease' = [toRelease EXCEPT ![t] = k]
      /\ m_count' = m_count /\ wait' = wait
  BY DEF Post
<1>2. m_count \in Int /\ m_sema \in Nat /\ toRelease \in [Enqueuers -> 0 .. MaxBulk]
  BY DEF SemaType
<1>3. k \in 0 .. MaxBulk /\ toRelease[t] = k + 1
  BY <1>1, <1>2, BulkAssumption
<1> HIDE DEF k
<1>4. Cardinality(Owed) \in Nat /\ Cardinality(Owed)' = Cardinality(Owed) - 1
  <2>1. k \in Int
    BY <1>3, BulkAssumption
  <2>2. /\ Cardinality(Owed) \in Nat
        /\ Cardinality(Owed)' = Cardinality(Owed) + k - toRelease[t]
    BY <1>1, <1>3, OwedStep
  <2> QED
    BY <1>3, <2>1, <2>2
<1>5. Cardinality(Waiting)' = Cardinality(Waiting)
  BY <1>1 DEF Waiting
<1>6. WakeupsOwed'
  BY <1>1, <1>2, <1>4, <1>5 DEF WakeupsOwed
<1>7. UNCHANGED Value
  BY <1>1, <1>5 DEF Value
<1>8. /\ toRelease' \in [Enqueuers -> 0 .. MaxBulk]
      /\ \A u \in Enqueuers : u # t => toRelease'[u] = toRelease[u]
  BY <1>1, <1>2, <1>3
<1> QED
  BY <1>1, <1>2, <1>6, <1>7, <1>8 DEF ValueStep

---------------------------------------------------------------------------
(* The enqueuers *)

(* Doubling a capacity often enough passes any count: the loop of the      *)
(* resize ends, with a table that is larger than the one it replaces and   *)
(* less than half full. *)
LEMMA DoubledFacts ==
  ASSUME NEW n \in Nat \ {0}, NEW count \in Nat
  PROVE  Doubled(n, count) \in Nat /\ Doubled(n, count) >= 2 * n /\ count < Doubled(n, count) \div 2
<1> DEFINE g == [x \in Nat |-> 2 * x]
           Is(f) == f = [k \in Nat |-> IF k = 0 THEN 2 * n ELSE 2 * f[k - 1]]
           cap == CHOOSE f : Is(f)
<1>1. PICK f \in [Nat -> Nat] : f[0] = 2 * n /\ \A k \in Nat : f[k + 1] = g[f[k]]
  <2> DEFINE two == 2 * n
             N == Nat
  <2>1. g \in [N -> N] /\ two \in N
    OBVIOUS
  <2> HIDE DEF g, two, N
  <2>2. \E f \in [Nat -> N] : f[0] = two /\ \A k \in Nat : f[k + 1] = g[f[k]]
    <3>1. MapOn(g, N)
      BY <2>1 DEF MapOn
    <3>2. PICK f : Iterates(f, N, two, g)
      BY <2>1, <3>1, Iteration
    <3> QED
      BY <3>2 DEF Iterates
  <2> QED
    BY <2>2 DEF two, N
<1>2. Is(f)
  <2>1. ASSUME NEW k \in Nat PROVE f[k] = IF k = 0 THEN 2 * n ELSE 2 * f[k - 1]
    <3>1. CASE k # 0
      <4>1. k - 1 \in Nat /\ (k - 1) + 1 = k
        BY <3>1
      <4> QED
        BY <1>1, <3>1, <4>1
    <3> QED
      BY <1>1, <3>1
  <2> QED
    BY <1>1, <2>1
<1>3. Is(cap)
  <2> HIDE DEF Is
  <2> QED
    BY <1>2
<1>4. cap = [k \in Nat |-> IF k = 0 THEN 2 * n ELSE 2 * cap[k - 1]]
  BY <1>3
<1>5. Doubled(n, count) = cap[CHOOSE k \in 0 .. count : count < cap[k] \div 2 /\ \A j \in 0 .. k - 1 : count >= cap[j] \div 2]
  BY DEF Doubled
<1> HIDE DEF cap
<1>6. \A k \in Nat : cap[k] \in Nat /\ cap[k] >= 2 * n /\ k < cap[k] \div 2
  <2> DEFINE S == {k \in Nat : cap[k] \in Nat /\ cap[k] >= 2 * n /\ k < cap[k] \div 2}
  <2>1. 0 \in S
    BY <1>4
  <2>2. ASSUME NEW k \in Nat, k \in S PROVE k + 1 \in S
    <3>1. cap[k] \in Nat /\ cap[k] >= 2 * n /\ k < cap[k] \div 2
      BY <2>2
    <3>2. cap[k + 1] = 2 * cap[k]
      BY <1>4
    <3> QED
      BY <3>1, <3>2
  <2> HIDE DEF S
  <2>3. Nat \subseteq S
    BY <2>1, <2>2, SetInduction
  <2> QED
    BY <2>3 DEF S
<1> DEFINE Large == {k \in 0 .. count : count < cap[k] \div 2}
<1>7. PICK k \in Large : \A j \in Large : k <= j
  <2>1. count \in Large /\ Large \subseteq Nat
    BY <1>6
  <2> HIDE DEF Large
  <2> QED
    BY <2>1, LeastNat
<1>8. ASSUME NEW j \in 0 .. k - 1 PROVE count >= cap[j] \div 2
  <2>1. j \in 0 .. count /\ j \notin Large /\ cap[j] \in Nat
    BY <1>6, <1>7
  <2> QED
    BY <2>1
<1> DEFINE Fit(i) == count < cap[i] \div 2 /\ \A j \in 0 .. i - 1 : count >= cap[j] \div 2
<1>9. k \in 0 .. count /\ Fit(k)
  BY <1>7, <1>8
<1> DEFINE i == CHOOSE i \in 0 .. count : Fit(i)
<1>10. i \in 0 .. count /\ Fit(i)
  <2> HIDE DEF Fit
  <2> QED
    BY <1>9
<1>11. Doubled(n, count) = cap[i]
  BY <1>5
<1> HIDE DEF i
<1>12. i \in Nat /\ count < cap[i] \div 2
  BY <1>10
<1> QED
  BY <1>6, <1>11, <1>12

(* A step of t keeps the types of the enqueuers, since nothing shrinks. *)
LEMMA EnqKeeps ==
  ASSUME EnqType, UNCHANGED withToken,
         Len(producers) \in Nat, Len(producers)' \in Nat, Len(producers) <= Len(producers)',
         Len(list) \in Nat, Len(list)' \in Nat, Len(list) <= Len(list)',
         Len(hashes) \in Nat, Len(hashes)' \in Nat, Len(hashes) <= Len(hashes)',
         NEW t \in Enqueuers, NEW r, r \in Enqs', EnqSound(t, r), EnqStep(t, r)
  PROVE  EnqType'
<1>1. ASSUME NEW e \in Enqs PROVE e \in Enqs'
  <2>1. /\ 0 .. Len(producers) \subseteq 0 .. Len(producers)'
        /\ 0 .. Len(list) \subseteq 0 .. Len(list)'
        /\ 0 .. Len(hashes) \subseteq 0 .. Len(hashes)'
    OBVIOUS
  <2> QED
    BY <1>1, <2>1 DEF Enqs
<1>2. enq' \in [Enqueuers -> Enqs']
  BY <1>1 DEF EnqType, EnqStep
<1>3. ASSUME NEW u \in Enqueuers PROVE EnqSound(u, enq'[u])
  BY DEF EnqType, EnqStep
<1>4. ASSUME NEW u \in Enqueuers PROVE EnqSound(u, enq[u])'
  <2>1. EnqSound(u, enq'[u])
    BY <1>3
  <2> QED
    BY <2>1 DEF EnqSound
<1> QED
  BY <1>2, <1>4 DEF EnqType

LEMMA Lengths ==
  ASSUME SharedType
  PROVE  Len(producers) \in Nat /\ Len(list) \in Nat /\ Len(hashes) \in Nat /\ Len(hashes) > 0
<1>1. Len(producers) \in Nat /\ Len(list) \in Nat /\ Len(hashes) \in Nat
  BY LenProperties DEF SharedType
<1>2. Len(hashes) # 0
  BY EmptySeq, LenProperties DEF SharedType
<1> QED
  BY <1>1, <1>2

(* A step that leaves alone what is shared, but for the count and the flag *)
(* of the tables. *)
SameShared == UNCHANGED <<producers, list, producerCount, hashes, withToken>>

LEMMA EnqStays ==
  ASSUME EnqueueType, SameShared, NEW t \in Enqueuers, NEW r \in Enqs, EnqSound(t, r), EnqStep(t, r),
         implicitProducerHashCount' \in Int, implicitProducerHashResizeInProgress' \in BOOLEAN
  PROVE  EnqueueType'
<1>1. SharedType'
  BY DEF EnqueueType, SharedType, Records, Hashes, SameShared
<1>2. r \in Enqs'
  BY DEF Enqs, SameShared
<1>3. EnqType'
  BY <1>2, Lengths, EnqKeeps DEF EnqueueType, SameShared
<1> QED
  BY <1>1, <1>3 DEF EnqueueType

(* A call that returns keeps its token only. *)
LEMMA ReturnRecord ==
  ASSUME SharedType, NEW t \in Enqueuers, NEW k \in 0 .. Len(producers)
  PROVE  /\ [NoEnq EXCEPT !.token = k] \in Enqs /\ EnqSound(t, [NoEnq EXCEPT !.token = k])
         /\ NoEnq \in Enqs /\ EnqSound(t, NoEnq)
<1>1. 0 \in 0 .. Len(producers) /\ 0 \in 0 .. Len(hashes) /\ 0 \in 0 .. Len(list) /\ 0 \in 0 .. MaxBulk
  BY Lengths, BulkAssumption
<1>2. [NoEnq EXCEPT !.token = k] \in Enqs /\ NoEnq \in Enqs
  BY <1>1 DEF Enqs, NoEnq, None
<1>3. EnqSound(t, [NoEnq EXCEPT !.token = k]) /\ EnqSound(t, NoEnq)
  BY DEF NoEnq, EnqSound, Looking
<1> QED
  BY <1>2, <1>3

LEMMA EnqueueTypes ==
  ASSUME EnqueueType, NEW t \in Enqueuers, NEW n \in {1, MaxBulk}, Enqueue(t, n)
  PROVE  EnqueueType'
<1> DEFINE e == enq[t]
           r == IF withToken[t] THEN [e EXCEPT !.pc = "put", !.count = n, !.producer = e.token]
                ELSE [e EXCEPT !.pc = "lookup", !.count = n]
<1>1. /\ e.pc = "idle" /\ EnqStep(t, r) /\ (withToken[t] => e.token # None) /\ SameShared
      /\ UNCHANGED <<implicitProducerHashCount, implicitProducerHashResizeInProgress>>
  BY DEF Enqueue, SameShared, listVars, hashVars, EnqueueVars
<1>2. e \in Enqs /\ n \in 0 .. MaxBulk /\ n > 0
  BY BulkAssumption DEF EnqueueType, EnqType
<1> HIDE DEF e
<1>3. r \in Enqs
  BY <1>2 DEF Enqs
<1>4. EnqSound(t, r)
  BY <1>1, <1>2 DEF Enqs, EnqSound, Looking
<1> HIDE DEF r
<1> QED
  BY <1>1, <1>3, <1>4, EnqStays DEF EnqueueType, SharedType

(* Of the tables that hold a thread there is a newest one. *)
LEMMA NewestTable ==
  ASSUME NEW h \in Nat, NEW S, S \subseteq 1 .. h, S # {}
  PROVE  LET k == CHOOSE k \in S : \A j \in S : j <= k IN k \in S /\ \A j \in S : j <= k
<1> DEFINE back == {h - j : j \in S}
<1>1. back \subseteq Nat /\ back # {}
  <2>1. \A j \in S : h - j \in Nat
    OBVIOUS
  <2>2. PICK j \in S : TRUE
    OBVIOUS
  <2>3. h - j \in back
    OBVIOUS
  <2> QED
    BY <2>1, <2>3
<1>2. PICK n \in back : \A m \in back : n <= m
  BY <1>1, LeastNat
<1>3. PICK k \in S : n = h - k
  BY <1>2
<1>4. ASSUME NEW j \in S PROVE j <= k
  <2>1. h - j \in back /\ j \in 1 .. h /\ k \in 1 .. h
    OBVIOUS
  <2>2. h - k <= h - j
    BY <1>2, <1>3, <2>1
  <2> QED
    BY <2>1, <2>2
<1> QED
  BY <1>4

LEMMA LookUpTypes ==
  ASSUME EnqueueType, NEW t \in Enqueuers, LookUp(t)
  PROVE  EnqueueType'
<1> DEFINE e == enq[t]
           h == Len(hashes)
           found == {k \in 1 .. h : t \in hashes[k].keys}
           k == CHOOSE k \in found : \A j \in found : j <= k
           p == hashes[k].value[t]
           r == IF found = {} THEN [e EXCEPT !.pc = "count", !.hash = h]
                ELSE [e EXCEPT !.pc = IF k = h THEN "put" ELSE "insert",
                               !.hash = IF k = h THEN 0 ELSE h, !.producer = p]
<1>1. /\ e.pc = "lookup" /\ EnqStep(t, r) /\ SameShared
      /\ UNCHANGED <<implicitProducerHashCount, implicitProducerHashResizeInProgress>>
  BY DEF LookUp, SameShared, listVars, hashVars, EnqueueVars
<1>2. e \in Enqs /\ EnqSound(t, e) /\ h \in Nat /\ h > 0
  BY Lengths DEF EnqueueType, EnqType
<1>3. found # {} => p \in 0 .. Len(producers) /\ p # None
  <2> SUFFICES ASSUME found # {} PROVE p \in 0 .. Len(producers) /\ p # None
    OBVIOUS
  <2> HIDE DEF h
  <2>1. k \in found
    BY <1>2, NewestTable
  <2>2. k \in 1 .. h /\ t \in hashes[k].keys
    BY <2>1
  <2> HIDE DEF k, found
  <2>3. hashes[k] \in Hashes
    BY <2>2 DEF h, EnqueueType, SharedType
  <2> QED
    BY <2>2, <2>3 DEF h, EnqueueType, SharedType, Hashes
<1>4. ~ withToken[t] /\ e.count > 0
  BY <1>1, <1>2 DEF EnqSound
<1>5. h \in 0 .. Len(hashes) /\ 0 \in 0 .. Len(hashes)
  BY <1>2
<1> HIDE DEF e, k, found, p, h
<1>6. r \in Enqs
  BY <1>2, <1>3, <1>5 DEF Enqs
<1>7. EnqSound(t, r)
  BY <1>2, <1>3, <1>4 DEF Enqs, EnqSound, Looking
<1> HIDE DEF r
<1> QED
  BY <1>1, <1>6, <1>7, EnqStays DEF EnqueueType, SharedType

LEMMA HashCountTypes ==
  ASSUME EnqueueType, NEW t \in Enqueuers, HashCount(t)
  PROVE  EnqueueType'
<1> DEFINE e == enq[t]
           n == implicitProducerHashCount + 1
           r == [e EXCEPT !.pc = "resize", !.newCount = n]
<1>1. /\ e.pc = "count" /\ EnqStep(t, r) /\ SameShared
      /\ implicitProducerHashCount' = n /\ UNCHANGED implicitProducerHashResizeInProgress
  BY DEF HashCount, SameShared, listVars, EnqueueVars
<1>2. e \in Enqs /\ EnqSound(t, e) /\ n \in Int
  BY DEF EnqueueType, EnqType, SharedType
<1> HIDE DEF e, n
<1>3. r \in Enqs
  BY <1>2 DEF Enqs
<1>4. EnqSound(t, r)
  BY <1>1, <1>2 DEF Enqs, EnqSound, Looking
<1> HIDE DEF r
<1> QED
  BY <1>1, <1>2, <1>3, <1>4, EnqStays DEF EnqueueType, SharedType

(* From label l to another of the same knowledge. *)
LEMMA GotoRecord ==
  ASSUME EnqueueType, NEW t \in Enqueuers,
         \/ enq[t].pc = "resize" /\ \E l \in {"grow", "room"} : EnqGoto(t, l)
         \/ enq[t].pc = "unlock" /\ EnqGoto(t, "room")
         \/ enq[t].pc = "room" /\ EnqGoto(t, "create")
         \/ enq[t].pc = "scan" /\ EnqGoto(t, "create")
         \/ enq[t].pc = "put" /\ EnqGoto(t, "signal")
         \/ enq[t].pc = "link" /\ ~withToken[t] /\ EnqGoto(t, "insert")
  PROVE  \E r \in Enqs : EnqStep(t, r) /\ EnqSound(t, r)
<1> DEFINE e == enq[t]
           r(l) == [e EXCEPT !.pc = l]
<1>1. PICK l \in {"grow", "room", "create", "signal", "insert"} :
        /\ EnqStep(t, r(l))
        /\ \/ e.pc = "resize" /\ l \in {"grow", "room"}
           \/ e.pc = "unlock" /\ l = "room"
           \/ e.pc = "room" /\ l = "create"
           \/ e.pc = "scan" /\ l = "create"
           \/ e.pc = "put" /\ l = "signal"
           \/ e.pc = "link" /\ ~withToken[t] /\ l = "insert"
  BY DEF EnqGoto
<1>2. e \in Enqs /\ EnqSound(t, e)
  BY DEF EnqueueType, EnqType
<1> HIDE DEF e
<1>3. r(l) \in Enqs
  BY <1>2 DEF Enqs
<1>4. EnqSound(t, r(l))
  BY <1>1, <1>2 DEF Enqs, EnqSound, Looking
<1> HIDE DEF r
<1> QED
  BY <1>1, <1>3, <1>4

LEMMA HashTryTypes ==
  ASSUME EnqueueType, NEW t \in Enqueuers, HashTry(t) \/ HashUnlock(t)
  PROVE  EnqueueType'
<1>1. /\ SameShared /\ UNCHANGED implicitProducerHashCount
      /\ \/ enq[t].pc = "resize" /\ \E l \in {"grow", "room"} : EnqGoto(t, l)
         \/ enq[t].pc = "unlock" /\ EnqGoto(t, "room")
      /\ implicitProducerHashResizeInProgress' \in BOOLEAN
  BY DEF HashTry, HashUnlock, SameShared, listVars, EnqueueVars, EnqueueType, SharedType
<1>2. PICK r \in Enqs : EnqStep(t, r) /\ EnqSound(t, r)
  BY <1>1, GotoRecord
<1> QED
  BY <1>1, <1>2, EnqStays DEF EnqueueType, SharedType

LEMMA HashRoomTypes ==
  ASSUME EnqueueType, NEW t \in Enqueuers, HashRoom(t)
  PROVE  EnqueueType'
<1> DEFINE e == enq[t]
           r == [e EXCEPT !.pc = "resize", !.hash = Len(hashes)]
<1>1. /\ e.pc = "room" /\ SameShared
      /\ EnqGoto(t, "create") \/ EnqStep(t, r)
      /\ UNCHANGED <<implicitProducerHashCount, implicitProducerHashResizeInProgress>>
  BY DEF HashRoom, SameShared, listVars, hashVars, EnqueueVars
<1>2. CASE EnqGoto(t, "create")
  <2>1. PICK q \in Enqs : EnqStep(t, q) /\ EnqSound(t, q)
    BY <1>1, <1>2, GotoRecord
  <2> QED
    BY <1>1, <2>1, EnqStays DEF EnqueueType, SharedType
<1>3. CASE EnqStep(t, r)
  <2>1. e \in Enqs /\ EnqSound(t, e) /\ Len(hashes) \in 0 .. Len(hashes) /\ Len(hashes) # 0
    BY Lengths DEF EnqueueType, EnqType
  <2> HIDE DEF e
  <2>2. r \in Enqs
    BY <2>1 DEF Enqs
  <2>3. EnqSound(t, r)
    BY <1>1, <2>1 DEF Enqs, EnqSound, Looking
  <2> HIDE DEF r
  <2> QED
    BY <1>1, <1>3, <2>2, <2>3, EnqStays DEF EnqueueType, SharedType
<1> QED
  BY <1>1, <1>2, <1>3

LEMMA MakeTokenTypes ==
  ASSUME EnqueueType, NEW t \in Enqueuers, MakeToken(t)
  PROVE  EnqueueType'
<1> DEFINE e == enq[t]
           r == [e EXCEPT !.pc = "scan", !.pos = Len(list)]
<1>1. /\ e.pc = "idle" /\ withToken[t] /\ SameShared /\ EnqStep(t, r)
      /\ UNCHANGED <<implicitProducerHashCount, implicitProducerHashResizeInProgress>>
  BY DEF MakeToken, SameShared, listVars, hashVars, EnqueueVars
<1>2. e \in Enqs /\ Len(list) \in 0 .. Len(list)
  BY Lengths DEF EnqueueType, EnqType
<1> HIDE DEF e
<1>3. r \in Enqs
  BY <1>2 DEF Enqs
<1>4. EnqSound(t, r)
  BY <1>1, <1>2 DEF Enqs, EnqSound, Looking
<1> HIDE DEF r
<1> QED
  BY <1>1, <1>3, <1>4, EnqStays DEF EnqueueType, SharedType

(* Producers are changed one at a time, or one is added. *)
LEMMA ProducerChanged ==
  ASSUME SharedType, NEW p \in 1 .. Len(producers), NEW q \in Records, q.out <= q.in,
         producers' = [producers EXCEPT ![p] = q],
         UNCHANGED <<list, producerCount, hashVars, withToken>>
  PROVE  SharedType' /\ Len(producers)' = Len(producers)
<1>1. producers \in Seq(Records) /\ list \in Seq(1 .. Len(producers)) /\ hashes \in Seq(Hashes)
  BY DEF SharedType
<1>2. producers' \in Seq(Records) /\ Len(producers') = Len(producers)
  BY <1>1, ExceptSeq
<1>3. ASSUME NEW i \in 1 .. Len(producers) PROVE producers'[i].out <= producers'[i].in
  BY <1>1, ExceptSeq DEF SharedType
<1>4. Hashes' = Hashes /\ Records' = Records
  BY <1>2 DEF Hashes, Records
<1> QED
  BY <1>1, <1>2, <1>3, <1>4 DEF SharedType, hashVars

LEMMA ProducerAdded ==
  ASSUME SharedType, NEW q \in Records, q.out <= q.in, producers' = Append(producers, q),
         producerCount' = producerCount + 1, implicitProducerHashCount' \in Int,
         UNCHANGED <<list, hashes, implicitProducerHashResizeInProgress, withToken>>
  PROVE  SharedType' /\ Len(producers)' = Len(producers) + 1
<1>1. producers \in Seq(Records) /\ list \in Seq(1 .. Len(producers)) /\ hashes \in Seq(Hashes)
  BY DEF SharedType
<1>2. /\ producers' \in Seq(Records) /\ Len(producers') = Len(producers) + 1
      /\ \A i \in 1 .. Len(producers) : producers'[i] = producers[i]
      /\ producers'[Len(producers) + 1] = q
  BY <1>1, AppendProperties
<1>3. ASSUME NEW i \in 1 .. Len(producers) + 1 PROVE producers'[i].out <= producers'[i].in
  <2>1. CASE i = Len(producers) + 1
    BY <1>2, <2>1
  <2>2. CASE i # Len(producers) + 1
    <3>1. i \in 1 .. Len(producers)
      BY <2>2, Lengths
    <3> QED
      BY <1>2, <3>1 DEF SharedType
  <2> QED
    BY <2>1, <2>2
<1>4. 1 .. Len(producers) \subseteq 1 .. Len(producers)' /\ 0 .. Len(producers) \subseteq 0 .. Len(producers)'
  BY <1>2, Lengths
<1>5. Hashes \subseteq Hashes' /\ Records' = Records
  BY <1>4 DEF Hashes, Records
<1>6. list' \in Seq(1 .. Len(producers)') /\ hashes' \in Seq(Hashes')
  <2>1. list' \in Seq(1 .. Len(producers)')
    BY <1>1, <1>4
  <2>2. hashes' \in Seq(Hashes')
    BY <1>1, <1>5
  <2> QED
    BY <2>1, <2>2
<1> QED
  BY <1>2, <1>3, <1>5, <1>6, Lengths DEF SharedType

(* The steps of t that change a producer or add one. *)
LEMMA ScanTypes ==
  ASSUME EnqueueType, NEW t \in Enqueuers, Scan(t)
  PROVE  EnqueueType'
<1> DEFINE e == enq[t]
           p == list[e.pos]
           q == [producers[p] EXCEPT !.inactive = FALSE]
           k == [NoEnq EXCEPT !.token = p]
           r == [e EXCEPT !.pos = @ - 1]
<1>1. e.pc = "scan" /\ UNCHANGED <<list, producerCount, hashVars, withToken>>
  BY DEF Scan, listVars, EnqueueVars
<1>2. \/ EnqGoto(t, "create") /\ UNCHANGED producers
      \/ e.pos # 0 /\ EnqStep(t, r) /\ UNCHANGED producers
      \/ e.pos # 0 /\ EnqStep(t, k) /\ producers' = [producers EXCEPT ![p] = q]
  BY DEF Scan
<1>3. e \in Enqs /\ EnqSound(t, e) /\ SharedType
  BY DEF EnqueueType, EnqType
<1>4. CASE EnqGoto(t, "create") /\ UNCHANGED producers
  <2>1. PICK s \in Enqs : EnqStep(t, s) /\ EnqSound(t, s)
    BY <1>1, <1>4, GotoRecord
  <2> QED
    BY <1>1, <1>4, <2>1, EnqStays DEF EnqueueType, SharedType, SameShared, hashVars
<1>5. CASE e.pos # 0 /\ EnqStep(t, r) /\ UNCHANGED producers
  <2> HIDE DEF e
  <2>1. e.pos \in 0 .. Len(list) /\ e.pos - 1 \in 0 .. Len(list)
    BY <1>3, <1>5, Lengths DEF Enqs
  <2>2. r \in Enqs
    BY <1>3, <2>1 DEF Enqs
  <2>3. EnqSound(t, r)
    BY <1>1, <1>3 DEF Enqs, EnqSound, Looking
  <2> HIDE DEF r
  <2> QED
    BY <1>1, <1>5, <2>2, <2>3, EnqStays DEF EnqueueType, SharedType, SameShared, hashVars
<1>6. CASE e.pos # 0 /\ EnqStep(t, k) /\ producers' = [producers EXCEPT ![p] = q]
  <2>1. e.pos \in 1 .. Len(list)
    BY <1>3, <1>6, Lengths DEF Enqs
  <2>2. p \in 1 .. Len(producers)
    BY <1>3, <2>1, LenProperties DEF SharedType
  <2> HIDE DEF e, p
  <2>3. producers[p] \in Records /\ producers[p].out <= producers[p].in
    BY <1>3, <2>2 DEF SharedType
  <2>4. q \in Records /\ q.out <= q.in
    BY <2>3 DEF Records
  <2> HIDE DEF q
  <2>5. SharedType' /\ Len(producers)' = Len(producers)
    BY <1>1, <1>3, <1>6, <2>2, <2>4, ProducerChanged
  <2>6. p \in 0 .. Len(producers)
    BY <2>2
  <2>7. k \in Enqs /\ EnqSound(t, k)
    BY <1>3, <2>6, ReturnRecord
  <2>8. k \in Enqs'
    BY <1>1, <2>5, <2>7 DEF Enqs, hashVars
  <2> HIDE DEF k
  <2>9. EnqType'
    BY <1>1, <1>3, <1>6, <2>5, <2>7, <2>8, EnqKeeps, Lengths DEF EnqueueType, hashVars
  <2> QED
    BY <2>5, <2>9 DEF EnqueueType
<1> QED
  BY <1>2, <1>4, <1>5, <1>6

LEMMA DropTokenTypes ==
  ASSUME EnqueueType, NEW t \in Enqueuers, DropToken(t)
  PROVE  EnqueueType'
<1> DEFINE p == enq[t].token
           q == [producers[p] EXCEPT !.inactive = TRUE]
<1>1. /\ p # None /\ producers' = [producers EXCEPT ![p] = q] /\ EnqStep(t, NoEnq)
      /\ UNCHANGED <<list, producerCount, hashVars, withToken>>
  BY DEF DropToken, listVars, EnqueueVars
<1>2. SharedType /\ enq[t] \in Enqs
  BY DEF EnqueueType, EnqType
<1>3. p \in 1 .. Len(producers) /\ 0 \in 0 .. Len(producers)
  BY <1>1, <1>2, Lengths DEF Enqs, None
<1> HIDE DEF p
<1>4. producers[p] \in Records /\ producers[p].out <= producers[p].in
  BY <1>2, <1>3 DEF SharedType
<1>5. q \in Records /\ q.out <= q.in
  BY <1>4 DEF Records
<1> HIDE DEF q
<1>6. SharedType' /\ Len(producers)' = Len(producers)
  BY <1>1, <1>2, <1>3, <1>5, ProducerChanged
<1>7. NoEnq \in Enqs /\ EnqSound(t, NoEnq)
  BY <1>2, <1>3, ReturnRecord
<1>8. NoEnq \in Enqs'
  BY <1>1, <1>6, <1>7 DEF Enqs, hashVars
<1>9. EnqType'
  BY <1>1, <1>2, <1>6, <1>7, <1>8, EnqKeeps, Lengths DEF EnqueueType, hashVars
<1> QED
  BY <1>6, <1>9 DEF EnqueueType

(* A call that returns, or fails. *)
LEMMA ReturnTypes ==
  ASSUME EnqueueType, NEW t \in Enqueuers, EnqReturn(t), SameShared,
         implicitProducerHashCount' \in Int, implicitProducerHashResizeInProgress' \in BOOLEAN
  PROVE  EnqueueType'
<1> DEFINE k == enq[t].token
           r == [NoEnq EXCEPT !.token = k]
<1>1. k \in 0 .. Len(producers) /\ EnqStep(t, r) /\ SharedType
  BY DEF EnqueueType, EnqType, Enqs, EnqReturn
<1> HIDE DEF k
<1>2. r \in Enqs /\ EnqSound(t, r)
  BY <1>1, ReturnRecord
<1> HIDE DEF r
<1> QED
  BY <1>1, <1>2, EnqStays

LEMMA PutTypes ==
  ASSUME EnqueueType, NEW t \in Enqueuers, Put(t)
  PROVE  EnqueueType'
<1> DEFINE p == enq[t].producer
           n == enq[t].count
           q == [producers[p] EXCEPT !.in = @ + n]
<1>1. /\ enq[t].pc = "put" /\ UNCHANGED <<list, producerCount, hashVars, withToken>>
      /\ \/ producers' = [producers EXCEPT ![p] = q] /\ EnqGoto(t, "signal")
         \/ EnqReturn(t) /\ UNCHANGED producers
  BY DEF Put, listVars, EnqueueVars
<1>2. SharedType /\ enq[t] \in Enqs /\ EnqSound(t, enq[t])
  BY DEF EnqueueType, EnqType
<1>3. CASE producers' = [producers EXCEPT ![p] = q] /\ EnqGoto(t, "signal")
  <2>1. p \in 1 .. Len(producers) /\ n \in Nat
    BY <1>1, <1>2, Lengths, BulkAssumption DEF Enqs, EnqSound, None
  <2> HIDE DEF p, n
  <2>2. producers[p] \in Records /\ producers[p].out <= producers[p].in
    BY <1>2, <2>1 DEF SharedType
  <2>3. q \in Records /\ q.out <= q.in
    <3>1. ASSUME NEW x \in Records, x.out <= x.in, NEW m \in Nat
          PROVE  /\ [x EXCEPT !.in = @ + m] \in Records
                 /\ [x EXCEPT !.in = @ + m].out <= [x EXCEPT !.in = @ + m].in
      BY <3>1 DEF Records
    <3> QED
      BY <2>1, <2>2, <3>1
  <2> HIDE DEF q
  <2>4. SharedType' /\ Len(producers)' = Len(producers)
    BY <1>1, <1>2, <1>3, <2>1, <2>3, ProducerChanged
  <2>5. PICK r \in Enqs : EnqStep(t, r) /\ EnqSound(t, r)
    BY <1>1, <1>3, GotoRecord
  <2>6. r \in Enqs'
    BY <1>1, <2>4 DEF Enqs, hashVars
  <2>7. EnqType'
    BY <1>1, <1>2, <2>4, <2>5, <2>6, EnqKeeps, Lengths DEF EnqueueType, hashVars
  <2> QED
    BY <2>4, <2>7 DEF EnqueueType
<1>4. CASE EnqReturn(t) /\ UNCHANGED producers
  BY <1>1, <1>4, ReturnTypes DEF EnqueueType, SharedType, SameShared, hashVars
<1> QED
  BY <1>1, <1>3, <1>4

LEMMA CreateTypes ==
  ASSUME EnqueueType, NEW t \in Enqueuers, Create(t)
  PROVE  EnqueueType'
<1> DEFINE e == enq[t]
           n == Len(producers) + 1
           r == [e EXCEPT !.pc = "link", !.producer = n]
<1>1. /\ e.pc = "create" /\ UNCHANGED <<list, hashes, implicitProducerHashResizeInProgress, withToken>>
      /\ \/ /\ producers' = Append(producers, NewProducer(t)) /\ producerCount' = producerCount + 1
            /\ EnqStep(t, r) /\ UNCHANGED implicitProducerHashCount
         \/ /\ implicitProducerHashCount' = implicitProducerHashCount - (IF withToken[t] THEN 0 ELSE 1)
            /\ EnqReturn(t) /\ UNCHANGED <<producers, producerCount>>
  BY DEF Create, EnqueueVars
<1>2. SharedType /\ e \in Enqs /\ EnqSound(t, e)
  BY DEF EnqueueType, EnqType
<1>3. CASE /\ producers' = Append(producers, NewProducer(t)) /\ producerCount' = producerCount + 1
           /\ EnqStep(t, r) /\ UNCHANGED implicitProducerHashCount
  <2>1. NewProducer(t) \in Records /\ NewProducer(t).out <= NewProducer(t).in
    BY <1>2 DEF NewProducer, Records, SharedType
  <2>2. SharedType' /\ Len(producers)' = n
    BY <1>1, <1>2, <1>3, <2>1, ProducerAdded DEF SharedType
  <2>3. Len(producers) \in Nat
    BY <1>2, Lengths
  <2>4. 0 .. Len(producers) \subseteq 0 .. Len(producers)' /\ n \in 0 .. Len(producers)' /\ n # 0
    BY <2>2, <2>3
  <2> HIDE DEF e, n
  <2>5. r \in Enqs'
    BY <1>1, <1>2, <2>4 DEF Enqs
  <2>6. EnqSound(t, r)
    BY <1>1, <1>2, <2>4 DEF Enqs, EnqSound, Looking, None
  <2> HIDE DEF r
  <2>7. EnqType'
    BY <1>1, <1>2, <1>3, <2>2, <2>5, <2>6, EnqKeeps, Lengths DEF EnqueueType, n
  <2> QED
    BY <2>2, <2>7 DEF EnqueueType
<1>4. CASE /\ implicitProducerHashCount' = implicitProducerHashCount - (IF withToken[t] THEN 0 ELSE 1)
           /\ EnqReturn(t) /\ UNCHANGED <<producers, producerCount>>
  <2>1. implicitProducerHashCount' \in Int
    BY <1>2, <1>4 DEF SharedType
  <2> QED
    BY <1>1, <1>4, <2>1, ReturnTypes DEF EnqueueType, SharedType, SameShared
<1> QED
  BY <1>1, <1>3, <1>4

LEMMA LinkTypes ==
  ASSUME EnqueueType, NEW t \in Enqueuers, Link(t)
  PROVE  EnqueueType'
<1> DEFINE p == enq[t].producer
           k == [NoEnq EXCEPT !.token = p]
<1>1. /\ enq[t].pc = "link" /\ list' = Append(list, p)
      /\ UNCHANGED <<producers, producerCount, hashVars, withToken>>
      /\ IF withToken[t] THEN EnqStep(t, k) ELSE EnqGoto(t, "insert")
  BY DEF Link, EnqueueVars
<1>2. SharedType /\ enq[t] \in Enqs /\ EnqSound(t, enq[t])
  BY DEF EnqueueType, EnqType
<1>3. p \in 0 .. Len(producers) /\ p \in 1 .. Len(producers)
  BY <1>1, <1>2, Lengths DEF Enqs, EnqSound, None
<1> HIDE DEF p
<1>4. list' \in Seq(1 .. Len(producers)) /\ Len(list)' = Len(list) + 1
  BY <1>1, <1>2, <1>3, AppendProperties DEF SharedType
<1>5. SharedType'
  BY <1>1, <1>2, <1>4 DEF SharedType, Records, Hashes, hashVars
<1>6. PICK r \in Enqs : EnqStep(t, r) /\ EnqSound(t, r)
  <2>1. CASE withToken[t]
    <3>1. k \in Enqs /\ EnqSound(t, k)
      BY <1>2, <1>3, ReturnRecord
    <3> HIDE DEF k
    <3> QED
      BY <1>1, <2>1, <3>1
  <2>2. CASE ~withToken[t]
    BY <1>1, <2>2, GotoRecord
  <2> QED
    BY <2>1, <2>2
<1>7. 0 .. Len(list) \subseteq 0 .. Len(list)' /\ Len(list) <= Len(list)'
  BY <1>2, <1>4, Lengths
<1>8. r \in Enqs'
  BY <1>1, <1>7 DEF Enqs, hashVars
<1>9. EnqType'
  BY <1>1, <1>2, <1>4, <1>5, <1>6, <1>7, <1>8, EnqKeeps, Lengths DEF EnqueueType, hashVars
<1> QED
  BY <1>5, <1>9 DEF EnqueueType

(* The steps of t that change a table or add one. *)
LEMMA InsertTypes ==
  ASSUME EnqueueType, NEW t \in Enqueuers, Insert(t)
  PROVE  /\ EnqueueType' /\ Len(hashes)' = Len(hashes)
         /\ enq[t].hash \in 1 .. Len(hashes)
         /\ \A h \in 1 .. Len(hashes) :
              /\ hashes'[h].capacity = hashes[h].capacity
              /\ hashes'[h].keys = hashes[h].keys \cup (IF h = enq[t].hash THEN {t} ELSE {})
              /\ \A u \in Enqueuers :
                   hashes'[h].value[u] = IF h = enq[t].hash /\ u = t THEN enq[t].producer ELSE hashes[h].value[u]
<1> DEFINE e == enq[t]
           h == e.hash
           p == e.producer
           g == [hashes[h] EXCEPT !.keys = @ \cup {t}, !.value[t] = p]
           r == [e EXCEPT !.pc = "put", !.hash = 0, !.newCount = 0]
<1>1. /\ e.pc = "insert"
      /\ hashes' = [hashes EXCEPT ![h] = g]
      /\ UNCHANGED <<producers, list, producerCount, implicitProducerHashCount,
                     implicitProducerHashResizeInProgress, withToken>>
      /\ EnqStep(t, r)
  BY DEF Insert, EnqueueVars, listVars, Main
<1>2. SharedType /\ e \in Enqs /\ EnqSound(t, e)
  BY DEF EnqueueType, EnqType
<1>3. /\ h \in 1 .. Len(hashes) /\ p \in 0 .. Len(producers) /\ p # None
      /\ ~withToken[t] /\ 0 \in 0 .. Len(hashes)
  BY <1>1, <1>2, Lengths DEF Enqs, EnqSound, None, Looking
<1>4. hashes \in Seq(Hashes) /\ hashes[h] \in Hashes /\ DOMAIN hashes = 1 .. Len(hashes)
  BY <1>2, <1>3, LenProperties DEF SharedType
<1> HIDE DEF e, h, p
<1>5. /\ g \in Hashes /\ g.capacity = hashes[h].capacity /\ g.keys = hashes[h].keys \cup {t}
      /\ g.value = [hashes[h].value EXCEPT ![t] = p]
  <2>1. ASSUME NEW x \in Hashes
        PROVE  /\ [x EXCEPT !.keys = @ \cup {t}, !.value[t] = p] \in Hashes
               /\ [x EXCEPT !.keys = @ \cup {t}, !.value[t] = p].capacity = x.capacity
               /\ [x EXCEPT !.keys = @ \cup {t}, !.value[t] = p].keys = x.keys \cup {t}
               /\ [x EXCEPT !.keys = @ \cup {t}, !.value[t] = p].value = [x.value EXCEPT ![t] = p]
    BY <1>3 DEF Hashes
  <2> QED
    BY <1>4, <2>1
<1> HIDE DEF g
<1>6. /\ hashes' \in Seq(Hashes) /\ Len(hashes)' = Len(hashes)
      /\ \A k \in 1 .. Len(hashes) : hashes'[k] = IF k = h THEN g ELSE hashes[k]
  BY <1>1, <1>3, <1>4, <1>5, ExceptSeq
<1>7. ASSUME NEW k \in 1 .. Len(hashes)
      PROVE  /\ hashes'[k].capacity = hashes[k].capacity
             /\ hashes'[k].keys = hashes[k].keys \cup (IF k = h THEN {t} ELSE {})
             /\ \A u \in Enqueuers : hashes'[k].value[u] = IF k = h /\ u = t THEN p ELSE hashes[k].value[u]
  <2>1. CASE k = h
    <3>1. hashes'[k] = g
      BY <1>6, <2>1
    <3>2. hashes[h].value \in [Enqueuers -> 0 .. Len(producers)]
      BY <1>4 DEF Hashes
    <3> QED
      BY <1>5, <2>1, <3>1, <3>2
  <2>2. CASE k # h
    BY <1>6, <2>2
  <2> QED
    BY <2>1, <2>2
<1>8. ASSUME NEW k \in 1 .. Len(hashes), NEW u, u \in hashes'[k].keys
      PROVE  hashes'[k].value[u] # None /\ ~withToken[u]
  <2>1. u \in Enqueuers
    <3>1. hashes'[k] \in Hashes
      BY <1>4, <1>5, <1>6, LenProperties
    <3> QED
      BY <1>8, <3>1 DEF Hashes
  <2>2. \A v \in hashes[k].keys : hashes[k].value[v] # None /\ ~withToken[v]
    BY <1>2 DEF SharedType
  <2>3. u \in hashes[k].keys \cup (IF k = h THEN {t} ELSE {})
    BY <1>7, <1>8
  <2>4. hashes'[k].value[u] = IF k = h /\ u = t THEN p ELSE hashes[k].value[u]
    BY <1>7, <2>1
  <2>5. CASE k = h /\ u = t
    BY <1>3, <2>4, <2>5
  <2>6. CASE ~(k = h /\ u = t)
    <3>1. u \in hashes[k].keys
      BY <2>3, <2>6
    <3>2. hashes'[k].value[u] = hashes[k].value[u]
      BY <2>4, <2>6
    <3> QED
      BY <2>2, <3>1, <3>2
  <2> QED
    BY <2>5, <2>6
<1>9. Len(hashes) > 0
  BY <1>2, Lengths
<1>10. hashes' # <<>>
  BY <1>6, <1>9, EmptySeq
<1>11. SharedType'
  BY <1>1, <1>2, <1>6, <1>8, <1>10 DEF SharedType, Records, Hashes
<1>12. r \in Enqs
  <2>1. 0 \in Int
    OBVIOUS
  <2> QED
    BY <1>2, <1>3, <2>1 DEF Enqs
<1>13. EnqSound(t, r)
  BY <1>1, <1>2, <1>3 DEF Enqs, EnqSound, Looking, None
<1>14. r \in Enqs'
  BY <1>1, <1>6, <1>12 DEF Enqs
<1> HIDE DEF r
<1>15. EnqType'
  BY <1>1, <1>2, <1>6, <1>11, <1>13, <1>14, EnqKeeps, Lengths DEF EnqueueType
<1> QED
  BY <1>3, <1>6, <1>7, <1>11, <1>15 DEF EnqueueType, e, h, p

(* A call that has lowered the count and still holds the resize lock. *)
FailedCall(t) == [NoEnq EXCEPT !.token = enq[t].token, !.pc = "failed"]

LEMMA FailedCallTypes ==
  ASSUME EnqueueType, NEW t \in Enqueuers
  PROVE  /\ FailedCall(t) \in Enqs /\ EnqSound(t, FailedCall(t))
         /\ FailedCall(t).pc = "failed" /\ FailedCall(t).token = enq[t].token
         /\ FailedCall(t).producer = None
<1> DEFINE k == enq[t].token
           r == [NoEnq EXCEPT !.token = k, !.pc = "failed"]
<1>1. k \in 0 .. Len(producers) /\ 0 \in 0 .. Len(producers) /\ 0 \in 0 .. Len(hashes)
      /\ 0 \in 0 .. Len(list) /\ 0 \in 0 .. MaxBulk
  BY Lengths, BulkAssumption DEF EnqueueType, EnqType, Enqs
<1> HIDE DEF k
<1>2. NoEnq \in Enqs /\ NoEnq.producer = None
  BY <1>1 DEF NoEnq, Enqs, None
<1>3. r.pc = "failed" /\ r.token = k /\ r.producer = None
  BY <1>2 DEF Enqs
<1>4. r \in Enqs
  BY <1>1, <1>2 DEF Enqs
<1> HIDE DEF r
<1>5. EnqSound(t, r)
  BY <1>3 DEF EnqSound, Looking
<1> QED
  BY <1>3, <1>4, <1>5 DEF FailedCall, r, k

LEMMA HashGrowTypes ==
  ASSUME EnqueueType, NEW t \in Enqueuers, HashGrow(t)
  PROVE  EnqueueType'
<1> DEFINE e == enq[t]
           n == Len(hashes)
           h == hashes[n]
           g == NewHash(Doubled(h.capacity, e.newCount))
           r(k) == [e EXCEPT !.pc = "unlock", !.hash = k]
<1>1. /\ e.pc = "grow" /\ UNCHANGED <<producers, list, producerCount, withToken>>
      /\ \/ /\ e.newCount >= Half(h) /\ hashes' = Append(hashes, g) /\ EnqStep(t, r(n + 1))
            /\ UNCHANGED <<implicitProducerHashCount, implicitProducerHashResizeInProgress>>
         \/ /\ implicitProducerHashCount' = implicitProducerHashCount - 1
            /\ EnqStep(t, FailedCall(t)) /\ UNCHANGED <<hashes, implicitProducerHashResizeInProgress>>
         \/ /\ EnqStep(t, r(n)) /\ UNCHANGED hashVars
  BY DEF HashGrow, FailedCall, EnqueueVars, listVars
<1>2. SharedType /\ e \in Enqs /\ EnqSound(t, e) /\ n \in Nat /\ n > 0
  BY Lengths DEF EnqueueType, EnqType
<1>3. h \in Hashes /\ hashes \in Seq(Hashes)
  <2>1. n \in 1 .. Len(hashes)
    BY <1>2
  <2> QED
    BY <1>2, <2>1 DEF SharedType
<1>4. CASE /\ e.newCount >= Half(h) /\ hashes' = Append(hashes, g) /\ EnqStep(t, r(n + 1))
           /\ UNCHANGED <<implicitProducerHashCount, implicitProducerHashResizeInProgress>>
  <2>1. h.capacity \in Nat \ {0} /\ e.newCount \in Nat
    <3>1. h.capacity \in Nat \ {0} /\ e.newCount \in Int
      BY <1>2, <1>3 DEF Hashes, Enqs
    <3> QED
      BY <1>4, <3>1 DEF Half
  <2>2. Doubled(h.capacity, e.newCount) \in Nat \ {0}
    <3>1. ASSUME NEW c \in Nat \ {0}, NEW m \in Nat PROVE Doubled(c, m) \in Nat \ {0}
      <4>1. Doubled(c, m) \in Nat /\ Doubled(c, m) >= 2 * c
        BY DoubledFacts
      <4> QED
        BY <4>1
    <3> QED
      BY <2>1, <3>1
  <2>3. g \in Hashes /\ g.keys = {}
    <3>1. 0 \in 0 .. Len(producers)
      BY <1>2, Lengths
    <3> QED
      BY <2>2, <3>1 DEF NewHash, Hashes, None
  <2> HIDE DEF g
  <2>4. /\ hashes' \in Seq(Hashes) /\ hashes' # <<>> /\ Len(hashes)' = n + 1 /\ hashes'[n + 1] = g
        /\ \A k \in 1 .. n : hashes'[k] = hashes[k]
    BY <1>3, <1>4, <2>3, AppendProperties
  <2>5. ASSUME NEW k \in 1 .. n + 1, NEW u, u \in hashes'[k].keys
        PROVE  hashes'[k].value[u] # None /\ ~withToken[u]
    <3>1. k # n + 1
      BY <2>3, <2>4, <2>5
    <3>2. k \in 1 .. n
      BY <1>2, <3>1
    <3>3. hashes'[k] = hashes[k]
      BY <2>4, <3>2
    <3> QED
      BY <1>2, <2>5, <3>2, <3>3 DEF SharedType
  <2>6. SharedType'
    BY <1>1, <1>2, <1>4, <2>4, <2>5 DEF SharedType, Records, Hashes
  <2>7. 0 .. n \subseteq 0 .. Len(hashes)' /\ n + 1 \in 0 .. Len(hashes)' /\ n + 1 # 0
    BY <1>2, <2>4
  <2> HIDE DEF e
  <2>8. r(n + 1) \in Enqs'
    BY <1>1, <1>2, <2>7 DEF Enqs
  <2>9. EnqSound(t, r(n + 1))
    BY <1>1, <1>2, <2>7 DEF Enqs, EnqSound, Looking
  <2> HIDE DEF r
  <2>10. EnqType'
    BY <1>1, <1>2, <1>4, <2>4, <2>6, <2>8, <2>9, EnqKeeps, Lengths DEF EnqueueType
  <2> QED
    BY <2>6, <2>10 DEF EnqueueType
<1>5. CASE /\ implicitProducerHashCount' = implicitProducerHashCount - 1
           /\ EnqStep(t, FailedCall(t)) /\ UNCHANGED <<hashes, implicitProducerHashResizeInProgress>>
  <2>1. implicitProducerHashCount' \in Int
    BY <1>2, <1>5 DEF SharedType
  <2>2. SameShared /\ implicitProducerHashResizeInProgress' \in BOOLEAN
    BY <1>1, <1>2, <1>5 DEF SameShared, SharedType
  <2> QED
    BY <1>5, <2>1, <2>2, FailedCallTypes, EnqStays
<1>6. CASE EnqStep(t, r(n)) /\ UNCHANGED hashVars
  <2>1. n \in 0 .. Len(hashes) /\ n # 0
    BY <1>2
  <2> HIDE DEF e, n
  <2>2. r(n) \in Enqs
    BY <1>2, <2>1 DEF Enqs
  <2>3. EnqSound(t, r(n))
    BY <1>1, <1>2, <2>1 DEF Enqs, EnqSound, Looking
  <2> HIDE DEF r
  <2> QED
    BY <1>1, <1>2, <1>6, <2>2, <2>3, EnqStays DEF SharedType, SameShared, hashVars
<1> QED
  BY <1>1, <1>4, <1>5, <1>6

(* enqueue after the inner queue's call has succeeded. *)
(* Without memory the thread gives up in two steps. *)
LEMMA HashFailTypes ==
  ASSUME EnqueueType, NEW t \in Enqueuers, HashFail(t)
  PROVE  EnqueueType'
<1>1. /\ SameShared /\ UNCHANGED implicitProducerHashCount /\ EnqReturn(t)
      /\ implicitProducerHashResizeInProgress' \in BOOLEAN
  BY DEF HashFail, SameShared, listVars, EnqueueVars
<1>2. implicitProducerHashCount' \in Int
  BY <1>1 DEF EnqueueType, SharedType
<1> QED
  BY <1>1, <1>2, ReturnTypes

LEMMA SignallingTypes ==
  ASSUME EnqueueType, NEW t \in Enqueuers, Signalling(t)
  PROVE  EnqueueType'
<1> DEFINE e == enq[t]
           r == [e EXCEPT !.pc = "post", !.count = 0]
<1>1. /\ SameShared /\ UNCHANGED <<implicitProducerHashCount, implicitProducerHashResizeInProgress>>
      /\ EnqReturn(t) \/ EnqStep(t, r)
  BY DEF Signalling, SameShared, listVars, hashVars, EnqueueVars
<1>2. implicitProducerHashCount' \in Int /\ implicitProducerHashResizeInProgress' \in BOOLEAN
  BY <1>1 DEF EnqueueType, SharedType
<1>3. CASE EnqReturn(t)
  BY <1>1, <1>2, <1>3, ReturnTypes
<1>4. CASE EnqStep(t, r)
  <2>1. e \in Enqs /\ 0 \in 0 .. MaxBulk
    BY BulkAssumption DEF EnqueueType, EnqType
  <2> HIDE DEF e
  <2>2. r \in Enqs
    BY <2>1 DEF Enqs
  <2>3. EnqSound(t, r)
    BY <2>1 DEF Enqs, EnqSound, Looking
  <2> HIDE DEF r
  <2> QED
    BY <1>1, <1>2, <1>4, <2>2, <2>3, EnqStays
<1> QED
  BY <1>1, <1>3, <1>4

LEMMA ProducerStepTypes ==
  ASSUME EnqueueType, NEW t \in Enqueuers, ProducerStep(t)
  PROVE  EnqueueType'
BY LookUpTypes, InsertTypes, HashCountTypes, HashTryTypes, HashGrowTypes, HashFailTypes, HashRoomTypes,
   ScanTypes, CreateTypes, LinkTypes, PutTypes DEF ProducerStep

---------------------------------------------------------------------------
(* The consumers *)

(* The places of the list, and what a consumer reads off it. *)
LEMMA PositionType ==
  ASSUME SharedType, NEW p \in Linked
  PROVE  Position(p) \in 1 .. Len(list) /\ list[Position(p)] = p
BY DEF Position, Linked

LEMMA BackType ==
  ASSUME SharedType, NEW tail \in 0 .. Len(list), NEW i \in Nat
  PROVE  Back(tail, i) \in Seq(Linked) /\ (i < tail => Back(tail, i) # <<>>)
<1>1. Len(list) \in Nat
  BY Lengths
<1>2. ASSUME NEW k \in 1 .. tail - i PROVE list[tail + 1 - k] \in Linked
  <2>1. tail + 1 - k \in 1 .. Len(list)
    BY <1>1
  <2> QED
    BY <2>1 DEF Linked
<1>3. CASE i < tail
  <2>1. tail - i \in Nat /\ tail - i # 0
    BY <1>1, <1>3
  <2> DEFINE n == tail - i
  <2> HIDE DEF n
  <2>2. Back(tail, i) = [k \in 1 .. n |-> list[tail + 1 - k]]
    BY DEF Back, n
  <2>3. Back(tail, i) \in Seq(Linked) /\ Len(Back(tail, i)) = n
    BY <1>2, <2>1, <2>2 DEF n
  <2> QED
    BY <2>1, <2>3 DEF n
<1>4. CASE ~ (i < tail)
  <2>1. 1 .. tail - i = {}
    BY <1>1, <1>4
  <2>2. Back(tail, i) = <<>>
    BY <2>1 DEF Back
  <2> QED
    BY <1>4, <2>2
<1> QED
  BY <1>3, <1>4

LEMMA RoundType ==
  ASSUME SharedType, NEW p \in Linked, NEW tail \in 0 .. Len(list)
  PROVE  /\ From(tail) \in Seq(Linked)
         /\ Others(p, tail) \in Seq(Linked) /\ Without(p) \in Seq(Linked)
<1>1. Len(list) \in Nat /\ Position(p) \in 1 .. Len(list)
  BY Lengths, PositionType
<1>2. Position(p) - 1 \in 0 .. Len(list) /\ Position(p) \in Nat /\ Len(list) \in 0 .. Len(list) /\ 0 \in Nat
  BY <1>1
<1>3. From(tail) \in Seq(Linked) /\ From(Position(p) - 1) \in Seq(Linked)
  BY <1>2, BackType DEF From
<1>4. Back(tail, Position(p)) \in Seq(Linked) /\ Back(Len(list), Position(p)) \in Seq(Linked)
  BY <1>2, BackType
<1> QED
  BY <1>3, <1>4, ConcatProperties DEF Others, Without

(* Walking round the list stays on it. *)
LEMMA WalkType ==
  ASSUME SharedType, NEW p \in Linked, NEW n \in Nat
  PROVE  Walk(p, n) \in Linked
<1> DEFINE next(q) == LET i == Position(q) IN list[IF i = 1 THEN Len(list) ELSE i - 1]
           g == [q \in Linked |-> next(q)]
           Is(f) == f = [k \in 0 .. n |-> IF k = 0 THEN p ELSE next(f[k - 1])]
           step == CHOOSE f : Is(f)
<1>1. Walk(p, n) = step[n]
  BY DEF Walk
<1>2. ASSUME NEW q \in Linked PROVE next(q) \in Linked
  <2>1. Position(q) \in 1 .. Len(list) /\ Len(list) \in Nat
    BY Lengths, PositionType
  <2> QED
    BY <2>1 DEF Linked
<1>3. g \in [Linked -> Linked] /\ \A q \in Linked : g[q] = next(q)
  BY <1>2
<1> HIDE DEF g, next
<1>4. PICK f \in [Nat -> Linked] : f[0] = p /\ \A k \in Nat : f[k + 1] = g[f[k]]
  <2>1. MapOn(g, Linked)
    BY <1>3 DEF MapOn
  <2>2. PICK f : Iterates(f, Linked, p, g)
    BY <2>1, Iteration
  <2> QED
    BY <2>2 DEF Iterates
<1> DEFINE F == [k \in 0 .. n |-> f[k]]
<1>5. Is(F)
  <2>1. ASSUME NEW k \in 0 .. n PROVE F[k] = IF k = 0 THEN p ELSE next(F[k - 1])
    <3>1. CASE k # 0
      <4>1. k - 1 \in 0 .. n /\ k - 1 \in Nat /\ (k - 1) + 1 = k
        BY <3>1
      <4>2. F[k] = g[f[k - 1]] /\ F[k - 1] = f[k - 1] /\ f[k - 1] \in Linked
        BY <1>4, <4>1
      <4> QED
        BY <1>3, <3>1, <4>2
    <3> QED
      BY <1>4, <3>1
  <2> QED
    BY <2>1
<1>6. Is(step)
  <2> HIDE DEF Is, F
  <2> QED
    BY <1>5
<1>7. step = [k \in 0 .. n |-> IF k = 0 THEN p ELSE next(step[k - 1])]
  BY <1>6
<1> HIDE DEF step
<1>8. \A k \in Nat : k <= n => step[k] \in Linked
  <2> DEFINE S == {k \in Nat : k <= n => step[k] \in Linked}
  <2>1. 0 \in S
    BY <1>7
  <2>2. ASSUME NEW k \in Nat, k \in S PROVE k + 1 \in S
    <3>1. CASE k + 1 <= n
      <4>1. step[k] \in Linked /\ k + 1 \in 0 .. n /\ k + 1 # 0 /\ (k + 1) - 1 = k
        BY <2>2, <3>1
      <4>2. step[k + 1] = next(step[k])
        BY <1>7, <4>1
      <4> QED
        BY <1>2, <4>1, <4>2
    <3> QED
      BY <3>1
  <2> HIDE DEF S
  <2>3. Nat \subseteq S
    BY <2>1, <2>2, SetInduction
  <2> QED
    BY <2>3 DEF S
<1> QED
  BY <1>1, <1>8

(* Consumers keep their types while enqueuers link producers. *)
LEMMA ListGrows ==
  ASSUME SharedType, DequeueType, UNCHANGED <<deq, tokenVars, wait>>,
         Len(list)' \in Nat, Len(list) <= Len(list)', \A i \in 1 .. Len(list) : list'[i] = list[i]
  PROVE  DequeueType'
<1>1. Linked \subseteq Linked' /\ 0 .. Len(list) \subseteq 0 .. Len(list)'
  BY Lengths DEF Linked
<1>2. ASSUME NEW d \in Deqs PROVE d \in Deqs'
  <2>1. Seq(Linked) \subseteq Seq(Linked')
    BY <1>1
  <2> HIDE DEF Linked
  <2> QED
    BY <1>1, <1>2, <2>1 DEF Deqs
<1>3. ASSUME NEW k \in Tokens PROVE k \in Tokens'
  BY <1>1, <1>3 DEF Tokens
<1>4. deq' \in [Consumers -> Deqs'] /\ token' \in [Consumers -> Tokens']
  BY <1>2, <1>3 DEF DequeueType, tokenVars
<1> QED
  BY <1>4 DEF DequeueType, DeqSound, TokenSound, tokenVars

(* A step of consumer c, with its token, keeps the types of consumers, ... *)
LEMMA DeqStays ==
  ASSUME DequeueType, UNCHANGED list, NEW c \in Consumers, NEW r \in Deqs, DeqSound(r), DeqStep(c, r),
         NEW k \in Tokens, TokenSound(k), token' = [token EXCEPT ![c] = k],
         globalExplicitConsumerOffset' \in Nat, globalExplicitConsumerOffset <= globalExplicitConsumerOffset',
         \A d \in Consumers \ {c} : wait'[d] = wait[d], wait'[c].pc = "acquired" <=> r.need > 0
  PROVE  DequeueType'
<1>1. Deqs' = Deqs /\ Tokens' = Tokens
  BY DEF Deqs, Tokens, Linked
<1>2. deq' \in [Consumers -> Deqs'] /\ token' \in [Consumers -> Tokens']
  BY <1>1 DEF DequeueType, DeqStep
<1>3. ASSUME NEW d \in Consumers PROVE DeqSound(deq'[d])
  BY DEF DequeueType, DeqStep
<1>4. ASSUME NEW d \in Consumers PROVE TokenSound(token[d])'
  <2>1. TokenSound(token'[d]) /\ token'[d] \in Tokens
    BY DEF DequeueType
  <2>2. token'[d].lastKnownGlobalOffset \in Int /\ globalExplicitConsumerOffset \in Nat
    BY <2>1 DEF Tokens, DequeueType
  <2> QED
    BY <2>1, <2>2 DEF TokenSound
<1>5. ASSUME NEW d \in Consumers PROVE wait'[d].pc = "acquired" <=> deq'[d].need > 0
  BY DEF DequeueType, DeqStep
<1>6. ASSUME NEW d \in Consumers PROVE DeqSound(deq[d])'
  <2>1. DeqSound(deq'[d])
    BY <1>3
  <2> QED
    BY <2>1 DEF DeqSound
<1> QED
  BY <1>2, <1>4, <1>5, <1>6 DEF DequeueType

(* ... and of the enqueuers. *)
LEMMA EnqUnchanged ==
  ASSUME EnqueueType, UNCHANGED <<enq, list, hashes, withToken>>, Len(producers)' = Len(producers)
  PROVE  EnqType'
BY DEF EnqueueType, EnqType, EnqSound, Enqs

(* Where a pass goes on it has a producer to go to. *)
LEMMA OnwardType ==
  ASSUME NEW d \in Deqs, d.pc \in {"score", "visit"}, d.need > 0,
         IF d.nonEmpty = 0 THEN d.bestSize = 0 ELSE d.best # None
  PROVE  /\ Onward(d) \in Deqs /\ DeqSound(Onward(d))
         /\ Onward(d).need = d.need /\ Onward(d).pc # "idle"
<1> DEFINE again == [d EXCEPT !.pc = "pass", !.todo = <<>>, !.tail = 0]
           go == [d EXCEPT !.pc = "visit", !.first = TRUE, !.todo = <<d.best>>,
                           !.best = None, !.bestSize = 0, !.nonEmpty = 0]
<1>1. d.need \in 0 .. MaxBulk /\ d.best \in Linked \cup {None} /\ d.tail \in 0 .. Len(list)
  BY DEF Deqs
<1>2. 0 \in 0 .. Len(list) /\ <<>> \in Seq(Linked)
  BY <1>1
<1>3. CASE Onward(d) = again
  <2>1. again \in Deqs
    BY <1>2 DEF Deqs
  <2>2. DeqSound(again) /\ again.need = d.need /\ again.pc # "idle"
    BY <1>1 DEF Deqs, DeqSound
  <2> QED
    BY <1>3, <2>1, <2>2
<1>4. CASE Onward(d) = go /\ d.nonEmpty # 0
  <2>1. <<d.best>> \in Seq(Linked) /\ <<d.best>> # <<>>
    BY <1>1, <1>4
  <2>2. go \in Deqs
    BY <2>1 DEF Deqs
  <2>3. DeqSound(go) /\ go.need = d.need /\ go.pc # "idle"
    BY <1>1, <2>1 DEF Deqs, DeqSound
  <2> QED
    BY <1>4, <2>2, <2>3
<1>5. CASE Onward(d) = d /\ d.todo # <<>>
  BY <1>1, <1>5 DEF DeqSound
<1> QED
  BY <1>3, <1>4, <1>5 DEF Onward

(* The producer a token is rotated to is on the list. *)
LEMMA RotatedType ==
  ASSUME SharedType, globalExplicitConsumerOffset \in Nat, NEW k \in Tokens, TokenSound(k),
         k.desiredProducer # None \/ list # <<>>
  PROVE  /\ Rotated(k) \in Tokens /\ TokenSound(Rotated(k))
         /\ Rotated(k).currentProducer \in Linked
<1> DEFINE g == globalExplicitConsumerOffset
           n == producerCount
           first == n - 1 - (k.initialOffset % n)
           start == IF k.desiredProducer # None THEN k.desiredProducer ELSE Walk(list[Len(list)], first)
           delta == g - k.lastKnownGlobalOffset
           steps == IF delta >= n THEN delta % n ELSE delta
           p == Walk(start, steps)
           r == [k EXCEPT !.desiredProducer = p, !.currentProducer = p, !.itemsConsumedFromCurrent = 0,
                          !.lastKnownGlobalOffset = g]
<1>1. Rotated(k) = r
  BY DEF Rotated
<1>2. /\ k.desiredProducer \in Linked \cup {None} /\ k.initialOffset \in Nat
      /\ k.lastKnownGlobalOffset \in Int /\ g \in Nat /\ k.lastKnownGlobalOffset <= g
  BY DEF Tokens, TokenSound
<1>3. list # <<>>
  BY <1>2 DEF Linked
<1>4. list[Len(list)] \in Linked /\ list[Len(list)] \in 1 .. Len(producers)
  <2>1. list \in Seq(1 .. Len(producers))
    BY DEF SharedType
  <2>2. Len(list) \in 1 .. Len(list)
    BY <1>3, <2>1, EmptySeq
  <2> QED
    BY <2>1, <2>2, LenProperties DEF Linked
<1>5. n \in Nat \ {0}
  BY <1>4, Lengths DEF SharedType
<1> HIDE DEF g, n
<1>6. ASSUME NEW x \in Nat PROVE x % n \in 0 .. n - 1
  BY <1>5
<1>7. first \in Nat
  <2>1. ASSUME NEW x \in Nat PROVE n - 1 - (x % n) \in Nat
    <3>1. ASSUME NEW y \in 0 .. n - 1 PROVE n - 1 - y \in Nat
      BY <1>5
    <3> QED
      BY <1>6, <3>1
  <2> QED
    BY <1>2, <2>1
<1>8. delta \in Nat
  BY <1>2
<1>9. steps \in Nat
  <2> HIDE DEF delta
  <2> QED
    BY <1>5, <1>6, <1>8
<1>10. start \in Linked
  <2> HIDE DEF first
  <2> QED
    BY <1>2, <1>4, <1>7, WalkType
<1>11. p \in Linked
  <2> HIDE DEF start, steps
  <2> QED
    BY <1>9, <1>10, WalkType
<1> HIDE DEF p
<1>12. r \in Tokens
  <2>1. g \in Int /\ 0 \in Nat /\ p \in Linked \cup {None}
    BY <1>2, <1>11
  <2> HIDE DEF Linked
  <2> QED
    BY <2>1 DEF Tokens
<1>13. r.currentProducer = p /\ r.desiredProducer = p /\ r.lastKnownGlobalOffset = g
  BY DEF Tokens
<1>14. p # None
  BY <1>11 DEF Linked, SharedType, None
<1> HIDE DEF r
<1> QED
  BY <1>1, <1>2, <1>11, <1>12, <1>13, <1>14 DEF TokenSound, g

(* A step of a pass brings the consumer n elements. *)
LoopMove(c, n) ==
  /\ \E r \in Deqs : DeqSound(r) /\ DeqStep(c, r) /\ r.need = deq[c].need - n
  /\ \E k \in Tokens : TokenSound(k) /\ token' = [token EXCEPT ![c] = k]
  /\ globalExplicitConsumerOffset' \in {globalExplicitConsumerOffset, globalExplicitConsumerOffset + 1}
  /\ UNCHANGED <<list, producerCount, hashVars, withToken, enq>>

LEMMA LoopMoves ==
  ASSUME DequeueType, NEW c \in Consumers, NEW r \in Deqs, DeqSound(r), DeqStep(c, r), r.need = deq[c].need,
         \/ UNCHANGED token
         \/ \E k \in Tokens : TokenSound(k) /\ token' = [token EXCEPT ![c] = k],
         UNCHANGED <<globalExplicitConsumerOffset, list, producerCount, hashVars, withToken, enq>>
  PROVE  LoopMove(c, 0)
<1>1. \E k \in Tokens : TokenSound(k) /\ token' = [token EXCEPT ![c] = k]
  <2>1. CASE UNCHANGED token
    <3>1. token[c] \in Tokens /\ TokenSound(token[c]) /\ token' = [token EXCEPT ![c] = token[c]]
      BY <2>1 DEF DequeueType
    <3> QED
      BY <3>1
  <2> QED
    BY <2>1
<1>2. r.need = deq[c].need - 0
  BY DEF Deqs, DequeueType
<1> QED
  BY <1>1, <1>2 DEF LoopMove

LEMMA PassTypes ==
  ASSUME SharedType, DequeueType, NEW c \in Consumers, Pass(c)
  PROVE  LoopMove(c, 0) /\ UNCHANGED producers
<1> DEFINE d == deq[c]
           k == token[c]
           go(q) == [d EXCEPT !.pc = "visit", !.first = TRUE, !.todo = <<q>>]
<1>1. /\ d.pc = "pass"
      /\ UNCHANGED <<producers, globalExplicitConsumerOffset, list, producerCount, hashVars, withToken, enq>>
  BY DEF Pass, DequeueVars
<1>2. d \in Deqs /\ DeqSound(d) /\ k \in Tokens /\ TokenSound(k) /\ globalExplicitConsumerOffset \in Nat
  BY DEF DequeueType
<1>3. ASSUME NEW q \in Linked PROVE go(q) \in Deqs /\ DeqSound(go(q)) /\ go(q).need = d.need
  <2>1. <<q>> \in Seq(Linked) /\ <<q>> # <<>>
    OBVIOUS
  <2> HIDE DEF d, Linked
  <2>2. go(q) \in Deqs
    BY <1>2, <2>1 DEF Deqs
  <2>3. DeqSound(go(q)) /\ go(q).need = d.need
    BY <1>1, <1>2, <2>1 DEF Deqs, DeqSound
  <2> QED
    BY <2>2, <2>3
<1>4. CASE withToken[c] /\ k.desiredProducer # None /\ k.lastKnownGlobalOffset = globalExplicitConsumerOffset
  <2>1. DeqStep(c, go(k.currentProducer)) /\ UNCHANGED token
    BY <1>4 DEF Pass
  <2>2. k.currentProducer \in Linked
    BY <1>2, <1>4 DEF Tokens, TokenSound
  <2>3. go(k.currentProducer) \in Deqs /\ DeqSound(go(k.currentProducer)) /\ go(k.currentProducer).need = d.need
    BY <1>3, <2>2
  <2> HIDE DEF go
  <2> QED
    BY <1>1, <2>1, <2>3, LoopMoves
<1>5. CASE withToken[c] /\ ~ (k.desiredProducer # None /\ k.lastKnownGlobalOffset = globalExplicitConsumerOffset)
  <2> DEFINE q == Rotated(k).currentProducer
  <2>1. /\ k.desiredProducer # None \/ list # <<>>
        /\ DeqStep(c, go(q)) /\ token' = [token EXCEPT ![c] = Rotated(k)]
    BY <1>5 DEF Pass
  <2>2. Rotated(k) \in Tokens /\ TokenSound(Rotated(k)) /\ q \in Linked
    BY <1>2, <2>1, RotatedType
  <2> HIDE DEF q
  <2>3. go(q) \in Deqs /\ DeqSound(go(q)) /\ go(q).need = d.need
    BY <1>3, <2>2
  <2> HIDE DEF go
  <2> QED
    BY <1>1, <2>1, <2>2, <2>3, LoopMoves
<1>6. CASE ~withToken[c]
  <2> DEFINE todo == From(Len(list))
             e == [d EXCEPT !.pc = IF d.max > 1 THEN "visit" ELSE "score", !.todo = todo]
  <2>1. DeqStep(c, Onward(e)) /\ UNCHANGED token
    BY <1>6 DEF Pass
  <2>2. todo \in Seq(Linked)
    <3>1. Len(list) \in 0 .. Len(list) /\ 0 \in Nat
      BY Lengths
    <3> QED
      BY <3>1, BackType DEF From
  <2> HIDE DEF todo, d, Linked
  <2>3. e \in Deqs
    BY <1>2, <2>2 DEF Deqs
  <2>4. /\ e.pc \in {"score", "visit"} /\ e.need = d.need /\ e.need > 0
        /\ IF e.nonEmpty = 0 THEN e.bestSize = 0 ELSE e.best # None
    BY <1>1, <1>2 DEF Deqs, DeqSound
  <2> HIDE DEF e
  <2>5. Onward(e) \in Deqs /\ DeqSound(Onward(e)) /\ Onward(e).need = d.need
    BY <2>3, <2>4, OnwardType
  <2> QED
    BY <1>1, <2>1, <2>5, LoopMoves DEF d
<1> QED
  BY <1>1, <1>4, <1>5, <1>6

(* The producer a pass looks at next is one of the list. *)
LEMMA NextProducer ==
  ASSUME SharedType, NEW d \in Deqs, DeqSound(d), d.pc \in {"score", "size", "visit"}
  PROVE  /\ Head(d.todo) \in Linked /\ Tail(d.todo) \in Seq(Linked)
         /\ Head(d.todo) \in 1 .. Len(producers) /\ Head(d.todo) # None
         /\ producers[Head(d.todo)] \in Records
         /\ producers[Head(d.todo)].out <= producers[Head(d.todo)].in
<1>1. d.todo \in Seq(Linked) /\ d.todo # <<>>
  BY DEF Deqs, DeqSound
<1>2. Head(d.todo) \in Linked /\ Tail(d.todo) \in Seq(Linked)
  BY <1>1, HeadTailProperties
<1>3. Head(d.todo) \in 1 .. Len(producers)
  <2>1. PICK i \in 1 .. Len(list) : Head(d.todo) = list[i]
    BY <1>2 DEF Linked
  <2> QED
    BY <2>1, LenProperties DEF SharedType
<1> QED
  BY <1>2, <1>3, Lengths DEF SharedType, None

LEMMA ScoreTailTypes ==
  ASSUME SharedType, DequeueType, NEW c \in Consumers, ScoreTail(c)
  PROVE  LoopMove(c, 0) /\ UNCHANGED producers
<1> DEFINE d == deq[c]
           n == producers[Head(d.todo)].in
           r == [d EXCEPT !.pc = "size", !.size = n]
<1>1. /\ d.pc = "score" /\ DeqStep(c, r)
      /\ UNCHANGED <<producers, globalExplicitConsumerOffset, token, list, producerCount, hashVars, withToken, enq>>
  BY DEF ScoreTail, DequeueVars, tokenVars
<1>2. d \in Deqs /\ DeqSound(d)
  BY DEF DequeueType
<1>3. n \in Nat
  BY <1>1, <1>2, NextProducer DEF Records
<1> HIDE DEF d, n
<1>4. r \in Deqs
  BY <1>2, <1>3 DEF Deqs
<1>5. DeqSound(r) /\ r.need = d.need
  BY <1>1, <1>2 DEF Deqs, DeqSound
<1> HIDE DEF r
<1> QED
  BY <1>1, <1>4, <1>5, LoopMoves DEF d

LEMMA ScoreHeadTypes ==
  ASSUME SharedType, DequeueType, NEW c \in Consumers, ScoreHead(c)
  PROVE  LoopMove(c, 0) /\ UNCHANGED producers
<1> DEFINE d == deq[c]
           p == Head(d.todo)
           size == d.size - producers[p].out
           ne == IF size > 0 THEN d.nonEmpty + 1 ELSE d.nonEmpty
           todo == Tail(d.todo)
           e == [d EXCEPT !.pc = "score", !.todo = todo, !.size = 0, !.nonEmpty = ne]
           r == IF size > e.bestSize THEN [e EXCEPT !.best = p, !.bestSize = size] ELSE e
<1>1. /\ d.pc = "size" /\ DeqStep(c, Onward(r))
      /\ UNCHANGED <<producers, globalExplicitConsumerOffset, token, list, producerCount, hashVars, withToken, enq>>
  BY DEF ScoreHead, DequeueVars, tokenVars
<1>2. d \in Deqs /\ DeqSound(d) /\ d.nonEmpty \in Nat /\ d.size \in Nat /\ d.bestSize \in Nat
  BY DEF DequeueType, Deqs
<1>3. p \in Linked /\ p # None /\ todo \in Seq(Linked) /\ producers[p].out \in Nat
  BY <1>1, <1>2, NextProducer DEF Records
<1>4. size \in Int /\ ne \in Nat /\ (size > 0 => ne > 0) /\ (ne = 0 => d.nonEmpty = 0 /\ size <= 0)
  <2>1. size \in Int
    BY <1>2, <1>3
  <2> HIDE DEF d, p, size
  <2> QED
    BY <1>2, <2>1
<1> HIDE DEF d, p, size, ne, todo, Linked
<1>5. e \in Deqs
  BY <1>2, <1>3, <1>4 DEF Deqs
<1>6. e.pc = "score" /\ e.need = d.need /\ e.bestSize = d.bestSize /\ e.best = d.best /\ e.nonEmpty = ne
  BY <1>2 DEF Deqs
<1> HIDE DEF e
<1>7. /\ r \in Deqs /\ r.pc = "score" /\ r.need = d.need
      /\ IF r.nonEmpty = 0 THEN r.bestSize = 0 ELSE r.best # None
  <2>1. CASE size > e.bestSize
    <3>1. size \in Nat /\ p \in Linked \cup {None}
      BY <1>2, <1>3, <1>4, <1>6, <2>1
    <3>2. r = [e EXCEPT !.best = p, !.bestSize = size]
      BY <2>1
    <3>3. r \in Deqs
      BY <1>5, <3>1, <3>2 DEF Deqs
    <3>4. r.pc = "score" /\ r.need = d.need /\ r.best = p /\ r.nonEmpty = ne /\ r.bestSize = size
      BY <1>5, <1>6, <3>2 DEF Deqs
    <3>5. ne # 0
      BY <1>2, <1>4, <1>6, <2>1
    <3> QED
      BY <1>3, <3>3, <3>4, <3>5
  <2>2. CASE ~ (size > e.bestSize)
    <3>1. r = e
      BY <2>2
    <3>2. IF ne = 0 THEN e.bestSize = 0 ELSE e.best # None
      <4>1. CASE ne = 0
        BY <1>2, <1>4, <1>6, <4>1 DEF DeqSound
      <4>2. CASE ne # 0
        <5>1. d.nonEmpty # 0
          <6> SUFFICES ASSUME d.nonEmpty = 0 PROVE FALSE
            OBVIOUS
          <6>1. d.bestSize = 0 /\ ~ (size > 0)
            BY <1>2, <1>4, <1>6, <2>2 DEF DeqSound
          <6> QED
            BY <1>2, <4>2, <6>1 DEF ne
        <5> QED
          BY <1>2, <1>6, <4>2, <5>1 DEF DeqSound
      <4> QED
        BY <4>1, <4>2
    <3> QED
      BY <1>5, <1>6, <3>1, <3>2
  <2> QED
    BY <2>1, <2>2
<1>8. d.need > 0
  BY <1>1, <1>2 DEF Deqs, DeqSound
<1> HIDE DEF r
<1>9. Onward(r) \in Deqs /\ DeqSound(Onward(r)) /\ Onward(r).need = d.need
  BY <1>7, <1>8, OnwardType
<1> QED
  BY <1>1, <1>9, LoopMoves DEF d

(* Producer p gives n of its elements. *)
Given(p, n) ==
  /\ producers' = [producers EXCEPT ![p] = [producers[p] EXCEPT !.out = producers[p].out + n]]
  /\ n <= producers[p].in - producers[p].out

LEMMA MissedType ==
  ASSUME SharedType, NEW c \in Consumers, deq[c] \in Deqs, DeqSound(deq[c]), deq[c].pc = "visit",
         NEW p, p = Head(deq[c].todo), NEW n \in Nat, n < deq[c].need
  PROVE  /\ Onward(Missed(c, p, n)) \in Deqs /\ DeqSound(Onward(Missed(c, p, n)))
         /\ Onward(Missed(c, p, n)).need = deq[c].need - n
<1> DEFINE f == deq[c]
           m == f.need - n
           d == [f EXCEPT !.need = m, !.first = FALSE]
           tail == IF d.tail = 0 THEN Len(list) ELSE d.tail
           r == Missed(c, p, n)
<1>1. f \in Deqs /\ DeqSound(f) /\ f.pc = "visit" /\ f.need \in 0 .. MaxBulk
  BY DEF Deqs
<1>2. p \in Linked /\ Tail(f.todo) \in Seq(Linked)
  BY <1>1, NextProducer
<1>3. m \in 0 .. MaxBulk /\ m > 0
  BY <1>1, BulkAssumption
<1>4. /\ r = [d EXCEPT !.tail = tail, !.todo = Others(p, tail)]
         \/ r = [d EXCEPT !.todo = Without(p)]
         \/ r = [d EXCEPT !.todo = Tail(d.todo)]
  BY DEF Missed
<1> HIDE DEF f, m, r, Linked
<1>5. /\ d \in Deqs /\ d.todo = f.todo /\ d.need = m /\ d.pc = "visit"
      /\ d.nonEmpty = f.nonEmpty /\ d.best = f.best /\ d.bestSize = f.bestSize
  BY <1>1, <1>3 DEF Deqs
<1> HIDE DEF d
<1>6. tail \in 0 .. Len(list)
  BY <1>5, Lengths DEF Deqs
<1> HIDE DEF tail
<1>7. Others(p, tail) \in Seq(Linked) /\ Without(p) \in Seq(Linked) /\ Tail(d.todo) \in Seq(Linked)
  BY <1>2, <1>5, <1>6, RoundType
<1>8. /\ r \in Deqs /\ r.need = m /\ r.pc = "visit"
      /\ r.nonEmpty = f.nonEmpty /\ r.best = f.best /\ r.bestSize = f.bestSize
  <2>1. CASE r = [d EXCEPT !.tail = tail, !.todo = Others(p, tail)]
    BY <1>5, <1>6, <1>7, <2>1 DEF Deqs
  <2>2. CASE r = [d EXCEPT !.todo = Without(p)]
    BY <1>5, <1>7, <2>2 DEF Deqs
  <2>3. CASE r = [d EXCEPT !.todo = Tail(d.todo)]
    BY <1>5, <1>7, <2>3 DEF Deqs
  <2> QED
    BY <1>4, <2>1, <2>2, <2>3
<1>9. IF r.nonEmpty = 0 THEN r.bestSize = 0 ELSE r.best # None
  BY <1>1, <1>8 DEF DeqSound
<1>10. Onward(r) \in Deqs /\ DeqSound(Onward(r)) /\ Onward(r).need = m
  BY <1>3, <1>8, <1>9, OnwardType
<1> QED
  BY <1>10 DEF r, m, f

LEMMA VisitTypes ==
  ASSUME SharedType, DequeueType, NEW c \in Consumers, Visit(c)
  PROVE  \E p \in 1 .. Len(producers), n \in Nat : Given(p, n) /\ LoopMove(c, n)
<1> DEFINE d == deq[c]
           p == Head(d.todo)
           there == producers[p].in - producers[p].out
<1>1. d.pc = "visit" /\ UNCHANGED <<list, producerCount, hashVars, withToken, enq>>
  BY DEF Visit, DequeueVars
<1>2. d \in Deqs /\ DeqSound(d) /\ d.need \in Nat /\ token[c] \in Tokens /\ TokenSound(token[c])
      /\ globalExplicitConsumerOffset \in Nat
  BY BulkAssumption DEF DequeueType, Deqs
<1>3. p \in Linked /\ p \in 1 .. Len(producers) /\ p # None /\ there \in Nat
  BY <1>1, <1>2, NextProducer DEF Records
<1>4. PICK n \in Gains(c, p, d.need) : VisitGains(c, n)
  BY DEF Visit
<1>5. n \in Nat /\ n <= there /\ n <= d.need
  <2> HIDE DEF there, d, p
  <2>1. n \in 0 .. (IF there < d.need THEN there ELSE d.need)
    BY <1>2, <1>3, <1>4 DEF Gains, there
  <2> QED
    BY <1>2, <1>3, <2>1
<1>6. Given(p, n)
  BY <1>4, <1>5 DEF VisitGains, Given
<1>7. \E r \in Deqs : DeqSound(r) /\ DeqStep(c, r) /\ r.need = d.need - n
  <2>1. CASE n = d.need
    <3>1. DeqStep(c, NoDeq)
      BY <1>4, <2>1 DEF VisitGains
    <3>2. 0 \in 0 .. Len(list) /\ 0 \in 0 .. MaxBulk /\ 1 \in 1 .. MaxBulk /\ <<>> \in Seq(Linked)
      BY Lengths, BulkAssumption
    <3> HIDE DEF Linked
    <3>3. NoDeq \in Deqs /\ DeqSound(NoDeq) /\ NoDeq.need = 0
      BY <3>2 DEF NoDeq, Deqs, DeqSound, None
    <3> QED
      BY <1>2, <1>5, <2>1, <3>1, <3>3
  <2>2. CASE n # d.need
    <3>1. DeqStep(c, Onward(Missed(c, p, n)))
      BY <1>4, <2>2 DEF VisitGains
    <3>2. n < d.need
      BY <1>2, <1>5, <2>2
    <3> QED
      BY <1>1, <1>2, <1>5, <3>1, <3>2, MissedType
  <2> QED
    BY <2>1, <2>2
<1>8. \E k \in Tokens : TokenSound(k) /\ token' = [token EXCEPT ![c] = k]
  <2>1. CASE ~withToken[c]
    <3>1. token' = [token EXCEPT ![c] = token[c]]
      BY <1>4, <2>1 DEF VisitGains, tokenVars, DequeueType
    <3> QED
      BY <1>2, <3>1
  <2>2. CASE withToken[c]
    <3> DEFINE k == token[c]
    <3>1. token' = [token EXCEPT ![c] = Consumed(c, p, n)]
      BY <1>4, <2>2 DEF VisitGains
    <3>2. k \in Tokens /\ TokenSound(k) /\ k.itemsConsumedFromCurrent \in Nat
      BY <1>2 DEF Tokens
    <3>3. k.itemsConsumedFromCurrent + n \in Nat /\ p \in Linked \cup {None}
      BY <1>3, <1>5, <3>2
    <3>4. \/ Consumed(c, p, n) = [k EXCEPT !.itemsConsumedFromCurrent = k.itemsConsumedFromCurrent + n]
          \/ Consumed(c, p, n) = k
          \/ Consumed(c, p, n) = [k EXCEPT !.currentProducer = p, !.itemsConsumedFromCurrent = n]
      BY DEF Consumed
    <3> HIDE DEF k, p, Linked
    <3>5. Consumed(c, p, n) \in Tokens
      BY <1>5, <3>2, <3>3, <3>4 DEF Tokens
    <3>6. TokenSound(Consumed(c, p, n))
      BY <1>3, <3>2, <3>4 DEF Tokens, TokenSound
    <3> QED
      BY <3>1, <3>5, <3>6
  <2> QED
    BY <2>1, <2>2
<1>9. globalExplicitConsumerOffset' \in {globalExplicitConsumerOffset, globalExplicitConsumerOffset + 1}
  BY <1>2, <1>4 DEF VisitGains, tokenVars
<1> QED
  BY <1>1, <1>3, <1>5, <1>6, <1>7, <1>8, <1>9 DEF LoopMove

---------------------------------------------------------------------------
(* The whole *)

(* What consumer c holds, and what enqueuer t has still to signal. *)
HeldBy(c) == deq[c].need + (IF wait[c].pc = "more" THEN 1 ELSE 0)
UnsignalledBy(t) == IF enq[t].pc = "signal" THEN enq[t].count ELSE 0

LEMMA Sums ==
  ASSUME TypeInv
  PROVE  Held \in Nat /\ Unsignalled \in Nat /\ Value \in Int
<1>1. ASSUME NEW X, IsFiniteSet(X), NEW x \in [X -> Nat]
      PROVE  Total(x) \in Nat
  BY <1>1, FiniteUnits, FS_CardinalityType DEF Total
<1>2. ASSUME NEW c \in Consumers PROVE deq[c].need + (IF wait[c].pc = "more" THEN 1 ELSE 0) \in Nat
  <2>1. deq[c] \in Deqs
    BY DEF TypeInv, DequeueType
  <2>2. deq[c].need \in 0 .. MaxBulk
    BY <2>1 DEF Deqs
  <2> QED
    BY <2>2, BulkAssumption
<1>3. [c \in Consumers |-> deq[c].need + (IF wait[c].pc = "more" THEN 1 ELSE 0)] \in [Consumers -> Nat]
  BY <1>2
<1>4. ASSUME NEW t \in Enqueuers PROVE (IF enq[t].pc = "signal" THEN enq[t].count ELSE 0) \in Nat
  <2>1. enq[t] \in Enqs
    BY DEF TypeInv, EnqueueType, EnqType
  <2>2. enq[t].count \in 0 .. MaxBulk
    BY <2>1 DEF Enqs
  <2> QED
    BY <2>2, BulkAssumption
<1>5. [t \in Enqueuers |-> IF enq[t].pc = "signal" THEN enq[t].count ELSE 0] \in [Enqueuers -> Nat]
  BY <1>4
<1>6. Held \in Nat /\ Unsignalled \in Nat
  BY <1>1, <1>3, <1>5, QueueThreadsAssumption DEF Held, Unsignalled
<1>7. Value \in Int
  BY FS_Subset, FS_CardinalityType, QueueThreadsAssumption DEF Value, Waiting, SemaType, TypeInv
<1> QED
  BY <1>6, <1>7

LEMMA HeldStep ==
  ASSUME DequeueType, DequeueType', NEW c \in Consumers,
         \A d \in Consumers \ {c} : HeldBy(d)' = HeldBy(d)
  PROVE  Held \in Nat /\ Held' \in Nat /\ Held' = Held + HeldBy(c)' - HeldBy(c)
<1> DEFINE f == [d \in Consumers |-> HeldBy(d)]
           g == [d \in Consumers |-> HeldBy(d)']
<1>1. f \in [Consumers -> Nat] /\ g \in [Consumers -> Nat]
  <2>1. ASSUME NEW d \in Consumers PROVE HeldBy(d) \in Nat /\ HeldBy(d)' \in Nat
    <3>1. deq[d] \in Deqs /\ deq'[d] \in Deqs'
      BY DEF DequeueType
    <3>2. deq[d].need \in Nat
      BY <3>1, BulkAssumption DEF Deqs
    <3>3. deq'[d].need \in Nat
      BY <3>1, BulkAssumption DEF Deqs
    <3> QED
      BY <3>2, <3>3 DEF HeldBy
  <2> QED
    BY <2>1
<1>2. Held = Total(f) /\ Held' = Total(g)
  BY DEF Held, HeldBy
<1>3. g[c] = HeldBy(c)' /\ f[c] = HeldBy(c) /\ \A d \in Consumers \ {c} : g[d] = f[d]
  OBVIOUS
<1> HIDE DEF f, g
<1>4. ASSUME NEW x \in [Consumers -> Nat], NEW y \in [Consumers -> Nat], \A d \in Consumers \ {c} : y[d] = x[d]
      PROVE  Total(x) \in Nat /\ Total(y) \in Nat /\ Total(y) = Total(x) + y[c] - x[c]
  <2>1. IsFiniteSet(Units(x))
    BY QueueThreadsAssumption, FiniteUnits
  <2>2. ChangesAt(Consumers, x, y, c)
    BY <1>4, <2>1 DEF ChangesAt
  <2> QED
    BY <2>2, TotalStep
<1>5. Total(f) \in Nat /\ Total(g) \in Nat /\ Total(g) = Total(f) + g[c] - f[c]
  BY <1>1, <1>3, <1>4
<1> QED
  BY <1>2, <1>3, <1>5

LEMMA UnsignalledStep ==
  ASSUME EnqType, EnqType', NEW t \in Enqueuers,
         \A u \in Enqueuers \ {t} : UnsignalledBy(u)' = UnsignalledBy(u)
  PROVE  /\ Unsignalled \in Nat /\ Unsignalled' \in Nat
         /\ Unsignalled' = Unsignalled + UnsignalledBy(t)' - UnsignalledBy(t)
<1> DEFINE f == [d \in Enqueuers |-> UnsignalledBy(d)]
           g == [d \in Enqueuers |-> UnsignalledBy(d)']
<1>1. f \in [Enqueuers -> Nat] /\ g \in [Enqueuers -> Nat]
  <2>1. ASSUME NEW d \in Enqueuers PROVE UnsignalledBy(d) \in Nat /\ UnsignalledBy(d)' \in Nat
    <3>1. enq[d] \in Enqs /\ enq'[d] \in Enqs'
      BY DEF EnqType
    <3>2. enq[d].count \in 0 .. MaxBulk /\ enq'[d].count \in 0 .. MaxBulk
      BY <3>1 DEF Enqs
    <3> QED
      BY <3>2, BulkAssumption DEF UnsignalledBy
  <2> QED
    BY <2>1
<1>2. Unsignalled = Total(f) /\ Unsignalled' = Total(g)
  BY DEF Unsignalled, UnsignalledBy
<1>3. g[t] = UnsignalledBy(t)' /\ f[t] = UnsignalledBy(t) /\ \A d \in Enqueuers \ {t} : g[d] = f[d]
  OBVIOUS
<1> HIDE DEF f, g
<1>4. ASSUME NEW x \in [Enqueuers -> Nat], NEW y \in [Enqueuers -> Nat], \A d \in Enqueuers \ {t} : y[d] = x[d]
      PROVE  Total(x) \in Nat /\ Total(y) \in Nat /\ Total(y) = Total(x) + y[t] - x[t]
  <2>1. IsFiniteSet(Units(x))
    BY QueueThreadsAssumption, FiniteUnits
  <2>2. ChangesAt(Enqueuers, x, y, t)
    BY <1>4, <2>1 DEF ChangesAt
  <2> QED
    BY <2>2, TotalStep
<1>5. Total(f) \in Nat /\ Total(g) \in Nat /\ Total(g) = Total(f) + g[t] - f[t]
  BY <1>1, <1>3, <1>4
<1> QED
  BY <1>2, <1>3, <1>5

(* The elements of the producers' queues. *)
There == [i \in DOMAIN producers |-> producers[i].in - producers[i].out]

LEMMA ThereType ==
  ASSUME SharedType
  PROVE  /\ There \in [1 .. Len(producers) -> Nat] /\ IsFiniteSet(Units(There)) /\ InQueue \in Nat
         /\ InQueue = Total(There) /\ \A i \in 1 .. Len(producers) : There[i] = producers[i].in - producers[i].out
<1>1. DOMAIN producers = 1 .. Len(producers) /\ Len(producers) \in Nat
  BY LenProperties DEF SharedType
<1>2. ASSUME NEW i \in 1 .. Len(producers) PROVE producers[i].in - producers[i].out \in Nat
  <2>1. producers[i] \in Records /\ producers[i].out <= producers[i].in
    BY DEF SharedType
  <2> QED
    BY <2>1 DEF Records
<1>3. There \in [1 .. Len(producers) -> Nat] /\ \A i \in 1 .. Len(producers) : There[i] = producers[i].in - producers[i].out
  BY <1>1, <1>2 DEF There
<1>4. InQueue = Total(There)
  BY DEF InQueue, There
<1>5. IsFiniteSet(1 .. Len(producers))
  BY <1>1, FS_Interval
<1>6. ASSUME NEW X, IsFiniteSet(X), NEW x \in [X -> Nat]
      PROVE  IsFiniteSet(Units(x)) /\ Total(x) \in Nat
  BY <1>6, FiniteUnits, FS_CardinalityType DEF Total
<1>7. IsFiniteSet(Units(There)) /\ Total(There) \in Nat
  BY <1>3, <1>5, <1>6
<1> QED
  BY <1>3, <1>4, <1>7

LEMMA InQueueStep ==
  ASSUME SharedType, SharedType', NEW p \in 1 .. Len(producers), NEW q \in Records,
         producers' = [producers EXCEPT ![p] = q]
  PROVE  /\ InQueue \in Nat /\ InQueue' \in Nat
         /\ InQueue' = InQueue + (q.in - q.out) - (producers[p].in - producers[p].out)
<1> DEFINE X == 1 .. Len(producers)
<1>1. /\ Len(producers)' = Len(producers)
      /\ \A i \in X : producers'[i] = IF i = p THEN q ELSE producers[i]
  BY ExceptSeq DEF SharedType
<1>2. There \in [X -> Nat] /\ There' \in [X -> Nat] /\ InQueue = Total(There) /\ InQueue' = Total(There')
  <2>1. There \in [X -> Nat] /\ InQueue = Total(There)
    BY ThereType
  <2>2. (There \in [1 .. Len(producers) -> Nat] /\ InQueue = Total(There))'
    BY ThereType, PTL
  <2> QED
    BY <1>1, <2>1, <2>2
<1>3. /\ There[p] = producers[p].in - producers[p].out
      /\ There'[p] = q.in - q.out
      /\ \A i \in X \ {p} : There'[i] = There[i]
  BY <1>1, LenProperties DEF There, SharedType
<1> HIDE DEF X
<1>4. IsFiniteSet(X)
  BY Lengths, FS_Interval DEF X
<1>5. ASSUME NEW x \in [X -> Nat], NEW y \in [X -> Nat], \A d \in X \ {p} : y[d] = x[d]
      PROVE  Total(x) \in Nat /\ Total(y) \in Nat /\ Total(y) = Total(x) + y[p] - x[p]
  <2>1. IsFiniteSet(Units(x))
    BY <1>4, FiniteUnits
  <2>2. p \in X
    BY DEF X
  <2>3. ChangesAt(X, x, y, p)
    BY <1>5, <2>1, <2>2 DEF ChangesAt
  <2> QED
    BY <2>3, TotalStep
<1>6. Total(There) \in Nat /\ Total(There') \in Nat /\ Total(There') = Total(There) + There'[p] - There[p]
  BY <1>2, <1>3, <1>5
<1> QED
  BY <1>2, <1>3, <1>6

QueueInv == TypeInv /\ WakeupsOwed /\ UnitsBacked

(* A step of the loop around try_dequeue: the elements it brings are those *)
(* the consumer's units stood for. *)
LEMMA LoopInv ==
  ASSUME QueueInv, NEW c \in Consumers, LoopStep(c)
  PROVE  QueueInv' /\ ValueStep
<1> DEFINE d == deq[c]
<1>1. PassStep(c) /\ UNCHANGED <<m_count, m_sema, toRelease>>
      /\ IF deq'[c].pc = "idle" THEN WaitStep(c, NoWait) ELSE UNCHANGED wait
  BY DEF LoopStep
<1>2. SharedType /\ EnqueueType /\ EnqType /\ SemaType /\ DequeueType
  BY DEF QueueInv, TypeInv, EnqueueType
<1>3. d.pc # "idle" /\ wait[c].pc = "acquired"
  <2>1. d.pc # "idle"
    BY <1>1 DEF PassStep, Pass, ScoreTail, ScoreHead, Visit
  <2>2. d \in Deqs /\ DeqSound(d) /\ (wait[c].pc = "acquired" <=> d.need > 0)
    BY <1>2 DEF DequeueType
  <2> QED
    BY <2>1, <2>2, BulkAssumption DEF Deqs, DeqSound
<1>4. \E n \in Nat : /\ LoopMove(c, n)
                     /\ \/ n = 0 /\ UNCHANGED producers
                        \/ \E p \in 1 .. Len(producers) : Given(p, n)
  BY <1>1, <1>2, PassTypes, ScoreTailTypes, ScoreHeadTypes, VisitTypes DEF PassStep
<1>5. PICK n \in Nat : /\ LoopMove(c, n)
                       /\ \/ n = 0 /\ UNCHANGED producers
                          \/ \E p \in 1 .. Len(producers) : Given(p, n)
  BY <1>4
<1>6. PICK r \in Deqs : DeqSound(r) /\ DeqStep(c, r) /\ r.need = d.need - n
  BY <1>5 DEF LoopMove
<1>7. PICK k \in Tokens : TokenSound(k) /\ token' = [token EXCEPT ![c] = k]
  BY <1>5 DEF LoopMove
<1>8. /\ globalExplicitConsumerOffset' \in {globalExplicitConsumerOffset, globalExplicitConsumerOffset + 1}
      /\ UNCHANGED <<list, producerCount, hashVars, withToken, enq>>
  BY <1>5 DEF LoopMove
<1>9. deq'[c] = r /\ \A e \in Consumers \ {c} : deq'[e] = deq[e]
  BY <1>2, <1>6 DEF DeqStep, DequeueType
<1>10. SharedType' /\ Len(producers)' = Len(producers) /\ InQueue' = InQueue - n /\ InQueue \in Nat
  <2>1. CASE n = 0 /\ UNCHANGED producers
    <3>1. SharedType' /\ Len(producers)' = Len(producers) /\ InQueue' = InQueue
      BY <1>2, <1>8, <2>1 DEF SharedType, Records, Hashes, hashVars, InQueue
    <3>2. InQueue \in Nat
      BY <1>2, ThereType
    <3> QED
      BY <2>1, <3>1, <3>2
  <2>2. CASE \E p \in 1 .. Len(producers) : Given(p, n)
    <3>1. PICK p \in 1 .. Len(producers) : Given(p, n)
      BY <2>2
    <3> DEFINE o == producers[p]
               m == o.out + n
               q == [o EXCEPT !.out = m]
    <3>2. producers' = [producers EXCEPT ![p] = q] /\ n <= o.in - o.out
      BY <3>1 DEF Given
    <3>3. o \in Records /\ o.in \in Nat /\ o.out \in Nat
      <4>1. o \in Records
        BY <1>2 DEF SharedType
      <4> QED
        BY <4>1 DEF Records
    <3>4. m \in Nat /\ m <= o.in
      BY <3>2, <3>3
    <3> HIDE DEF o, m
    <3>5. q \in Records /\ q.out = m /\ q.in = o.in
      BY <3>3, <3>4 DEF Records
    <3> HIDE DEF q
    <3>6. SharedType' /\ Len(producers)' = Len(producers)
      BY <1>2, <1>8, <3>2, <3>4, <3>5, ProducerChanged
    <3>7. InQueue \in Nat /\ InQueue' = InQueue + (o.in - m) - (o.in - o.out)
      BY <1>2, <3>2, <3>5, <3>6, InQueueStep DEF o
    <3> QED
      BY <3>3, <3>6, <3>7 DEF m
  <2> QED
    BY <1>5, <2>1, <2>2
<1>11. EnqType'
  BY <1>2, <1>8, <1>10, EnqUnchanged DEF hashVars
<1>12. /\ wait' \in [Consumers -> Waits] /\ \A e \in Consumers : WaitSound(wait'[e])
       /\ \A e \in Consumers \ {c} : wait'[e] = wait[e]
       /\ wait'[c].pc = "acquired" <=> r.need > 0
       /\ wait'[c].pc \in {"idle", "acquired"}
  <2>1. NoWait \in Waits /\ WaitSound(NoWait) /\ NoWait.pc = "idle"
    BY BulkAssumption DEF Waits, NoWait, Modes, WaitSound
  <2>2. r.pc = "idle" <=> ~ (r.need > 0)
    BY <1>6, BulkAssumption DEF Deqs, DeqSound
  <2>3. CASE r.pc = "idle"
    BY <1>1, <1>2, <1>9, <2>1, <2>2, <2>3 DEF WaitStep, SemaType
  <2>4. CASE r.pc # "idle"
    BY <1>1, <1>2, <1>3, <1>9, <2>2, <2>4 DEF SemaType
  <2> QED
    BY <2>3, <2>4
<1>13. SemaType'
  BY <1>1, <1>2, <1>8, <1>12 DEF SemaType, Waits
<1>14. DequeueType'
  <2>1. globalExplicitConsumerOffset \in Nat /\ globalExplicitConsumerOffset' \in Nat
        /\ globalExplicitConsumerOffset <= globalExplicitConsumerOffset'
    BY <1>2, <1>8 DEF DequeueType
  <2> QED
    BY <1>2, <1>6, <1>7, <1>8, <1>12, <2>1, DeqStays
<1>15. UNCHANGED Waiting /\ UNCHANGED Owed
  BY <1>1, <1>3, <1>12 DEF Waiting, Owed
<1>16. WakeupsOwed' /\ Value' = Value
  BY <1>1, <1>15 DEF QueueInv, WakeupsOwed, Value
<1>17. Held \in Nat /\ Held' = Held - n
  <2>1. \A e \in Consumers \ {c} : HeldBy(e)' = HeldBy(e)
    BY <1>9, <1>12 DEF HeldBy
  <2>2. HeldBy(c) = d.need + 0 /\ HeldBy(c)' = r.need + 0
    BY <1>3, <1>9, <1>12 DEF HeldBy
  <2>3. Held \in Nat /\ Held' = Held + HeldBy(c)' - HeldBy(c)
    BY <1>2, <1>14, <2>1, HeldStep
  <2>4. d.need \in Nat /\ r.need \in Nat
    BY <1>2, BulkAssumption DEF DequeueType, Deqs
  <2> QED
    BY <1>6, <2>2, <2>3, <2>4
<1>18. Unsignalled' = Unsignalled /\ Unsignalled \in Nat /\ Value \in Int
  BY <1>2, <1>8, Sums DEF Unsignalled, TypeInv
<1>19. UnitsBacked'
  BY <1>10, <1>16, <1>17, <1>18 DEF QueueInv, UnitsBacked
<1> QED
  BY <1>10, <1>11, <1>13, <1>14, <1>16, <1>19 DEF QueueInv, TypeInv, EnqueueType, ValueStep

(* Units in hand are units held. *)
LEMMA TakeInv ==
  ASSUME QueueInv, NEW c \in Consumers, SemaType', WakeupsOwed', GripStep(c), wait[c].pc # "acquired",
         \A d \in Consumers \ {c} : wait'[d] = wait[d], Take(c)
  PROVE  QueueInv'
<1> DEFINE d == deq[c]
           w == wait'[c]
           r == IF w.pc = "acquired" THEN [d EXCEPT !.pc = "pass", !.max = w.max, !.need = w.got] ELSE d
<1>1. SharedType /\ EnqueueType /\ EnqType /\ SemaType /\ DequeueType
  BY DEF QueueInv, TypeInv, EnqueueType
<1>2. UNCHANGED <<producers, globalExplicitConsumerOffset, token, list, producerCount, hashVars, withToken, enq>>
  BY DEF Take, DequeueVars, tokenVars
<1>3. d \in Deqs /\ DeqSound(d) /\ ~ (d.need > 0) /\ token[c] \in Tokens /\ TokenSound(token[c])
  BY <1>1 DEF DequeueType
<1>4. w \in Waits /\ WaitSound(w)
  BY DEF SemaType, Waits
<1>5. d.need = 0 /\ w.max \in 1 .. MaxBulk /\ w.got \in 0 .. MaxBulk
  BY <1>3, <1>4, BulkAssumption DEF Deqs, Waits
<1>6. DeqStep(c, r)
  <2>1. CASE w.pc = "acquired"
    BY <2>1 DEF Take
  <2>2. CASE w.pc # "acquired"
    <3>1. deq' = deq
      BY <2>2 DEF Take
    <3> QED
      BY <1>1, <2>2, <3>1 DEF DeqStep, DequeueType
  <2> QED
    BY <2>1, <2>2
<1> HIDE DEF w, d
<1>7. r \in Deqs /\ DeqSound(r) /\ r.need = (IF w.pc = "acquired" THEN w.got ELSE 0)
  <2>1. CASE w.pc = "acquired"
    <3>1. r = [d EXCEPT !.pc = "pass", !.max = w.max, !.need = w.got] /\ w.got > 0
      BY <1>4, <2>1 DEF WaitSound
    <3>2. r \in Deqs
      BY <1>3, <1>5, <3>1 DEF Deqs
    <3>3. r.pc = "pass" /\ r.need = w.got /\ r.nonEmpty = d.nonEmpty /\ r.best = d.best /\ r.bestSize = d.bestSize
      BY <1>3, <3>1 DEF Deqs
    <3> QED
      BY <1>3, <1>5, <2>1, <3>1, <3>2, <3>3 DEF DeqSound
  <2>2. CASE w.pc # "acquired"
    BY <1>3, <1>5, <2>2
  <2> QED
    BY <2>1, <2>2
<1> HIDE DEF r
<1>8. DequeueType'
  <2>1. token' = [token EXCEPT ![c] = token[c]]
    BY <1>1, <1>2 DEF DequeueType
  <2>2. wait'[c].pc = "acquired" <=> r.need > 0
    BY <1>4, <1>5, <1>7 DEF w, WaitSound
  <2>3. globalExplicitConsumerOffset' \in Nat /\ globalExplicitConsumerOffset <= globalExplicitConsumerOffset'
    BY <1>1, <1>2 DEF DequeueType
  <2> QED
    BY <1>1, <1>2, <1>3, <1>6, <1>7, <2>1, <2>2, <2>3, DeqStays
<1>9. EnqueueType'
  <2>1. SharedType'
    BY <1>1, <1>2 DEF SharedType, Records, Hashes, hashVars
  <2>2. EnqType'
    BY <1>1, <1>2, EnqUnchanged DEF hashVars
  <2> QED
    BY <2>1, <2>2 DEF EnqueueType
<1>10. Held \in Nat /\ Held' = Held + Grip(w) - Grip(wait[c])
  <2>1. deq'[c] = r /\ \A e \in Consumers \ {c} : deq'[e] = deq[e]
    BY <1>1, <1>6 DEF DeqStep, DequeueType
  <2>2. \A e \in Consumers \ {c} : HeldBy(e)' = HeldBy(e)
    BY <2>1 DEF HeldBy
  <2>3. HeldBy(c) = Grip(wait[c]) /\ HeldBy(c)' = Grip(w)
    BY <1>4, <1>5, <1>7, <2>1, BulkAssumption DEF HeldBy, Grip, w, d, WaitSound
  <2> QED
    BY <1>1, <1>8, <2>2, <2>3, HeldStep
<1>11. InQueue' = InQueue /\ Unsignalled' = Unsignalled
  BY <1>2 DEF InQueue, Unsignalled
<1>12. Grip(w) \in Int /\ Grip(wait[c]) \in Int
  <2>1. ASSUME NEW x \in Waits PROVE Grip(x) \in Int
    BY BulkAssumption DEF Waits, Grip
  <2> QED
    BY <1>1, <1>4, <2>1 DEF SemaType
<1>13. Unsignalled \in Nat /\ Value \in Int /\ Value' = Value + Grip(wait[c]) - Grip(w)
  BY Sums DEF QueueInv, GripStep, w
<1>14. UnitsBacked'
  BY <1>10, <1>11, <1>12, <1>13 DEF QueueInv, UnitsBacked
<1> QED
  BY <1>8, <1>9, <1>14 DEF QueueInv, TypeInv

LEMMA DequeueInv ==
  ASSUME QueueInv, NEW c \in Consumers, Dequeue(c) \/ SemaStep(c)
  PROVE  QueueInv' /\ ValueStep
<1>1. Take(c) /\ UNCHANGED enq
  BY DEF Dequeue, SemaStep, Take, DequeueVars
<1>2. SemaType /\ WakeupsOwed
  BY DEF QueueInv, TypeInv
<1>3. /\ SemaType' /\ WakeupsOwed' /\ ValueStep /\ GripStep(c)
      /\ wait[c].pc # "acquired"
      /\ \E r : WaitStep(c, r)
  <2>1. CASE Dequeue(c)
    <3>1. PICK mode \in Modes, max \in {1, MaxBulk} : TryWaitMany(c, mode, max)
      BY <2>1 DEF Dequeue
    <3>2. wait[c].pc = "idle" /\ \E r : WaitStep(c, r)
      BY <3>1 DEF TryWaitMany
    <3> QED
      BY <1>1, <1>2, <3>1, <3>2, CallSema
  <2>2. CASE SemaStep(c)
    <3>1. SemaphoreStep(c)
      BY <2>2 DEF SemaStep
    <3>2. wait[c].pc # "acquired" /\ \E r : WaitStep(c, r)
      BY <3>1 DEF SemaphoreStep, SpinTake, SpinOver, SemaWait, SemaTimeout, Adjust, AdjustClaim, More
    <3> QED
      BY <1>1, <1>2, <3>1, <3>2, StepSema
  <2> QED
    BY <2>1, <2>2
<1>4. \A d \in Consumers \ {c} : wait'[d] = wait[d]
  BY <1>2, <1>3 DEF SemaType, WaitStep
<1> QED
  BY <1>1, <1>3, <1>4, TakeInv

(* A producer that is new, or marked, changes nothing about the elements. *)
LEMMA InQueueAppend ==
  ASSUME SharedType, SharedType', NEW t \in Enqueuers, producers' = Append(producers, NewProducer(t))
  PROVE  InQueue' = InQueue
<1> DEFINE n == Len(producers)
           q == NewProducer(t)
<1>1. q \in Records /\ q.in - q.out = 0
  BY DEF NewProducer, Records, SharedType
<1> HIDE DEF q
<1>2. /\ n \in Nat /\ Len(producers)' = n + 1 /\ producers'[n + 1] = q
      /\ \A i \in 1 .. n : producers'[i] = producers[i]
  BY <1>1, Lengths, AppendProperties DEF SharedType, q
<1>3. /\ There \in [1 .. n -> Nat] /\ InQueue = Total(There)
      /\ \A i \in 1 .. n : There[i] = producers[i].in - producers[i].out
  BY ThereType
<1>4. (/\ There \in [1 .. Len(producers) -> Nat] /\ InQueue = Total(There)
       /\ \A i \in 1 .. Len(producers) : There[i] = producers[i].in - producers[i].out)'
  BY ThereType, PTL
<1>5. /\ There' \in [1 .. n + 1 -> Nat] /\ InQueue' = Total(There')
      /\ \A i \in 1 .. n + 1 : There'[i] = producers'[i].in - producers'[i].out
  BY <1>2, <1>4
<1> DEFINE X == 1 .. n
           Y == 1 .. n + 1
<1>6. X \subseteq Y
  BY <1>2
<1>7. ASSUME NEW i \in Y PROVE There'[i] = IF i \in X THEN There[i] ELSE 0
  <2>1. CASE i \in X
    BY <1>2, <1>3, <1>5, <2>1
  <2>2. CASE i \notin X
    <3>1. i = n + 1
      BY <1>2, <2>2
    <3> QED
      BY <1>1, <1>2, <1>5, <2>2, <3>1
  <2> QED
    BY <2>1, <2>2
<1>8. There \in [X -> Nat] /\ There' = [i \in Y |-> IF i \in X THEN There[i] ELSE 0]
  BY <1>3, <1>5, <1>7
<1> HIDE DEF X, Y
<1>9. Extends(X, There, Y, There')
  BY <1>6, <1>8 DEF Extends
<1>10. Total(There') = Total(There)
  BY <1>9, TotalExtend
<1> QED
  BY <1>3, <1>5, <1>10

LEMMA InQueueMark ==
  ASSUME SharedType, SharedType', NEW p \in 1 .. Len(producers), NEW b \in BOOLEAN,
         producers' = [producers EXCEPT ![p].inactive = b]
  PROVE  InQueue' = InQueue
<1> DEFINE o == producers[p]
           q == [o EXCEPT !.inactive = b]
<1>1. o \in Records /\ producers' = [producers EXCEPT ![p] = q]
  BY DEF SharedType
<1> HIDE DEF o
<1>2. q \in Records /\ q.in = o.in /\ q.out = o.out
  BY <1>1 DEF Records
<1>3. o.in \in Nat /\ o.out \in Nat
  BY <1>1 DEF Records
<1> HIDE DEF q
<1>4. InQueue \in Nat /\ InQueue' = InQueue + (q.in - q.out) - (o.in - o.out)
  BY <1>1, <1>2, InQueueStep DEF o
<1> QED
  BY <1>2, <1>3, <1>4

(* What a step of an enqueuer before it signals does to the rest. *)
EnqEffect(t) ==
  /\ \E r : EnqStep(t, r)
  /\ enq[t].pc \notin {"signal", "post"}
  /\ InQueue' = InQueue + UnsignalledBy(t)'
  /\ Len(list) <= Len(list)' /\ \A i \in 1 .. Len(list) : list'[i] = list[i]
  /\ UNCHANGED <<deq, tokenVars, withToken>>

LEMMA EnqEffectQuiet ==
  ASSUME EnqueueType, EnqueueType', NEW t \in Enqueuers, InQueue' = InQueue, enq[t].pc \notin {"signal", "post"},
         UNCHANGED <<deq, tokenVars, withToken>>,
         \/ EnqReturn(t)
         \/ \E r : EnqStep(t, r) /\ r.pc # "signal",
         list' = list \/ \E p \in 1 .. Len(producers) : list' = Append(list, p)
  PROVE  EnqEffect(t)
<1>1. PICK r : EnqStep(t, r) /\ r.pc # "signal"
  BY DEF EnqReturn, NoEnq
<1>2. UnsignalledBy(t)' = 0
  BY <1>1 DEF UnsignalledBy, EnqStep, EnqueueType, EnqType
<1>3. InQueue \in Nat
  BY ThereType DEF EnqueueType
<1>4. Len(list) <= Len(list)' /\ \A i \in 1 .. Len(list) : list'[i] = list[i]
  <2>1. list \in Seq(1 .. Len(producers)) /\ Len(list) \in Nat
    BY Lengths DEF EnqueueType, SharedType
  <2>2. CASE list' = list
    BY <2>1, <2>2
  <2>3. CASE \E p \in 1 .. Len(producers) : list' = Append(list, p)
    BY <2>1, <2>3, AppendProperties
  <2> QED
    BY <2>2, <2>3
<1> QED
  BY <1>1, <1>2, <1>3, <1>4 DEF EnqEffect

LEMMA QuietSteps ==
  ASSUME EnqueueType, EnqueueType', NEW t \in Enqueuers,
         \/ LookUp(t) \/ Insert(t) \/ HashCount(t) \/ HashTry(t) \/ HashGrow(t) \/ HashFail(t)
         \/ HashUnlock(t) \/ HashRoom(t) \/ MakeToken(t) \/ \E n \in {1, MaxBulk} : Enqueue(t, n)
  PROVE  EnqEffect(t)
<1> DEFINE e == enq[t]
           Goes == EnqReturn(t) \/ \E r : EnqStep(t, r) /\ r.pc # "signal"
<1>1. e \in Enqs
  BY DEF EnqueueType, EnqType
<1>2. /\ UNCHANGED <<producers, list, deq, tokenVars, withToken>>
      /\ e.pc \notin {"signal", "post"}
  BY DEF LookUp, Insert, HashCount, HashTry, HashGrow, HashFail, HashUnlock, HashRoom, MakeToken, Enqueue,
         listVars, hashVars, EnqueueVars, EnqGoto
<1>3. Goes
  <2>1. CASE LookUp(t)
    <3> DEFINE h == Len(hashes)
               found == {k \in 1 .. h : t \in hashes[k].keys}
               k == CHOOSE k \in found : \A j \in found : j <= k
               p == hashes[k].value[t]
               l == IF k = h THEN "put" ELSE "insert"
               g == IF k = h THEN 0 ELSE h
               none == [e EXCEPT !.pc = "count", !.hash = h]
               some == [e EXCEPT !.pc = l, !.hash = g, !.producer = p]
    <3>1. EnqStep(t, IF found = {} THEN none ELSE some) /\ l \in {"put", "insert"}
      BY <2>1 DEF LookUp
    <3> HIDE DEF e, h, found, k, p, l, g
    <3>2. none.pc = "count" /\ some.pc = l
      BY <1>1 DEF Enqs
    <3> HIDE DEF none, some
    <3>3. EnqStep(t, none) \/ EnqStep(t, some)
      BY <3>1
    <3> QED
      BY <3>1, <3>2, <3>3
  <2>2. CASE Insert(t)
    <3>1. EnqStep(t, [e EXCEPT !.pc = "put", !.hash = 0, !.newCount = 0])
      BY <2>2 DEF Insert
    <3>2. [e EXCEPT !.pc = "put", !.hash = 0, !.newCount = 0].pc = "put"
      BY <1>1 DEF Enqs
    <3> QED
      BY <3>1, <3>2
  <2>3. CASE HashCount(t)
    <3>1. EnqStep(t, [e EXCEPT !.pc = "resize", !.newCount = implicitProducerHashCount + 1])
      BY <2>3 DEF HashCount
    <3>2. [e EXCEPT !.pc = "resize", !.newCount = implicitProducerHashCount + 1].pc = "resize"
      BY <1>1 DEF Enqs
    <3> QED
      BY <3>1, <3>2
  <2>4. CASE HashTry(t) \/ HashUnlock(t) \/ HashRoom(t)
    <3>1. PICK l \in {"grow", "room", "create", "resize"} :
            EnqStep(t, [e EXCEPT !.pc = l]) \/ EnqStep(t, [e EXCEPT !.pc = l, !.hash = Len(hashes)])
      BY <2>4 DEF HashTry, HashUnlock, HashRoom, EnqGoto
    <3> HIDE DEF e
    <3>2. [e EXCEPT !.pc = l].pc = l /\ [e EXCEPT !.pc = l, !.hash = Len(hashes)].pc = l
      BY <1>1 DEF Enqs
    <3> QED
      BY <3>1, <3>2
  <2>5. CASE HashGrow(t)
    <3>1. EnqStep(t, FailedCall(t)) \/ \E h : EnqStep(t, [e EXCEPT !.pc = "unlock", !.hash = h])
      BY <2>5 DEF HashGrow, FailedCall
    <3> HIDE DEF e
    <3>3. FailedCall(t).pc = "failed"
      BY FailedCallTypes
    <3>2. ASSUME NEW h PROVE [e EXCEPT !.pc = "unlock", !.hash = h].pc = "unlock"
      BY <1>1 DEF Enqs
    <3> QED
      BY <3>1, <3>2, <3>3
  <2>6. CASE HashFail(t)
    BY <2>6 DEF HashFail
  <2>7. CASE MakeToken(t)
    <3>1. EnqStep(t, [e EXCEPT !.pc = "scan", !.pos = Len(list)])
      BY <2>7 DEF MakeToken
    <3>2. [e EXCEPT !.pc = "scan", !.pos = Len(list)].pc = "scan"
      BY <1>1 DEF Enqs
    <3> QED
      BY <3>1, <3>2
  <2>8. CASE \E n \in {1, MaxBulk} : Enqueue(t, n)
    <3>1. PICK n \in {1, MaxBulk} : \/ EnqStep(t, [e EXCEPT !.pc = "put", !.count = n, !.producer = e.token])
                                    \/ EnqStep(t, [e EXCEPT !.pc = "lookup", !.count = n])
      BY <2>8 DEF Enqueue
    <3>2. [e EXCEPT !.pc = "put", !.count = n, !.producer = e.token].pc = "put"
      BY <1>1 DEF Enqs
    <3>3. [e EXCEPT !.pc = "lookup", !.count = n].pc = "lookup"
      BY <1>1 DEF Enqs
    <3> QED
      BY <3>1, <3>2, <3>3
  <2> HIDE DEF Goes
  <2> QED
    BY <2>1, <2>2, <2>3, <2>4, <2>5, <2>6, <2>7, <2>8
<1>4. InQueue' = InQueue
  BY <1>2 DEF InQueue
<1> QED
  BY <1>2, <1>3, <1>4, EnqEffectQuiet

LEMMA ProducerEffects ==
  ASSUME EnqueueType, EnqueueType', NEW t \in Enqueuers,
         Scan(t) \/ Create(t) \/ Link(t) \/ DropToken(t)
  PROVE  EnqEffect(t)
<1> DEFINE e == enq[t]
           Goes == EnqReturn(t) \/ \E r : EnqStep(t, r) /\ r.pc # "signal"
<1>1. e \in Enqs /\ SharedType /\ SharedType' /\ EnqSound(t, e)
  BY DEF EnqueueType, EnqType
<1>2. UNCHANGED <<deq, tokenVars, withToken>> /\ e.pc \notin {"signal", "post"}
  BY DEF Scan, Create, Link, DropToken, EnqueueVars
<1>3. ASSUME NEW l, NEW k
      PROVE  /\ [e EXCEPT !.pc = l].pc = l /\ [e EXCEPT !.pos = e.pos - 1].pc = e.pc
             /\ [NoEnq EXCEPT !.token = k].pc = "idle" /\ NoEnq.pc = "idle"
             /\ [e EXCEPT !.pc = l, !.producer = k].pc = l
  BY <1>1 DEF Enqs, NoEnq
<1>4. CASE Scan(t)
  <2> DEFINE p == list[e.pos]
  <2>1. UNCHANGED list /\ e.pc = "scan"
    BY <1>4 DEF Scan, listVars
  <2>2. CASE UNCHANGED producers
    <3>1. \/ EnqStep(t, [e EXCEPT !.pc = "create"])
          \/ \E k : EnqStep(t, [NoEnq EXCEPT !.token = k])
          \/ EnqStep(t, [e EXCEPT !.pos = e.pos - 1])
      BY <1>4 DEF Scan, EnqGoto
    <3> HIDE DEF e
    <3>2. [e EXCEPT !.pc = "create"].pc = "create" /\ [e EXCEPT !.pos = e.pos - 1].pc = e.pc
      BY <1>1 DEF Enqs
    <3>3. ASSUME NEW k PROVE [NoEnq EXCEPT !.token = k].pc = "idle"
      BY DEF NoEnq
    <3>4. Goes
      BY <2>1, <3>1, <3>2, <3>3
    <3>5. InQueue' = InQueue
      BY <2>2 DEF InQueue
    <3> QED
      BY <1>2, <2>1, <3>4, <3>5, EnqEffectQuiet DEF e
  <2>3. CASE e.pos # 0 /\ producers' = [producers EXCEPT ![p].inactive = FALSE] /\ EnqStep(t, [NoEnq EXCEPT !.token = p])
    <3>1. e.pos \in 1 .. Len(list)
      BY <1>1, <2>3, Lengths DEF Enqs
    <3>2. p \in 1 .. Len(producers)
      BY <1>1, <3>1, LenProperties DEF SharedType
    <3>3. InQueue' = InQueue
      BY <1>1, <2>3, <3>2, InQueueMark
    <3>4. Goes
      BY <1>3, <2>3
    <3> QED
      BY <1>2, <2>1, <3>3, <3>4, EnqEffectQuiet
  <2> QED
    BY <1>4, <2>2, <2>3 DEF Scan
<1>5. CASE Create(t)
  <2>1. UNCHANGED list
    BY <1>5 DEF Create
  <2>2. CASE /\ producers' = Append(producers, NewProducer(t))
             /\ EnqStep(t, [e EXCEPT !.pc = "link", !.producer = Len(producers) + 1])
    <3>1. InQueue' = InQueue
      BY <1>1, <2>2, InQueueAppend
    <3> HIDE DEF e
    <3>2. [e EXCEPT !.pc = "link", !.producer = Len(producers) + 1].pc = "link"
      BY <1>1 DEF Enqs
    <3>3. Goes
      BY <2>2, <3>2
    <3> QED
      BY <1>2, <2>1, <3>1, <3>3, EnqEffectQuiet DEF e
  <2>3. CASE EnqReturn(t) /\ UNCHANGED producers
    <3>1. InQueue' = InQueue
      BY <2>3 DEF InQueue
    <3> QED
      BY <1>2, <2>1, <2>3, <3>1, EnqEffectQuiet
  <2> QED
    BY <1>5, <2>2, <2>3 DEF Create
<1>6. CASE Link(t)
  <2>1. e.pc = "link" /\ list' = Append(list, e.producer) /\ UNCHANGED producers
    BY <1>6 DEF Link
  <2>2. e.producer \in 1 .. Len(producers)
    BY <1>1, <2>1, Lengths DEF Enqs, EnqSound, None
  <2>3. EnqStep(t, [NoEnq EXCEPT !.token = e.producer]) \/ EnqStep(t, [e EXCEPT !.pc = "insert"])
    BY <1>6 DEF Link, EnqGoto
  <2>4. Goes
    <3> HIDE DEF e
    <3>1. CASE EnqStep(t, [NoEnq EXCEPT !.token = e.producer])
      <4>1. [NoEnq EXCEPT !.token = e.producer].pc # "signal"
        BY <1>3
      <4> QED
        BY <3>1, <4>1
    <3>2. CASE EnqStep(t, [e EXCEPT !.pc = "insert"])
      <4>1. [e EXCEPT !.pc = "insert"].pc # "signal"
        BY <1>3
      <4> QED
        BY <3>2, <4>1
    <3> QED
      BY <2>3, <3>1, <3>2 DEF e
  <2>5. InQueue' = InQueue
    BY <2>1 DEF InQueue
  <2> QED
    BY <1>2, <2>1, <2>2, <2>4, <2>5, EnqEffectQuiet
<1>7. CASE DropToken(t)
  <2>1. /\ UNCHANGED list /\ EnqStep(t, NoEnq) /\ e.token # None
        /\ producers' = [producers EXCEPT ![e.token].inactive = TRUE]
    BY <1>7 DEF DropToken, listVars
  <2>2. e.token \in 1 .. Len(producers)
    BY <1>1, <2>1, Lengths DEF Enqs, None
  <2>3. InQueue' = InQueue
    BY <1>1, <2>1, <2>2, InQueueMark
  <2>4. Goes
    BY <1>3, <2>1
  <2> QED
    BY <1>2, <2>1, <2>3, <2>4, EnqEffectQuiet
<1> QED
  BY <1>4, <1>5, <1>6, <1>7


LEMMA PutEffect ==
  ASSUME EnqueueType, EnqueueType', NEW t \in Enqueuers, Put(t)
  PROVE  EnqEffect(t)
<1> DEFINE e == enq[t]
           p == e.producer
           n == e.count
           o == producers[p]
           k == o.in + n
           q == [o EXCEPT !.in = k]
           r == [e EXCEPT !.pc = "signal"]
<1>1. e \in Enqs /\ SharedType /\ SharedType' /\ EnqSound(t, e) /\ enq \in [Enqueuers -> Enqs]
  BY DEF EnqueueType, EnqType
<1>2. UNCHANGED <<list, deq, tokenVars, withToken>> /\ e.pc = "put"
  BY DEF Put, EnqueueVars, listVars
<1>3. CASE producers' = [producers EXCEPT ![p] = q] /\ EnqStep(t, r)
  <2>1. p \in 1 .. Len(producers) /\ n \in Nat
    BY <1>1, <1>2, Lengths, BulkAssumption DEF Enqs, EnqSound, None
  <2>2. o \in Records
    BY <1>1, <2>1 DEF SharedType
  <2>3. o.in \in Nat /\ o.out \in Nat /\ k \in Nat
    <3>1. o.in \in Nat /\ o.out \in Nat
      BY <2>2 DEF Records
    <3> QED
      BY <2>1, <3>1
  <2> HIDE DEF o, p, n, k, e
  <2>4. q \in Records /\ q.in = k /\ q.out = o.out
    BY <2>2, <2>3 DEF Records
  <2> HIDE DEF q
  <2>5. InQueue \in Nat /\ InQueue' = InQueue + (k - o.out) - (o.in - o.out)
    BY <1>1, <1>3, <2>1, <2>4, InQueueStep DEF o
  <2>6. r.pc = "signal" /\ r.count = n
    BY <1>1 DEF Enqs, n
  <2>7. enq'[t] = r
    BY <1>1, <1>3 DEF EnqStep
  <2>8. UnsignalledBy(t)' = n
    BY <2>6, <2>7 DEF UnsignalledBy
  <2>9. InQueue' = InQueue + UnsignalledBy(t)'
    BY <2>1, <2>3, <2>5, <2>8 DEF k
  <2> QED
    BY <1>1, <1>2, <1>3, <2>9, Lengths DEF EnqEffect, e
<1>4. CASE EnqReturn(t) /\ UNCHANGED producers
  <2>1. InQueue' = InQueue
    BY <1>4 DEF InQueue
  <2> QED
    BY <1>2, <1>4, <2>1, EnqEffectQuiet
<1> QED
  BY <1>3, <1>4 DEF Put, EnqGoto

(* A step of an enqueuer before it signals leaves the semaphore and the    *)
(* consumers alone; what it puts is what it has to signal. *)
LEMMA EnqueuerInv ==
  ASSUME QueueInv, NEW t \in Enqueuers, EnqueueType', EnqEffect(t), UNCHANGED semaVars
  PROVE  QueueInv' /\ ValueStep
<1>1. SharedType /\ EnqueueType /\ EnqType /\ EnqType' /\ SharedType' /\ SemaType /\ DequeueType
  BY DEF QueueInv, TypeInv, EnqueueType
<1>2. UNCHANGED <<m_count, m_sema, wait, toRelease, deq, tokenVars>>
  BY DEF semaVars, EnqEffect
<1>3. enq[t].pc \notin {"signal", "post"} /\ \A u \in Enqueuers \ {t} : enq'[u] = enq[u]
  BY <1>1 DEF EnqEffect, EnqType, EnqStep
<1>4. SemaType'
  BY <1>1, <1>2, <1>3 DEF SemaType, Waits
<1>5. DequeueType'
  <2>1. Len(list)' \in Nat
    BY <1>1, LenProperties DEF SharedType
  <2> QED
    BY <1>1, <1>2, <2>1, ListGrows DEF EnqEffect
<1>6. UNCHANGED Value /\ WakeupsOwed'
  BY <1>2 DEF Value, WakeupsOwed, Waiting, Owed, QueueInv
<1>7. Held' = Held /\ Held \in Nat /\ Value \in Int
  BY <1>2, Sums DEF Held, QueueInv
<1>8. Unsignalled \in Nat /\ Unsignalled' = Unsignalled + UnsignalledBy(t)' - UnsignalledBy(t)
  <2>1. \A u \in Enqueuers \ {t} : UnsignalledBy(u)' = UnsignalledBy(u)
    BY <1>3 DEF UnsignalledBy
  <2> QED
    BY <1>1, <2>1, UnsignalledStep
<1>9. UnsignalledBy(t) = 0 /\ UnsignalledBy(t)' \in Nat
  <2>1. enq'[t].count \in 0 .. MaxBulk
    BY <1>1 DEF EnqType, Enqs
  <2> QED
    BY <1>3, <2>1, BulkAssumption DEF UnsignalledBy
<1>10. InQueue' = InQueue + UnsignalledBy(t)' /\ InQueue \in Nat
  BY <1>1, ThereType DEF EnqEffect
<1>11. UnitsBacked'
  BY <1>6, <1>7, <1>8, <1>9, <1>10 DEF UnitsBacked, QueueInv
<1> QED
  BY <1>4, <1>5, <1>6, <1>11 DEF QueueInv, TypeInv, ValueStep

(* A signal turns what was put into units. *)
LEMMA SignalInv ==
  ASSUME QueueInv, NEW t \in Enqueuers, SignalElements(t) \/ PostElements(t)
  PROVE  QueueInv' /\ ValueStep
<1> DEFINE e == enq[t]
           n == UnsignalledBy(t)
<1>1. SharedType /\ EnqueueType /\ EnqType /\ SemaType /\ DequeueType
  BY DEF QueueInv, TypeInv, EnqueueType
<1>2. Signalling(t)
  BY DEF SignalElements, PostElements
<1>3. EnqueueType' /\ EnqType' /\ SharedType'
  BY <1>1, <1>2, SignallingTypes DEF EnqueueType
<1>4. UNCHANGED <<producers, list, deq, tokenVars>>
  BY <1>2 DEF Signalling, listVars, EnqueueVars
<1>5. PICK r : /\ EnqStep(t, r) /\ r.pc # "signal"
               /\ toRelease'[t] = 0 \/ r.pc = "post"
  <2>1. e \in Enqs
    BY <1>1 DEF EnqType
  <2>2. CASE toRelease'[t] = 0
    BY <1>2, <2>2 DEF Signalling, EnqReturn, NoEnq
  <2>3. CASE toRelease'[t] # 0
    <3>1. EnqStep(t, [e EXCEPT !.pc = "post", !.count = 0])
      BY <1>2, <2>3 DEF Signalling
    <3> HIDE DEF e
    <3>2. [e EXCEPT !.pc = "post", !.count = 0].pc = "post"
      BY <2>1 DEF Enqs
    <3> QED
      BY <3>1, <3>2
  <2> QED
    BY <2>2, <2>3
<1>6. enq'[t] = r /\ \A u \in Enqueuers \ {t} : enq'[u] = enq[u]
  BY <1>1, <1>5 DEF EnqType, EnqStep
<1>7. /\ WakeupsOwed' /\ ValueStep /\ Value' = Value + n /\ n \in Nat
      /\ m_count' \in Int /\ m_sema' \in Nat /\ wait' = wait
      /\ toRelease' \in [Enqueuers -> 0 .. MaxBulk]
      /\ \A u \in Enqueuers : u # t => toRelease'[u] = toRelease[u]
  <2>1. e \in Enqs /\ EnqSound(t, e) /\ toRelease[t] \in 0 .. MaxBulk /\ (toRelease[t] > 0 => e.pc = "post")
    BY <1>1 DEF EnqType, SemaType
  <2>2. CASE SignalElements(t)
    <3>1. e.pc = "signal" /\ Signal(t, e.count)
      BY <2>2 DEF SignalElements
    <3>2. e.count \in 1 .. MaxBulk /\ toRelease[t] = 0
      BY <2>1, <3>1, BulkAssumption DEF Enqs, EnqSound
    <3>3. n = e.count /\ n \in Nat
      BY <3>1, <3>2, BulkAssumption DEF UnsignalledBy
    <3> QED
      BY <1>1, <3>1, <3>2, <3>3, SignalSema DEF QueueInv
  <2>3. CASE PostElements(t)
    <3>1. n = 0 /\ Post(t)
      BY <2>3 DEF PostElements, UnsignalledBy
    <3>2. Value \in Int
      BY Sums DEF QueueInv
    <3> QED
      BY <1>1, <3>1, <3>2, PostSema DEF QueueInv
  <2> QED
    BY <2>2, <2>3
<1>8. SemaType'
  <2>1. \A u \in Enqueuers : toRelease'[u] > 0 => enq'[u].pc = "post"
    BY <1>1, <1>5, <1>6, <1>7 DEF SemaType
  <2> QED
    BY <1>1, <1>7, <2>1 DEF SemaType, Waits
<1>9. DequeueType'
  BY <1>1, <1>4, <1>7, Lengths, ListGrows
<1>10. Unsignalled \in Nat /\ Unsignalled' = Unsignalled - n
  <2>1. \A u \in Enqueuers \ {t} : UnsignalledBy(u)' = UnsignalledBy(u)
    BY <1>6 DEF UnsignalledBy
  <2>2. Unsignalled \in Nat /\ Unsignalled' = Unsignalled + UnsignalledBy(t)' - UnsignalledBy(t)
    BY <1>1, <1>3, <2>1, UnsignalledStep
  <2>3. UnsignalledBy(t)' = 0
    BY <1>5, <1>6 DEF UnsignalledBy
  <2> QED
    BY <1>7, <2>2, <2>3
<1>11. Held' = Held /\ InQueue' = InQueue
  BY <1>4, <1>7 DEF Held, InQueue
<1>12. Held \in Nat /\ Value \in Int
  BY Sums DEF QueueInv
<1> HIDE DEF n
<1>13. UnitsBacked'
  BY <1>7, <1>10, <1>11, <1>12 DEF QueueInv, UnitsBacked
<1> QED
  BY <1>3, <1>7, <1>8, <1>9, <1>13 DEF QueueInv, TypeInv


LEMMA InitInv ==
  ASSUME Init
  PROVE  QueueInv
<1>1. /\ producers = <<>> /\ list = <<>> /\ producerCount = 0
      /\ hashes = <<NewHash(INITIAL_IMPLICIT_PRODUCER_HASH_SIZE)>>
      /\ implicitProducerHashCount = 0 /\ implicitProducerHashResizeInProgress = FALSE
      /\ globalExplicitConsumerOffset = 0
      /\ withToken \in [Enqueuers \cup Consumers -> BOOLEAN]
      /\ enq = [t \in Enqueuers |-> NoEnq] /\ deq = [c \in Consumers |-> NoDeq]
      /\ token \in [Consumers -> {NoToken(i) : i \in 0 .. Cardinality(Consumers)}]
  BY DEF Init, QueueInit
<1>2. /\ m_count = 0 /\ m_sema = 0
      /\ wait = [c \in Consumers |-> NoWait]
      /\ toRelease = [t \in Enqueuers |-> 0]
  BY DEF Init, SemaInit
<1>3. SharedType
  <2> DEFINE h == NewHash(INITIAL_IMPLICIT_PRODUCER_HASH_SIZE)
  <2>1. h \in Hashes /\ h.keys = {}
    BY <1>1, HashAssumption DEF NewHash, Hashes, None
  <2> HIDE DEF h
  <2>2. hashes = <<h>> /\ hashes \in Seq(Hashes) /\ Len(hashes) = 1 /\ hashes[1] = h
    BY <1>1, <2>1 DEF h
  <2>3. hashes # <<>> /\ \A k \in 1 .. Len(hashes) : hashes[k].keys = {}
    BY <2>1, <2>2
  <2>4. producers \in Seq(Records) /\ list \in Seq(1 .. Len(producers)) /\ Len(producers) = 0
    BY <1>1
  <2>5. implicitProducerHashResizeInProgress \in BOOLEAN
    BY <1>1
  <2>6. \A i \in 1 .. Len(producers) : producers[i].out <= producers[i].in
    BY <2>4
  <2>7. \A k \in 1 .. Len(hashes) : \A t \in hashes[k].keys : hashes[k].value[t] # None /\ ~withToken[t]
    BY <2>3
  <2>8. producerCount = Len(producers) /\ implicitProducerHashCount \in Int
    BY <1>1, <2>4
  <2> QED
    BY <1>1, <2>2, <2>3, <2>4, <2>5, <2>6, <2>7, <2>8, Zenon DEF SharedType
<1>4. EnqType
  <2>1. NoEnq \in Enqs
    BY <1>1, BulkAssumption DEF NoEnq, Enqs, None
  <2>2. \A t \in Enqueuers : EnqSound(t, NoEnq)
    BY DEF EnqSound, NoEnq, Looking
  <2> QED
    BY <1>1, <2>1, <2>2 DEF EnqType
<1>5. SemaType
  <2>1. NoWait \in Waits /\ WaitSound(NoWait)
    BY BulkAssumption DEF NoWait, Waits, Modes, WaitSound
  <2> QED
    BY <1>2, <2>1, BulkAssumption DEF SemaType
<1>6. DequeueType
  <2>1. NoDeq \in Deqs
    BY <1>1, BulkAssumption DEF NoDeq, Deqs, None
  <2>2. DeqSound(NoDeq) /\ NoDeq.need = 0
    BY DEF NoDeq, DeqSound
  <2>3. Cardinality(Consumers) \in Nat
    BY QueueThreadsAssumption, FS_CardinalityType
  <2>4. ASSUME NEW i \in 0 .. Cardinality(Consumers)
        PROVE  NoToken(i) \in Tokens /\ TokenSound(NoToken(i))
    BY <1>1, <2>3 DEF NoToken, Tokens, TokenSound, None
  <2>5. token \in [Consumers -> Tokens] /\ \A c \in Consumers : TokenSound(token[c])
    BY <1>1, <2>4
  <2>6. \A c \in Consumers : wait[c].pc # "acquired" /\ deq[c] = NoDeq
    BY <1>1, <1>2 DEF NoWait
  <2> QED
    BY <1>1, <2>1, <2>2, <2>5, <2>6 DEF DequeueType
<1>7. WakeupsOwed /\ Value = 0
  <2>1. Waiting = {}
    BY <1>2 DEF Waiting, NoWait
  <2>2. Owed = {}
    BY <1>2, BulkAssumption DEF Owed
  <2> QED
    BY <1>2, <2>1, <2>2, FS_EmptySet DEF WakeupsOwed, Value
<1>8. UnitsBacked
  <2>1. Held = 0
    <3>1. [c \in Consumers |-> deq[c].need + (IF wait[c].pc = "more" THEN 1 ELSE 0)] = [c \in Consumers |-> 0]
      BY <1>1, <1>2 DEF NoDeq, NoWait
    <3> QED
      BY <3>1, TotalZero DEF Held
  <2>2. Unsignalled = 0
    <3>1. [t \in Enqueuers |-> IF enq[t].pc = "signal" THEN enq[t].count ELSE 0] = [t \in Enqueuers |-> 0]
      BY <1>1 DEF NoEnq
    <3> QED
      BY <3>1, TotalZero DEF Unsignalled
  <2>3. InQueue = 0
    <3>1. [i \in DOMAIN producers |-> producers[i].in - producers[i].out] = [i \in {} |-> 0]
      BY <1>1
    <3> QED
      BY <3>1, TotalZero DEF InQueue
  <2> QED
    BY <1>7, <2>1, <2>2, <2>3 DEF UnitsBacked
<1> QED
  BY <1>3, <1>4, <1>5, <1>6, <1>7, <1>8 DEF QueueInv, TypeInv, EnqueueType

LEMMA StepInv ==
  ASSUME QueueInv, [Next]_vars
  PROVE  QueueInv' /\ ValueStep
<1>1. EnqueueType
  BY DEF QueueInv, TypeInv
<1>2. CASE Call
  <2>1. CASE \E c \in Consumers : Dequeue(c)
    BY <2>1, DequeueInv
  <2>2. ASSUME NEW t \in Enqueuers, UNCHANGED semaVars,
               MakeToken(t) \/ DropToken(t) \/ \E n \in {1, MaxBulk} : Enqueue(t, n)
        PROVE  QueueInv' /\ ValueStep
    <3>1. EnqueueType'
      BY <1>1, <2>2, MakeTokenTypes, DropTokenTypes, EnqueueTypes
    <3>2. EnqEffect(t)
      BY <1>1, <2>2, <3>1, QuietSteps, ProducerEffects
    <3> QED
      BY <2>2, <3>1, <3>2, EnqueuerInv
  <2> QED
    BY <1>2, <2>1, <2>2 DEF Call
<1>3. ASSUME NEW c \in Consumers, ConsumerStep(c)
      PROVE  QueueInv' /\ ValueStep
  BY <1>3, DequeueInv, LoopInv DEF ConsumerStep
<1>4. ASSUME NEW t \in Enqueuers, EnqueuerStep(t)
      PROVE  QueueInv' /\ ValueStep
  <2>1. CASE ProducerStep(t) /\ UNCHANGED semaVars
    <3>1. EnqueueType'
      BY <1>1, <2>1, ProducerStepTypes
    <3>2. EnqEffect(t)
      BY <1>1, <2>1, <3>1, QuietSteps, ProducerEffects, PutEffect DEF ProducerStep
    <3> QED
      BY <2>1, <3>1, <3>2, EnqueuerInv
  <2> QED
    BY <1>4, <2>1, SignalInv DEF EnqueuerStep
<1>5. CASE UNCHANGED vars
  <2>1. UNCHANGED <<producers, list, producerCount, hashes, implicitProducerHashCount,
                    implicitProducerHashResizeInProgress, globalExplicitConsumerOffset, withToken, enq,
                    deq, token, m_count, m_sema, wait, toRelease>>
    BY <1>5 DEF vars, queueVars, semaVars, hashVars, tokenVars
  <2>2. SharedType' /\ EnqType'
    BY <1>1, <2>1 DEF EnqueueType, SharedType, EnqType, Enqs, Records, Hashes, EnqSound
  <2>3. SemaType'
    BY <2>1 DEF QueueInv, TypeInv, SemaType, Waits, WaitSound
  <2>4. DequeueType'
    BY <1>1, <2>1, Lengths, ListGrows DEF QueueInv, TypeInv, EnqueueType, tokenVars
  <2>5. UNCHANGED Value /\ WakeupsOwed' /\ UnitsBacked'
    BY <2>1 DEF QueueInv, WakeupsOwed, UnitsBacked, Value, Waiting, Owed, Held, Unsignalled, InQueue
  <2> QED
    BY <2>2, <2>3, <2>4, <2>5 DEF QueueInv, TypeInv, EnqueueType, ValueStep
<1> QED
  BY <1>2, <1>3, <1>4, <1>5 DEF Next

(* Every variable of the queue keeps its type, whatever the threads: a     *)
(* call always has the producer, the table and the count its label stands  *)
(* for, and consumers visit linked producers only. *)
THEOREM QueueTyped == Spec => []TypeInv
<1>1. Init => QueueInv
  BY InitInv
<1>2. QueueInv /\ [Next]_vars => QueueInv'
  BY StepInv
<1>3. QueueInv => TypeInv
  BY DEF QueueInv
<1> QED
  BY <1>1, <1>2, <1>3, PTL DEF Spec

(* LightweightSemaphore: every thread counted as waiting is owed exactly   *)
(* one wake-up, for any number of waiters, signallers and units. *)
THEOREM NoWakeupLost == Spec => []WakeupsOwed
<1>1. Init => QueueInv
  BY InitInv
<1>2. QueueInv /\ [Next]_vars => QueueInv'
  BY StepInv
<1>3. QueueInv => WakeupsOwed
  BY DEF QueueInv
<1> QED
  BY <1>1, <1>2, <1>3, PTL DEF Spec

(* BlockingConcurrentQueue: each unit stands for one element, so that the  *)
(* loop around try_dequeue always has an element to find. *)
THEOREM EveryUnitBacked == Spec => []UnitsBacked
<1>1. Init => QueueInv
  BY InitInv
<1>2. QueueInv /\ [Next]_vars => QueueInv'
  BY StepInv
<1>3. QueueInv => UnitsBacked
  BY DEF QueueInv
<1> QED
  BY <1>1, <1>2, <1>3, PTL DEF Spec

(* LightweightSemaphore, as the queue uses it, implements Semaphore: no    *)
(* wait ever takes a unit that was not there. *)
THEOREM SemaphoreImplemented == Spec => ImplementsSemaphore
<1>1. Init => QueueInv
  BY InitInv
<1>2. QueueInv /\ [Next]_vars => QueueInv' /\ [Abstract!Release \/ Abstract!Acquire]_Value
  BY StepInv DEF ValueStep
<1>3. Init => Value = 0
  <2> SUFFICES ASSUME Init PROVE Value = 0
    OBVIOUS
  <2>1. Waiting = {} /\ m_count = 0
    BY DEF Init, SemaInit, Waiting, NoWait
  <2> QED
    BY <2>1, FS_EmptySet DEF Value
<1> QED
  BY <1>1, <1>2, <1>3, PTL DEF Spec, ImplementsSemaphore, Abstract!SemaphoreSpec

---------------------------------------------------------------------------
(* Which producer a thread works on. *)

(* The producers a thread's id leads to in the tables, and all it may      *)
(* enqueue to. *)
Values(t) == {hashes[h].value[t] : h \in {k \in 1 .. Len(hashes) : t \in hashes[k].keys}}
Listed(t) == \E h \in 1 .. Len(hashes) : t \in hashes[h].keys
Mine(t) == Uses(t) \cup Values(t)

Unlisted == {"count", "resize", "grow", "unlock", "room", "create"}
Early == Unlisted \cup {"idle", "lookup", "scan", "failed"}

(* What a thread at r knows of producers: only threads that use tokens     *)
(* have one, and a thread that goes for an implicit producer has none. *)
UseSound(t, r) ==
  /\ r.token # None => withToken[t]
  /\ r.pc \in Early => r.producer = None
  /\ r.pc \in Unlisted /\ ~withToken[t] => ~Listed(t)

(* A producer is one thread's, is of that thread's kind and is not free    *)
(* for another; a thread without a token has one producer at most. *)
Exclusive(t) ==
  \A i \in Mine(t) :
    /\ ~producers[i].inactive
    /\ producers[i].isExplicit <=> withToken[t]
    /\ \A u \in Enqueuers : i \in Mine(u) => u = t
    /\ ~withToken[t] => \A j \in Mine(t) : j = i

OwnInv == \A t \in Enqueuers : UseSound(t, enq[t]) /\ Exclusive(t)

LEMMA MineTypes ==
  ASSUME EnqueueType, NEW t \in Enqueuers
  PROVE  Mine(t) \subseteq 1 .. Len(producers) /\ Values(t) \subseteq 1 .. Len(producers)
<1>1. Uses(t) \subseteq 1 .. Len(producers)
  <2>1. enq[t] \in Enqs
    BY DEF EnqueueType, EnqType
  <2>2. enq[t].token \in 0 .. Len(producers) /\ enq[t].producer \in 0 .. Len(producers)
    BY <2>1 DEF Enqs
  <2> QED
    BY <2>2, Lengths DEF Uses, None, EnqueueType
<1>2. ASSUME NEW h \in 1 .. Len(hashes), t \in hashes[h].keys PROVE hashes[h].value[t] \in 1 .. Len(producers)
  <2>1. hashes[h] \in Hashes /\ hashes[h].value[t] # None
    BY <1>2, LenProperties DEF EnqueueType, SharedType
  <2>2. hashes[h].value[t] \in 0 .. Len(producers)
    BY <2>1 DEF Hashes
  <2> QED
    BY <2>1, <2>2, Lengths DEF None, EnqueueType
<1>3. Values(t) \subseteq 1 .. Len(producers)
  BY <1>2 DEF Values
<1> QED
  BY <1>1, <1>3 DEF Mine

(* What a step of t does to the others' producers and to its own. *)
Taken(t, i) ==
  /\ \A u \in Enqueuers \ {t} : i \notin Mine(u)
  /\ ~producers'[i].inactive
  /\ producers'[i].isExplicit <=> withToken[t]
  /\ ~withToken[t] => Mine(t) = {}
OwnMove(t) ==
  /\ UNCHANGED withToken
  /\ \A u \in Enqueuers \ {t} : enq'[u] = enq[u] /\ Values(u)' = Values(u) /\ (Listed(u)' <=> Listed(u))
  /\ UseSound(t, enq[t])'
  /\ \A i \in 1 .. Len(producers) :
       /\ producers'[i].isExplicit = producers[i].isExplicit
       /\ producers'[i].inactive => producers[i].inactive \/ (i \in Mine(t) /\ i \notin Mine(t)')
  /\ \/ Mine(t)' \subseteq Mine(t)
     \/ \E i : Taken(t, i) /\ Mine(t)' \subseteq Mine(t) \cup {i}

LEMMA OwnStep ==
  ASSUME OwnInv, EnqueueType, NEW t \in Enqueuers, OwnMove(t)
  PROVE  OwnInv'
<1>1. ASSUME NEW u \in Enqueuers, u # t
      PROVE  Mine(u)' = Mine(u) /\ UseSound(u, enq[u])'
  <2>1. enq'[u] = enq[u] /\ Values(u)' = Values(u) /\ (Listed(u)' <=> Listed(u)) /\ UNCHANGED withToken
    BY <1>1 DEF OwnMove
  <2> QED
    BY <2>1 DEF Mine, Uses, UseSound, OwnInv
<1>2. UseSound(t, enq[t])' /\ UNCHANGED withToken
  BY DEF OwnMove
<1>3. ASSUME NEW u \in Enqueuers, u # t PROVE Exclusive(u)'
  <2>1. Exclusive(u) /\ Exclusive(t) /\ Mine(u)' = Mine(u) /\ Mine(u) \subseteq 1 .. Len(producers)
    BY <1>1, <1>3, MineTypes DEF OwnInv
  <2>2. ASSUME NEW i \in Mine(u)
        PROVE  /\ ~producers'[i].inactive
               /\ producers'[i].isExplicit <=> withToken[u]
    BY <1>3, <2>1 DEF OwnMove, Exclusive
  <2>3. ASSUME NEW i \in Mine(u), NEW v \in Enqueuers, i \in Mine(v)' PROVE v = u
    <3>1. CASE v # t
      BY <1>1, <2>1, <2>3, <3>1 DEF Exclusive
    <3>2. CASE v = t
      <4>1. i \notin Mine(t)
        BY <1>3, <2>1, <2>3 DEF Exclusive
      <4>2. \A j : Taken(t, j) => j # i
        BY <1>3, <2>3 DEF Taken
      <4> QED
        BY <2>3, <3>2, <4>1, <4>2 DEF OwnMove
    <3> QED
      BY <3>1, <3>2
  <2> QED
    BY <1>2, <2>1, <2>2, <2>3 DEF Exclusive
<1>4. Exclusive(t)'
  <2>1. Exclusive(t) /\ Mine(t) \subseteq 1 .. Len(producers)
    BY MineTypes DEF OwnInv
  <2>2. ASSUME NEW i \in Mine(t)', i \in Mine(t)
        PROVE  /\ ~producers'[i].inactive
               /\ producers'[i].isExplicit <=> withToken[t]
    BY <2>1, <2>2 DEF OwnMove, Exclusive
  <2>3. ASSUME NEW i \in Mine(t)', NEW v \in Enqueuers, i \in Mine(v)', v # t PROVE FALSE
    <3>1. i \in Mine(v) /\ i \notin Mine(t)
      BY <1>1, <2>1, <2>3 DEF Exclusive
    <3>2. \A j : Taken(t, j) => j # i
      BY <2>3, <3>1 DEF Taken
    <3> QED
      BY <2>3, <3>1, <3>2 DEF OwnMove
  <2>4. CASE Mine(t)' \subseteq Mine(t)
    BY <1>2, <2>1, <2>2, <2>3, <2>4 DEF Exclusive
  <2>5. ASSUME NEW k, Taken(t, k), Mine(t)' \subseteq Mine(t) \cup {k}
        PROVE  Exclusive(t)'
    BY <1>2, <2>1, <2>2, <2>3, <2>5 DEF Exclusive, Taken
  <2> QED
    BY <2>4, <2>5 DEF OwnMove
<1> QED
  BY <1>1, <1>2, <1>3, <1>4 DEF OwnInv


(* The flags of the producers stay. *)
SameFlags ==
  \A i \in 1 .. Len(producers) : /\ producers'[i].isExplicit = producers[i].isExplicit
                                 /\ producers'[i].inactive = producers[i].inactive

LEMMA FlagsStay ==
  ASSUME SharedType, \/ UNCHANGED producers
                     \/ \E p \in 1 .. Len(producers), q \in Records :
                          /\ producers' = [producers EXCEPT ![p] = q]
                          /\ q.isExplicit = producers[p].isExplicit /\ q.inactive = producers[p].inactive
  PROVE  SameFlags
<1>1. CASE UNCHANGED producers
  BY <1>1 DEF SameFlags
<1>2. ASSUME NEW p \in 1 .. Len(producers), NEW q \in Records, producers' = [producers EXCEPT ![p] = q],
             q.isExplicit = producers[p].isExplicit, q.inactive = producers[p].inactive
      PROVE  SameFlags
  <2>1. \A i \in 1 .. Len(producers) : producers'[i] = IF i = p THEN q ELSE producers[i]
    BY <1>2, ExceptSeq DEF SharedType
  <2> QED
    BY <1>2, <2>1 DEF SameFlags
<1> QED
  BY <1>1, <1>2

(* Most steps only keep or forget producers. *)
LEMMA QuietOwn ==
  ASSUME EnqueueType, NEW t \in Enqueuers, NEW r, EnqStep(t, r), UNCHANGED <<hashes, withToken>>, SameFlags,
         UseSound(t, r), r.token \in {None} \cup Mine(t), r.producer \in {None} \cup Mine(t)
  PROVE  OwnMove(t)
<1>1. enq'[t] = r /\ \A u \in Enqueuers \ {t} : enq'[u] = enq[u]
  BY DEF EnqStep, EnqueueType, EnqType
<1>2. ASSUME NEW u \in Enqueuers PROVE Values(u)' = Values(u) /\ (Listed(u)' <=> Listed(u))
  BY DEF Values, Listed
<1>3. UseSound(t, enq[t])'
  <2>1. UseSound(t, enq'[t])
    BY <1>1
  <2> QED
    BY <1>2, <2>1 DEF UseSound
<1>4. Mine(t)' \subseteq Mine(t)
  BY <1>1, <1>2 DEF Mine, Uses
<1>5. ASSUME NEW i \in 1 .. Len(producers)
      PROVE  /\ producers'[i].isExplicit = producers[i].isExplicit
             /\ producers'[i].inactive => producers[i].inactive
  BY Zenon DEF SameFlags
<1>6. \A u \in Enqueuers \ {t} : enq'[u] = enq[u] /\ Values(u)' = Values(u) /\ (Listed(u)' <=> Listed(u))
  BY <1>1, <1>2
<1> QED
  BY <1>3, <1>4, <1>5, <1>6 DEF OwnMove

LEMMA ReturnOwn ==
  ASSUME EnqueueType, OwnInv, NEW t \in Enqueuers, EnqReturn(t), UNCHANGED <<hashes, withToken>>, SameFlags
  PROVE  OwnMove(t)
<1> DEFINE k == enq[t].token
           r == [NoEnq EXCEPT !.token = k]
<1>1. EnqStep(t, r) /\ UseSound(t, enq[t]) /\ k \in {None} \cup Mine(t)
  BY DEF EnqReturn, OwnInv, Mine, Uses
<1> HIDE DEF k
<1>2. r.pc = "idle" /\ r.token = k /\ r.producer = None
  BY DEF NoEnq
<1> HIDE DEF r
<1>3. UseSound(t, r)
  BY <1>1, <1>2 DEF UseSound, Unlisted, k
<1> QED
  BY <1>1, <1>2, <1>3, QuietOwn

LEMMA CallOwn ==
  ASSUME EnqueueType, OwnInv, NEW t \in Enqueuers, MakeToken(t) \/ \E n \in {1, MaxBulk} : Enqueue(t, n)
  PROVE  OwnMove(t)
<1> DEFINE e == enq[t]
<1>1. e \in Enqs /\ UseSound(t, e) /\ SharedType
  BY DEF EnqueueType, EnqType, OwnInv
<1>2. e.pc = "idle" /\ UNCHANGED <<producers, hashes, withToken>>
  BY DEF MakeToken, Enqueue, hashVars, EnqueueVars
<1>3. SameFlags /\ e.token \in {None} \cup Mine(t)
  BY <1>2 DEF SameFlags, Mine, Uses
<1>4. CASE MakeToken(t)
  <2> DEFINE r == [e EXCEPT !.pc = "scan", !.pos = Len(list)]
  <2>1. EnqStep(t, r)
    BY <1>4 DEF MakeToken
  <2> HIDE DEF e
  <2>2. r.pc = "scan" /\ r.token = e.token /\ r.producer = e.producer
    BY <1>1 DEF Enqs
  <2> HIDE DEF r
  <2>3. UseSound(t, r) /\ r.producer = None
    BY <1>1, <1>2, <2>2 DEF UseSound, Early, Unlisted
  <2> QED
    BY <1>2, <1>3, <2>1, <2>2, <2>3, QuietOwn
<1>5. ASSUME NEW n \in {1, MaxBulk}, Enqueue(t, n) PROVE OwnMove(t)
  <2> DEFINE r == [e EXCEPT !.pc = "put", !.count = n, !.producer = e.token]
             s == [e EXCEPT !.pc = "lookup", !.count = n]
  <2>1. EnqStep(t, r) \/ EnqStep(t, s)
    BY <1>5 DEF Enqueue
  <2> HIDE DEF e
  <2>2. /\ r.pc = "put" /\ r.token = e.token /\ r.producer = e.token
        /\ s.pc = "lookup" /\ s.token = e.token /\ s.producer = e.producer
    BY <1>1 DEF Enqs
  <2> HIDE DEF r, s
  <2>3. UseSound(t, r) /\ UseSound(t, s) /\ s.producer = None
    BY <1>1, <1>2, <2>2 DEF UseSound, Early, Unlisted
  <2> QED
    BY <1>2, <1>3, <2>1, <2>2, <2>3, QuietOwn
<1> QED
  BY <1>4, <1>5

LEMMA LookUpOwn ==
  ASSUME EnqueueType, OwnInv, NEW t \in Enqueuers, LookUp(t)
  PROVE  OwnMove(t)
<1> DEFINE e == enq[t]
           h == Len(hashes)
           found == {k \in 1 .. h : t \in hashes[k].keys}
           k == CHOOSE k \in found : \A j \in found : j <= k
           l == IF k = h THEN "put" ELSE "insert"
           g == IF k = h THEN 0 ELSE h
           p == hashes[k].value[t]
           r == [e EXCEPT !.pc = "count", !.hash = h]
           s == [e EXCEPT !.pc = l, !.hash = g, !.producer = p]
<1>1. e \in Enqs /\ UseSound(t, e) /\ SharedType /\ h \in Nat
  BY Lengths DEF EnqueueType, EnqType, OwnInv
<1>2. e.pc = "lookup" /\ UNCHANGED <<producers, hashes, withToken>>
  BY DEF LookUp, hashVars, EnqueueVars
<1>3. SameFlags /\ e.token \in {None} \cup Mine(t)
  BY <1>2 DEF SameFlags, Mine, Uses
<1>4. EnqStep(t, IF found = {} THEN r ELSE s)
  BY DEF LookUp
<1>5. CASE found = {}
  <2>1. EnqStep(t, r) /\ ~Listed(t)
    BY <1>4, <1>5 DEF Listed
  <2> HIDE DEF e, h
  <2>2. r.pc = "count" /\ r.token = e.token /\ r.producer = e.producer
    BY <1>1 DEF Enqs
  <2> HIDE DEF r
  <2>3. UseSound(t, r) /\ r.producer = None
    BY <1>1, <1>2, <2>1, <2>2 DEF UseSound, Early, Unlisted
  <2> QED
    BY <1>2, <1>3, <2>1, <2>2, <2>3, QuietOwn
<1>6. CASE found # {}
  <2>1. k \in found
    BY <1>1, <1>6, NewestTable
  <2>2. p \in Values(t) /\ EnqStep(t, s) /\ l \in {"put", "insert"}
    BY <1>4, <1>6, <2>1 DEF Values
  <2> HIDE DEF e, h, l, g, p
  <2>3. s.pc = l /\ s.token = e.token /\ s.producer = p
    BY <1>1 DEF Enqs
  <2> HIDE DEF s
  <2>4. UseSound(t, s)
    BY <1>1, <2>2, <2>3 DEF UseSound, Early, Unlisted
  <2>5. p \in {None} \cup Mine(t)
    BY <2>2 DEF Mine
  <2> QED
    BY <1>2, <1>3, <2>2, <2>3, <2>4, <2>5, QuietOwn
<1> QED
  BY <1>5, <1>6

LEMMA FailOwn ==
  ASSUME EnqueueType, OwnInv, NEW t \in Enqueuers, HashFail(t)
  PROVE  OwnMove(t)
<1>1. EnqReturn(t) /\ UNCHANGED <<hashes, withToken>> /\ SameFlags
  BY DEF HashFail, EnqueueVars, SameFlags
<1> QED
  BY <1>1, ReturnOwn

(* While t looks for room in the tables it stays unlisted. *)
LEMMA RoomOwn ==
  ASSUME EnqueueType, OwnInv, NEW t \in Enqueuers,
         HashCount(t) \/ HashTry(t) \/ HashUnlock(t) \/ HashRoom(t) \/ (HashGrow(t) /\ UNCHANGED hashes)
  PROVE  OwnMove(t)
<1> DEFINE e == enq[t]
<1>1. e \in Enqs /\ UseSound(t, e) /\ SharedType
  BY DEF EnqueueType, EnqType, OwnInv
<1>2. e.pc \in {"count", "resize", "grow", "unlock", "room"} /\ UNCHANGED <<producers, hashes, withToken>>
  BY DEF HashCount, HashTry, HashUnlock, HashRoom, HashGrow, hashVars, EnqueueVars
<1>3. SameFlags /\ e.token \in {None} \cup Mine(t)
  BY <1>2 DEF SameFlags, Mine, Uses
<1>4. \/ EnqStep(t, FailedCall(t))
      \/ \E n : EnqStep(t, [e EXCEPT !.pc = "resize", !.newCount = n])
      \/ \E l \in Unlisted : EnqStep(t, [e EXCEPT !.pc = l])
      \/ \E l \in Unlisted : \E h : EnqStep(t, [e EXCEPT !.pc = l, !.hash = h])
  BY DEF HashCount, HashTry, HashUnlock, HashRoom, HashGrow, FailedCall, EnqGoto, Unlisted
<1>5. CASE EnqStep(t, FailedCall(t))
  <2> DEFINE r == FailedCall(t)
  <2>1. r.pc = "failed" /\ r.token = e.token /\ r.producer = None
    BY FailedCallTypes
  <2> HIDE DEF r
  <2>2. UseSound(t, r)
    BY <1>1, <2>1 DEF UseSound, Unlisted
  <2> QED
    BY <1>2, <1>3, <1>5, <2>1, <2>2, QuietOwn DEF r
<1>6. ASSUME NEW r, EnqStep(t, r), r.pc \in Unlisted, r.token = e.token, r.producer = e.producer
      PROVE  OwnMove(t)
  <2>1. UseSound(t, r) /\ r.producer = None
    BY <1>1, <1>2, <1>6 DEF UseSound, Early, Unlisted
  <2> QED
    BY <1>2, <1>3, <1>6, <2>1, QuietOwn
<1> HIDE DEF e
<1>7. ASSUME NEW n, EnqStep(t, [e EXCEPT !.pc = "resize", !.newCount = n]) PROVE OwnMove(t)
  <2> DEFINE r == [e EXCEPT !.pc = "resize", !.newCount = n]
  <2>1. r.pc = "resize" /\ r.token = e.token /\ r.producer = e.producer
    BY <1>1 DEF Enqs
  <2> HIDE DEF r
  <2> QED
    BY <1>6, <1>7, <2>1 DEF Unlisted, r
<1>8. ASSUME NEW l \in Unlisted, EnqStep(t, [e EXCEPT !.pc = l]) PROVE OwnMove(t)
  <2> DEFINE r == [e EXCEPT !.pc = l]
  <2>1. r.pc = l /\ r.token = e.token /\ r.producer = e.producer
    BY <1>1 DEF Enqs
  <2> HIDE DEF r
  <2> QED
    BY <1>6, <1>8, <2>1 DEF r
<1>9. ASSUME NEW l \in Unlisted, NEW h, EnqStep(t, [e EXCEPT !.pc = l, !.hash = h]) PROVE OwnMove(t)
  <2> DEFINE r == [e EXCEPT !.pc = l, !.hash = h]
  <2>1. r.pc = l /\ r.token = e.token /\ r.producer = e.producer
    BY <1>1 DEF Enqs
  <2> HIDE DEF r
  <2> QED
    BY <1>6, <1>9, <2>1 DEF r
<1> QED
  BY <1>4, <1>5, <1>7, <1>8, <1>9


(* A new table holds nobody yet. *)
LEMMA NewTable ==
  ASSUME EnqueueType, NEW n, hashes' = Append(hashes, NewHash(n)), NEW u \in Enqueuers
  PROVE  /\ Values(u)' = Values(u) /\ (Listed(u)' <=> Listed(u))
         /\ Len(hashes)' = Len(hashes) + 1 /\ \A h \in 1 .. Len(hashes) : hashes'[h] = hashes[h]
         /\ hashes'[Len(hashes) + 1] = NewHash(n)
<1>1. hashes \in Seq(Hashes) /\ Len(hashes) \in Nat
  BY Lengths DEF EnqueueType, SharedType
<1>2. /\ Len(hashes)' = Len(hashes) + 1 /\ \A h \in 1 .. Len(hashes) : hashes'[h] = hashes[h]
      /\ hashes'[Len(hashes) + 1] = NewHash(n)
  BY <1>1
<1>3. hashes'[Len(hashes) + 1].keys = {}
  BY <1>2 DEF NewHash
<1>4. {h \in 1 .. Len(hashes)' : u \in hashes'[h].keys} = {h \in 1 .. Len(hashes) : u \in hashes[h].keys}
  <2>1. 1 .. Len(hashes)' = 1 .. Len(hashes) \cup {Len(hashes) + 1}
    BY <1>1, <1>2
  <2> QED
    BY <1>2, <1>3, <2>1
<1>5. Values(u)' = Values(u)
  BY <1>2, <1>4 DEF Values
<1>6. Listed(u)' <=> Listed(u)
  BY <1>4 DEF Listed
<1> QED
  BY <1>2, <1>5, <1>6

LEMMA GrowOwn ==
  ASSUME EnqueueType, OwnInv, NEW t \in Enqueuers, HashGrow(t)
  PROVE  OwnMove(t)
<1> DEFINE e == enq[t]
           g == Doubled(hashes[Len(hashes)].capacity, e.newCount)
           r == [e EXCEPT !.pc = "unlock", !.hash = Len(hashes) + 1]
<1>1. UNCHANGED hashes \/ (hashes' = Append(hashes, NewHash(g)) /\ EnqStep(t, r))
  BY DEF HashGrow, hashVars
<1>2. CASE UNCHANGED hashes
  BY <1>2, RoomOwn
<1>3. CASE hashes' = Append(hashes, NewHash(g)) /\ EnqStep(t, r)
  <2>1. e.pc = "grow" /\ UNCHANGED <<producers, withToken>>
    BY DEF HashGrow, EnqueueVars
  <2>2. e \in Enqs /\ UseSound(t, e)
    BY DEF EnqueueType, EnqType, OwnInv
  <2>3. enq'[t] = r /\ \A u \in Enqueuers \ {t} : enq'[u] = enq[u]
    BY <1>3 DEF EnqStep, EnqueueType, EnqType
  <2> HIDE DEF g, e
  <2>4. \A u \in Enqueuers : Values(u)' = Values(u) /\ (Listed(u)' <=> Listed(u))
    BY <1>3, NewTable
  <2>5. r.pc = "unlock" /\ r.token = e.token /\ r.producer = e.producer
    BY <2>2 DEF Enqs
  <2> HIDE DEF r
  <2>6. UseSound(t, enq[t])'
    BY <2>1, <2>2, <2>3, <2>4, <2>5 DEF UseSound, Unlisted, Early
  <2>7. Mine(t)' = Mine(t)
    BY <2>3, <2>4, <2>5 DEF Mine, Uses, e
  <2> QED
    BY <2>1, <2>3, <2>4, <2>6, <2>7 DEF OwnMove
<1> QED
  BY <1>1, <1>2, <1>3

LEMMA InsertOwn ==
  ASSUME EnqueueType, OwnInv, NEW t \in Enqueuers, Insert(t)
  PROVE  OwnMove(t)
<1> DEFINE e == enq[t]
           r == [e EXCEPT !.pc = "put", !.hash = 0, !.newCount = 0]
<1>1. /\ e.pc = "insert" /\ EnqStep(t, r) /\ UNCHANGED <<producers, withToken>>
  BY DEF Insert, EnqueueVars
<1>2. e \in Enqs /\ UseSound(t, e) /\ EnqSound(t, e)
  BY DEF EnqueueType, EnqType, OwnInv
<1>3. enq'[t] = r /\ \A u \in Enqueuers \ {t} : enq'[u] = enq[u]
  BY <1>1 DEF EnqStep, EnqueueType, EnqType
<1>4. /\ Len(hashes)' = Len(hashes)
      /\ \A h \in 1 .. Len(hashes) :
           /\ hashes'[h].keys = hashes[h].keys \cup (IF h = e.hash THEN {t} ELSE {})
           /\ \A u \in Enqueuers :
                hashes'[h].value[u] = IF h = e.hash /\ u = t THEN e.producer ELSE hashes[h].value[u]
  BY InsertTypes
<1> HIDE DEF e
<1>5. ASSUME NEW u \in Enqueuers \ {t} PROVE Values(u)' = Values(u) /\ (Listed(u)' <=> Listed(u))
  <2>1. \A h \in 1 .. Len(hashes) : /\ u \in hashes'[h].keys <=> u \in hashes[h].keys
                                    /\ hashes'[h].value[u] = hashes[h].value[u]
    BY <1>4
  <2> QED
    BY <1>4, <2>1 DEF Values, Listed
<1>6. Values(t)' \subseteq Values(t) \cup {e.producer}
  <2>1. \A h \in 1 .. Len(hashes) : \/ hashes'[h].value[t] = e.producer
                                    \/ /\ t \in hashes'[h].keys <=> t \in hashes[h].keys
                                       /\ hashes'[h].value[t] = hashes[h].value[t]
    BY <1>4
  <2> QED
    BY <1>4, <2>1 DEF Values
<1>7. e.producer \in Mine(t) /\ e.producer # None
  BY <1>1, <1>2 DEF EnqSound, Mine, Uses, e
<1>8. r.pc = "put" /\ r.token = e.token /\ r.producer = e.producer
  BY <1>2 DEF Enqs
<1> HIDE DEF r
<1>9. UseSound(t, enq[t])'
  BY <1>1, <1>2, <1>3, <1>8 DEF UseSound, Unlisted, Early
<1>10. Mine(t)' \subseteq Mine(t)
  BY <1>3, <1>6, <1>7, <1>8 DEF Mine, Uses, e
<1> QED
  BY <1>1, <1>3, <1>5, <1>9, <1>10 DEF OwnMove

(* A token's producer is marked when the token goes, ... *)
LEMMA DropOwn ==
  ASSUME EnqueueType, OwnInv, NEW t \in Enqueuers, DropToken(t)
  PROVE  OwnMove(t)
<1> DEFINE e == enq[t]
           p == e.token
           q == [producers[p] EXCEPT !.inactive = TRUE]
<1>1. /\ p # None /\ EnqStep(t, NoEnq) /\ UNCHANGED <<hashes, withToken>>
      /\ producers' = [producers EXCEPT ![p] = q]
  BY DEF DropToken, EnqueueVars, hashVars
<1>2. e \in Enqs /\ UseSound(t, e) /\ SharedType
  BY DEF EnqueueType, EnqType, OwnInv
<1>3. p \in 1 .. Len(producers) /\ p \in Mine(t)
  BY <1>1, <1>2, Lengths DEF Enqs, None, Mine, Uses
<1>4. enq'[t] = NoEnq /\ \A u \in Enqueuers \ {t} : enq'[u] = enq[u]
  BY <1>1 DEF EnqStep, EnqueueType, EnqType
<1>5. \A u \in Enqueuers : Values(u)' = Values(u) /\ (Listed(u)' <=> Listed(u))
  BY <1>1 DEF Values, Listed
<1>6. Values(t) = {}
  <2>1. withToken[t]
    BY <1>1, <1>2 DEF UseSound
  <2> QED
    BY <1>2, <2>1 DEF Values, SharedType
<1>7. UseSound(t, enq[t])' /\ Mine(t)' = {}
  BY <1>4, <1>5, <1>6 DEF UseSound, NoEnq, Mine, Uses, Unlisted
<1>8. ASSUME NEW i \in 1 .. Len(producers)
      PROVE  /\ producers'[i].isExplicit = producers[i].isExplicit
             /\ i # p => producers'[i] = producers[i]
  <2>1. producers[p] \in Records
    BY <1>2, <1>3 DEF SharedType
  <2> HIDE DEF p
  <2>2. q \in Records /\ q.isExplicit = producers[p].isExplicit
    BY <2>1 DEF Records
  <2> HIDE DEF q
  <2>3. producers'[i] = IF i = p THEN q ELSE producers[i]
    BY <1>1, <1>2, <1>3, <2>2, ExceptSeq DEF SharedType
  <2> QED
    BY <2>2, <2>3
<1> HIDE DEF p
<1>9. \A i \in 1 .. Len(producers) :
        producers'[i].inactive => producers[i].inactive \/ (i \in Mine(t) /\ i \notin Mine(t)')
  BY <1>3, <1>7, <1>8
<1> QED
  BY <1>1, <1>4, <1>5, <1>7, <1>8, <1>9 DEF OwnMove

(* ... and is then one other thread's at most. *)
LEMMA ScanOwn ==
  ASSUME EnqueueType, OwnInv, NEW t \in Enqueuers, Scan(t)
  PROVE  OwnMove(t)
<1> DEFINE e == enq[t]
           p == list[e.pos]
           q == [producers[p] EXCEPT !.inactive = FALSE]
           k == [NoEnq EXCEPT !.token = p]
           r == [e EXCEPT !.pos = @ - 1]
           s == [e EXCEPT !.pc = "create"]
<1>1. e.pc = "scan" /\ UNCHANGED <<list, hashes, withToken>>
  BY DEF Scan, listVars, hashVars, EnqueueVars
<1>2. \/ (EnqStep(t, s) \/ EnqStep(t, r)) /\ UNCHANGED producers
      \/ /\ e.pos # 0 /\ producers[p].inactive /\ producers[p].isExplicit
         /\ EnqStep(t, k) /\ producers' = [producers EXCEPT ![p] = q]
  BY DEF Scan, EnqGoto
<1>3. e \in Enqs /\ EnqSound(t, e) /\ SharedType /\ UseSound(t, e) /\ withToken[t]
  BY <1>1 DEF EnqueueType, EnqType, OwnInv, EnqSound
<1>4. CASE (EnqStep(t, s) \/ EnqStep(t, r)) /\ UNCHANGED producers
  <2> HIDE DEF e
  <2>1. /\ s.pc = "create" /\ s.token = e.token /\ s.producer = e.producer
        /\ r.pc = e.pc /\ r.token = e.token /\ r.producer = e.producer
    BY <1>3 DEF Enqs
  <2> HIDE DEF r, s
  <2>2. UseSound(t, s) /\ UseSound(t, r) /\ e.producer = None
    BY <1>1, <1>3, <2>1 DEF UseSound, Unlisted, Early
  <2>3. SameFlags /\ e.token \in {None} \cup Mine(t)
    BY <1>4 DEF SameFlags, Mine, Uses, e
  <2> QED
    BY <1>1, <1>4, <2>1, <2>2, <2>3, QuietOwn
<1>5. CASE /\ e.pos # 0 /\ producers[p].inactive /\ producers[p].isExplicit
           /\ EnqStep(t, k) /\ producers' = [producers EXCEPT ![p] = q]
  <2>1. e.pos \in 1 .. Len(list)
    BY <1>3, <1>5, Lengths DEF Enqs
  <2>2. p \in 1 .. Len(producers)
    BY <1>3, <2>1, LenProperties DEF SharedType
  <2>3. producers[p] \in Records
    BY <1>3, <2>2 DEF SharedType
  <2>4. enq'[t] = k /\ \A u \in Enqueuers \ {t} : enq'[u] = enq[u]
    BY <1>5 DEF EnqStep, EnqueueType, EnqType
  <2> HIDE DEF p
  <2>5. q \in Records /\ q.isExplicit = producers[p].isExplicit /\ ~q.inactive
    BY <2>3 DEF Records
  <2>6. k.pc = "idle" /\ k.token = p /\ k.producer = None
    BY DEF NoEnq
  <2> HIDE DEF q, k
  <2>7. \A i \in 1 .. Len(producers) : producers'[i] = IF i = p THEN q ELSE producers[i]
    BY <1>3, <1>5, <2>2, <2>5, ExceptSeq DEF SharedType
  <2>8. ASSUME NEW i \in 1 .. Len(producers)
        PROVE  /\ producers'[i].isExplicit = producers[i].isExplicit
               /\ producers'[i].inactive => producers[i].inactive
    BY <2>5, <2>7
  <2>9. \A u \in Enqueuers : Values(u)' = Values(u) /\ (Listed(u)' <=> Listed(u))
    BY <1>1 DEF Values, Listed
  <2>10. Mine(t)' \subseteq Mine(t) \cup {p}
    BY <2>4, <2>6, <2>9 DEF Mine, Uses
  <2>11. UseSound(t, enq[t])'
    BY <1>1, <1>3, <2>4, <2>6 DEF UseSound, Unlisted
  <2>12. Taken(t, p)
    <3>1. ASSUME NEW u \in Enqueuers PROVE p \notin Mine(u)
      BY <1>5 DEF OwnInv, Exclusive
    <3>2. ~producers'[p].inactive /\ (producers'[p].isExplicit <=> withToken[t])
      BY <1>3, <1>5, <2>2, <2>5, <2>7
    <3> QED
      BY <1>3, <3>1, <3>2 DEF Taken
  <2> QED
    BY <1>1, <2>4, <2>8, <2>9, <2>10, <2>11, <2>12 DEF OwnMove
<1> QED
  BY <1>2, <1>4, <1>5


(* A new producer is its thread's. *)
LEMMA CreateOwn ==
  ASSUME EnqueueType, OwnInv, NEW t \in Enqueuers, Create(t)
  PROVE  OwnMove(t)
<1> DEFINE e == enq[t]
           n == Len(producers) + 1
           q == NewProducer(t)
           r == [e EXCEPT !.pc = "link", !.producer = n]
<1>1. e.pc = "create" /\ UNCHANGED <<list, hashes, withToken>>
  BY DEF Create, EnqueueVars
<1>2. e \in Enqs /\ EnqSound(t, e) /\ SharedType /\ UseSound(t, e)
  BY DEF EnqueueType, EnqType, OwnInv
<1>3. CASE EnqReturn(t) /\ UNCHANGED producers
  <2>1. SameFlags
    BY <1>3 DEF SameFlags
  <2> QED
    BY <1>1, <1>3, <2>1, ReturnOwn
<1>4. CASE producers' = Append(producers, q) /\ EnqStep(t, r)
  <2>1. enq'[t] = r /\ \A u \in Enqueuers \ {t} : enq'[u] = enq[u]
    BY <1>4 DEF EnqStep, EnqueueType, EnqType
  <2>2. q.isExplicit = withToken[t] /\ ~q.inactive
    BY DEF NewProducer
  <2>3. producers'[n] = q /\ \A i \in 1 .. Len(producers) : producers'[i] = producers[i]
    BY <1>2, <1>4 DEF SharedType
  <2> HIDE DEF e, n, q
  <2>4. r.pc = "link" /\ r.token = e.token /\ r.producer = n
    BY <1>2 DEF Enqs
  <2> HIDE DEF r
  <2>5. \A u \in Enqueuers : Values(u)' = Values(u) /\ (Listed(u)' <=> Listed(u))
    BY <1>1 DEF Values, Listed
  <2>6. UseSound(t, enq[t])'
    BY <1>1, <1>2, <2>1, <2>4 DEF UseSound, Unlisted, Early
  <2>7. Mine(t)' \subseteq Mine(t) \cup {n}
    BY <2>1, <2>4, <2>5 DEF Mine, Uses, e
  <2>8. Taken(t, n)
    <3>1. ASSUME NEW u \in Enqueuers PROVE n \notin Mine(u)
      BY <1>2, MineTypes, Lengths DEF n
    <3>2. ~producers'[n].inactive /\ (producers'[n].isExplicit <=> withToken[t])
      <4>1. producers'[n].isExplicit = withToken[t] /\ ~producers'[n].inactive
        BY <2>2, <2>3
      <4> QED
        BY <4>1, Zenon
    <3>3. ~withToken[t] => Mine(t) = {}
      BY <1>1, <1>2 DEF UseSound, Early, Unlisted, Mine, Uses, Values, Listed, e
    <3> QED
      BY <3>1, <3>2, <3>3 DEF Taken
  <2> QED
    BY <1>1, <2>1, <2>3, <2>5, <2>6, <2>7, <2>8 DEF OwnMove
<1> QED
  BY <1>3, <1>4 DEF Create

LEMMA LinkOwn ==
  ASSUME EnqueueType, OwnInv, NEW t \in Enqueuers, Link(t)
  PROVE  OwnMove(t)
<1> DEFINE e == enq[t]
           p == e.producer
           k == [NoEnq EXCEPT !.token = p]
           r == [e EXCEPT !.pc = "insert"]
<1>1. /\ UNCHANGED <<producers, hashes, withToken>>
      /\ IF withToken[t] THEN EnqStep(t, k) ELSE EnqStep(t, r)
  BY DEF Link, EnqueueVars, hashVars, EnqGoto
<1>2. e \in Enqs /\ UseSound(t, e)
  BY DEF EnqueueType, EnqType, OwnInv
<1>3. SameFlags /\ e.token \in {None} \cup Mine(t) /\ p \in {None} \cup Mine(t)
  BY <1>1 DEF SameFlags, Mine, Uses
<1> HIDE DEF e
<1>4. /\ k.pc = "idle" /\ k.token = p /\ k.producer = None
      /\ r.pc = "insert" /\ r.token = e.token /\ r.producer = p
  BY <1>2 DEF Enqs, NoEnq
<1> HIDE DEF k, r
<1>5. (withToken[t] => UseSound(t, k)) /\ UseSound(t, r)
  BY <1>2, <1>4 DEF UseSound, Unlisted, Early
<1> QED
  BY <1>1, <1>3, <1>4, <1>5, QuietOwn

LEMMA PutOwn ==
  ASSUME EnqueueType, OwnInv, NEW t \in Enqueuers, Put(t)
  PROVE  OwnMove(t)
<1> DEFINE e == enq[t]
           p == e.producer
           o == producers[p]
           n == o.in + e.count
           q == [o EXCEPT !.in = n]
           r == [e EXCEPT !.pc = "signal"]
<1>1. e.pc = "put" /\ UNCHANGED <<hashes, withToken>>
  BY DEF Put, EnqueueVars, hashVars
<1>2. e \in Enqs /\ EnqSound(t, e) /\ SharedType /\ UseSound(t, e)
  BY DEF EnqueueType, EnqType, OwnInv
<1>3. CASE EnqReturn(t) /\ UNCHANGED producers
  <2>1. SameFlags
    BY <1>3 DEF SameFlags
  <2> QED
    BY <1>1, <1>3, <2>1, ReturnOwn
<1>4. CASE producers' = [producers EXCEPT ![p] = q] /\ EnqStep(t, r)
  <2>1. p \in 1 .. Len(producers) /\ e.count \in Nat
    BY <1>1, <1>2, Lengths, BulkAssumption DEF Enqs, EnqSound, None
  <2>2. o \in Records
    BY <1>2, <2>1 DEF SharedType
  <2>3. n \in Nat
    <3>1. o.in \in Nat
      BY <2>2 DEF Records
    <3> QED
      BY <2>1, <3>1
  <2>4. e.token \in {None} \cup Mine(t) /\ p \in {None} \cup Mine(t)
    BY DEF Mine, Uses
  <2> HIDE DEF e, p, o, n
  <2>5. q \in Records /\ q.isExplicit = o.isExplicit /\ q.inactive = o.inactive
    BY <2>2, <2>3 DEF Records
  <2> HIDE DEF q
  <2>6. SameFlags
    BY <1>2, <1>4, <2>1, <2>5, FlagsStay DEF o
  <2>7. r.pc = "signal" /\ r.token = e.token /\ r.producer = p
    BY <1>2 DEF Enqs, p
  <2> HIDE DEF r
  <2>8. UseSound(t, r)
    BY <1>2, <2>7 DEF UseSound, Unlisted, Early
  <2> QED
    BY <1>1, <1>4, <2>4, <2>6, <2>7, <2>8, QuietOwn
<1> QED
  BY <1>3, <1>4 DEF Put, EnqGoto

LEMMA SignalOwn ==
  ASSUME EnqueueType, OwnInv, NEW t \in Enqueuers, Signalling(t)
  PROVE  OwnMove(t)
<1> DEFINE e == enq[t]
           r == [e EXCEPT !.pc = "post", !.count = 0]
<1>1. UNCHANGED <<producers, hashes, withToken>> /\ (EnqReturn(t) \/ EnqStep(t, r))
  BY DEF Signalling, EnqueueVars, hashVars
<1>2. e \in Enqs /\ UseSound(t, e)
  BY DEF EnqueueType, EnqType, OwnInv
<1>3. SameFlags /\ e.token \in {None} \cup Mine(t) /\ e.producer \in {None} \cup Mine(t)
  BY <1>1 DEF SameFlags, Mine, Uses
<1>4. CASE EnqReturn(t)
  BY <1>1, <1>3, <1>4, ReturnOwn
<1>5. CASE EnqStep(t, r)
  <2> HIDE DEF e
  <2>1. r.pc = "post" /\ r.token = e.token /\ r.producer = e.producer
    BY <1>2 DEF Enqs
  <2> HIDE DEF r
  <2>2. UseSound(t, r)
    BY <1>2, <2>1 DEF UseSound, Unlisted, Early
  <2> QED
    BY <1>1, <1>3, <1>5, <2>1, <2>2, QuietOwn
<1> QED
  BY <1>1, <1>4, <1>5

(* Consumers only take elements. *)
LEMMA ConsumerFlags ==
  ASSUME QueueInv, NEW c \in Consumers, Dequeue(c) \/ ConsumerStep(c)
  PROVE  SameFlags /\ UNCHANGED <<enq, hashVars, withToken>>
<1>1. SharedType /\ DequeueType
  BY DEF QueueInv, TypeInv, EnqueueType
<1>2. CASE Dequeue(c) \/ SemaStep(c)
  BY <1>1, <1>2, FlagsStay DEF Dequeue, SemaStep, Take, DequeueVars
<1>3. CASE LoopStep(c)
  <2>1. PICK n \in Nat : /\ LoopMove(c, n)
                         /\ \/ n = 0 /\ UNCHANGED producers
                            \/ \E p \in 1 .. Len(producers) : Given(p, n)
    BY <1>1, <1>3, PassTypes, ScoreTailTypes, ScoreHeadTypes, VisitTypes DEF PassStep, LoopStep
  <2>2. UNCHANGED <<enq, hashVars, withToken>>
    BY <2>1 DEF LoopMove
  <2>3. ASSUME NEW p \in 1 .. Len(producers), Given(p, n) PROVE SameFlags
    <3> DEFINE o == producers[p]
               m == o.out + n
               q == [o EXCEPT !.out = m]
    <3>1. producers' = [producers EXCEPT ![p] = q] /\ o \in Records
      BY <1>1, <2>3 DEF Given, SharedType
    <3>2. m \in Nat
      BY <3>1 DEF Records
    <3> HIDE DEF o, m
    <3>3. q \in Records /\ q.isExplicit = o.isExplicit /\ q.inactive = o.inactive
      BY <3>1, <3>2 DEF Records
    <3> HIDE DEF q
    <3> QED
      BY <1>1, <3>1, <3>3, FlagsStay DEF o
  <2>4. CASE UNCHANGED producers
    BY <2>2, <2>4 DEF SameFlags
  <2> QED
    BY <2>1, <2>2, <2>3, <2>4
<1> QED
  BY <1>2, <1>3 DEF ConsumerStep

LEMMA OwnStays ==
  ASSUME EnqueueType, OwnInv, SameFlags, UNCHANGED <<enq, hashVars, withToken>>
  PROVE  OwnInv'
<1>1. ASSUME NEW t \in Enqueuers PROVE Mine(t)' = Mine(t) /\ (Listed(t)' <=> Listed(t))
  BY DEF Mine, Uses, Values, Listed, hashVars
<1>2. ASSUME NEW t \in Enqueuers PROVE UseSound(t, enq[t])' /\ Exclusive(t)'
  <2>1. UseSound(t, enq[t]) /\ Exclusive(t) /\ Mine(t) \subseteq 1 .. Len(producers)
    BY MineTypes DEF OwnInv
  <2>2. UseSound(t, enq[t])'
    BY <1>1, <2>1 DEF UseSound
  <2>3. ASSUME NEW i \in Mine(t)
        PROVE  ~producers'[i].inactive /\ (producers'[i].isExplicit <=> withToken[t])
    <3>1. producers'[i].isExplicit = producers[i].isExplicit /\ producers'[i].inactive = producers[i].inactive
      BY <2>1 DEF SameFlags
    <3>2. ~producers[i].inactive /\ (producers[i].isExplicit <=> withToken[t])
      BY <2>1 DEF Exclusive
    <3> QED
      BY <3>1, <3>2, Zenon
  <2>4. Exclusive(t)'
    BY <1>1, <2>1, <2>3 DEF Exclusive
  <2> QED
    BY <2>2, <2>4
<1> QED
  BY <1>2 DEF OwnInv

(* A step of an enqueuer. *)
LEMMA EnqueuerOwn ==
  ASSUME EnqueueType, OwnInv, NEW t \in Enqueuers,
         \/ MakeToken(t) \/ DropToken(t) \/ \E n \in {1, MaxBulk} : Enqueue(t, n)
         \/ EnqueuerStep(t)
  PROVE  OwnMove(t)
BY CallOwn, DropOwn, LookUpOwn, InsertOwn, RoomOwn, GrowOwn, FailOwn, ScanOwn, CreateOwn, LinkOwn,
   PutOwn, SignalOwn
   DEF EnqueuerStep, ProducerStep, SignalElements, PostElements

LEMMA OwnInit ==
  ASSUME Init
  PROVE  OwnInv
<1>1. /\ enq = [t \in Enqueuers |-> NoEnq]
      /\ hashes = <<NewHash(INITIAL_IMPLICIT_PRODUCER_HASH_SIZE)>>
  BY DEF Init, QueueInit
<1>2. Len(hashes) = 1 /\ hashes[1].keys = {}
  BY <1>1 DEF NewHash
<1>3. ASSUME NEW t \in Enqueuers PROVE UseSound(t, enq[t]) /\ Mine(t) = {}
  BY <1>1, <1>2 DEF UseSound, NoEnq, Unlisted, Mine, Uses, Values
<1> QED
  BY <1>3 DEF OwnInv, Exclusive

LEMMA OwnNext ==
  ASSUME QueueInv, OwnInv, [Next]_vars
  PROVE  OwnInv'
<1>1. EnqueueType
  BY DEF QueueInv, TypeInv
<1>2. ASSUME NEW t \in Enqueuers,
             \/ MakeToken(t) \/ DropToken(t) \/ \E n \in {1, MaxBulk} : Enqueue(t, n)
             \/ EnqueuerStep(t)
      PROVE  OwnInv'
  BY <1>1, <1>2, EnqueuerOwn, OwnStep
<1>3. ASSUME NEW c \in Consumers, Dequeue(c) \/ ConsumerStep(c)
      PROVE  OwnInv'
  BY <1>1, <1>3, ConsumerFlags, OwnStays
<1>4. CASE UNCHANGED vars
  <2>1. UNCHANGED <<producers, enq, hashVars, withToken>>
    BY <1>4 DEF vars, queueVars
  <2> QED
    BY <1>1, <2>1, OwnStays DEF SameFlags
<1> QED
  BY <1>2, <1>3, <1>4 DEF Next, Call

LEMMA OwnImplies ==
  ASSUME QueueInv, OwnInv
  PROVE  OneProducerPerThread
<1>1. SharedType /\ DOMAIN hashes = 1 .. Len(hashes)
  BY LenProperties DEF QueueInv, TypeInv, EnqueueType, SharedType
<1>2. ASSUME NEW t \in Enqueuers, NEW u \in Enqueuers, t # u PROVE Uses(t) \cap Uses(u) = {}
  BY <1>2 DEF OwnInv, Exclusive, Mine
<1>3. ASSUME NEW h \in 1 .. Len(hashes), NEW k \in 1 .. Len(hashes), NEW t \in hashes[h].keys, NEW u \in hashes[k].keys
      PROVE  t = u <=> hashes[h].value[t] = hashes[k].value[u]
  <2>1. t \in Enqueuers /\ u \in Enqueuers /\ ~withToken[t]
    <3>1. hashes[h] \in Hashes /\ hashes[k] \in Hashes /\ ~withToken[t]
      BY <1>1, LenProperties DEF SharedType
    <3> QED
      BY <3>1 DEF Hashes
  <2>2. hashes[h].value[t] \in Mine(t) /\ hashes[k].value[u] \in Mine(u)
    BY DEF Mine, Values
  <2> QED
    BY <2>1, <2>2 DEF OwnInv, Exclusive
<1> QED
  BY <1>1, <1>2, <1>3 DEF OneProducerPerThread

(* ConcurrentQueue: a producer's queue has one enqueuing thread at a time, *)
(* however threads make and drop tokens, recycle producers and register in *)
(* tables that are being replaced. *)
THEOREM OneEnqueuerEach == Spec => []OneProducerPerThread
<1>1. Init => QueueInv /\ OwnInv
  BY InitInv, OwnInit
<1>2. QueueInv /\ OwnInv /\ [Next]_vars => (QueueInv /\ OwnInv)'
  BY StepInv, OwnNext
<1>3. QueueInv /\ OwnInv => OneProducerPerThread
  BY OwnImplies
<1> QED
  BY <1>1, <1>2, <1>3, PTL DEF Spec


---------------------------------------------------------------------------
(* Room in the tables *)

Trying == {"resize", "grow", "unlock", "room"}
Admitted == {"create", "link", "insert"}

(* Below this count a table takes another thread. *)
Threshold(h) == Half(hashes[h]) + hashes[h].capacity \div 4

(* A thread at r has a slot of table h or of an older one, or the right to *)
(* one; it is counted; it may come to have a slot of a table that takes    *)
(* threads below m. *)
Kept(t, h) == \E g \in 1 .. h : t \in hashes[g].keys
Grants(t, r, h) == Kept(t, h) \/ (~withToken[t] /\ r.pc \in Admitted /\ r.hash <= h)
Counts(t, r) == Listed(t) \/ (~withToken[t] /\ r.pc \in Trying \cup Admitted)
Claims(t, r, h, m) == Grants(t, r, h) \/ (r.pc \in Trying /\ r.newCount < m)

Counted == {t \in Enqueuers : Counts(t, enq[t])}
Claimants(h, m) == {t \in Enqueuers : Claims(t, enq[t], h, m)}

(* The count is that of the threads counted, tables grow, and what a       *)
(* thread was told about the count when it was counted bounds the threads  *)
(* that come before it. *)
Growing == \A g, h \in 1 .. Len(hashes) : g <= h => hashes[g].capacity <= hashes[h].capacity
Bounded == \A h \in 1 .. Len(hashes), m \in Nat :
             m >= Threshold(h) => Claimants(h, m) = {} \/ Cardinality(Claimants(h, m)) < m
RoomInv == implicitProducerHashCount = Cardinality(Counted) /\ Growing /\ Bounded

LEMMA ClaimsCounted ==
  ASSUME EnqueueType, NEW h \in 1 .. Len(hashes), NEW m \in Nat
  PROVE  /\ Claimants(h, m) \subseteq Counted /\ IsFiniteSet(Counted) /\ IsFiniteSet(Claimants(h, m))
         /\ Cardinality(Claimants(h, m)) \in Nat /\ Cardinality(Counted) \in Nat
         /\ Cardinality(Claimants(h, m)) <= Cardinality(Counted)
<1>1. ASSUME NEW t \in Enqueuers, Claims(t, enq[t], h, m) PROVE Counts(t, enq[t])
  <2>1. EnqSound(t, enq[t])
    BY DEF EnqueueType, EnqType
  <2>2. Kept(t, h) => Listed(t)
    BY Lengths DEF Kept, Listed, EnqueueType
  <2> QED
    BY <1>1, <2>1, <2>2 DEF Claims, Grants, Counts, EnqSound, Looking, Trying
<1>2. Claimants(h, m) \subseteq Counted
  BY <1>1 DEF Claimants, Counted
<1>3. IsFiniteSet(Counted)
  BY QueueThreadsAssumption, FS_Subset DEF Counted
<1> QED
  BY <1>2, <1>3, FS_Subset, FS_CardinalityType

LEMMA ThresholdType ==
  ASSUME EnqueueType, NEW h \in 1 .. Len(hashes)
  PROVE  /\ hashes[h].capacity \in Nat \ {0} /\ Threshold(h) \in Nat /\ Threshold(h) <= hashes[h].capacity
         /\ Threshold(h) = (hashes[h].capacity \div 2) + (hashes[h].capacity \div 4)
<1>1. hashes[h] \in Hashes
  BY LenProperties DEF EnqueueType, SharedType
<1>2. hashes[h].capacity \in Nat \ {0}
  BY <1>1 DEF Hashes
<1> QED
  BY <1>2 DEF Threshold, Half

(* What a step of t does to the room in the tables: those who may come to  *)
(* have a slot were such before it, or all that are counted fit. *)
RoomMove(t) ==
  /\ \A u \in Enqueuers \ {t} : u \in Counted' <=> u \in Counted
  /\ implicitProducerHashCount' = implicitProducerHashCount + Has(t, Counted') - Has(t, Counted)
  /\ Growing'
  /\ \A h \in 1 .. Len(hashes)', m \in Nat :
       m >= Threshold(h)' =>
         \/ \E g \in 1 .. Len(hashes) : Threshold(g) <= m /\ Claimants(h, m)' \subseteq Claimants(g, m)
         \/ implicitProducerHashCount' < m

LEMMA RoomStep ==
  ASSUME EnqueueType, EnqueueType', RoomInv, NEW t \in Enqueuers, RoomMove(t)
  PROVE  RoomInv'
<1>1. implicitProducerHashCount' = Cardinality(Counted)'
  <2>1. Counted \ {t} = Counted' \ {t}
    BY DEF RoomMove, Counted
  <2>2. IsFiniteSet(Counted)
    BY QueueThreadsAssumption, FS_Subset DEF Counted
  <2>3. Cardinality(Counted') = Cardinality(Counted) + Has(t, Counted') - Has(t, Counted)
    BY <2>1, <2>2, CountStep
  <2> QED
    BY <2>3 DEF RoomMove, RoomInv
<1>2. ASSUME NEW h \in 1 .. Len(hashes)', NEW m \in Nat, m >= Threshold(h)'
      PROVE  Claimants(h, m)' = {} \/ Cardinality(Claimants(h, m))' < m
  <2>1. /\ Cardinality(Claimants(h, m))' \in Nat /\ Cardinality(Counted)' \in Nat
        /\ Cardinality(Claimants(h, m))' <= Cardinality(Counted)'
    <3>1. (h \in 1 .. Len(hashes) /\ m \in Nat /\ EnqueueType =>
            /\ Cardinality(Claimants(h, m)) \in Nat /\ Cardinality(Counted) \in Nat
            /\ Cardinality(Claimants(h, m)) <= Cardinality(Counted))'
      BY ClaimsCounted, PTL
    <3> QED
      BY <3>1
  <2>2. CASE implicitProducerHashCount' < m
    BY <1>1, <2>1, <2>2
  <2>3. ASSUME NEW g \in 1 .. Len(hashes), Threshold(g) <= m, Claimants(h, m)' \subseteq Claimants(g, m)
        PROVE  Claimants(h, m)' = {} \/ Cardinality(Claimants(h, m))' < m
    <3>1. Claimants(g, m) = {} \/ Cardinality(Claimants(g, m)) < m
      BY <2>3, ThresholdType DEF RoomInv, Bounded
    <3>2. IsFiniteSet(Claimants(g, m)) /\ Cardinality(Claimants(g, m)) \in Nat
      BY ClaimsCounted
    <3>3. Cardinality(Claimants(h, m)') <= Cardinality(Claimants(g, m))
      BY <2>3, <3>2, FS_Subset
    <3> QED
      BY <2>1, <2>3, <3>1, <3>2, <3>3
  <2> QED
    BY <1>2, <2>2, <2>3 DEF RoomMove
<1> QED
  BY <1>1, <1>2 DEF RoomInv, Bounded, RoomMove


(* A step that leaves the tables alone: what matters is the thread's own   *)
(* record. *)
ClaimKept(t, r) ==
  \A h \in 1 .. Len(hashes), m \in Nat :
    m >= Threshold(h) /\ Claims(t, r, h, m) => Claims(t, enq[t], h, m) \/ implicitProducerHashCount' < m
CountKept(t, r) ==
  \/ (Counts(t, r) <=> Counts(t, enq[t])) /\ UNCHANGED implicitProducerHashCount
  \/ Counts(t, r) /\ ~Counts(t, enq[t]) /\ implicitProducerHashCount' = implicitProducerHashCount + 1
  \/ ~Counts(t, r) /\ Counts(t, enq[t]) /\ implicitProducerHashCount' = implicitProducerHashCount - 1

LEMMA QuietRoom ==
  ASSUME EnqueueType, RoomInv, NEW t \in Enqueuers, NEW r, EnqStep(t, r), UNCHANGED <<hashes, withToken>>,
         ClaimKept(t, r), CountKept(t, r)
  PROVE  RoomMove(t)
<1>1. enq'[t] = r /\ \A u \in Enqueuers \ {t} : enq'[u] = enq[u]
  BY DEF EnqStep, EnqueueType, EnqType
<1>2. ASSUME NEW u \in Enqueuers, NEW s, NEW h, NEW m
      PROVE  (Claims(u, s, h, m)' <=> Claims(u, s, h, m)) /\ (Counts(u, s)' <=> Counts(u, s))
  BY DEF Claims, Grants, Kept, Counts, Listed
<1>3. ASSUME NEW u \in Enqueuers, NEW h, NEW m
      PROVE  /\ Claims(u, enq[u], h, m)' <=> Claims(u, enq'[u], h, m)
             /\ Counts(u, enq[u])' <=> Counts(u, enq'[u])
  BY DEF Claims, Grants, Kept, Counts, Listed
<1>4. ASSUME NEW u \in Enqueuers \ {t} PROVE u \in Counted' <=> u \in Counted
  <2>1. Counts(u, enq[u])' <=> Counts(u, enq[u])
    BY <1>1, <1>3
  <2> QED
    BY <2>1 DEF Counted
<1>5. /\ t \in Counted' <=> Counts(t, r)
      /\ t \in Counted <=> Counts(t, enq[t])
  <2>1. Counts(t, enq[t])' <=> Counts(t, r)
    BY <1>1, <1>3
  <2> QED
    BY <2>1 DEF Counted
<1>6. implicitProducerHashCount' = implicitProducerHashCount + Has(t, Counted') - Has(t, Counted)
  <2>1. implicitProducerHashCount \in Int
    BY DEF EnqueueType, SharedType
  <2> QED
    BY <1>5, <2>1 DEF CountKept, Has
<1>7. Growing'
  BY DEF Growing, RoomInv
<1>8. ASSUME NEW h \in 1 .. Len(hashes), NEW m \in Nat, m >= Threshold(h)
      PROVE  \/ \E g \in 1 .. Len(hashes) : Threshold(g) <= m /\ Claimants(h, m)' \subseteq Claimants(g, m)
             \/ implicitProducerHashCount' < m
  <2>1. SUFFICES ASSUME ~ (implicitProducerHashCount' < m) PROVE Claimants(h, m)' \subseteq Claimants(h, m)
    BY <1>8, ThresholdType
  <2>2. ASSUME NEW u \in Enqueuers, Claims(u, enq[u], h, m)' PROVE Claims(u, enq[u], h, m)
    <3>1. Claims(u, enq'[u], h, m)
      BY <1>3, <2>2
    <3> QED
      BY <1>1, <1>8, <2>1, <3>1 DEF ClaimKept
  <2> QED
    BY <2>2 DEF Claimants
<1>9. \A h : Threshold(h)' = Threshold(h)
  BY DEF Threshold, Half
<1> QED
  BY <1>4, <1>6, <1>7, <1>8, <1>9 DEF RoomMove

(* Away from the tables nothing is claimed. *)
Aside(t, r) == r.pc \notin Trying /\ (withToken[t] \/ r.pc \notin Admitted)

LEMMA AsideRoom ==
  ASSUME EnqueueType, RoomInv, NEW t \in Enqueuers, NEW r, EnqStep(t, r), UNCHANGED <<hashes, withToken>>,
         Aside(t, r),
         \/ Aside(t, enq[t]) /\ UNCHANGED implicitProducerHashCount
         \/ /\ ~withToken[t] /\ enq[t].pc \in Trying \cup Admitted /\ ~Listed(t)
            /\ implicitProducerHashCount' = implicitProducerHashCount - 1
  PROVE  RoomMove(t)
<1>1. ClaimKept(t, r)
  BY DEF ClaimKept, Claims, Grants, Aside
<1>2. CountKept(t, r)
  BY DEF CountKept, Counts, Aside
<1> QED
  BY <1>1, <1>2, QuietRoom


LEMMA ReturnAside ==
  ASSUME NEW t \in Enqueuers, EnqReturn(t)
  PROVE  \E r : EnqStep(t, r) /\ Aside(t, r)
<1> DEFINE k == enq[t].token
           r == [NoEnq EXCEPT !.token = k]
<1>1. EnqStep(t, r)
  BY DEF EnqReturn
<1> HIDE DEF k
<1>2. r.pc = "idle"
  BY DEF NoEnq
<1> HIDE DEF r
<1> QED
  BY <1>1, <1>2 DEF Aside, Trying, Admitted

(* The enqueuers' steps that have to do with no table. *)
LEMMA OtherRoom ==
  ASSUME EnqueueType, RoomInv, NEW t \in Enqueuers,
         \/ MakeToken(t) \/ DropToken(t) \/ \E n \in {1, MaxBulk} : Enqueue(t, n)
         \/ Scan(t) \/ Put(t) \/ SignalElements(t) \/ PostElements(t)
         \/ withToken[t] /\ (Create(t) \/ Link(t))
  PROVE  RoomMove(t)
<1> DEFINE e == enq[t]
           Goes == \E r : EnqStep(t, r) /\ Aside(t, r)
<1>1. e \in Enqs /\ EnqSound(t, e)
  BY DEF EnqueueType, EnqType
<1>2. UNCHANGED <<hashes, withToken>>
  BY DEF MakeToken, DropToken, Enqueue, Scan, Put, SignalElements, PostElements, Signalling, Create, Link,
         hashVars, EnqueueVars
<1>3. implicitProducerHashCount \in Int
  BY DEF EnqueueType, SharedType
<1>4. UNCHANGED implicitProducerHashCount
  BY <1>3 DEF MakeToken, DropToken, Enqueue, Scan, Put, SignalElements, PostElements, Signalling, Create, Link,
              hashVars
<1>5. Aside(t, e)
  BY DEF MakeToken, DropToken, Enqueue, Scan, Put, SignalElements, PostElements, Create, Link, Aside, Trying, Admitted
<1>6. ASSUME NEW r, EnqStep(t, r), r.pc \in {"idle", "scan", "lookup", "put", "signal", "post"} PROVE Goes
  BY <1>6 DEF Aside, Trying, Admitted
<1>7. ASSUME NEW r, EnqStep(t, r), r.pc \in {"create", "link"}, withToken[t] PROVE Goes
  BY <1>7 DEF Aside, Trying, Admitted
<1>8. Goes
  <2>1. CASE MakeToken(t)
    <3> DEFINE r == [e EXCEPT !.pc = "scan", !.pos = Len(list)]
    <3>1. EnqStep(t, r) /\ r.pc = "scan"
      BY <1>1, <2>1 DEF MakeToken, Enqs
    <3> HIDE DEF r, Goes
    <3> QED
      BY <1>6, <3>1
  <2>2. CASE DropToken(t)
    <3>1. EnqStep(t, NoEnq) /\ NoEnq.pc = "idle"
      BY <2>2 DEF DropToken, NoEnq
    <3> HIDE DEF Goes
    <3> QED
      BY <1>6, <3>1
  <2>3. ASSUME NEW n \in {1, MaxBulk}, Enqueue(t, n) PROVE Goes
    <3> DEFINE r == [e EXCEPT !.pc = "put", !.count = n, !.producer = e.token]
               s == [e EXCEPT !.pc = "lookup", !.count = n]
    <3>1. EnqStep(t, r) \/ EnqStep(t, s)
      BY <2>3 DEF Enqueue
    <3>2. r.pc = "put" /\ s.pc = "lookup"
      BY <1>1 DEF Enqs
    <3> HIDE DEF r, s, Goes
    <3> QED
      BY <1>6, <3>1, <3>2
  <2>4. CASE Scan(t)
    <3> DEFINE p == list[e.pos]
               k == [NoEnq EXCEPT !.token = p]
               r == [e EXCEPT !.pos = @ - 1]
               s == [e EXCEPT !.pc = "create"]
    <3>1. (EnqStep(t, s) \/ EnqStep(t, r) \/ EnqStep(t, k)) /\ e.pc = "scan"
      BY <2>4 DEF Scan, EnqGoto
    <3>2. s.pc = "create" /\ r.pc = e.pc /\ k.pc = "idle" /\ withToken[t]
      <4> HIDE DEF p
      <4>1. k.pc = "idle"
        BY DEF NoEnq
      <4> QED
        BY <1>1, <3>1, <4>1 DEF Enqs, EnqSound
    <3> HIDE DEF r, s, k, Goes
    <3> QED
      BY <1>6, <1>7, <3>1, <3>2
  <2>5. CASE Put(t)
    <3> DEFINE r == [e EXCEPT !.pc = "signal"]
    <3>1. EnqReturn(t) \/ EnqStep(t, r)
      BY <2>5 DEF Put, EnqGoto
    <3>2. r.pc = "signal"
      BY <1>1 DEF Enqs
    <3> HIDE DEF r
    <3> QED
      BY <1>6, <3>1, <3>2, ReturnAside
  <2>6. CASE SignalElements(t) \/ PostElements(t)
    <3> DEFINE r == [e EXCEPT !.pc = "post", !.count = 0]
    <3>1. EnqReturn(t) \/ EnqStep(t, r)
      BY <2>6 DEF SignalElements, PostElements, Signalling
    <3>2. r.pc = "post"
      BY <1>1 DEF Enqs
    <3> HIDE DEF r
    <3> QED
      BY <1>6, <3>1, <3>2, ReturnAside
  <2>7. CASE withToken[t] /\ Create(t)
    <3> DEFINE r == [e EXCEPT !.pc = "link", !.producer = Len(producers) + 1]
    <3>1. EnqReturn(t) \/ EnqStep(t, r)
      BY <2>7 DEF Create
    <3>2. r.pc = "link"
      BY <1>1 DEF Enqs
    <3> HIDE DEF r
    <3> QED
      BY <1>7, <2>7, <3>1, <3>2, ReturnAside
  <2>8. CASE withToken[t] /\ Link(t)
    <3> DEFINE p == e.producer
               k == [NoEnq EXCEPT !.token = p]
    <3>1. EnqStep(t, k)
      BY <2>8 DEF Link
    <3> HIDE DEF p
    <3>2. k.pc = "idle"
      BY DEF NoEnq
    <3> HIDE DEF k, Goes
    <3> QED
      BY <1>6, <3>1, <3>2
  <2> QED
    BY <2>1, <2>2, <2>3, <2>4, <2>5, <2>6, <2>7, <2>8
<1> QED
  BY <1>2, <1>4, <1>5, <1>8, AsideRoom

(* A thread that is found in a table has its slot. *)
LEMMA LookUpRoom ==
  ASSUME EnqueueType, RoomInv, NEW t \in Enqueuers, LookUp(t)
  PROVE  RoomMove(t)
<1> DEFINE e == enq[t]
           h == Len(hashes)
           found == {k \in 1 .. h : t \in hashes[k].keys}
           k == CHOOSE k \in found : \A j \in found : j <= k
           l == IF k = h THEN "put" ELSE "insert"
           g == IF k = h THEN 0 ELSE h
           p == hashes[k].value[t]
           r == [e EXCEPT !.pc = "count", !.hash = h]
           s == [e EXCEPT !.pc = l, !.hash = g, !.producer = p]
<1>1. e \in Enqs /\ h \in Nat
  BY Lengths DEF EnqueueType, EnqType
<1>2. e.pc = "lookup" /\ UNCHANGED <<hashes, withToken, implicitProducerHashCount>>
  BY DEF LookUp, hashVars, EnqueueVars
<1>3. EnqStep(t, IF found = {} THEN r ELSE s)
  BY DEF LookUp
<1>4. Aside(t, e)
  BY <1>2 DEF Aside, Trying, Admitted
<1>5. CASE found = {}
  <2>1. EnqStep(t, r)
    BY <1>3, <1>5
  <2> HIDE DEF e, h
  <2>2. r.pc = "count"
    BY <1>1 DEF Enqs
  <2> HIDE DEF r
  <2>3. Aside(t, r)
    BY <2>2 DEF Aside, Trying, Admitted
  <2> QED
    BY <1>2, <1>4, <2>1, <2>3, AsideRoom DEF e
<1>6. CASE found # {}
  <2>1. k \in 1 .. h /\ t \in hashes[k].keys
    <3>1. k \in found
      BY <1>1, <1>6, NewestTable
    <3> QED
      BY <3>1
  <2>2. EnqStep(t, s)
    BY <1>3, <1>6
  <2> HIDE DEF e, k, p
  <2>3. s.pc = l /\ s.hash = g
    <3> HIDE DEF l, g
    <3> QED
      BY <1>1 DEF Enqs
  <2> HIDE DEF s
  <2>4. Listed(t)
    BY <2>1 DEF Listed
  <2>5. CountKept(t, s)
    BY <1>2, <2>4 DEF CountKept, Counts
  <2>6. ASSUME NEW j \in 1 .. Len(hashes), NEW m \in Nat, Claims(t, s, j, m) PROVE Claims(t, e, j, m)
    <3>1. CASE Kept(t, j)
      BY <3>1 DEF Claims, Grants
    <3>2. CASE ~Kept(t, j)
      <4>1. s.pc \in Admitted /\ s.hash <= j
        BY <2>3, <2>6, <3>2 DEF Claims, Grants, Trying
      <4>2. j = h
        BY <1>1, <2>3, <4>1 DEF Admitted
      <4>3. Kept(t, j)
        BY <2>1, <4>2 DEF Kept
      <4> QED
        BY <3>2, <4>3
    <3> QED
      BY <3>1, <3>2
  <2>7. ClaimKept(t, s)
    BY <2>6 DEF ClaimKept, e
  <2> QED
    BY <1>2, <2>2, <2>5, <2>7, QuietRoom
<1> QED
  BY <1>5, <1>6


(* The thread that is counted as number n comes after n - 1 others. *)
LEMMA CountRoom ==
  ASSUME EnqueueType, OwnInv, RoomInv, NEW t \in Enqueuers, HashCount(t)
  PROVE  RoomMove(t)
<1> DEFINE e == enq[t]
           n == implicitProducerHashCount + 1
           r == [e EXCEPT !.pc = "resize", !.newCount = n]
<1>1. e \in Enqs /\ EnqSound(t, e) /\ UseSound(t, e)
  BY DEF EnqueueType, EnqType, OwnInv
<1>2. e.pc = "count" /\ UNCHANGED <<hashes, withToken>> /\ EnqStep(t, r) /\ implicitProducerHashCount' = n
  BY DEF HashCount, EnqueueVars
<1>3. ~withToken[t] /\ ~Listed(t)
  BY <1>1, <1>2 DEF EnqSound, Looking, UseSound, Unlisted
<1> HIDE DEF e, n
<1>4. r.pc = "resize" /\ r.newCount = n
  BY <1>1 DEF Enqs
<1> HIDE DEF r
<1>5. CountKept(t, r)
  BY <1>2, <1>3, <1>4 DEF CountKept, Counts, Trying, Admitted, n, e
<1>6. ClaimKept(t, r)
  BY <1>2, <1>4 DEF ClaimKept, Claims, Grants, Admitted
<1> QED
  BY <1>2, <1>5, <1>6, QuietRoom

(* While it tries it keeps its number, ... *)
LEMMA TryRoom ==
  ASSUME EnqueueType, RoomInv, NEW t \in Enqueuers, NEW r, EnqStep(t, r),
         UNCHANGED <<hashes, withToken, implicitProducerHashCount>>,
         enq[t].pc \in Trying, r.pc \in Trying, r.newCount = enq[t].newCount
  PROVE  RoomMove(t)
<1>1. ~withToken[t]
  BY DEF EnqueueType, EnqType, EnqSound, Looking, Trying
<1>2. CountKept(t, r)
  BY <1>1 DEF CountKept, Counts
<1>3. ClaimKept(t, r)
  BY DEF ClaimKept, Claims, Grants, Trying, Admitted
<1> QED
  BY <1>2, <1>3, QuietRoom

(* ... until it is admitted, with a number below what the table takes. *)
LEMMA AdmitRoom ==
  ASSUME EnqueueType, RoomInv, NEW t \in Enqueuers, HashRoom(t)
  PROVE  RoomMove(t)
<1> DEFINE e == enq[t]
           r == [e EXCEPT !.pc = "create"]
           s == [e EXCEPT !.pc = "resize", !.hash = Len(hashes)]
<1>1. e \in Enqs /\ EnqSound(t, e) /\ SharedType
  BY DEF EnqueueType, EnqType
<1>2. /\ e.pc = "room" /\ UNCHANGED <<hashes, withToken, implicitProducerHashCount>>
      /\ \/ e.newCount < Threshold(e.hash) /\ EnqStep(t, r)
         \/ EnqStep(t, s)
  BY DEF HashRoom, hashVars, EnqueueVars, EnqGoto, Main, Threshold
<1>3. ~withToken[t] /\ e.hash \in 1 .. Len(hashes) /\ e.newCount \in Int
  BY <1>1, <1>2, Lengths DEF EnqSound, Looking, Enqs
<1> HIDE DEF e
<1>4. r.pc = "create" /\ r.hash = e.hash /\ s.pc = "resize" /\ s.newCount = e.newCount
  BY <1>1 DEF Enqs
<1> HIDE DEF r, s
<1>5. CASE EnqStep(t, s)
  BY <1>2, <1>4, <1>5, TryRoom DEF Trying, e
<1>6. CASE e.newCount < Threshold(e.hash) /\ EnqStep(t, r)
  <2>1. CountKept(t, r)
    BY <1>2, <1>3, <1>4 DEF CountKept, Counts, Trying, Admitted, e
  <2>2. ASSUME NEW h \in 1 .. Len(hashes), NEW m \in Nat, m >= Threshold(h), Claims(t, r, h, m)
        PROVE  Claims(t, e, h, m)
    <3>1. CASE Kept(t, h)
      BY <3>1 DEF Claims, Grants
    <3>2. CASE e.hash <= h
      <4>1. hashes[e.hash].capacity <= hashes[h].capacity
        BY <1>3, <3>2 DEF RoomInv, Growing
      <4>2. /\ Threshold(e.hash) = (hashes[e.hash].capacity \div 2) + (hashes[e.hash].capacity \div 4)
            /\ hashes[e.hash].capacity \in Nat
        BY <1>3, ThresholdType
      <4>3. /\ Threshold(h) = (hashes[h].capacity \div 2) + (hashes[h].capacity \div 4)
            /\ hashes[h].capacity \in Nat
        BY ThresholdType
      <4>4. ASSUME NEW a \in Nat, NEW b \in Nat, a <= b PROVE (a \div 2) + (a \div 4) <= (b \div 2) + (b \div 4)
        BY <4>4
      <4>5. Threshold(e.hash) <= Threshold(h) /\ Threshold(e.hash) \in Int /\ Threshold(h) \in Int
        <5> DEFINE a == hashes[e.hash].capacity
                   b == hashes[h].capacity
        <5>1. a \in Nat /\ b \in Nat /\ a <= b
          BY <4>1, <4>2, <4>3
        <5>2. /\ Threshold(e.hash) = (a \div 2) + (a \div 4)
              /\ Threshold(h) = (b \div 2) + (b \div 4)
          BY <4>2, <4>3
        <5> HIDE DEF a, b
        <5>3. (a \div 2) + (a \div 4) <= (b \div 2) + (b \div 4)
          BY <4>4, <5>1
        <5>4. (a \div 2) + (a \div 4) \in Int /\ (b \div 2) + (b \div 4) \in Int
          BY <5>1
        <5> QED
          BY <5>2, <5>3, <5>4
      <4>6. e.newCount < m
        BY <1>3, <1>6, <2>2, <4>5
      <4> QED
        BY <1>2, <4>6 DEF Claims, Trying
    <3> QED
      BY <1>4, <2>2, <3>1, <3>2 DEF Claims, Grants, Trying
  <2>3. ClaimKept(t, r)
    BY <2>2 DEF ClaimKept, e
  <2> QED
    BY <1>2, <1>6, <2>1, <2>3, QuietRoom
<1> QED
  BY <1>2, <1>5, <1>6

(* An admitted thread goes on, or gives its place back. *)
LEMMA CreateRoom ==
  ASSUME EnqueueType, OwnInv, RoomInv, NEW t \in Enqueuers, Create(t) \/ Link(t), ~withToken[t]
  PROVE  RoomMove(t)
<1> DEFINE e == enq[t]
           r == [e EXCEPT !.pc = "link", !.producer = Len(producers) + 1]
           s == [e EXCEPT !.pc = "insert"]
<1>1. e \in Enqs /\ EnqSound(t, e) /\ UseSound(t, e)
  BY DEF EnqueueType, EnqType, OwnInv
<1>2. /\ e.pc \in Admitted /\ UNCHANGED <<hashes, withToken>>
      /\ \/ (EnqStep(t, r) \/ EnqStep(t, s)) /\ UNCHANGED implicitProducerHashCount
         \/ e.pc = "create" /\ EnqReturn(t) /\ implicitProducerHashCount' = implicitProducerHashCount - 1
  BY DEF Create, Link, hashVars, EnqueueVars, EnqGoto, Admitted
<1>3. CASE e.pc = "create" /\ EnqReturn(t) /\ implicitProducerHashCount' = implicitProducerHashCount - 1
  <2>1. PICK k : EnqStep(t, k) /\ Aside(t, k)
    BY <1>3, ReturnAside
  <2>2. ~Listed(t)
    BY <1>1, <1>3 DEF UseSound, Unlisted
  <2> QED
    BY <1>2, <1>3, <2>1, <2>2, AsideRoom
<1> HIDE DEF e
<1>4. r.pc = "link" /\ r.hash = e.hash /\ s.pc = "insert" /\ s.hash = e.hash
  BY <1>1 DEF Enqs
<1> HIDE DEF r, s
<1>5. ASSUME NEW k, EnqStep(t, k), UNCHANGED implicitProducerHashCount, k.pc \in Admitted, k.hash = e.hash
      PROVE  RoomMove(t)
  <2>1. CountKept(t, k)
    BY <1>2, <1>5 DEF CountKept, Counts, e
  <2>2. ClaimKept(t, k)
    BY <1>2, <1>5 DEF ClaimKept, Claims, Grants, Admitted, Trying, e
  <2> QED
    BY <1>2, <1>5, <2>1, <2>2, QuietRoom
<1> QED
  BY <1>2, <1>3, <1>4, <1>5 DEF Admitted

LEMMA InsertRoom ==
  ASSUME EnqueueType, OwnInv, RoomInv, NEW t \in Enqueuers, Insert(t)
  PROVE  RoomMove(t)
<1> DEFINE e == enq[t]
           r == [e EXCEPT !.pc = "put", !.hash = 0, !.newCount = 0]
<1>1. e.pc = "insert" /\ EnqStep(t, r) /\ UNCHANGED <<withToken, implicitProducerHashCount>>
  BY DEF Insert, EnqueueVars
<1>2. e \in Enqs /\ EnqSound(t, e)
  BY DEF EnqueueType, EnqType
<1>3. enq'[t] = r /\ \A u \in Enqueuers \ {t} : enq'[u] = enq[u]
  BY <1>1 DEF EnqStep, EnqueueType, EnqType
<1>4. /\ Len(hashes)' = Len(hashes) /\ Len(hashes) \in Nat
      /\ e.hash \in 1 .. Len(hashes)
      /\ \A h \in 1 .. Len(hashes) :
           /\ hashes'[h].capacity = hashes[h].capacity
           /\ hashes'[h].keys = hashes[h].keys \cup (IF h = e.hash THEN {t} ELSE {})
  BY InsertTypes, Lengths DEF EnqueueType
<1>5. ~withToken[t]
  BY <1>1, <1>2 DEF EnqSound, Looking
<1> HIDE DEF e
<1>6. r.pc = "put"
  BY <1>2 DEF Enqs
<1> HIDE DEF r
<1>7. ASSUME NEW u \in Enqueuers \ {t}, NEW h \in 1 .. Len(hashes), NEW m \in Nat
      PROVE  /\ Counts(u, enq[u])' <=> Counts(u, enq[u])
             /\ Claims(u, enq[u], h, m)' <=> Claims(u, enq[u], h, m)
  <2>1. \A g \in 1 .. Len(hashes) : u \in hashes'[g].keys <=> u \in hashes[g].keys
    BY <1>4
  <2>2. (Listed(u)' <=> Listed(u)) /\ (Kept(u, h)' <=> Kept(u, h))
    BY <1>4, <2>1 DEF Listed, Kept
  <2> QED
    BY <1>1, <1>3, <2>2 DEF Counts, Claims, Grants
<1>8. Counts(t, enq[t])' /\ Counts(t, enq[t])
  <2>1. Listed(t)'
    BY <1>4 DEF Listed
  <2> QED
    BY <1>1, <1>5, <2>1 DEF Counts, Admitted, e
<1>9. ASSUME NEW h \in 1 .. Len(hashes), NEW m \in Nat, Claims(t, enq[t], h, m)' PROVE Claims(t, enq[t], h, m)
  <2>1. Kept(t, h)'
    BY <1>3, <1>6, <1>9 DEF Claims, Grants, Trying, Admitted
  <2>2. PICK g \in 1 .. h : t \in hashes'[g].keys
    BY <2>1 DEF Kept
  <2>3. g \in 1 .. Len(hashes)
    BY <1>4
  <2>4. CASE g = e.hash
    BY <1>1, <1>4, <1>5, <2>4 DEF Claims, Grants, Admitted, e
  <2>5. CASE g # e.hash
    BY <1>4, <2>2, <2>3, <2>5 DEF Claims, Grants, Kept
  <2> QED
    BY <2>4, <2>5
<1>10. implicitProducerHashCount \in Int
  BY DEF EnqueueType, SharedType
<1>11. \A u \in Enqueuers : u \in Counted' <=> u \in Counted
  <2>1. ASSUME NEW u \in Enqueuers PROVE Counts(u, enq[u])' <=> Counts(u, enq[u])
    <3>1. 1 \in 1 .. Len(hashes) /\ 0 \in Nat
      BY <1>4
    <3> QED
      BY <1>7, <1>8, <3>1
  <2> QED
    BY <2>1 DEF Counted
<1>12. ASSUME NEW h \in 1 .. Len(hashes), NEW m \in Nat, m >= Threshold(h)'
       PROVE  \E g \in 1 .. Len(hashes) : Threshold(g) <= m /\ Claimants(h, m)' \subseteq Claimants(g, m)
  <2>1. Threshold(h)' = Threshold(h)
    BY <1>4 DEF Threshold, Half
  <2>2. Claimants(h, m)' \subseteq Claimants(h, m)
    BY <1>7, <1>9 DEF Claimants
  <2> QED
    BY <1>12, <2>1, <2>2, ThresholdType
<1>13. Growing'
  BY <1>4 DEF Growing, RoomInv
<1> QED
  BY <1>1, <1>4, <1>10, <1>11, <1>12, <1>13 DEF RoomMove, Has


(* A replaced table: the new one is larger, and nobody has a slot yet. *)
LEMMA AppendRoom ==
  ASSUME EnqueueType, RoomInv, NEW t \in Enqueuers, NEW r, EnqStep(t, r), NEW n \in Nat,
         n >= hashes[Len(hashes)].capacity, hashes' = Append(hashes, NewHash(n)),
         enq[t].pc \in Trying, r.pc \in Trying, r.newCount = enq[t].newCount,
         UNCHANGED <<withToken, implicitProducerHashCount>>
  PROVE  RoomMove(t)
<1>1. PICK last \in Nat : last = Len(hashes) /\ last > 0
  BY Lengths DEF EnqueueType
<1>2. enq'[t] = r /\ \A u \in Enqueuers \ {t} : enq'[u] = enq[u]
  BY DEF EnqStep, EnqueueType, EnqType
<1>3. /\ \A u \in Enqueuers : Listed(u)' <=> Listed(u)
      /\ Len(hashes)' = last + 1 /\ \A h \in 1 .. last : hashes'[h] = hashes[h]
      /\ hashes'[last + 1] = NewHash(n)
  BY <1>1, NewTable
<1>4. NewHash(n).keys = {} /\ NewHash(n).capacity = n
  BY DEF NewHash
<1>5. ASSUME NEW u \in Enqueuers PROVE Counts(u, enq[u])' <=> Counts(u, enq[u])
  <2>1. CASE u # t
    BY <1>2, <1>3, <2>1 DEF Counts
  <2>2. CASE u = t
    BY <1>2, <1>3, <2>2 DEF Counts
  <2> QED
    BY <2>1, <2>2
<1>6. \A u \in Enqueuers : u \in Counted' <=> u \in Counted
  BY <1>5 DEF Counted
<1>7. ASSUME NEW h \in 1 .. last, NEW u \in Enqueuers PROVE Kept(u, h)' <=> Kept(u, h)
  <2>1. 1 .. h \subseteq 1 .. last
    BY <1>1
  <2> QED
    BY <1>3, <2>1 DEF Kept
<1>8. ASSUME NEW u \in Enqueuers PROVE Kept(u, last + 1)' <=> Kept(u, last)
  <2>1. 1 .. last + 1 = 1 .. last \cup {last + 1}
    BY <1>1
  <2> QED
    BY <1>3, <1>4, <2>1 DEF Kept
<1>9. ASSUME NEW h \in 1 .. last, NEW m \in Nat PROVE Claimants(h, m)' \subseteq Claimants(h, m)
  <2>1. ASSUME NEW u \in Enqueuers, Claims(u, enq[u], h, m)' PROVE Claims(u, enq[u], h, m)
    <3>1. CASE u # t
      BY <1>2, <1>7, <2>1, <3>1 DEF Claims, Grants
    <3>2. CASE u = t
      BY <1>2, <1>7, <2>1, <3>2 DEF Claims, Grants, Trying, Admitted
    <3> QED
      BY <3>1, <3>2
  <2> QED
    BY <2>1 DEF Claimants
<1>10. ASSUME NEW m \in Nat PROVE Claimants(last + 1, m)' \subseteq Claimants(last, m)
  <2>1. ASSUME NEW u \in Enqueuers, Claims(u, enq[u], last + 1, m)' PROVE Claims(u, enq[u], last, m)
    <3>1. CASE u # t
      <4>1. enq[u] \in Enqs
        BY DEF EnqueueType, EnqType
      <4>2. enq[u].hash <= last
        BY <1>1, <4>1 DEF Enqs
      <4> QED
        BY <1>2, <1>8, <2>1, <3>1, <4>2 DEF Claims, Grants
    <3>2. CASE u = t
      BY <1>2, <1>8, <2>1, <3>2 DEF Claims, Grants, Trying, Admitted
    <3> QED
      BY <3>1, <3>2
  <2> QED
    BY <2>1 DEF Claimants
<1>11. ASSUME NEW h \in 1 .. last
       PROVE  hashes[h].capacity \in Nat /\ hashes[h].capacity <= n /\ hashes'[h].capacity = hashes[h].capacity
  <2>1. hashes[h].capacity \in Nat /\ hashes[last].capacity \in Nat /\ hashes[h].capacity <= hashes[last].capacity
    BY <1>1, ThresholdType DEF RoomInv, Growing
  <2> QED
    BY <1>1, <1>3, <2>1
<1>12. Growing'
  <2> SUFFICES ASSUME NEW g \in 1 .. last + 1, NEW h \in 1 .. last + 1, g <= h
               PROVE  hashes'[g].capacity <= hashes'[h].capacity
    BY <1>1, <1>3 DEF Growing
  <2>1. CASE h = last + 1
    <3>1. hashes'[h].capacity = n
      BY <1>3, <1>4, <2>1
    <3>2. CASE g \in 1 .. last
      BY <1>11, <3>1, <3>2
    <3>3. CASE g = last + 1
      BY <2>1, <3>1, <3>3, <1>1
    <3> QED
      BY <1>1, <3>2, <3>3
  <2>2. CASE h # last + 1
    <3>1. g \in 1 .. last /\ h \in 1 .. last
      BY <1>1, <2>2
    <3> QED
      BY <1>1, <1>11, <3>1 DEF RoomInv, Growing
  <2> QED
    BY <2>1, <2>2
<1>13. ASSUME NEW h \in 1 .. last + 1, NEW m \in Nat, m >= Threshold(h)'
       PROVE  \E g \in 1 .. last : Threshold(g) <= m /\ Claimants(h, m)' \subseteq Claimants(g, m)
  <2>1. CASE h = last + 1
    <3>1. Threshold(h)' = (n \div 2) + (n \div 4)
      BY <1>3, <1>4, <2>1 DEF Threshold, Half
    <3>2. /\ Threshold(last) = (hashes[last].capacity \div 2) + (hashes[last].capacity \div 4)
          /\ hashes[last].capacity \in Nat /\ hashes[last].capacity <= n
      BY <1>1, ThresholdType
    <3>3. ASSUME NEW a \in Nat, NEW b \in Nat, a <= b PROVE (a \div 2) + (a \div 4) <= (b \div 2) + (b \div 4)
      BY <3>3
    <3>4. Threshold(last) <= m
      <4> DEFINE a == hashes[last].capacity
      <4>1. /\ a \in Nat /\ n \in Nat /\ a <= n
            /\ Threshold(last) = (a \div 2) + (a \div 4)
        BY <1>1, <3>2
      <4>2. m >= (n \div 2) + (n \div 4)
        BY <1>13, <3>1
      <4> HIDE DEF a
      <4>3. (a \div 2) + (a \div 4) <= (n \div 2) + (n \div 4)
        BY <3>3, <4>1
      <4>4. (a \div 2) + (a \div 4) \in Int /\ (n \div 2) + (n \div 4) \in Int
        BY <4>1
      <4> QED
        BY <4>1, <4>2, <4>3, <4>4
    <3> QED
      BY <1>1, <1>10, <2>1, <3>4
  <2>2. CASE h # last + 1
    <3>1. h \in 1 .. last
      BY <1>1, <2>2
    <3>2. Threshold(h)' = Threshold(h) /\ Threshold(h) \in Nat
      BY <1>1, <1>3, <3>1, ThresholdType DEF Threshold, Half
    <3>3. Threshold(h) <= m
      BY <1>13, <3>2
    <3> QED
      BY <1>9, <3>1, <3>3
  <2> QED
    BY <2>1, <2>2
<1>14. implicitProducerHashCount \in Int
  BY DEF EnqueueType, SharedType
<1> QED
  BY <1>1, <1>3, <1>6, <1>12, <1>13, <1>14 DEF RoomMove, Has

LEMMA TableRoom ==
  ASSUME EnqueueType, OwnInv, RoomInv, NEW t \in Enqueuers, HashTry(t) \/ HashUnlock(t) \/ HashGrow(t)
  PROVE  RoomMove(t)
<1> DEFINE e == enq[t]
<1>1. e \in Enqs /\ EnqSound(t, e) /\ UseSound(t, e)
  BY DEF EnqueueType, EnqType, OwnInv
<1>2. e.pc \in Trying /\ UNCHANGED withToken
  BY DEF HashTry, HashUnlock, HashGrow, EnqueueVars, Trying
<1>3. CASE HashTry(t) \/ HashUnlock(t)
  <2>1. /\ UNCHANGED <<hashes, withToken, implicitProducerHashCount>>
        /\ \E l \in Trying : EnqStep(t, [e EXCEPT !.pc = l])
    BY <1>3 DEF HashTry, HashUnlock, hashVars, EnqueueVars, EnqGoto, Trying
  <2>2. PICK l \in Trying : EnqStep(t, [e EXCEPT !.pc = l])
    BY <2>1
  <2> DEFINE r == [e EXCEPT !.pc = l]
  <2> HIDE DEF e
  <2>3. r.pc = l /\ r.newCount = e.newCount
    BY <1>1 DEF Enqs
  <2> HIDE DEF r
  <2> QED
    BY <1>2, <2>1, <2>2, <2>3, TryRoom DEF r, e
<1>4. CASE HashGrow(t)
  <2> DEFINE last == Len(hashes)
             h == hashes[last]
             n == Doubled(h.capacity, e.newCount)
             r(k) == [e EXCEPT !.pc = "unlock", !.hash = k]
  <2>1. /\ e.pc = "grow"
        /\ \/ /\ e.newCount >= Half(h) /\ hashes' = Append(hashes, NewHash(n)) /\ EnqStep(t, r(last + 1))
              /\ UNCHANGED implicitProducerHashCount
           \/ /\ implicitProducerHashCount' = implicitProducerHashCount - 1
              /\ EnqStep(t, FailedCall(t)) /\ UNCHANGED hashes
           \/ /\ EnqStep(t, r(last)) /\ UNCHANGED <<hashes, implicitProducerHashCount>>
    BY <1>4 DEF HashGrow, FailedCall, hashVars
  <2>2. CASE /\ implicitProducerHashCount' = implicitProducerHashCount - 1
             /\ EnqStep(t, FailedCall(t)) /\ UNCHANGED hashes
    <3>1. Aside(t, FailedCall(t))
      BY FailedCallTypes DEF Aside, Trying, Admitted
    <3>2. ~withToken[t] /\ ~Listed(t)
      BY <1>1, <2>1 DEF UseSound, Unlisted, EnqSound, Looking
    <3> QED
      BY <1>2, <2>2, <3>1, <3>2, AsideRoom
  <2>3. ASSUME NEW k PROVE r(k).pc = "unlock" /\ r(k).newCount = e.newCount
    <3> HIDE DEF e
    <3> QED
      BY <1>1 DEF Enqs
  <2>4. CASE EnqStep(t, r(last)) /\ UNCHANGED <<hashes, implicitProducerHashCount>>
    <3>1. r(last).pc = "unlock" /\ r(last).newCount = e.newCount
      BY <2>3
    <3> DEFINE s == r(last)
    <3> HIDE DEF s
    <3>2. EnqStep(t, s) /\ s.pc \in Trying /\ s.newCount = e.newCount
      BY <2>4, <3>1 DEF s, Trying
    <3> QED
      BY <1>2, <2>4, <3>2, TryRoom
  <2>5. CASE /\ e.newCount >= Half(h) /\ hashes' = Append(hashes, NewHash(n)) /\ EnqStep(t, r(last + 1))
             /\ UNCHANGED implicitProducerHashCount
    <3>1. r(last + 1).pc = "unlock" /\ r(last + 1).newCount = e.newCount
      BY <2>3
    <3> DEFINE s == r(last + 1)
    <3> HIDE DEF s
    <3>2. EnqStep(t, s) /\ s.pc \in Trying /\ s.newCount = e.newCount
      BY <2>5, <3>1 DEF s, Trying
    <3>3. h.capacity \in Nat \ {0} /\ e.newCount \in Nat
      <4>1. h.capacity \in Nat \ {0}
        BY Lengths, ThresholdType DEF EnqueueType
      <4>2. e.newCount \in Int
        BY <1>1 DEF Enqs
      <4> QED
        BY <2>5, <4>1, <4>2 DEF Half
    <3>4. ASSUME NEW c \in Nat \ {0}, NEW m \in Nat PROVE Doubled(c, m) \in Nat /\ Doubled(c, m) >= c
      <4>1. Doubled(c, m) \in Nat /\ Doubled(c, m) >= 2 * c
        BY DoubledFacts
      <4> QED
        BY <4>1
    <3>5. n \in Nat /\ n >= h.capacity
      BY <3>3, <3>4
    <3> HIDE DEF n
    <3> QED
      BY <1>2, <2>5, <3>2, <3>5, AppendRoom
  <2> QED
    BY <2>1, <2>2, <2>4, <2>5
<1> QED
  BY <1>3, <1>4

LEMMA FailRoom ==
  ASSUME EnqueueType, RoomInv, NEW t \in Enqueuers, HashFail(t)
  PROVE  RoomMove(t)
<1>1. /\ enq[t].pc = "failed" /\ EnqReturn(t)
      /\ UNCHANGED <<hashes, withToken, implicitProducerHashCount>>
  BY DEF HashFail, EnqueueVars
<1>2. PICK r : EnqStep(t, r) /\ Aside(t, r)
  BY <1>1, ReturnAside
<1>3. Aside(t, enq[t])
  BY <1>1 DEF Aside, Trying, Admitted
<1> QED
  BY <1>1, <1>2, <1>3, AsideRoom

LEMMA RoomInit ==
  ASSUME Init
  PROVE  RoomInv
<1>1. /\ enq = [t \in Enqueuers |-> NoEnq] /\ implicitProducerHashCount = 0
      /\ hashes = <<NewHash(INITIAL_IMPLICIT_PRODUCER_HASH_SIZE)>>
  BY DEF Init, QueueInit
<1>2. Len(hashes) = 1 /\ hashes[1].keys = {} /\ hashes[1].capacity = INITIAL_IMPLICIT_PRODUCER_HASH_SIZE
  BY <1>1 DEF NewHash
<1>3. Counted = {}
  BY <1>1, <1>2 DEF Counted, Counts, NoEnq, Trying, Admitted, Listed
<1>4. \A m \in Nat : Claimants(1, m) = {}
  BY <1>1, <1>2 DEF Claimants, Claims, Grants, Kept, NoEnq, Trying, Admitted
<1>5. \A h \in 1 .. Len(hashes) : h = 1
  BY <1>2
<1>6. Growing
  BY <1>2, <1>5, HashAssumption DEF Growing
<1> QED
  BY <1>1, <1>3, <1>4, <1>5, <1>6, FS_EmptySet DEF RoomInv, Bounded

LEMMA RoomStays ==
  ASSUME RoomInv, UNCHANGED <<enq, hashVars, withToken>>
  PROVE  RoomInv'
<1>1. UNCHANGED <<enq, hashes, implicitProducerHashCount, withToken>>
  BY DEF hashVars
<1>2. Counted' = Counted
  BY <1>1 DEF Counted, Counts, Listed
<1>3. \A h, m : Claimants(h, m)' = Claimants(h, m)
  BY <1>1 DEF Claimants, Claims, Grants, Kept
<1>4. Bounded'
  BY <1>1, <1>3 DEF RoomInv, Bounded, Threshold, Half
<1> QED
  BY <1>1, <1>2, <1>4 DEF RoomInv, Growing

LEMMA RoomNext ==
  ASSUME QueueInv, QueueInv', OwnInv, RoomInv, [Next]_vars
  PROVE  RoomInv'
<1>1. EnqueueType /\ EnqueueType'
  BY DEF QueueInv, TypeInv
<1>2. ASSUME NEW t \in Enqueuers,
             \/ MakeToken(t) \/ DropToken(t) \/ \E n \in {1, MaxBulk} : Enqueue(t, n)
             \/ EnqueuerStep(t)
      PROVE  RoomInv'
  <2>1. RoomMove(t)
    BY <1>1, <1>2, OtherRoom, LookUpRoom, InsertRoom, CountRoom, TableRoom, FailRoom, AdmitRoom,
       CreateRoom
       DEF EnqueuerStep, ProducerStep
  <2> QED
    BY <1>1, <2>1, RoomStep
<1>3. ASSUME NEW c \in Consumers, Dequeue(c) \/ ConsumerStep(c)
      PROVE  RoomInv'
  BY <1>3, ConsumerFlags, RoomStays
<1>4. CASE UNCHANGED vars
  BY <1>4, RoomStays DEF vars, queueVars
<1> QED
  BY <1>2, <1>3, <1>4 DEF Next, Call

LEMMA RoomImplies ==
  ASSUME EnqueueType, RoomInv
  PROVE  TablesHaveRoom
<1>1. DOMAIN hashes = 1 .. Len(hashes)
  BY LenProperties DEF EnqueueType, SharedType
<1>2. ASSUME NEW h \in 1 .. Len(hashes)
      PROVE  Cardinality(hashes[h].keys \cup {t \in Enqueuers : enq[t].pc = "insert" /\ enq[t].hash = h})
               < hashes[h].capacity
  <2> DEFINE S == hashes[h].keys \cup {t \in Enqueuers : enq[t].pc = "insert" /\ enq[t].hash = h}
             m == Threshold(h)
  <2>1. hashes[h].capacity \in Nat \ {0} /\ m \in Nat /\ m <= hashes[h].capacity
    BY ThresholdType
  <2>2. S \subseteq Claimants(h, m)
    <3>1. hashes[h].keys \subseteq Enqueuers
      <4>1. hashes[h] \in Hashes
        BY LenProperties DEF EnqueueType, SharedType
      <4> QED
        BY <4>1 DEF Hashes
    <3>2. ASSUME NEW t \in Enqueuers, t \in hashes[h].keys PROVE Claims(t, enq[t], h, m)
      BY <3>2 DEF Claims, Grants, Kept
    <3>3. ASSUME NEW t \in Enqueuers, enq[t].pc = "insert", enq[t].hash = h PROVE Claims(t, enq[t], h, m)
      <4>1. ~withToken[t]
        BY <3>3 DEF EnqueueType, EnqType, EnqSound, Looking
      <4> QED
        BY <3>3, <4>1 DEF Claims, Grants, Admitted
    <3> QED
      BY <3>1, <3>2, <3>3 DEF Claimants
  <2> HIDE DEF S, m
  <2>3. IsFiniteSet(Claimants(h, m)) /\ Cardinality(Claimants(h, m)) \in Nat
    BY <2>1, ClaimsCounted
  <2>4. IsFiniteSet(S) /\ Cardinality(S) <= Cardinality(Claimants(h, m)) /\ Cardinality(S) \in Nat
    BY <2>2, <2>3, FS_Subset, FS_CardinalityType
  <2>5. Claimants(h, m) = {} \/ Cardinality(Claimants(h, m)) < m
    BY <2>1 DEF RoomInv, Bounded, m
  <2>6. CASE Claimants(h, m) = {}
    <3>1. S = {}
      BY <2>2, <2>6
    <3>2. Cardinality(S) < hashes[h].capacity
      BY <2>1, <3>1, FS_EmptySet
    <3> QED
      BY <3>2 DEF S
  <2>7. CASE Cardinality(Claimants(h, m)) < m
    BY <2>1, <2>3, <2>4, <2>7 DEF S
  <2> QED
    BY <2>5, <2>6, <2>7
<1> QED
  BY <1>1, <1>2 DEF TablesHaveRoom

(* ConcurrentQueue: "Not an infinite loop because at least one slot is     *)
(* free": whoever probes a table, or lazily adds itself to a newer one,    *)
(* finds a free slot, although threads are counted, admitted and inserted  *)
(* in separate steps and the table is replaced meanwhile. *)
THEOREM SlotsStayFree == Spec => []TablesHaveRoom
<1> DEFINE I == QueueInv /\ OwnInv /\ RoomInv
<1>1. Init => I
  BY InitInv, OwnInit, RoomInit
<1>2. I /\ [Next]_vars => I'
  BY StepInv, OwnNext, RoomNext
<1>3. I => TablesHaveRoom
  BY RoomImplies DEF QueueInv, TypeInv
<1> QED
  BY <1>1, <1>2, <1>3, PTL DEF Spec

=============================================================================
