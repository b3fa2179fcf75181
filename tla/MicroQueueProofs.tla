------------------------- MODULE MicroQueueProofs -------------------------
(***************************************************************************)
(* MicroQueue for every number of pushers and poppers, every number of     *)
(* micro queues, every size of the first ring and every word size: no      *)
(* access leaves the memory it may touch, and the inductive invariant Inv  *)
(* from which the other properties of MicroQueue follow.                   *)
(*                                                                         *)
(* What reclaiming needs is more than Inv says, and not true in general    *)
(* (MicroQueue's comment on FreshCloseSafe): nothing is left behind when   *)
(* m_pWrite and m_pRead move on (Settled).  It is proved at the end for    *)
(* rings closed in their first lap, and for one producer.                  *)
(***************************************************************************)
EXTENDS MCMicroQueue, Counting, SequenceTheorems

(* A pool of some ring. *)
Pools == UNION {[0 .. n - 1 -> Cell] : n \in Nat \ {0}}

(* The inductive invariant: TypeOK does not say that the pools of a micro  *)
(* queue form a sequence, which appending to them needs. *)
Shape == TypeOK /\ m_pPool \in [Micros -> Seq(Pools)]

(* Arithmetic of indices. *)
LEMMA WordType == \A n \in Int : Word(n) \in 0 .. WordSize - 1
BY WordAssumption DEF Word

LEMMA MicroType == \A n \in Nat : MicroOf(n) \in Micros
<1> SUFFICES ASSUME NEW n \in Nat PROVE MicroOf(n) \in Micros
  OBVIOUS
<1>1. Word(n) \in Int
  BY WordType
<1> QED
  BY <1>1, ModeAssumption DEF MicroOf, Micros

LEMMA SetIndexType ==
  ASSUME NEW ring \in Ring, NEW n \in Nat PROVE SetIndex(ring, n) \in Nat
<1>1. Word(n) \in Int /\ ring.m_nResBeginIndex \in Int
  BY WordType DEF Ring
<1>2. Minus(Word(n), ring.m_nResBeginIndex) \in Nat
  BY <1>1, WordAssumption DEF Minus
<1> QED
  BY <1>2, ModeAssumption DEF SetIndex

(* Lines 100-104 and 137-145: an index uses a cell of the pool. *)
LEMMA CellInPool ==
  ASSUME NEW ring \in Ring, NEW n \in Nat
  PROVE  CellOf(ring, n) \in 0 .. ring.m_nTotalSize - 1
BY SetIndexType DEF CellOf, Ring

LEMMA SignType ==
  ASSUME NEW ring \in Ring, NEW n \in Nat
  PROVE  WrittenSign(ring, n) \in Nat /\ ReadSign(ring, n) \in Nat
<1>1. Word(SetIndex(ring, n) * 2) \in Nat
  BY SetIndexType, WordType
<1>2. HalfLap(ring, n) \in Nat
  BY <1>1 DEF HalfLap, Ring
<1>3. Word(HalfLap(ring, n)) \in Nat
  BY <1>2, WordType
<1> QED
  BY <1>3 DEF WrittenSign, ReadSign, Sign

LEMMA NewCircleType ==
  ASSUME NEW begin \in Int, NEW size \in Nat \ {0}
  PROVE  NewCircle(Word(begin), size) \in Ring
BY WordType DEF NewCircle, Ring

LEMMA NewPoolType ==
  ASSUME NEW ring \in Ring
  PROVE  /\ NewPool(ring) \in [0 .. ring.m_nTotalSize - 1 -> Cell]
         /\ NewPool(ring) \in Pools
<1>1. NewPool(ring) \in [0 .. ring.m_nTotalSize - 1 -> Cell]
  BY DEF NewPool, Cell, NoData
<1> QED
  BY <1>1 DEF Pools, Ring

LEMMA NextCircleType == \A ring \in Ring : CreateNextCircle(ring) \in Ring
<1> SUFFICES ASSUME NEW ring \in Ring PROVE CreateNextCircle(ring) \in Ring
  OBVIOUS
<1>1. ring.m_nTotalSize \in Nat \ {0} /\ ring.m_nBeginIndex \in Int
  BY DEF Ring
<1>2. CheckTotalSize(ring) \in Int
  BY <1>1, WordType, ModeAssumption DEF CheckTotalSize
<1> QED
  BY <1>1, <1>2, NewCircleType DEF CreateNextCircle

LEMMA AdvancedType ==
  ASSUME NEW ring \in Ring, NEW begin \in 0 .. WordSize - 1
  PROVE  AdvancedBegin(ring, begin) \in 0 .. WordSize - 1
<1>1. PerSize(ring) * ThreadWriteIndexModeIndex \in Int
  BY ModeAssumption DEF PerSize, Ring
<1> QED
  BY <1>1, WordType, WordAssumption DEF AdvancedBegin

---------------------------------------------------------------------------
(* What the facts in Shape say of one thread and of one micro queue. *)

LEMMA ThreadFacts ==
  ASSUME Shape, NEW t \in Threads
  PROVE  /\ Micro(t) \in Micros
         /\ Index(t) \in Nat
         /\ loc[t] \in Locals
         /\ heap[Micro(t)] \in Seq(Ring)
         /\ loc[t].own \in DOMAIN heap[Micro(t)]
         /\ loc[t].this \in DOMAIN heap[Micro(t)]
         /\ This(t) \in Ring
         /\ Pool(t) \in [0 .. This(t).m_nTotalSize - 1 -> Cell]
<1>1. loc[t] \in Locals /\ Index(t) \in Nat
  BY DEF Shape, TypeOK, Index, Locals
<1>2. Micro(t) \in Micros
  BY <1>1, MicroType DEF Micro
<1>3. /\ heap[Micro(t)] \in Seq(Ring)
      /\ loc[t].own \in DOMAIN heap[Micro(t)]
      /\ loc[t].this \in DOMAIN heap[Micro(t)]
  BY <1>2 DEF Shape, TypeOK
<1>4. This(t) \in Ring
  BY <1>3 DEF This
<1>5. Pool(t) \in [0 .. This(t).m_nTotalSize - 1 -> Cell]
  BY <1>2, <1>3 DEF Shape, TypeOK, Pool, This
<1> QED
  BY <1>1, <1>2, <1>3, <1>4, <1>5

LEMMA QueueFacts ==
  ASSUME Shape, NEW q \in Micros
  PROVE  /\ m_queue[q] \in MicroQueues
         /\ heap[q] \in Seq(Ring)
         /\ DOMAIN heap[q] = 1 .. Len(heap[q])
         /\ 1 \in DOMAIN heap[q]
         /\ m_queue[q].m_pWrite \in DOMAIN heap[q]
         /\ m_queue[q].m_pRead \in DOMAIN heap[q]
         /\ m_pPool[q] \in Seq(Pools)
         /\ Len(m_pPool[q]) = Len(heap[q])
<1>1. /\ m_queue[q] \in MicroQueues
      /\ heap[q] \in Seq(Ring)
      /\ m_queue[q].m_pWrite \in DOMAIN heap[q]
      /\ m_queue[q].m_pRead \in DOMAIN heap[q]
      /\ m_pPool[q] \in Seq(Pools)
      /\ DOMAIN m_pPool[q] = DOMAIN heap[q]
  BY DEF Shape, TypeOK
<1>2. DOMAIN heap[q] = 1 .. Len(heap[q])
  BY <1>1
<1>3. DOMAIN m_pPool[q] = 1 .. Len(m_pPool[q])
  BY <1>1
<1>4. Len(m_pPool[q]) = Len(heap[q])
  BY <1>1, <1>2, <1>3
<1> QED
  BY <1>1, <1>2, <1>4

(* A thread may stand at this label. *)
Fits(t, label) ==
  /\ t \in Pushers => label \in PushLabels
  /\ t \in Poppers => label \in PopLabels

(* The pointers among these locals refer to rings. *)
Points(r) ==
  r \in Locals /\ {r.own, r.this} \subseteq DOMAIN heap[MicroOf(r.index)]

(* A thread that only moves on. *)
LEMMA GotoStep ==
  ASSUME Shape, NEW t \in Threads, NEW label, Fits(t, label), Goto(t, label)
  PROVE  /\ pc' \in [Threads -> PushLabels \cup PopLabels]
         /\ \A p \in Pushers : pc'[p] \in PushLabels
         /\ \A c \in Poppers : pc'[c] \in PopLabels
BY ThreadsAssumption DEF Shape, TypeOK, Goto, Fits, Threads

(* A step that changes a thread's label and locals, and the counters. *)
LEMMA LocalStep ==
  ASSUME Shape, NEW t \in Threads, NEW label, NEW r, Fits(t, label),
         Points(r), Goto(t, label), loc' = [loc EXCEPT ![t] = r],
         m_nPreWriteIndex' \in Nat, m_nReadIndex' \in Nat,
         UNCHANGED <<m_queue, heap, m_pPool>>,
         delivered' \subseteq Nat \X Int
  PROVE  Shape'
<1>1. /\ pc' \in [Threads -> PushLabels \cup PopLabels]
      /\ \A p \in Pushers : pc'[p] \in PushLabels
      /\ \A c \in Poppers : pc'[c] \in PopLabels
  BY GotoStep
<1>2. loc' \in [Threads -> Locals]
  BY DEF Shape, TypeOK, Points
<1>3. \A u \in Threads : {loc'[u].own, loc'[u].this} \subseteq
                            DOMAIN heap[MicroOf(loc'[u].index)]
  BY DEF Shape, TypeOK, Points, Micro, Index
<1> QED
  BY <1>1, <1>2, <1>3 DEF Shape, TypeOK, Micro, Index

(* A step that changes the pointers and counters of one micro queue. *)
LEMMA QueueStep ==
  ASSUME Shape, NEW t \in Threads, NEW label, NEW r, Fits(t, label),
         Points(r), Goto(t, label), loc' = [loc EXCEPT ![t] = r],
         NEW q \in Micros, NEW v \in MicroQueues,
         m_queue' = [m_queue EXCEPT ![q] = v],
         v.m_pWrite \in DOMAIN heap[q], v.m_pRead \in DOMAIN heap[q],
         \A s \in Slots : v.m_pCircle[s] \in {0} \cup DOMAIN heap[q],
         UNCHANGED <<indexVars, heap, m_pPool, delivered>>
  PROVE  Shape'
<1>1. /\ pc' \in [Threads -> PushLabels \cup PopLabels]
      /\ \A p \in Pushers : pc'[p] \in PushLabels
      /\ \A c \in Poppers : pc'[c] \in PopLabels
  BY GotoStep
<1>2. loc' \in [Threads -> Locals]
  BY DEF Shape, TypeOK, Points
<1>3. \A u \in Threads : {loc'[u].own, loc'[u].this} \subseteq
                            DOMAIN heap[MicroOf(loc'[u].index)]
  BY DEF Shape, TypeOK, Points, Micro, Index
<1>4. /\ m_queue' \in [Micros -> MicroQueues]
      /\ \A w \in Micros :
           /\ m_queue'[w].m_pWrite \in DOMAIN heap[w]
           /\ m_queue'[w].m_pRead \in DOMAIN heap[w]
           /\ \A s \in Slots : m_queue'[w].m_pCircle[s] \in {0} \cup DOMAIN heap[w]
  BY DEF Shape, TypeOK
<1> QED
  BY <1>1, <1>2, <1>3, <1>4 DEF Shape, TypeOK, Micro, Index, indexVars

(* A step that changes the fields of a ring, but not its size. *)
LEMMA RingStep ==
  ASSUME Shape, NEW t \in Threads, NEW label, Fits(t, label), Goto(t, label),
         NEW ring \in Ring, ring.m_nTotalSize = This(t).m_nTotalSize,
         heap' = [heap EXCEPT ![Micro(t)][loc[t].this] = ring],
         UNCHANGED <<indexVars, m_queue, m_pPool, loc, delivered>>
  PROVE  Shape'
<1> DEFINE q == Micro(t)
           i == loc[t].this
<1>1. /\ q \in Micros /\ heap[q] \in Seq(Ring) /\ i \in 1 .. Len(heap[q])
  BY ThreadFacts, QueueFacts
<1>2. /\ [heap[q] EXCEPT ![i] = ring] \in Seq(Ring)
      /\ Len([heap[q] EXCEPT ![i] = ring]) = Len(heap[q])
      /\ \A j \in 1 .. Len(heap[q]) :
           [heap[q] EXCEPT ![i] = ring][j] = IF j = i THEN ring ELSE heap[q][j]
  BY <1>1, ExceptSeq
<1>3. heap' = [heap EXCEPT ![q] = [heap[q] EXCEPT ![i] = ring]]
  BY DEF Shape, TypeOK
<1>4. /\ heap' \in [Micros -> Seq(Ring)]
      /\ \A w \in Micros : DOMAIN heap'[w] = DOMAIN heap[w]
      /\ \A w \in Micros : \A j \in DOMAIN heap[w] :
           heap'[w][j].m_nTotalSize = heap[w][j].m_nTotalSize
  BY <1>1, <1>2, <1>3 DEF Shape, TypeOK, This
<1>5. \A u \in Threads : Micro(u) \in Micros
  BY ThreadFacts
<1>6. /\ pc' \in [Threads -> PushLabels \cup PopLabels]
      /\ \A p \in Pushers : pc'[p] \in PushLabels
      /\ \A c \in Poppers : pc'[c] \in PopLabels
  BY GotoStep
<1>7. /\ m_nPreWriteIndex' = m_nPreWriteIndex /\ m_nReadIndex' = m_nReadIndex
      /\ m_queue' = m_queue /\ m_pPool' = m_pPool /\ loc' = loc
      /\ delivered' = delivered
  BY DEF indexVars
<1>8. \A w \in Micros :
        /\ DOMAIN m_pPool'[w] = DOMAIN heap'[w]
        /\ \A j \in DOMAIN heap'[w] :
             m_pPool'[w][j] \in [0 .. heap'[w][j].m_nTotalSize - 1 -> Cell]
        /\ m_queue'[w].m_pWrite \in DOMAIN heap'[w]
        /\ m_queue'[w].m_pRead \in DOMAIN heap'[w]
        /\ \A s \in Slots : m_queue'[w].m_pCircle[s] \in {0} \cup DOMAIN heap'[w]
  BY <1>4, <1>7 DEF Shape, TypeOK
<1>9. \A u \in Threads : {loc'[u].own, loc'[u].this} \subseteq DOMAIN heap'[Micro(u)']
  <2>1. \A u \in Threads : Micro(u)' = Micro(u)
    BY <1>7 DEF Micro, Index
  <2> QED
    BY <1>4, <1>5, <1>7, <2>1 DEF Shape, TypeOK
<1>10. /\ m_nPreWriteIndex \in Nat /\ m_nReadIndex \in Nat
       /\ m_queue \in [Micros -> MicroQueues] /\ DOMAIN m_pPool = Micros
       /\ m_pPool \in [Micros -> Seq(Pools)] /\ loc \in [Threads -> Locals]
       /\ delivered \subseteq Nat \X Int
  BY DEF Shape, TypeOK
<1>11. TypeOK'
  BY <1>4, <1>6, <1>7, <1>8, <1>9, <1>10 DEF TypeOK
<1> QED
  BY <1>7, <1>10, <1>11 DEF Shape

(* A step that changes a cell of the ring a thread works on. *)
LEMMA CellStep ==
  ASSUME Shape, NEW t \in Threads, NEW label, NEW r, Fits(t, label),
         Points(r), Goto(t, label), loc' = [loc EXCEPT ![t] = r],
         NEW k \in 0 .. This(t).m_nTotalSize - 1, NEW cell \in Cell,
         m_pPool' = [m_pPool EXCEPT ![Micro(t)][loc[t].this][k] = cell],
         UNCHANGED <<indexVars, m_queue, heap, delivered>>
  PROVE  Shape'
<1> DEFINE q == Micro(t)
           i == loc[t].this
           pool == [m_pPool[q][i] EXCEPT ![k] = cell]
<1>1. /\ q \in Micros /\ m_pPool[q] \in Seq(Pools)
      /\ i \in 1 .. Len(m_pPool[q])
      /\ DOMAIN heap[q] = 1 .. Len(m_pPool[q])
  BY ThreadFacts, QueueFacts
<1>2. /\ m_pPool[q][i] \in [0 .. heap[q][i].m_nTotalSize - 1 -> Cell]
      /\ heap[q][i].m_nTotalSize \in Nat \ {0}
      /\ k \in 0 .. heap[q][i].m_nTotalSize - 1
  BY ThreadFacts DEF This, Pool, Ring
<1>3. pool \in [0 .. heap[q][i].m_nTotalSize - 1 -> Cell]
  BY <1>2
<1>4. pool \in Pools
  BY <1>2, <1>3 DEF Pools
<1>5. /\ [m_pPool[q] EXCEPT ![i] = pool] \in Seq(Pools)
      /\ Len([m_pPool[q] EXCEPT ![i] = pool]) = Len(m_pPool[q])
      /\ \A j \in 1 .. Len(m_pPool[q]) : [m_pPool[q] EXCEPT ![i] = pool][j]
           = IF j = i THEN pool ELSE m_pPool[q][j]
  BY <1>1, <1>4, ExceptSeq
<1>6. m_pPool' = [m_pPool EXCEPT ![q] = [m_pPool[q] EXCEPT ![i] = pool]]
  BY DEF Shape
<1>7. /\ m_pPool' \in [Micros -> Seq(Pools)]
      /\ \A w \in Micros :
           /\ DOMAIN m_pPool'[w] = DOMAIN heap[w]
           /\ \A j \in DOMAIN heap[w] :
                m_pPool'[w][j] \in [0 .. heap[w][j].m_nTotalSize - 1 -> Cell]
  <2>1. m_pPool' \in [Micros -> Seq(Pools)]
    BY <1>1, <1>5, <1>6 DEF Shape
  <2>2. ASSUME NEW w \in Micros, w # q
        PROVE  m_pPool'[w] = m_pPool[w]
    BY <1>6, <2>2 DEF Shape
  <2>3. m_pPool'[q] = [m_pPool[q] EXCEPT ![i] = pool]
    BY <1>1, <1>6 DEF Shape
  <2>4. /\ DOMAIN m_pPool'[q] = DOMAIN heap[q]
        /\ \A j \in DOMAIN heap[q] :
             m_pPool'[q][j] \in [0 .. heap[q][j].m_nTotalSize - 1 -> Cell]
    BY <1>1, <1>3, <1>5, <2>3 DEF Shape, TypeOK
  <2> QED
    BY <2>1, <2>2, <2>4 DEF Shape, TypeOK
<1>8. /\ pc' \in [Threads -> PushLabels \cup PopLabels]
      /\ \A p \in Pushers : pc'[p] \in PushLabels
      /\ \A c \in Poppers : pc'[c] \in PopLabels
  BY GotoStep
<1>9. /\ loc' \in [Threads -> Locals]
      /\ \A u \in Threads : {loc'[u].own, loc'[u].this} \subseteq
                              DOMAIN heap[MicroOf(loc'[u].index)]
  BY DEF Shape, TypeOK, Points, Micro, Index
<1> QED
  BY <1>7, <1>8, <1>9 DEF Shape, TypeOK, Micro, Index, indexVars

(* Changing some of the locals of a call. *)
LEMMA OwnUpdate ==
  ASSUME NEW l \in Locals, NEW v \in Nat
  PROVE  /\ [l EXCEPT !.own = v] \in Locals
         /\ [l EXCEPT !.own = v].own = v
         /\ [l EXCEPT !.own = v].this = l.this
         /\ [l EXCEPT !.own = v].index = l.index
BY DEF Locals

LEMMA ThisUpdate ==
  ASSUME NEW l \in Locals, NEW v \in Nat
  PROVE  /\ [l EXCEPT !.this = v] \in Locals
         /\ [l EXCEPT !.this = v].own = l.own
         /\ [l EXCEPT !.this = v].this = v
         /\ [l EXCEPT !.this = v].index = l.index
BY DEF Locals

LEMMA NestedUpdate ==
  ASSUME NEW l \in Locals, NEW v \in Nat
  PROVE  /\ [l EXCEPT !.this = v, !.nested = TRUE] \in Locals
         /\ [l EXCEPT !.this = v, !.nested = TRUE].own = l.own
         /\ [l EXCEPT !.this = v, !.nested = TRUE].this = v
         /\ [l EXCEPT !.this = v, !.nested = TRUE].index = l.index
BY DEF Locals

LEMMA BeginUpdate ==
  ASSUME NEW l \in Locals, NEW v \in 0 .. WordSize - 1
  PROVE  /\ [l EXCEPT !.begin = v, !.scan = 0] \in Locals
         /\ [l EXCEPT !.begin = v, !.scan = 0].own = l.own
         /\ [l EXCEPT !.begin = v, !.scan = 0].this = l.this
         /\ [l EXCEPT !.begin = v, !.scan = 0].index = l.index
BY DEF Locals

LEMMA ScanUpdate ==
  ASSUME NEW l \in Locals, NEW v \in Nat
  PROVE  /\ [l EXCEPT !.scan = v] \in Locals
         /\ [l EXCEPT !.scan = v].own = l.own
         /\ [l EXCEPT !.scan = v].this = l.this
         /\ [l EXCEPT !.scan = v].index = l.index
BY DEF Locals

LEMMA NextUpdate ==
  ASSUME NEW l \in Locals, NEW v \in Nat
  PROVE  /\ [l EXCEPT !.next = v] \in Locals
         /\ [l EXCEPT !.next = v].own = l.own
         /\ [l EXCEPT !.next = v].this = l.this
         /\ [l EXCEPT !.next = v].index = l.index
BY DEF Locals

LEMMA IndexUpdate ==
  ASSUME NEW l \in Locals, NEW v \in Nat
  PROVE  /\ [l EXCEPT !.index = v] \in Locals
         /\ [l EXCEPT !.index = v].own = l.own
         /\ [l EXCEPT !.index = v].this = l.this
         /\ [l EXCEPT !.index = v].index = v
BY DEF Locals

(* The locals of a call that begins with index n, or has returned. *)
LEMMA EnterUpdate ==
  ASSUME Shape, NEW n \in Nat
  PROVE  Points([NoCall EXCEPT !.index = n]) /\ Points(NoCall)
<1>1. /\ NoCall \in Locals /\ NoCall.index = 0
      /\ NoCall.own = 1 /\ NoCall.this = 1
  BY WordAssumption DEF NoCall, Locals
<1>2. 1 \in DOMAIN heap[MicroOf(n)] /\ 1 \in DOMAIN heap[MicroOf(0)]
  BY MicroType, QueueFacts
<1>3. Points([NoCall EXCEPT !.index = n])
  BY <1>1, <1>2, IndexUpdate DEF Points
<1> QED
  BY <1>1, <1>2, <1>3 DEF Points

(* Line 197: a ring and its pool are appended, and nothing else moves. *)
LEMMA GrowStep ==
  ASSUME Shape, NEW p \in Pushers, PushGrow(p)
  PROVE  Shape'
<1> DEFINE q == Micro(p)
           ring == CreateNextCircle(heap[q][loc[p].own])
           r == [loc[p] EXCEPT !.own = Len(heap[q]) + 1]
<1>0. p \in Threads
  BY DEF Threads
<1>1. /\ q \in Micros /\ heap[q] \in Seq(Ring) /\ m_pPool[q] \in Seq(Pools)
      /\ DOMAIN heap[q] = 1 .. Len(heap[q])
      /\ Len(m_pPool[q]) = Len(heap[q])
      /\ heap[q][loc[p].own] \in Ring
      /\ loc[p] \in Locals /\ loc[p].this \in DOMAIN heap[q]
  <2>1. /\ q \in Micros /\ loc[p] \in Locals /\ loc[p].own \in DOMAIN heap[q]
        /\ loc[p].this \in DOMAIN heap[q]
    BY <1>0, ThreadFacts
  <2> QED
    BY <2>1, QueueFacts
<1>2. ring \in Ring
  BY <1>1, NextCircleType
<1>3. /\ NewPool(ring) \in [0 .. ring.m_nTotalSize - 1 -> Cell]
      /\ NewPool(ring) \in Pools
  BY <1>2, NewPoolType
<1>4. /\ Append(heap[q], ring) \in Seq(Ring)
      /\ Len(Append(heap[q], ring)) = Len(heap[q]) + 1
      /\ \A i \in 1 .. Len(heap[q]) : Append(heap[q], ring)[i] = heap[q][i]
      /\ Append(heap[q], ring)[Len(heap[q]) + 1] = ring
  BY <1>1, <1>2, AppendProperties
<1>5. /\ Append(m_pPool[q], NewPool(ring)) \in Seq(Pools)
      /\ Len(Append(m_pPool[q], NewPool(ring))) = Len(heap[q]) + 1
      /\ \A i \in 1 .. Len(heap[q]) :
           Append(m_pPool[q], NewPool(ring))[i] = m_pPool[q][i]
      /\ Append(m_pPool[q], NewPool(ring))[Len(heap[q]) + 1] = NewPool(ring)
  BY <1>1, <1>3, AppendProperties
<1>6. /\ heap' = [heap EXCEPT ![q] = Append(heap[q], ring)]
      /\ m_pPool' = [m_pPool EXCEPT ![q] = Append(m_pPool[q], NewPool(ring))]
      /\ loc' = [loc EXCEPT ![p] = r]
      /\ Goto(p, "pushStore")
      /\ UNCHANGED <<indexVars, m_queue, delivered>>
  BY <1>0 DEF PushGrow, Shape, TypeOK
<1> HIDE DEF ring, r
<1>7. /\ heap' \in [Micros -> Seq(Ring)] /\ m_pPool' \in [Micros -> Seq(Pools)]
      /\ heap'[q] = Append(heap[q], ring)
      /\ m_pPool'[q] = Append(m_pPool[q], NewPool(ring))
      /\ \A w \in Micros \ {q} : heap'[w] = heap[w] /\ m_pPool'[w] = m_pPool[w]
  BY <1>1, <1>4, <1>5, <1>6 DEF Shape, TypeOK
<1>8. DOMAIN heap'[q] = 1 .. Len(heap[q]) + 1
  BY <1>4, <1>7
<1>9. \A w \in Micros : DOMAIN heap[w] \subseteq DOMAIN heap'[w]
  <2>1. DOMAIN heap[q] \subseteq DOMAIN heap'[q]
    BY <1>1, <1>8
  <2>2. \A w \in Micros \ {q} : DOMAIN heap[w] \subseteq DOMAIN heap'[w]
    BY <1>7
  <2> QED
    BY <2>1, <2>2
<1>10. \A w \in Micros :
         /\ DOMAIN m_pPool'[w] = DOMAIN heap'[w]
         /\ \A i \in DOMAIN heap'[w] :
              m_pPool'[w][i] \in [0 .. heap'[w][i].m_nTotalSize - 1 -> Cell]
  <2>1. DOMAIN m_pPool'[q] = DOMAIN heap'[q]
    BY <1>5, <1>7, <1>8
  <2>2. \A i \in DOMAIN heap'[q] :
          m_pPool'[q][i] \in [0 .. heap'[q][i].m_nTotalSize - 1 -> Cell]
    <3> SUFFICES ASSUME NEW i \in DOMAIN heap'[q]
                 PROVE m_pPool'[q][i] \in [0 .. heap'[q][i].m_nTotalSize - 1 -> Cell]
      OBVIOUS
    <3>1. CASE i \in 1 .. Len(heap[q])
      BY <3>1, <1>1, <1>4, <1>5, <1>7 DEF Shape, TypeOK
    <3>2. CASE i = Len(heap[q]) + 1
      BY <3>2, <1>3, <1>4, <1>5, <1>7
    <3> QED
      BY <3>1, <3>2, <1>1, <1>8
  <2>3. \A w \in Micros \ {q} :
          /\ DOMAIN m_pPool[w] = DOMAIN heap[w]
          /\ \A i \in DOMAIN heap[w] :
               m_pPool[w][i] \in [0 .. heap[w][i].m_nTotalSize - 1 -> Cell]
    BY DEF Shape, TypeOK
  <2>4. \A w \in Micros \ {q} :
          /\ DOMAIN m_pPool'[w] = DOMAIN heap'[w]
          /\ \A i \in DOMAIN heap'[w] :
               m_pPool'[w][i] \in [0 .. heap'[w][i].m_nTotalSize - 1 -> Cell]
    BY <2>3, <1>7
  <2> QED
    BY <2>1, <2>2, <2>4
<1>11. \A w \in Micros :
         /\ m_queue[w].m_pWrite \in DOMAIN heap'[w]
         /\ m_queue[w].m_pRead \in DOMAIN heap'[w]
         /\ \A s \in Slots : m_queue[w].m_pCircle[s] \in {0} \cup DOMAIN heap'[w]
  BY <1>9 DEF Shape, TypeOK
<1>12. /\ r \in Locals /\ r.index = loc[p].index
       /\ r.own = Len(heap[q]) + 1 /\ r.this = loc[p].this
  <2> DEFINE v == Len(heap[q]) + 1
  <2>1. v \in Nat
    BY <1>1
  <2>2. r = [loc[p] EXCEPT !.own = v]
    BY DEF r
  <2> HIDE DEF v
  <2>3. r \in Locals /\ r.index = loc[p].index /\ r.own = v /\ r.this = loc[p].this
    BY <1>1, <2>1, <2>2, OwnUpdate
  <2> QED
    BY <2>3 DEF v
<1>13. loc' \in [Threads -> Locals]
  BY <1>6, <1>12 DEF Shape, TypeOK
<1>14. \A u \in Threads : {loc'[u].own, loc'[u].this} \subseteq
                             DOMAIN heap'[MicroOf(loc'[u].index)]
  <2> SUFFICES ASSUME NEW u \in Threads
               PROVE {loc'[u].own, loc'[u].this} \subseteq
                             DOMAIN heap'[MicroOf(loc'[u].index)]
    OBVIOUS
  <2>1. CASE u = p
    <3>1. loc'[u] = r
      BY <1>0, <1>6, <2>1 DEF Shape, TypeOK
    <3>2. MicroOf(loc'[u].index) = q
      BY <1>12, <3>1 DEF Micro, Index
    <3> QED
      BY <3>1, <3>2, <1>1, <1>8, <1>12
  <2>2. CASE u # p
    <3>1. loc'[u] = loc[u]
      BY <1>6, <2>2 DEF Shape, TypeOK
    <3>2. /\ MicroOf(loc[u].index) \in Micros
          /\ loc[u].own \in DOMAIN heap[MicroOf(loc[u].index)]
          /\ loc[u].this \in DOMAIN heap[MicroOf(loc[u].index)]
      BY ThreadFacts DEF Micro, Index
    <3> QED
      BY <3>1, <3>2, <1>9
  <2> QED
    BY <2>1, <2>2
<1>15. /\ pc' \in [Threads -> PushLabels \cup PopLabels]
       /\ \A u \in Pushers : pc'[u] \in PushLabels
       /\ \A c \in Poppers : pc'[c] \in PopLabels
  <2>1. Fits(p, "pushStore")
    BY ThreadsAssumption DEF Fits, PushLabels
  <2> QED
    BY <2>1, <1>0, <1>6, GotoStep
<1>16. m_queue' = m_queue /\ delivered' = delivered /\ indexVars' = indexVars
  BY <1>6
<1> QED
  BY <1>7, <1>10, <1>11, <1>13, <1>14, <1>15, <1>16
     DEF Shape, TypeOK, Micro, Index, indexVars

---------------------------------------------------------------------------
(* The locals a step leaves alone, and those it changes, point to rings. *)
LEMMA PointsKept ==
  ASSUME Shape, NEW t \in Threads
  PROVE  /\ Points(loc[t])
         /\ \A v \in DOMAIN heap[Micro(t)] :
              /\ Points([loc[t] EXCEPT !.own = v])
              /\ Points([loc[t] EXCEPT !.this = v])
              /\ Points([loc[t] EXCEPT !.this = v, !.nested = TRUE])
         /\ \A v \in 0 .. WordSize - 1 :
              Points([loc[t] EXCEPT !.begin = v, !.scan = 0])
         /\ \A v \in Nat :
              /\ Points([loc[t] EXCEPT !.scan = v])
              /\ Points([loc[t] EXCEPT !.next = v])
<1>1. /\ loc[t] \in Locals /\ Micro(t) = MicroOf(loc[t].index)
      /\ loc[t].own \in DOMAIN heap[Micro(t)]
      /\ loc[t].this \in DOMAIN heap[Micro(t)]
      /\ DOMAIN heap[Micro(t)] \subseteq Nat
  <2>1. DOMAIN heap[Micro(t)] = 1 .. Len(heap[Micro(t)]) /\ heap[Micro(t)] \in Seq(Ring)
    BY ThreadFacts, QueueFacts
  <2>2. DOMAIN heap[Micro(t)] \subseteq Nat
    BY <2>1
  <2> QED
    BY <2>2, ThreadFacts DEF Micro, Index
<1>2. Points(loc[t])
  BY <1>1 DEF Points
<1>3. ASSUME NEW v \in DOMAIN heap[Micro(t)]
      PROVE  /\ Points([loc[t] EXCEPT !.own = v])
             /\ Points([loc[t] EXCEPT !.this = v])
             /\ Points([loc[t] EXCEPT !.this = v, !.nested = TRUE])
  <2>1. v \in Nat
    BY <1>1
  <2>2. Points([loc[t] EXCEPT !.own = v])
    BY <1>1, <2>1, OwnUpdate DEF Points
  <2>3. Points([loc[t] EXCEPT !.this = v])
    BY <1>1, <2>1, ThisUpdate DEF Points
  <2>4. Points([loc[t] EXCEPT !.this = v, !.nested = TRUE])
    BY <1>1, <2>1, NestedUpdate DEF Points
  <2> QED
    BY <2>2, <2>3, <2>4
<1>4. ASSUME NEW v \in 0 .. WordSize - 1
      PROVE  Points([loc[t] EXCEPT !.begin = v, !.scan = 0])
  BY <1>1, BeginUpdate DEF Points
<1>5. ASSUME NEW v \in Nat
      PROVE  /\ Points([loc[t] EXCEPT !.scan = v])
             /\ Points([loc[t] EXCEPT !.next = v])
  <2>1. Points([loc[t] EXCEPT !.scan = v])
    BY <1>1, ScanUpdate DEF Points
  <2>2. Points([loc[t] EXCEPT !.next = v])
    BY <1>1, NextUpdate DEF Points
  <2> QED
    BY <2>1, <2>2
<1> QED
  BY <1>2, <1>3, <1>4, <1>5

(* Steps of a push that change its label and locals only. *)
LEMMA PushLocalType ==
  ASSUME Shape, NEW p \in Pushers,
         \/ DrawPush(p) \/ PushLoadOwn(p) \/ PushLoadThis(p)
         \/ PushLoadBegin(p) \/ PushScan(p) \/ PushAwait(p) \/ PushNext(p)
  PROVE  Shape'
<1>0. p \in Threads /\ \A label \in PushLabels : Fits(p, label)
  BY ThreadsAssumption DEF Threads, Fits
<1>1. /\ m_nPreWriteIndex \in Nat /\ m_nReadIndex \in Nat
      /\ delivered \subseteq Nat \X Int
      /\ loc = [loc EXCEPT ![p] = loc[p]]
  BY <1>0 DEF Shape, TypeOK
<1>2. /\ Micro(p) \in Micros /\ loc[p] \in Locals /\ This(p) \in Ring
      /\ m_queue[Micro(p)].m_pWrite \in DOMAIN heap[Micro(p)]
      /\ m_queue[Micro(p)] \in MicroQueues
  <2>1. Micro(p) \in Micros /\ loc[p] \in Locals /\ This(p) \in Ring
    BY <1>0, ThreadFacts
  <2> QED
    BY <2>1, QueueFacts
<1>3. CASE DrawPush(p)
  <2>1. Points([NoCall EXCEPT !.index = m_nPreWriteIndex])
    BY <1>1, EnterUpdate
  <2>2. Fits(p, "pushEnter")
    BY <1>0 DEF PushLabels
  <2>3. m_nPreWriteIndex' \in Nat /\ m_nReadIndex' \in Nat
    BY <1>1, <1>3 DEF DrawPush
  <2> QED
    BY <1>0, <1>1, <1>3, <2>1, <2>2, <2>3, LocalStep DEF DrawPush, EnterPush
<1>4. CASE PushLoadOwn(p)
  <2>1. Points([loc[p] EXCEPT !.own = m_queue[Micro(p)].m_pWrite])
    BY <1>0, <1>2, PointsKept
  <2>2. Fits(p, "pushLoad")
    BY <1>0 DEF PushLabels
  <2>3. loc' = [loc EXCEPT ![p] = [loc[p] EXCEPT !.own = m_queue[Micro(p)].m_pWrite]]
    BY <1>4 DEF PushLoadOwn
  <2> QED
    BY <1>0, <1>1, <1>4, <2>1, <2>2, <2>3, LocalStep DEF PushLoadOwn, indexVars
<1>5. CASE PushLoadThis(p)
  <2>1. Points([loc[p] EXCEPT !.this = m_queue[Micro(p)].m_pWrite])
    BY <1>0, <1>2, PointsKept
  <2>2. Fits(p, "pushBegin")
    BY <1>0 DEF PushLabels
  <2>3. loc' = [loc EXCEPT ![p] = [loc[p] EXCEPT !.this = m_queue[Micro(p)].m_pWrite]]
    BY <1>5 DEF PushLoadThis
  <2> QED
    BY <1>0, <1>1, <1>5, <2>1, <2>2, <2>3, LocalStep DEF PushLoadThis, indexVars
<1>6. CASE PushLoadBegin(p)
  <2> DEFINE begin == This(p).m_nBeginIndex
  <2>1. begin \in 0 .. WordSize - 1
    BY <1>2 DEF Ring
  <2>2. Points([loc[p] EXCEPT !.begin = begin, !.scan = 0])
    BY <1>0, <2>1, PointsKept
  <2>3. PICK label \in {"pushData", "pushScan", "pushDone", "pushRetry"} :
          Goto(p, label)
    BY <1>6 DEF PushLoadBegin
  <2>4. Fits(p, label)
    BY <1>0 DEF PushLabels
  <2>5. loc' = [loc EXCEPT ![p] = [loc[p] EXCEPT !.begin = begin, !.scan = 0]]
    BY <1>6 DEF PushLoadBegin
  <2> QED
    BY <1>0, <1>1, <1>6, <2>2, <2>3, <2>4, <2>5, LocalStep
       DEF PushLoadBegin, indexVars
<1>7. CASE PushScan(p)
  <2>1. PICK label \in {"pushAdvance", "pushScan", "pushNoWrite"} :
          Goto(p, label)
    BY <1>7 DEF PushScan
  <2>2. Fits(p, label)
    BY <1>0 DEF PushLabels
  <2>3. \/ loc' = [loc EXCEPT ![p] = loc[p]]
        \/ loc' = [loc EXCEPT ![p] = [loc[p] EXCEPT !.scan = loc[p].scan + 1]]
    BY <1>1, <1>7 DEF PushScan
  <2>4. loc[p].scan + 1 \in Nat
    BY <1>2 DEF Locals
  <2>5. Points(loc[p]) /\ Points([loc[p] EXCEPT !.scan = loc[p].scan + 1])
    BY <1>0, <2>4, PointsKept
  <2>6. /\ UNCHANGED <<m_queue, heap, m_pPool, delivered>>
        /\ m_nPreWriteIndex' \in Nat /\ m_nReadIndex' \in Nat
    BY <1>1, <1>7 DEF PushScan, indexVars
  <2> QED
    BY <1>0, <1>1, <2>1, <2>2, <2>3, <2>5, <2>6, LocalStep
<1>8. CASE PushAwait(p)
  <2>1. PICK label \in {"pushAwait", "pushDone", "pushNext"} : Goto(p, label)
    BY <1>8 DEF PushAwait
  <2>2. Fits(p, label)
    BY <1>0 DEF PushLabels
  <2>3. loc' = [loc EXCEPT ![p] = [loc[p] EXCEPT !.scan = loc[p].scan + 1]]
    BY <1>8 DEF PushAwait
  <2>4. loc[p].scan + 1 \in Nat
    BY <1>2 DEF Locals
  <2>5. Points([loc[p] EXCEPT !.scan = loc[p].scan + 1])
    BY <1>0, <2>4, PointsKept
  <2>6. /\ UNCHANGED <<m_queue, heap, m_pPool, delivered>>
        /\ m_nPreWriteIndex' \in Nat /\ m_nReadIndex' \in Nat
    BY <1>1, <1>8 DEF PushAwait, indexVars
  <2> QED
    BY <1>0, <1>1, <2>1, <2>2, <2>3, <2>5, <2>6, LocalStep
<1>9. CASE PushNext(p)
  <2> DEFINE next == m_queue[Micro(p)].m_nWriteCircle + 1
  <2>1. next \in Nat
    BY <1>2 DEF MicroQueues
  <2>2. Points([loc[p] EXCEPT !.next = next])
    BY <1>0, <2>1, PointsKept
  <2>3. Fits(p, "pushGrow")
    BY <1>0 DEF PushLabels
  <2>4. loc' = [loc EXCEPT ![p] = [loc[p] EXCEPT !.next = next]]
    BY <1>9 DEF PushNext
  <2> QED
    BY <1>0, <1>1, <1>9, <2>2, <2>3, <2>4, LocalStep DEF PushNext, indexVars
<1> QED
  BY <1>3, <1>4, <1>5, <1>6, <1>7, <1>8, <1>9

---------------------------------------------------------------------------
(* Changing a pointer, a counter or a slot of a micro queue. *)
LEMMA SlotUpdate ==
  ASSUME NEW m \in MicroQueues, NEW s \in Slots, NEW v \in Nat
  PROVE  /\ [m EXCEPT !.m_pCircle[s] = v] \in MicroQueues
         /\ [m EXCEPT !.m_pCircle[s] = v].m_pWrite = m.m_pWrite
         /\ [m EXCEPT !.m_pCircle[s] = v].m_pRead = m.m_pRead
         /\ \A u \in Slots : [m EXCEPT !.m_pCircle[s] = v].m_pCircle[u]
              = IF u = s THEN v ELSE m.m_pCircle[u]
BY DEF MicroQueues

LEMMA WriteUpdate ==
  ASSUME NEW m \in MicroQueues, NEW v \in Nat
  PROVE  /\ [m EXCEPT !.m_pWrite = v] \in MicroQueues
         /\ [m EXCEPT !.m_pWrite = v].m_pWrite = v
         /\ [m EXCEPT !.m_pWrite = v].m_pRead = m.m_pRead
         /\ [m EXCEPT !.m_pWrite = v].m_pCircle = m.m_pCircle
BY DEF MicroQueues

LEMMA ReadUpdate ==
  ASSUME NEW m \in MicroQueues, NEW v \in Nat
  PROVE  /\ [m EXCEPT !.m_pRead = v] \in MicroQueues
         /\ [m EXCEPT !.m_pRead = v].m_pWrite = m.m_pWrite
         /\ [m EXCEPT !.m_pRead = v].m_pRead = v
         /\ [m EXCEPT !.m_pRead = v].m_pCircle = m.m_pCircle
BY DEF MicroQueues

LEMMA WriteCircleUpdate ==
  ASSUME NEW m \in MicroQueues, NEW v \in Nat
  PROVE  /\ [m EXCEPT !.m_nWriteCircle = v] \in MicroQueues
         /\ [m EXCEPT !.m_nWriteCircle = v].m_pWrite = m.m_pWrite
         /\ [m EXCEPT !.m_nWriteCircle = v].m_pRead = m.m_pRead
         /\ [m EXCEPT !.m_nWriteCircle = v].m_pCircle = m.m_pCircle
BY DEF MicroQueues

LEMMA ReadCircleUpdate ==
  ASSUME NEW m \in MicroQueues, NEW v \in Nat
  PROVE  /\ [m EXCEPT !.m_nReadCircle = v] \in MicroQueues
         /\ [m EXCEPT !.m_nReadCircle = v].m_pWrite = m.m_pWrite
         /\ [m EXCEPT !.m_nReadCircle = v].m_pRead = m.m_pRead
         /\ [m EXCEPT !.m_nReadCircle = v].m_pCircle = m.m_pCircle
BY DEF MicroQueues

(* Changing a field of a ring other than its size, or of a cell. *)
LEMMA RingUpdate ==
  ASSUME NEW ring \in Ring, NEW begin \in 0 .. WordSize - 1
  PROVE  /\ [ring EXCEPT !.m_nBeginIndex = begin] \in Ring
         /\ [ring EXCEPT !.m_nBeginIndex = begin].m_nTotalSize = ring.m_nTotalSize
         /\ [ring EXCEPT !.m_bNoWrite = TRUE] \in Ring
         /\ [ring EXCEPT !.m_bNoWrite = TRUE].m_nTotalSize = ring.m_nTotalSize
         /\ [ring EXCEPT !.m_bReleased = TRUE] \in Ring
         /\ [ring EXCEPT !.m_bReleased = TRUE].m_nTotalSize = ring.m_nTotalSize
BY DEF Ring

LEMMA DataUpdate ==
  ASSUME NEW cell \in Cell, NEW data \in Int
  PROVE  [cell EXCEPT !.m_pData = data] \in Cell
BY DEF Cell

LEMMA SignUpdate ==
  ASSUME NEW cell \in Cell, NEW sign \in Nat
  PROVE  [cell EXCEPT !.m_nWrite = sign] \in Cell
BY DEF Cell

(* Steps of a push that change a ring, a cell or the micro queue. *)
LEMMA PushSharedType ==
  ASSUME Shape, NEW p \in Pushers,
         \/ PushAdvance(p) \/ PushNoWrite(p) \/ PushStore(p) \/ PushLink(p)
         \/ PushCount(p) \/ PushData(p) \/ PushSign(p)
  PROVE  Shape'
<1> DEFINE q == Micro(p)
           k == CellOf(This(p), Index(p))
<1>0. p \in Threads /\ \A label \in PushLabels : Fits(p, label)
  BY ThreadsAssumption DEF Threads, Fits
<1>1. /\ q \in Micros /\ Index(p) \in Nat /\ loc[p] \in Locals
      /\ loc[p].own \in DOMAIN heap[q] /\ This(p) \in Ring
      /\ Pool(p) \in [0 .. This(p).m_nTotalSize - 1 -> Cell]
  BY <1>0, ThreadFacts
<1>2. /\ m_queue[q] \in MicroQueues
      /\ DOMAIN heap[q] = 1 .. Len(heap[q]) /\ heap[q] \in Seq(Ring)
      /\ m_queue[q].m_pWrite \in DOMAIN heap[q]
      /\ m_queue[q].m_pRead \in DOMAIN heap[q]
  BY <1>1, QueueFacts
<1>3. \A s \in Slots : m_queue[q].m_pCircle[s] \in {0} \cup DOMAIN heap[q]
  BY <1>1 DEF Shape, TypeOK
<1>4. loc = [loc EXCEPT ![p] = loc[p]] /\ Points(loc[p])
  BY <1>0, PointsKept DEF Shape, TypeOK
<1>5. k \in 0 .. This(p).m_nTotalSize - 1 /\ Pool(p)[k] \in Cell
  BY <1>1, CellInPool
<1>6. loc[p].own \in Nat /\ loc[p].next \in Nat /\ loc[p].begin \in 0 .. WordSize - 1
  BY <1>1 DEF Locals
<1>7. CASE PushAdvance(p)
  <2> DEFINE begin == AdvancedBegin(This(p), loc[p].begin)
  <2>1. begin \in 0 .. WordSize - 1
    BY <1>1, <1>6, AdvancedType
  <2>2. Fits(p, "pushData")
    BY <1>0 DEF PushLabels
  <2>3. heap' = [heap EXCEPT ![q][loc[p].this] =
                   [This(p) EXCEPT !.m_nBeginIndex = begin]]
    BY <1>7 DEF PushAdvance, This
  <2> HIDE DEF begin
  <2> DEFINE ring == [This(p) EXCEPT !.m_nBeginIndex = begin]
  <2>4. ring \in Ring /\ ring.m_nTotalSize = This(p).m_nTotalSize
    BY <1>1, <2>1, RingUpdate
  <2>5. /\ heap' = [heap EXCEPT ![q][loc[p].this] = ring]
        /\ Goto(p, "pushData")
        /\ UNCHANGED <<indexVars, m_queue, m_pPool, loc, delivered>>
    BY <1>7, <2>3 DEF PushAdvance
  <2> HIDE DEF ring
  <2> QED
    BY <1>0, <2>2, <2>4, <2>5, RingStep
<1>8. CASE PushNoWrite(p)
  <2>1. Fits(p, "pushAwait")
    BY <1>0 DEF PushLabels
  <2>2. heap' = [heap EXCEPT ![q][loc[p].this] =
                   [This(p) EXCEPT !.m_bNoWrite = TRUE]]
    BY <1>8 DEF PushNoWrite, This
  <2> QED
    BY <1>0, <1>1, <1>6, <1>8, <2>1, <2>2, RingUpdate, RingStep DEF PushNoWrite
<1>9. CASE PushStore(p)
  <2> DEFINE v == [m_queue[q] EXCEPT !.m_pCircle[loc[p].next] = loc[p].own]
  <2>1. loc[p].next \in Slots /\ Fits(p, "pushLink")
    BY <1>0, <1>9 DEF PushStore, PushLabels
  <2>2. m_queue' = [m_queue EXCEPT ![q] = v]
    BY <1>9 DEF PushStore
  <2>3. /\ v \in MicroQueues /\ v.m_pWrite = m_queue[q].m_pWrite
        /\ v.m_pRead = m_queue[q].m_pRead
        /\ \A s \in Slots : v.m_pCircle[s] =
             IF s = loc[p].next THEN loc[p].own ELSE m_queue[q].m_pCircle[s]
    <3> DEFINE m == m_queue[q]
               next == loc[p].next
               own == loc[p].own
    <3>1. m \in MicroQueues /\ next \in Slots /\ own \in Nat
      BY <1>2, <1>6, <2>1
    <3>2. v = [m EXCEPT !.m_pCircle[next] = own]
      OBVIOUS
    <3> HIDE DEF v, m, next, own
    <3>3. /\ v \in MicroQueues /\ v.m_pWrite = m.m_pWrite
          /\ v.m_pRead = m.m_pRead
          /\ \A s \in Slots : v.m_pCircle[s] =
               IF s = next THEN own ELSE m.m_pCircle[s]
      BY <3>1, <3>2, SlotUpdate
    <3> QED
      BY <3>3 DEF m, next, own
  <2> HIDE DEF v
  <2>4. \A s \in Slots : v.m_pCircle[s] \in {0} \cup DOMAIN heap[q]
    BY <1>1, <1>3, <2>3
  <2>5. /\ Goto(p, "pushLink") /\ loc' = [loc EXCEPT ![p] = loc[p]]
        /\ UNCHANGED <<indexVars, heap, m_pPool, delivered>>
    BY <1>4, <1>9 DEF PushStore
  <2> QED
    BY <1>0, <1>1, <1>2, <1>4, <2>1, <2>2, <2>3, <2>4, <2>5, QueueStep
<1>10. CASE PushLink(p)
  <2> DEFINE v == [m_queue[q] EXCEPT !.m_pWrite = loc[p].own]
  <2>1. Fits(p, "pushCount")
    BY <1>0 DEF PushLabels
  <2>2. m_queue' = [m_queue EXCEPT ![q] = v]
    BY <1>10 DEF PushLink
  <2>3. /\ v \in MicroQueues /\ v.m_pWrite = loc[p].own
        /\ v.m_pRead = m_queue[q].m_pRead
        /\ v.m_pCircle = m_queue[q].m_pCircle
    BY <1>2, <1>6, WriteUpdate
  <2> HIDE DEF v
  <2>4. /\ Goto(p, "pushCount") /\ loc' = [loc EXCEPT ![p] = loc[p]]
        /\ UNCHANGED <<indexVars, heap, m_pPool, delivered>>
    BY <1>4, <1>10 DEF PushLink
  <2> QED
    BY <1>0, <1>1, <1>2, <1>3, <1>4, <2>1, <2>2, <2>3, <2>4, QueueStep
<1>11. CASE PushCount(p)
  <2> DEFINE v == [m_queue[q] EXCEPT !.m_nWriteCircle = loc[p].next]
             r == [loc[p] EXCEPT !.this = loc[p].own, !.nested = TRUE]
  <2>1. Fits(p, "pushBegin")
    BY <1>0 DEF PushLabels
  <2>2. m_queue' = [m_queue EXCEPT ![q] = v]
    BY <1>11 DEF PushCount
  <2>3. /\ v \in MicroQueues /\ v.m_pWrite = m_queue[q].m_pWrite
        /\ v.m_pRead = m_queue[q].m_pRead
        /\ v.m_pCircle = m_queue[q].m_pCircle
    BY <1>2, <1>6, WriteCircleUpdate
  <2>4. Points(r)
    BY <1>0, <1>1, PointsKept
  <2>5. /\ Goto(p, "pushBegin") /\ loc' = [loc EXCEPT ![p] = r]
        /\ UNCHANGED <<indexVars, heap, m_pPool, delivered>>
    BY <1>11 DEF PushCount
  <2> HIDE DEF v, r
  <2> QED
    BY <1>0, <1>1, <1>2, <1>3, <2>1, <2>2, <2>3, <2>4, <2>5, QueueStep
<1>12. CASE PushData(p)
  <2> DEFINE cell == [Pool(p)[k] EXCEPT !.m_pData = Index(p)]
  <2>0. Index(p) \in Int
    BY <1>1
  <2>1. cell \in Cell /\ Fits(p, "pushSign")
    <3>1. cell \in Cell
      BY <1>5, <2>0, DataUpdate
    <3> QED
      BY <1>0, <3>1 DEF PushLabels
  <2>2. m_pPool' = [m_pPool EXCEPT ![q][loc[p].this][k] = cell]
    BY <1>12 DEF PushData, Pool
  <2>3. /\ Goto(p, "pushSign") /\ loc' = [loc EXCEPT ![p] = loc[p]]
        /\ UNCHANGED <<indexVars, m_queue, heap, delivered>>
    BY <1>4, <1>12 DEF PushData
  <2> HIDE DEF cell, k
  <2> QED
    BY <1>0, <1>4, <1>5, <2>1, <2>2, <2>3, CellStep
<1>13. CASE PushSign(p)
  <2> DEFINE sign == WrittenSign(This(p), Index(p))
             cell == [Pool(p)[k] EXCEPT !.m_nWrite = sign]
  <2>1. sign \in Nat /\ Fits(p, "pushDone") /\ Points(NoCall)
    BY <1>0, <1>1, SignType, EnterUpdate DEF PushLabels
  <2>2. cell \in Cell
    BY <1>5, <2>1, SignUpdate
  <2>3. m_pPool' = [m_pPool EXCEPT ![q][loc[p].this][k] = cell]
    BY <1>13 DEF PushSign, Pool
  <2>4. /\ Goto(p, "pushDone") /\ loc' = [loc EXCEPT ![p] = NoCall]
        /\ UNCHANGED <<indexVars, m_queue, heap, delivered>>
    BY <1>13 DEF PushSign, Return
  <2> HIDE DEF cell, k, sign
  <2> QED
    BY <1>0, <1>5, <2>1, <2>2, <2>3, <2>4, CellStep
<1> QED
  BY <1>7, <1>8, <1>9, <1>10, <1>11, <1>12, <1>13

(* Steps of a pop that change its label and locals only. *)
LEMMA PopLocalType ==
  ASSUME Shape, NEW c \in Poppers,
         \/ DrawPop(c) \/ PopLoadOwn(c) \/ PopLoadBegin(c) \/ PopAsk(c)
         \/ PopAwait(c) \/ PopNext(c) \/ PopSpin(c) \/ PopData(c)
  PROVE  Shape'
<1>0. c \in Threads /\ \A label \in PopLabels : Fits(c, label)
  BY ThreadsAssumption DEF Threads, Fits
<1>1. /\ m_nPreWriteIndex \in Nat /\ m_nReadIndex \in Nat
      /\ delivered \subseteq Nat \X Int
      /\ loc = [loc EXCEPT ![c] = loc[c]]
  BY <1>0 DEF Shape, TypeOK
<1>2. /\ Micro(c) \in Micros /\ loc[c] \in Locals /\ This(c) \in Ring
      /\ Index(c) \in Nat
      /\ Pool(c) \in [0 .. This(c).m_nTotalSize - 1 -> Cell]
  BY <1>0, ThreadFacts
<1>3. m_queue[Micro(c)].m_pRead \in DOMAIN heap[Micro(c)] /\ Points(loc[c])
  BY <1>0, <1>2, QueueFacts, PointsKept
<1>4. CASE DrawPop(c)
  <2>1. Points([NoCall EXCEPT !.index = m_nReadIndex])
    BY <1>1, EnterUpdate
  <2>2. Fits(c, "popEnter")
    BY <1>0 DEF PopLabels
  <2>3. m_nPreWriteIndex' \in Nat /\ m_nReadIndex' \in Nat
    BY <1>1, <1>4 DEF DrawPop
  <2> QED
    BY <1>0, <1>1, <1>4, <2>1, <2>2, <2>3, LocalStep DEF DrawPop, EnterPop
<1>5. CASE PopLoadOwn(c)
  <2>1. Points([loc[c] EXCEPT !.this = m_queue[Micro(c)].m_pRead])
    BY <1>0, <1>3, PointsKept
  <2>2. Fits(c, "popBegin")
    BY <1>0 DEF PopLabels
  <2>3. loc' = [loc EXCEPT ![c] = [loc[c] EXCEPT !.this = m_queue[Micro(c)].m_pRead]]
    BY <1>5 DEF PopLoadOwn
  <2> QED
    BY <1>0, <1>1, <1>5, <2>1, <2>2, <2>3, LocalStep DEF PopLoadOwn, indexVars
<1>6. CASE PopLoadBegin(c)
  <2> DEFINE begin == This(c).m_nBeginIndex
  <2>1. begin \in 0 .. WordSize - 1
    BY <1>2 DEF Ring
  <2>2. Points([loc[c] EXCEPT !.begin = begin, !.scan = 0])
    BY <1>0, <2>1, PointsKept
  <2>3. PICK label \in {"popSpin", "popAsk", "popRetry"} : Goto(c, label)
    BY <1>6 DEF PopLoadBegin
  <2>4. Fits(c, label)
    BY <1>0 DEF PopLabels
  <2>5. loc' = [loc EXCEPT ![c] = [loc[c] EXCEPT !.begin = begin, !.scan = 0]]
    BY <1>6 DEF PopLoadBegin
  <2> QED
    BY <1>0, <1>1, <1>6, <2>2, <2>3, <2>4, <2>5, LocalStep
       DEF PopLoadBegin, indexVars
<1>7. CASE PopAsk(c)
  <2>1. PICK label \in {"popAwait", "popRetry"} : Goto(c, label)
    BY <1>7 DEF PopAsk
  <2>2. Fits(c, label)
    BY <1>0 DEF PopLabels
  <2>3. loc' = [loc EXCEPT ![c] = loc[c]]
    BY <1>1, <1>7 DEF PopAsk
  <2> QED
    BY <1>0, <1>1, <1>3, <1>7, <2>1, <2>2, <2>3, LocalStep DEF PopAsk, indexVars
<1>8. CASE PopAwait(c)
  <2>1. PICK label \in {"popNext", "popAwait"} : Goto(c, label)
    BY <1>8 DEF PopAwait
  <2>2. Fits(c, label)
    BY <1>0 DEF PopLabels
  <2>3. loc' = [loc EXCEPT ![c] = [loc[c] EXCEPT !.scan = loc[c].scan + 1]]
    BY <1>8 DEF PopAwait
  <2>4. loc[c].scan + 1 \in Nat
    BY <1>2 DEF Locals
  <2>5. Points([loc[c] EXCEPT !.scan = loc[c].scan + 1])
    BY <1>0, <2>4, PointsKept
  <2>6. /\ UNCHANGED <<m_queue, heap, m_pPool, delivered>>
        /\ m_nPreWriteIndex' \in Nat /\ m_nReadIndex' \in Nat
    BY <1>1, <1>8 DEF PopAwait, indexVars
  <2> QED
    BY <1>0, <1>1, <2>1, <2>2, <2>3, <2>5, <2>6, LocalStep
<1>9. CASE PopNext(c)
  <2>1. Fits(c, "popBump")
    BY <1>0 DEF PopLabels
  <2>2. loc' = [loc EXCEPT ![c] = loc[c]]
    BY <1>1, <1>9 DEF PopNext
  <2> QED
    BY <1>0, <1>1, <1>3, <1>9, <2>1, <2>2, LocalStep DEF PopNext, indexVars
<1>10. CASE PopSpin(c)
  <2>1. Fits(c, "popData")
    BY <1>0 DEF PopLabels
  <2>2. loc' = [loc EXCEPT ![c] = loc[c]]
    BY <1>1, <1>10 DEF PopSpin
  <2> QED
    BY <1>0, <1>1, <1>3, <1>10, <2>1, <2>2, LocalStep DEF PopSpin, indexVars
<1>11. CASE PopData(c)
  <2>1. Fits(c, "popClear")
    BY <1>0 DEF PopLabels
  <2>2. loc' = [loc EXCEPT ![c] = loc[c]]
    BY <1>1, <1>11 DEF PopData
  <2>3. CellOf(This(c), Index(c)) \in 0 .. This(c).m_nTotalSize - 1
    BY <1>2, CellInPool
  <2>4. Pool(c)[CellOf(This(c), Index(c))].m_pData \in Int
    BY <1>2, <2>3 DEF Cell
  <2>5. delivered' \subseteq Nat \X Int
    BY <1>1, <1>2, <1>11, <2>4 DEF PopData
  <2> QED
    BY <1>0, <1>1, <1>3, <1>11, <2>1, <2>2, <2>5, LocalStep
       DEF PopData, indexVars
<1> QED
  BY <1>4, <1>5, <1>6, <1>7, <1>8, <1>9, <1>10, <1>11

(* Steps of a pop that change a ring, a cell or the micro queue. *)
LEMMA PopSharedType ==
  ASSUME Shape, NEW c \in Poppers,
         PopBump(c) \/ PopTurn(c) \/ PopRelease(c) \/ PopClear(c)
  PROVE  Shape'
<1> DEFINE q == Micro(c)
           k == CellOf(This(c), Index(c))
<1>0. c \in Threads /\ \A label \in PopLabels : Fits(c, label)
  BY ThreadsAssumption DEF Threads, Fits
<1>1. /\ q \in Micros /\ Index(c) \in Nat /\ loc[c] \in Locals
      /\ This(c) \in Ring
      /\ Pool(c) \in [0 .. This(c).m_nTotalSize - 1 -> Cell]
  BY <1>0, ThreadFacts
<1>2. /\ m_queue[q] \in MicroQueues
      /\ DOMAIN heap[q] = 1 .. Len(heap[q]) /\ heap[q] \in Seq(Ring)
      /\ m_queue[q].m_pWrite \in DOMAIN heap[q]
      /\ m_queue[q].m_pRead \in DOMAIN heap[q]
  BY <1>1, QueueFacts
<1>3. \A s \in Slots : m_queue[q].m_pCircle[s] \in {0} \cup DOMAIN heap[q]
  BY <1>1 DEF Shape, TypeOK
<1>4. loc = [loc EXCEPT ![c] = loc[c]] /\ Points(loc[c])
  BY <1>0, PointsKept DEF Shape, TypeOK
<1>5. CASE PopBump(c)
  <2> DEFINE next == m_queue[q].m_nReadCircle + 1
             v == [m_queue[q] EXCEPT !.m_nReadCircle = next]
             r == [loc[c] EXCEPT !.next = next]
  <2>1. next \in Nat /\ Fits(c, "popTurn")
    BY <1>0, <1>2 DEF MicroQueues, PopLabels
  <2>2. m_queue' = [m_queue EXCEPT ![q] = v]
    BY <1>5 DEF PopBump
  <2>3. loc' = [loc EXCEPT ![c] = r]
    BY <1>5 DEF PopBump
  <2>4. /\ v \in MicroQueues /\ v.m_pWrite = m_queue[q].m_pWrite
        /\ v.m_pRead = m_queue[q].m_pRead
        /\ v.m_pCircle = m_queue[q].m_pCircle
    <3> HIDE DEF next
    <3> QED BY <1>2, <2>1, ReadCircleUpdate
  <2>5. Points(r)
    BY <1>0, <2>1, PointsKept
  <2>6. Goto(c, "popTurn") /\ UNCHANGED <<indexVars, heap, m_pPool, delivered>>
    BY <1>5 DEF PopBump
  <2> HIDE DEF v, r
  <2> QED
    BY <1>0, <1>1, <1>2, <1>3, <2>1, <2>2, <2>3, <2>4, <2>5, <2>6, QueueStep
<1>6. CASE PopTurn(c)
  <2> DEFINE slot == m_queue[q].m_pCircle[loc[c].next]
             v == [m_queue[q] EXCEPT !.m_pRead = slot]
  <2>1. slot \in DOMAIN heap[q] /\ Fits(c, "popRelease")
    BY <1>0, <1>3, <1>6 DEF PopTurn, PopLabels
  <2>2. m_queue' = [m_queue EXCEPT ![q] = v]
    BY <1>6 DEF PopTurn
  <2>3. slot \in Nat
    BY <1>2, <2>1
  <2>4. /\ v \in MicroQueues /\ v.m_pWrite = m_queue[q].m_pWrite
        /\ v.m_pRead = slot /\ v.m_pCircle = m_queue[q].m_pCircle
    <3> HIDE DEF slot
    <3> QED BY <1>2, <2>3, ReadUpdate
  <2>5. /\ Goto(c, "popRelease") /\ loc' = [loc EXCEPT ![c] = loc[c]]
        /\ UNCHANGED <<indexVars, heap, m_pPool, delivered>>
    BY <1>4, <1>6 DEF PopTurn
  <2> HIDE DEF v, slot
  <2> QED
    BY <1>0, <1>1, <1>2, <1>3, <1>4, <2>1, <2>2, <2>4, <2>5, QueueStep
<1>7. CASE PopRelease(c)
  <2>1. Fits(c, "popRetry") /\ 0 \in 0 .. WordSize - 1
    BY <1>0, WordAssumption DEF PopLabels
  <2>2. heap' = [heap EXCEPT ![q][loc[c].this] =
                   [This(c) EXCEPT !.m_bReleased = TRUE]]
    BY <1>7 DEF PopRelease, This
  <2> QED
    BY <1>0, <1>1, <1>7, <2>1, <2>2, RingUpdate, RingStep DEF PopRelease
<1>8. CASE PopClear(c)
  <2> DEFINE sign == ReadSign(This(c), Index(c))
             cell == [Pool(c)[k] EXCEPT !.m_nWrite = sign]
  <2>1. sign \in Nat /\ Fits(c, "popDone") /\ Points(NoCall)
    BY <1>0, <1>1, SignType, EnterUpdate DEF PopLabels
  <2>2. k \in 0 .. This(c).m_nTotalSize - 1 /\ Pool(c)[k] \in Cell
    BY <1>1, CellInPool
  <2>3. cell \in Cell
    BY <2>1, <2>2, SignUpdate
  <2>4. m_pPool' = [m_pPool EXCEPT ![q][loc[c].this][k] = cell]
    BY <1>8 DEF PopClear, Pool
  <2>5. /\ Goto(c, "popDone") /\ loc' = [loc EXCEPT ![c] = NoCall]
        /\ UNCHANGED <<indexVars, m_queue, heap, delivered>>
    BY <1>8 DEF PopClear, Return
  <2> HIDE DEF cell, k, sign
  <2> QED
    BY <1>0, <2>1, <2>2, <2>3, <2>4, <2>5, CellStep
<1> QED
  BY <1>5, <1>6, <1>7, <1>8

---------------------------------------------------------------------------
LEMMA ShapeInit == Init => Shape
<1> SUFFICES ASSUME Init PROVE Shape
  OBVIOUS
<1> DEFINE ring(q) == CreateCircle(CCLockfreeQueueStartIndex + q)
<1>1. \A q \in Micros : ring(q) \in Ring
  <2> SUFFICES ASSUME NEW q \in Micros PROVE ring(q) \in Ring
    OBVIOUS
  <2>1. CCLockfreeQueueStartIndex + q \in Int
    BY StartAssumption DEF Micros
  <2> QED
    BY <2>1, BlockAssumption, NewCircleType DEF CreateCircle
<1>2. \A q \in Micros :
        /\ NewPool(ring(q)) \in [0 .. ring(q).m_nTotalSize - 1 -> Cell]
        /\ NewPool(ring(q)) \in Pools
  BY <1>1, NewPoolType
<1>3. /\ heap = [q \in Micros |-> <<ring(q)>>]
      /\ m_pPool = [q \in Micros |-> <<NewPool(ring(q))>>]
  BY DEF Init
<1> HIDE DEF ring
<1>4. /\ heap \in [Micros -> Seq(Ring)] /\ m_pPool \in [Micros -> Seq(Pools)]
      /\ \A q \in Micros :
           /\ DOMAIN heap[q] = {1} /\ DOMAIN m_pPool[q] = {1}
           /\ heap[q][1] = ring(q) /\ m_pPool[q][1] = NewPool(ring(q))
  BY <1>1, <1>2, <1>3
<1>5. /\ m_queue \in [Micros -> MicroQueues]
      /\ \A q \in Micros : /\ m_queue[q].m_pWrite = 1
                           /\ m_queue[q].m_pRead = 1
                           /\ \A s \in Slots : m_queue[q].m_pCircle[s] \in {0, 1}
  BY DEF Init, MicroQueues
<1>6. /\ NoCall \in Locals /\ NoCall.own = 1 /\ NoCall.this = 1
      /\ NoCall.index \in Nat
  BY WordAssumption DEF NoCall, Locals
<1>7. /\ loc \in [Threads -> Locals]
      /\ \A t \in Threads : {loc[t].own, loc[t].this} \subseteq
                               DOMAIN heap[Micro(t)]
  BY <1>4, <1>6, MicroType DEF Init, Micro, Index
<1>8. /\ pc \in [Threads -> PushLabels \cup PopLabels]
      /\ \A p \in Pushers : pc[p] \in PushLabels
      /\ \A c \in Poppers : pc[c] \in PopLabels
  BY ThreadsAssumption DEF Init, Threads, PushLabels, PopLabels
<1>9. /\ m_nPreWriteIndex \in Nat /\ m_nReadIndex \in Nat
      /\ delivered \subseteq Nat \X Int
  BY StartAssumption DEF Init
<1>10. DOMAIN m_pPool = Micros
  BY <1>3
<1>11. \A q \in Micros :
         /\ DOMAIN m_pPool[q] = DOMAIN heap[q]
         /\ \A i \in DOMAIN heap[q] :
              m_pPool[q][i] \in [0 .. heap[q][i].m_nTotalSize - 1 -> Cell]
         /\ m_queue[q].m_pWrite \in DOMAIN heap[q]
         /\ m_queue[q].m_pRead \in DOMAIN heap[q]
         /\ \A s \in Slots : m_queue[q].m_pCircle[s] \in {0} \cup DOMAIN heap[q]
  <2> SUFFICES ASSUME NEW q \in Micros
               PROVE  /\ DOMAIN m_pPool[q] = DOMAIN heap[q]
                      /\ \A i \in DOMAIN heap[q] :
                           m_pPool[q][i] \in [0 .. heap[q][i].m_nTotalSize - 1 -> Cell]
                      /\ m_queue[q].m_pWrite \in DOMAIN heap[q]
                      /\ m_queue[q].m_pRead \in DOMAIN heap[q]
                      /\ \A s \in Slots :
                           m_queue[q].m_pCircle[s] \in {0} \cup DOMAIN heap[q]
    OBVIOUS
  <2>1. /\ DOMAIN heap[q] = {1} /\ DOMAIN m_pPool[q] = {1}
        /\ m_pPool[q][1] \in [0 .. heap[q][1].m_nTotalSize - 1 -> Cell]
    BY <1>2, <1>4
  <2>2. /\ m_queue[q].m_pWrite = 1 /\ m_queue[q].m_pRead = 1
        /\ \A s \in Slots : m_queue[q].m_pCircle[s] \in {0, 1}
    BY <1>5
  <2> QED
    BY <2>1, <2>2
<1>12. TypeOK
  BY <1>4, <1>5, <1>7, <1>8, <1>9, <1>10, <1>11 DEF TypeOK
<1> QED
  BY <1>4, <1>12 DEF Shape

LEMMA ShapeNext == Shape /\ [Next]_vars => Shape'
<1> SUFFICES ASSUME Shape, [Next]_vars PROVE Shape'
  OBVIOUS
<1>1. CASE UNCHANGED vars
  BY <1>1 DEF Shape, TypeOK, vars, Micro, Index
<1>2. ASSUME NEW p \in Pushers, DrawPush(p) \/ PushStep(p) PROVE Shape'
  BY <1>2, PushLocalType, PushSharedType, GrowStep DEF PushStep
<1>3. ASSUME NEW c \in Poppers, DrawPop(c) \/ PopStep(c) PROVE Shape'
  BY <1>3, PopLocalType, PopSharedType DEF PopStep
<1> QED
  BY <1>1, <1>2, <1>3 DEF Next

(* The pointers m_pWrite, m_pRead, m_pCircle[s], pCircle and this always   *)
(* refer to allocated rings and every ring keeps a pool of its size, while *)
(* any number of pushes and pops grow and drain the chain (lines 187-245): *)
(* with CellInPool, every access of lines 60-150 stays inside a pool. *)
THEOREM MicroTypeCorrect == Spec => []TypeOK
<1>1. Shape => TypeOK
  BY DEF Shape
<1> QED
  BY ShapeInit, ShapeNext, <1>1, PTL DEF Spec

---------------------------------------------------------------------------

(***************************************************************************)
(* Arithmetic of words, places and half-laps.                              *)
(***************************************************************************)

(* The half-lap offset o of a ring of s cells lies in.                    *)
Lap(s, o) == (2 * o) \div s

(* The half-laps of a ring of 2 * h cells. *)
LEMMA LapFacts ==
  ASSUME NEW s \in Nat \ {0}, NEW o \in Nat
  PROVE  /\ Lap(s, o) \in Nat
         /\ Lap(s, o - s) = Lap(s, o) - 2
         /\ (o - s) % s = o % s
         /\ o % s \in 0 .. s - 1
         /\ o >= s => Lap(s, o) >= 2
<1>1. Lap(s, o) \in Nat
  BY DEF Lap
<1>2. 2 * (o - s) = 2 * o + s * (-2)
  OBVIOUS
<1>3. Lap(s, o - s) = Lap(s, o) - 2
  BY <1>2, ModShift DEF Lap
<1>4. o - s = o + s * (-1)
  OBVIOUS
<1>5. (o - s) % s = o % s
  <2> DEFINE m == -1
  <2>1. m \in Int /\ o - s = o + s * m /\ s \in Nat \ {0} /\ o \in Int
    BY <1>4
  <2> HIDE DEF m
  <2>2. (o + s * m) % s = o % s
    BY <2>1, ModShift
  <2> QED
    BY <2>1, <2>2
<1>6. ASSUME o >= s PROVE Lap(s, o - s) \in Nat
  BY <1>6 DEF Lap
<1> QED
  BY <1>1, <1>3, <1>5, <1>6

(* A scan that starts at a half-lap runs through that half-lap and the    *)
(* next.                                                                  *)
LEMMA LapRun ==
  ASSUME NEW s \in Nat \ {0}, s = 2 * (s \div 2), NEW o \in Nat,
         o % (s \div 2) = 0, NEW m \in Nat, o <= m, m < o + s
  PROVE  /\ m < o + (s \div 2) => Lap(s, m) = Lap(s, o)
         /\ ~ (m < o + (s \div 2)) => Lap(s, m) = Lap(s, o) + 1
<1> DEFINE h == s \div 2
           e == o \div h
           j == m - o
<1>0. h \in Nat \ {0} /\ s = 2 * h /\ o % h = 0 /\ j \in Nat /\ j < s /\ m = o + j
  OBVIOUS
<1> HIDE DEF h, j
<1>1. e \in Int /\ o = h * e
  BY <1>0
<1> HIDE DEF e
<1>2. Lap(s, o) = e
  <2>1. 2 * o = s * e + 0
    BY <1>0, <1>1
  <2> QED
    BY <1>0, <1>1, <2>1, DivUnique DEF Lap
<1>3. ASSUME j < h PROVE Lap(s, m) = e
  <2>1. 2 * m = s * e + 2 * j /\ 2 * j \in 0 .. s - 1
    BY <1>0, <1>1, <1>3
  <2> QED
    BY <1>0, <1>1, <2>1, DivUnique DEF Lap
<1>4. ASSUME ~ (j < h) PROVE Lap(s, m) = e + 1
  <2>1. 2 * m = s * (e + 1) + 2 * (j - h) /\ 2 * (j - h) \in 0 .. s - 1
    BY <1>0, <1>1, <1>4
  <2> QED
    BY <1>0, <1>1, <2>1, DivUnique DEF Lap
<1> QED
  BY <1>0, <1>1, <1>2, <1>3, <1>4 DEF h

(* Short names for the constants.                                         *)
Mode == ThreadWriteIndexModeIndex
Start == CCLockfreeQueueStartIndex
Block == BlockDefaultPerSize
(* The last place drawn, and the last place any window reaches.           *)
Last == MaxPush \div Mode
Far == 3 * Last + 2 * Block
Places == 0 .. Far

(* All that is assumed of the constants: the indices a run draws in all   *)
(* are about a sixth of the words (so that the distances of lines 63 and  *)
(* 111 tell before from after), and the pushers that may run ahead of a   *)
(* window are fewer than the cells of a second ring.                      *)
Roomy ==
  /\ Mode * (2 * Far + 2) <= WordSize
  /\ IsFiniteSet(Pushers)
  /\ Cardinality(Pushers) <= 4 * Block

(* A place is the number of an index in its micro queue: place k of       *)
(* micro queue q is index At(q, k).  PosW is the place a word stands      *)
(* for.                                                                   *)
At(q, k) == Start + q + Mode * k
PosOf(n) == (n - Start) \div Mode
PosW(w) == Minus(w, Word(Start)) \div Mode

(* Naturals are integers.                                                 *)
LEMMA NatInt == \A n \in Nat : n \in Int
OBVIOUS

(* The types of the constants.                                            *)
LEMMA Sizes ==
  /\ Mode \in Nat \ {0} /\ Start \in Nat /\ Block \in Nat \ {0}
  /\ Last \in Nat /\ Far \in Nat /\ WordSize \in Nat \ {0}
  /\ Start % Mode = 0
  /\ Last <= Far /\ 2 * Last + 2 * Block <= Far
BY ModeAssumption, StartAssumption, BlockAssumption, MaxPushAssumption, WordAssumption
   DEF Mode, Start, Block, Last, Far

(* What Word does: it takes away multiples of WordSize.                   *)
LEMMA WordPart ==
  ASSUME NEW a \in Int
  PROVE  /\ Word(a) \in 0 .. WordSize - 1
         /\ \E x \in Int : Word(a) = a + WordSize * x
<1> DEFINE e == a \div WordSize
           r == a % WordSize
           x == - e
<1>1. a = WordSize * e + r /\ e \in Int /\ r \in 0 .. WordSize - 1
  BY WordAssumption
<1>2. x \in Int /\ x = - e
  BY <1>1
<1>3. Word(a) = r
  BY DEF Word
<1> HIDE DEF e, r, x
<1>4. r = a + WordSize * x
  BY <1>1, <1>2, WordAssumption
<1> QED
  BY <1>1, <1>2, <1>3, <1>4

(* Word forgets multiples of WordSize,                                    *)
LEMMA WordShift ==
  ASSUME NEW a \in Int, NEW x \in Int
  PROVE  Word(a + WordSize * x) = Word(a)
BY ModShift, WordAssumption DEF Word

(* so that differences of words are words of differences,                 *)
LEMMA WordDiff ==
  ASSUME NEW a \in Int, NEW b \in Int
  PROVE  Minus(Word(a), Word(b)) = Word(a - b)
<1>1. PICK x \in Int : Word(a) = a + WordSize * x
  BY WordPart
<1>2. PICK y \in Int : Word(b) = b + WordSize * y
  BY WordPart
<1>3. Word(a) - Word(b) = (a - b) + WordSize * (x - y)
  BY <1>1, <1>2, Times, WordAssumption
<1>4. Word((a - b) + WordSize * (x - y)) = Word(a - b)
  BY WordShift
<1> QED
  BY <1>3, <1>4 DEF Minus, Word

(* sums likewise,                                                         *)
LEMMA WordSum ==
  ASSUME NEW a \in Int, NEW b \in Int
  PROVE  Word(Word(a) + b) = Word(a + b)
<1>1. PICK x \in Int : Word(a) = a + WordSize * x
  BY WordPart
<1>2. Word(a) + b = (a + b) + WordSize * x
  BY <1>1, WordAssumption
<1>3. Word((a + b) + WordSize * x) = Word(a + b)
  BY WordShift
<1> QED
  BY <1>2, <1>3

(* and small numbers are kept.                                            *)
LEMMA WordSmall ==
  /\ \A n \in Nat : n < WordSize => Word(n) = n
  /\ \A n \in Int : n < 0 /\ - WordSize <= n => Word(n) = n + WordSize
BY WordAssumption DEF Word

(* The indices of a micro queue. *)
LEMMA IndexPlace ==
  ASSUME NEW n \in Nat, Start <= n
  PROVE  /\ MicroOf(n) \in Micros
         /\ PosOf(n) \in Nat
         /\ n = At(MicroOf(n), PosOf(n))
<1> DEFINE r == n % Mode
           e == n \div Mode
           z == Start \div Mode
<1>1. n = Mode * e + r /\ e \in Int /\ r \in 0 .. Mode - 1
  BY Sizes
<1>2. Start = Mode * z /\ z \in Int
  BY Sizes
<1>3. Word(n) % Mode = r
  <2> DEFINE v == WordSize \div Mode
  <2>1. WordSize = Mode * v /\ v \in Int
    BY ModeAssumption, Sizes DEF Mode
  <2> HIDE DEF v
  <2>2. PICK x \in Int : Word(n) = n + WordSize * x
    BY WordPart
  <2> DEFINE y == v * x
  <2>3. Word(n) = n + Mode * y /\ y \in Int
    BY <2>1, <2>2, Sizes
  <2> HIDE DEF y, r, e, z
  <2>4. (n + Mode * y) % Mode = n % Mode
    BY <2>3, NatInt, ModShift, Sizes, Zenon
  <2> QED
    BY <2>3, <2>4 DEF r
<1>4. MicroOf(n) = r
  BY <1>3 DEF MicroOf, Mode
<1> HIDE DEF r, e, z
<1>5. n - Start = Mode * (e - z) + r /\ e - z \in Int
  BY <1>1, <1>2, Times, Sizes
<1>6. PosOf(n) = e - z
  <2>1. (Mode * (e - z) + r) \div Mode = e - z
    BY <1>1, <1>5, DivUnique, Sizes
  <2> QED
    BY <1>5, <2>1 DEF PosOf
<1>7. e - z >= 0
  <2>1. ASSUME e - z <= -1 PROVE Mode * (e - z) <= Mode * (-1)
    BY <1>5, <2>1, Times, Sizes
  <2>2. ASSUME e - z <= -1 PROVE FALSE
    <3> DEFINE d == Mode * (e - z)
    <3>1. d <= Mode * (-1)
      BY <2>1, <2>2
    <3>2. Mode * (-1) = - Mode /\ d \in Int
      BY <1>5, Sizes
    <3>3. n - Start = d + r
      BY <1>5
    <3> HIDE DEF d
    <3> QED
      BY <1>1, <3>1, <3>2, <3>3, Sizes
  <2> QED
    BY <1>5, <2>2
<1>8. r \in Micros
  BY <1>1 DEF Micros, Mode
<1>9. e - z \in Nat
  BY <1>5, <1>7
<1>10. n = At(r, e - z)
  <2> DEFINE d == Mode * (e - z)
  <2>1. d \in Int /\ n - Start = d + r
    BY <1>5, Sizes
  <2> HIDE DEF d
  <2>2. n = Start + r + d
    BY <1>1, <2>1, Sizes
  <2> QED
    BY <2>2 DEF At, d
<1> QED
  BY <1>4, <1>6, <1>8, <1>9, <1>10

(* A place has one index, of its micro queue.                             *)
LEMMA PlaceIndex ==
  ASSUME NEW q \in Micros, NEW k \in Nat
  PROVE  /\ At(q, k) \in Nat /\ Start <= At(q, k)
         /\ MicroOf(At(q, k)) = q
         /\ PosOf(At(q, k)) = k
<1>1. q \in 0 .. Mode - 1
  BY DEF Micros, Mode
<1>2. Mode * k \in Nat
  BY Sizes
<1>3. At(q, k) \in Nat /\ Start <= At(q, k)
  BY <1>1, <1>2, Sizes DEF At
<1>4. At(q, k) - Start = Mode * k + q
  BY <1>1, <1>2, Sizes DEF At
<1>5. (Mode * k + q) \div Mode = k
  BY <1>1, DivUnique, Sizes
<1>6. PosOf(At(q, k)) = k
  BY <1>4, <1>5 DEF PosOf
<1> DEFINE m == MicroOf(At(q, k))
<1>7. m \in Micros /\ At(q, k) = At(m, k)
  BY <1>3, <1>6, IndexPlace
<1>8. m = q
  <2>1. m \in 0 .. Mode - 1
    BY <1>7 DEF Micros, Mode
  <2>2. At(m, k) = Start + m + Mode * k /\ At(q, k) = Start + q + Mode * k
    BY <1>1, <1>2, <2>1, Sizes DEF At
  <2> HIDE DEF m
  <2> DEFINE d == Mode * k
  <2>3. d \in Int /\ Start + m + d = Start + q + d
    BY <1>2, <1>7, <2>2
  <2> HIDE DEF d
  <2> QED
    BY <1>1, <2>1, <2>3, Sizes
<1> QED
  BY <1>3, <1>6, <1>8

(* Places in order are indices in order. *)
LEMMA PlaceOrder ==
  ASSUME NEW q \in Micros, NEW j \in Nat, NEW k \in Nat
  PROVE  /\ At(q, j) < At(q, k) <=> j < k
         /\ At(q, k) < Start + MaxPush => k <= Last
<1>1. q \in 0 .. Mode - 1 /\ Mode * j \in Nat /\ Mode * k \in Nat
  BY Sizes DEF Micros, Mode
<1>2. j < k <=> Mode * j < Mode * k
  BY Times, Sizes
<1>3. ASSUME At(q, k) < Start + MaxPush PROVE k <= Last
  <2>1. Mode * k < MaxPush
    BY <1>1, <1>3, Sizes, MaxPushAssumption DEF At
  <2>2. MaxPush = Mode * Last + (MaxPush % Mode) /\ MaxPush % Mode \in 0 .. Mode - 1
    BY Sizes, MaxPushAssumption DEF Last
  <2>3. Mode * k < Mode * Last + Mode * 1
    BY <1>1, <2>1, <2>2, Sizes, MaxPushAssumption
  <2>4. Mode * k < Mode * (Last + 1)
    BY <2>3, Sizes, Times
  <2>5. k < Last + 1
    BY <2>4, Sizes, Times
  <2> QED
    BY <2>5, Sizes
<1> QED
  BY <1>1, <1>2, <1>3, Sizes DEF At

(* Distances of words are distances of places.                            *)
LEMMA PlaceWord ==
  ASSUME Roomy, NEW q \in Micros, NEW a \in Places, NEW b \in Places
  PROVE  /\ PosW(Word(At(q, a))) = a
         /\ a >= b => Minus(Word(At(q, a)), Word(At(q, b))) = Mode * (a - b)
         /\ a < b => Minus(Word(At(q, a)), Word(At(q, b))) = WordSize - Mode * (b - a)
         /\ Mode * (b - a) <= Mode * Far
         /\ 2 * (Mode * Far) + 2 * Mode <= WordSize
<1>1. q \in 0 .. Mode - 1 /\ a \in Nat /\ b \in Nat /\ a <= Far /\ b <= Far /\ Far \in Nat
  BY Sizes DEF Micros, Mode, Places
<1>2. 2 * (Mode * Far) + 2 * Mode <= WordSize
  BY <1>1, Sizes, Times DEF Roomy
<1>3. /\ Mode * (b - a) <= Mode * Far /\ Mode * (a - b) <= Mode * Far
      /\ Mode * a <= Mode * Far /\ Mode * (a - b) = - (Mode * (b - a))
      /\ Mode * a \in Nat /\ Mode * (a - b) \in Int /\ Mode * (b - a) \in Int
      /\ Mode * Far \in Nat
  BY <1>1, Sizes, Times
<1>4. /\ a >= b => Mode * (a - b) >= 0
      /\ a < b => Mode * (b - a) > 0
  BY <1>1, <1>3, Sizes, Times
<1>5. At(q, a) - At(q, b) = Mode * (a - b) /\ At(q, a) \in Nat /\ At(q, b) \in Nat
  BY <1>1, Sizes, Times, PlaceIndex DEF At
<1>6. Minus(Word(At(q, a)), Word(At(q, b))) = Word(Mode * (a - b))
  BY <1>5, WordDiff
<1>7. a >= b => Word(Mode * (a - b)) = Mode * (a - b)
  BY <1>1, <1>2, <1>3, <1>4, Sizes, WordSmall
<1>8. a < b => Word(Mode * (a - b)) = WordSize - Mode * (b - a)
  BY <1>1, <1>2, <1>3, <1>4, Sizes, WordSmall
<1>9. PosW(Word(At(q, a))) = a
  <2>1. At(q, a) - Start = Mode * a + q
    BY <1>1, <1>3, Sizes DEF At
  <2>2. Minus(Word(At(q, a)), Word(Start)) = Word(Mode * a + q)
    <3>1. At(q, a) \in Int /\ Start \in Int
      BY <1>5, Sizes
    <3>2. Minus(Word(At(q, a)), Word(Start)) = Word(At(q, a) - Start)
      BY <3>1, WordDiff
    <3> QED
      BY <2>1, <3>2
  <2>3. Word(Mode * a + q) = Mode * a + q
    BY <1>1, <1>2, <1>3, Sizes, WordSmall
  <2>4. (Mode * a + q) \div Mode = a
    <3>1. Mode \in Nat \ {0} /\ a \in Int /\ q \in 0 .. Mode - 1
      BY <1>1, Sizes
    <3> QED
      BY <3>1, DivUnique
  <2> DEFINE v == Mode * a + q
             x == Word(At(q, a))
  <2>5. Minus(x, Word(Start)) = v /\ v \div Mode = a
    BY <2>2, <2>3, <2>4
  <2> HIDE DEF v
  <2>6. PosW(x) = a
    BY <2>5 DEF PosW
  <2> QED
    BY <2>6
<1> QED
  BY <1>2, <1>3, <1>6, <1>7, <1>8, <1>9

(* What the arithmetic of a ring comes to in places. *)
Prev(s, o) == IF o < s THEN 0 ELSE Sign(Lap(s, o) - 2)

(* The window of a ring with these fields. *)
Spans(ring, q, r, b, s) ==
  /\ ring \in Ring /\ q \in Micros /\ r \in Nat /\ b \in Nat /\ s \in Nat
  /\ ring.m_nResBeginIndex = Word(At(q, r))
  /\ ring.m_nBeginIndex = Word(At(q, b))
  /\ ring.m_nTotalSize = s
  /\ r <= b /\ b <= Last /\ s <= 2 * Last + 2 * Block

(* The window of a ring in places.                                        *)
LEMMA SpanFacts ==
  ASSUME Roomy, NEW ring, NEW q, NEW r, NEW b, NEW s, Spans(ring, q, r, b, s)
  PROVE  /\ r \in Places /\ b \in Places /\ b + s \in Places /\ s \in Places
         /\ s > 0
         /\ CheckTotalSize(ring) = Mode * s
         /\ WindowEnd(ring) = Word(At(q, b + s))
<1>1. r \in Places /\ b \in Places /\ b + s \in Places /\ s \in Places
  BY Sizes DEF Spans, Places, Far
<1>2. s > 0
  BY DEF Spans, Ring
<1>3. CheckTotalSize(ring) = Mode * s
  <2>1. Mode * s \in Nat /\ Mode * s <= Mode * Far /\ Mode * Far \in Nat
    BY <1>1, Sizes, Times DEF Places
  <2>2. Mode * s < WordSize
    <3>1. 2 * (Mode * Far) + 2 * Mode <= WordSize
      BY <1>1, PlaceWord DEF Spans
    <3> DEFINE u == Mode * s
               v == Mode * Far
    <3>2. u \in Nat /\ u <= v /\ v \in Nat
      BY <2>1
    <3>3. 2 * v + 2 * Mode <= WordSize
      BY <3>1
    <3> HIDE DEF u, v
    <3>4. u < WordSize
      BY <3>2, <3>3, Sizes
    <3> QED
      BY <3>4 DEF u
  <2>3. s * Mode = Mode * s
    BY <1>1, Sizes DEF Places
  <2> QED
    BY <2>1, <2>2, <2>3, WordSmall DEF CheckTotalSize, Spans, Mode
<1>4. WindowEnd(ring) = Word(At(q, b + s))
  <2>1. At(q, b) + Mode * s = At(q, b + s) /\ At(q, b) \in Int /\ Mode * s \in Int
    BY Sizes, Times, PlaceIndex DEF Spans, At, Micros, Mode
  <2>2. Word(Word(At(q, b)) + Mode * s) = Word(At(q, b + s))
    BY <2>1, WordSum
  <2> QED
    BY <1>3, <2>2 DEF WindowEnd, Spans
<1> QED
  BY <1>1, <1>2, <1>3, <1>4

(* The comparison of lines 63 and 111: before, at or past the window's    *)
(* end.                                                                   *)
LEMMA SpanDistance ==
  ASSUME Roomy, NEW ring, NEW q, NEW r, NEW b, NEW s, Spans(ring, q, r, b, s),
         NEW k \in Places
  PROVE  LET d == Minus(Word(At(q, k)), ring.m_nBeginIndex)
             w == CheckTotalSize(ring)
         IN  /\ d < w <=> b <= k /\ k < b + s
             /\ d = w <=> k = b + s
             /\ d > w <=> k < b \/ k > b + s
<1> DEFINE d == Minus(Word(At(q, k)), ring.m_nBeginIndex)
           w == CheckTotalSize(ring)
<1>1. /\ b \in Places /\ s \in Places /\ w = Mode * s /\ s \in Nat /\ b \in Nat
      /\ k \in Nat /\ d = Minus(Word(At(q, k)), Word(At(q, b))) /\ q \in Micros
  BY SpanFacts DEF Spans, Places
<1>2. CASE k >= b
  <2>1. d = Mode * (k - b)
    BY <1>1, <1>2, PlaceWord
  <2>2. /\ k - b < s <=> Mode * (k - b) < Mode * s
        /\ s < k - b <=> Mode * s < Mode * (k - b)
        /\ Mode * (k - b) \in Int /\ Mode * s \in Int
    BY <1>1, Times, Sizes
  <2> HIDE DEF d, w
  <2> QED
    BY <1>1, <1>2, <2>1, <2>2 DEF d, w
<1>3. CASE k < b
  <2>1. d = WordSize - Mode * (b - k)
    BY <1>1, <1>3, PlaceWord
  <2>2. /\ Mode * (b - k) <= Mode * Far
        /\ 2 * (Mode * Far) + 2 * Mode <= WordSize
    BY <1>1, PlaceWord
  <2>3. Mode * s <= Mode * Far /\ Mode * s \in Int /\ Mode * Far \in Int /\ Mode * (b - k) \in Int
    BY <1>1, Times, Sizes DEF Places
  <2>4. d > w
    BY <1>1, <2>1, <2>2, <2>3, Sizes
  <2>5. d \in Int /\ w \in Int
    BY <1>1, <2>1, <2>3, Sizes
  <2> HIDE DEF d, w
  <2> QED
    BY <1>1, <1>3, <2>4, <2>5 DEF d, w
<1> QED
  BY <1>1, <1>2, <1>3

(* The cell and the signs of an index (lines 68-75, 100-104 and           *)
(* 137-146).                                                              *)
LEMMA SpanCell ==
  ASSUME Roomy, NEW ring, NEW q, NEW r, NEW b, NEW s, Spans(ring, q, r, b, s),
         NEW k \in Places, r <= k
  PROVE  /\ SetIndex(ring, At(q, k)) = k - r
         /\ CellOf(ring, At(q, k)) = (k - r) % s
         /\ HalfLap(ring, At(q, k)) = Lap(s, k - r)
         /\ WrittenSign(ring, At(q, k)) = Sign(Lap(s, k - r)) + 1
         /\ ReadSign(ring, At(q, k)) = Sign(Lap(s, k - r))
<1>1. /\ r \in Places /\ s \in Nat /\ ring.m_nTotalSize = s /\ q \in Micros
      /\ ring.m_nResBeginIndex = Word(At(q, r)) /\ k \in Nat /\ r \in Nat
  BY SpanFacts DEF Spans, Places
<1>2. Minus(Word(At(q, k)), ring.m_nResBeginIndex) = Mode * (k - r)
  BY <1>1, PlaceWord
<1>3. SetIndex(ring, At(q, k)) = k - r
  <2> DEFINE d == k - r
  <2>1. d \in Int /\ 0 \in 0 .. Mode - 1 /\ Mode * d = Mode * d + 0
    BY <1>1, Sizes
  <2> HIDE DEF d
  <2>2. (Mode * d) \div Mode = d
    BY <2>1, DivUnique, Sizes
  <2> QED
    BY <1>2, <2>2 DEF SetIndex, Mode, d
<1>4. Word((k - r) * 2) = 2 * (k - r)
  <2>1. Mode >= 1 /\ 2 * (Mode * Far) + 2 * Mode <= WordSize
    BY <1>1, PlaceWord, Sizes
  <2>2. Mode * Far >= Far
    BY Sizes
  <2>3. (k - r) * 2 = 2 * (k - r) /\ 2 * (k - r) \in Nat /\ 2 * (k - r) < WordSize
    BY <1>1, <2>1, <2>2, Sizes DEF Places
  <2> QED
    BY <2>3, WordSmall
<1>5. HalfLap(ring, At(q, k)) = Lap(s, k - r)
  BY <1>1, <1>3, <1>4 DEF HalfLap, Lap
<1> QED
  BY <1>1, <1>3, <1>5 DEF CellOf, WrittenSign, ReadSign

(* Signs are even and positive, and those of a half-lap and the second    *)
(* next one differ.                                                       *)
LEMMA SignFacts ==
  /\ \A h \in Nat : h < WordSize => Sign(h) = ((h % 4) + 1) * 16
  /\ \A h \in Nat : h < WordSize => Sign(h) \in Nat /\ Sign(h) > 0 /\ Sign(h) % 2 = 0
  /\ \A h \in Nat : h >= 2 /\ h < WordSize => Sign(h - 2) # Sign(h)
<1>1. \A h \in Nat : h < WordSize => Sign(h) = ((h % 4) + 1) * 16
  BY WordSmall DEF Sign
<1>2. \A h \in Nat : h >= 2 => (h - 2) % 4 # h % 4
  OBVIOUS
<1>3. \A h \in Nat : h >= 2 => h - 2 \in Nat
  OBVIOUS
<1>4. \A h \in Nat : h >= 2 /\ h < WordSize => h - 2 < WordSize
  BY WordAssumption
<1>5. \A h \in Nat : h % 4 \in 0 .. 3
  OBVIOUS
<1>6. \A h \in Nat : h >= 2 /\ h < WordSize => Sign(h - 2) # Sign(h)
  BY <1>1, <1>2, <1>3, <1>4, <1>5
<1>7. \A h \in Nat : h < WordSize => Sign(h) \in Nat /\ Sign(h) > 0 /\ Sign(h) % 2 = 0
  BY <1>1, <1>5
<1> QED
  BY <1>1, <1>6, <1>7

(* A step of the scans: the cell is that of a place one lap before, and    *)
(* the sign is the one this place leaves when it is read. *)
LEMMA SpanScan ==
  ASSUME Roomy, NEW ring, NEW q, NEW r, NEW b, NEW s, Spans(ring, q, r, b, s),
         s = 2 * (s \div 2), NEW k \in Places, k - r >= s,
         (k - r) % (s \div 2) = 0, NEW j \in Nat, j < s
  PROVE  /\ ScanCell(ring, At(q, k), j) = (k - s + j - r) % s
         /\ ScanSign(ring, At(q, k), j) = Sign(Lap(s, k - s + j - r))
<1> DEFINE o == k - r
           m == o + j
           h == s \div 2
<1>1. /\ r \in Nat /\ s \in Nat \ {0} /\ ring.m_nTotalSize = s /\ k \in Nat
      /\ o \in Nat /\ o >= s /\ r <= k /\ o % (s \div 2) = 0
  BY SpanFacts DEF Spans, Places
<1>2. PerSize(ring) = h
  BY <1>1 DEF PerSize
<1>3. ScanCell(ring, At(q, k), j) = m % s /\ HalfLap(ring, At(q, k)) = Lap(s, o)
  <2>1. SetIndex(ring, At(q, k)) = k - r /\ HalfLap(ring, At(q, k)) = Lap(s, k - r)
    BY <1>1, SpanCell
  <2> QED
    BY <1>1, <2>1 DEF ScanCell
<1>4. m \in Nat /\ k - s + j - r = m - s /\ m >= s /\ o <= m /\ m < o + s
      /\ (m < o + (s \div 2) <=> j < h)
  BY <1>1
<1> HIDE DEF m, o, h
<1>5. /\ j < h => Lap(s, m) = Lap(s, o)
      /\ ~ (j < h) => Lap(s, m) = Lap(s, o) + 1
  BY <1>1, <1>4, LapRun
<1>6. (m - s) % s = m % s /\ Lap(s, m - s) = Lap(s, m) - 2 /\ Lap(s, o) \in Nat
  BY <1>1, <1>4, LapFacts
<1>7. ScanSign(ring, At(q, k), j) = Sign(Lap(s, m - s))
  <2>1. ScanSign(ring, At(q, k), j) = Sign(Lap(s, o) - (IF j < h THEN 2 ELSE 1))
    BY <1>2, <1>3 DEF ScanSign
  <2>2. Lap(s, o) - (IF j < h THEN 2 ELSE 1) = Lap(s, m - s)
    BY <1>5, <1>6
  <2> QED
    BY <2>1, <2>2
<1> QED
  BY <1>3, <1>4, <1>6, <1>7

(* Sliding a window (line 94) and making the next ring (line 44) in       *)
(* places.                                                                *)
LEMMA SpanMoves ==
  ASSUME Roomy, NEW ring, NEW q, NEW r, NEW b, NEW s, Spans(ring, q, r, b, s),
         s = 2 * (s \div 2)
  PROVE  /\ AdvancedBegin(ring, ring.m_nBeginIndex) = Word(At(q, b + (s \div 2)))
         /\ CreateNextCircle(ring) = NewCircle(Word(At(q, b + s)), 2 * s)
<1> DEFINE h == s \div 2
<1>0. h \in Nat
  BY DEF Spans
<1>1. /\ b \in Nat /\ s \in Nat /\ ring.m_nTotalSize = s /\ q \in Micros
      /\ ring.m_nBeginIndex = Word(At(q, b)) /\ PerSize(ring) = h
  BY DEF Spans, PerSize
<1> HIDE DEF h
<1>2. At(q, b) + h * Mode = At(q, b + h) /\ At(q, b) \in Int /\ h * Mode \in Int
  BY <1>0, <1>1, Sizes, Times, PlaceIndex DEF At, Micros, Mode
<1>3. AdvancedBegin(ring, ring.m_nBeginIndex) = Word(At(q, b + h))
  BY <1>1, <1>2, WordSum DEF AdvancedBegin, Mode
<1> QED
  BY <1>1, <1>3, SpanFacts DEF CreateNextCircle, WindowEnd, h

---------------------------------------------------------------------------

(***************************************************************************)
(* The invariant.                                                          *)
(***************************************************************************)

(* The place a thread holds.                                              *)
K(t) == PosOf(Index(t))
(* The rings of a micro queue and their fields, in places: the first      *)
(* place, the window's begin, its size, and the place right after it.     *)
Rings(q) == 1 .. Len(heap[q])
Res(q, i) == PosW(heap[q][i].m_nResBeginIndex)
Beg(q, i) == PosW(heap[q][i].m_nBeginIndex)
Size(q, i) == heap[q][i].m_nTotalSize
Half(q, i) == Size(q, i) \div 2
Fin(q, i) == Beg(q, i) + Size(q, i)
Closed(q, i) == heap[q][i].m_bNoWrite
Freed(q, i) == heap[q][i].m_bReleased
(* The pointers and counters of a micro queue.                            *)
W(q) == m_queue[q].m_pWrite
R(q) == m_queue[q].m_pRead
WC(q) == m_queue[q].m_nWriteCircle
RC(q) == m_queue[q].m_nReadCircle
Slot(q, s) == m_queue[q].m_pCircle[s]
(* The sign and the payload in the cell of place k.                       *)
Sg(q, i, k) == m_pPool[q][i][(k - Res(q, i)) % Size(q, i)].m_nWrite
Dt(q, i, k) == m_pPool[q][i][(k - Res(q, i)) % Size(q, i)].m_pData

(* A thread is at work on place k.                                        *)
PushAt(p, q, k) == pc[p] # "pushDone" /\ Micro(p) = q /\ K(p) = k
PopAt(c, q, k) == pc[c] # "popDone" /\ Micro(c) = q /\ K(c) = k
(* A place is pushed, or done with, when its index is drawn and its       *)
(* thread has returned.                                                   *)
Pushed(q, k) ==
  At(q, k) < m_nPreWriteIndex /\ \A p \in Pushers : ~ PushAt(p, q, k)
Done(q, k) ==
  At(q, k) < m_nReadIndex /\ \A c \in Poppers : ~ PopAt(c, q, k)

(* A ring's window starts where the words say, has slid by halves and is  *)
(* two halves long; a ring is closed by the push right after its window,  *)
(* and freed after m_pRead has left it.                                   *)
RingOK(q, i) ==
  /\ heap[q][i].m_nResBeginIndex = Word(At(q, Res(q, i)))
  /\ heap[q][i].m_nBeginIndex = Word(At(q, Beg(q, i)))
  /\ Res(q, i) <= Beg(q, i) /\ Beg(q, i) <= Last
  /\ 2 * Block <= Size(q, i) /\ Size(q, i) <= Res(q, i) + 2 * Block
  /\ Size(q, i) = 2 * Half(q, i)
  /\ (Beg(q, i) - Res(q, i)) % Half(q, i) = 0
  /\ Closed(q, i) => At(q, Fin(q, i)) < m_nPreWriteIndex
  /\ Freed(q, i) => i < R(q)

(* Every ring starts where the window of the one before ends, and has     *)
(* twice its size.                                                        *)
ChainOK(q) ==
  /\ Res(q, 1) = 0 /\ Size(q, 1) = 2 * Block
  /\ \A i, j \in Rings(q) : j = i + 1 =>
       Res(q, j) = Fin(q, i) /\ Size(q, j) = 2 * Size(q, i)
  /\ \A i, j \in Rings(q) : i < j => Fin(q, i) <= Res(q, j)
  /\ \A i \in Rings(q) : i > 1 => Size(q, i) >= 4 * Block

(* m_pRead is not ahead of m_pWrite, every ring before m_pWrite is        *)
(* closed, the ring behind it is fresh; the counters name those rings,    *)
(* but for the one push between lines 200 and 201 and the one pop inside  *)
(* line 229; the slots are filled in order.                               *)
PointersOK(q) ==
  /\ R(q) <= W(q) /\ Len(heap[q]) <= W(q) + 1 /\ W(q) <= CirclePointNumber
  /\ \A i \in Rings(q) : i < W(q) => Closed(q, i)
  /\ ~ Closed(q, W(q)) => Len(heap[q]) = W(q)
  /\ \A i \in Rings(q) : i > W(q) => ~ Closed(q, i) /\ Beg(q, i) = Res(q, i)
  /\ WC(q) = W(q) - 1 \/ (WC(q) = W(q) - 2 /\ ~ Pushed(q, Res(q, W(q))))
  /\ R(q) <= WC(q) + 1
  /\ \/ RC(q) = R(q) - 1
     \/ RC(q) = R(q) /\ \E c \in Poppers : pc[c] = "popTurn" /\ Micro(c) = q
  /\ \A s \in Slots : s < W(q) => Slot(q, s) = s + 1

(* The sign of a cell in the window tells a place that is read from one   *)
(* that is written and from one that is neither, which still shows the    *)
(* half-lap before.                                                       *)
CellOK(q, i, k) ==
  LET sign == Sign(Lap(Size(q, i), k - Res(q, i))) IN
  /\ Done(q, k) => Sg(q, i, k) = sign
  /\ Pushed(q, k) /\ ~ Done(q, k) =>
       Sg(q, i, k) = sign + 1 /\ Dt(q, i, k) = At(q, k)
  /\ ~ Pushed(q, k) => Sg(q, i, k) = Prev(Size(q, i), k - Res(q, i))

(* What is read was pushed and delivered, nothing is pushed past the      *)
(* last window, and a window has only slid over what is read.             *)
PlacesOK(q) ==
  /\ \A k \in Nat : Done(q, k) => Pushed(q, k) /\ WasDelivered(At(q, k))
  /\ \A k \in Nat : k >= Fin(q, W(q)) => ~ Pushed(q, k)
  /\ \A i \in Rings(q) : \A k \in Nat :
       Res(q, i) <= k /\ k < Beg(q, i) => Done(q, k)

(* The cells of every window tell the truth.                              *)
CellsOK(q) ==
  \A i \in Rings(q) : \A k \in Nat :
    Beg(q, i) <= k /\ k < Fin(q, i) => CellOK(q, i, k)

(* What the pop left that moved m_pRead past ring i: it held place k, at  *)
(* most the one after the window, and all before k is read; while it has  *)
(* not returned it no longer waits in that ring.                          *)
TurnedAt(q, i, k) ==
  /\ Beg(q, i) <= k /\ k <= Fin(q, i)
  /\ At(q, k) < m_nReadIndex
  /\ \A j \in Nat : Res(q, i) <= j /\ j < k => Done(q, j)
  /\ k = Fin(q, i) \/ ~ Done(q, k)
  /\ \A c \in Poppers : PopAt(c, q, k) =>
       pc[c] \in {"popRelease", "popRetry"} \/ loc[c].this > i

(* Every ring left behind was left by such a pop.                         *)
TurnedOK(q) ==
  \A i \in Rings(q) : i < R(q) => \E k \in Nat : TurnedAt(q, i, k)

(* Labels of a push that has closed its ring.                             *)
Late == {"pushAwait", "pushNext", "pushGrow", "pushStore", "pushLink",
         "pushCount"}

(* A push holds a drawn index; the one whose place the chain waits for    *)
(* is the one at line 201, and the one right after a closed window is     *)
(* the one that closed it.                                                *)
HolderOK(a, l, q, k) ==
  /\ a # "pushDone" => Start <= l.index /\ l.index < m_nPreWriteIndex
  /\ a # "pushDone" /\ WC(q) = W(q) - 2 /\ k = Res(q, W(q)) =>
       a = "pushCount"
  /\ \A i \in Rings(q) : a # "pushDone" /\ Closed(q, i) /\ k = Fin(q, i) =>
       a \in Late \/ l.nested
  /\ l.nested => a \in {"pushDone", "pushBegin", "pushData", "pushSign"}

(* Between loading m_pWrite and storing, a push is at most a thread       *)
(* count past the window of the ring it loaded first, so that it cannot   *)
(* take a later ring for an earlier one; a push that stores has its       *)
(* place in the window.                                                   *)
EntryOK(a, l, q, i, k) ==
  /\ a = "pushLoad" => l.own <= W(q) /\ k < Fin(q, l.own) + Cardinality(Pushers)
  /\ a = "pushBegin" /\ ~ l.nested =>
       l.own <= i /\ i <= W(q) /\ k < Fin(q, l.own) + Cardinality(Pushers)
  /\ a = "pushBegin" /\ l.nested => i <= W(q) /\ k = Res(q, i)
  /\ a \in {"pushData", "pushSign"} =>
       i <= W(q) /\ Beg(q, i) <= k /\ k < Fin(q, i)
  /\ a = "pushSign" => Dt(q, i, k) = l.index

(* The push that scans, slides or closes is the one right after the       *)
(* window of the last ring, and it has seen read what it scanned.         *)
CloserOK(a, l, q, i, k) ==
  /\ a \in {"pushScan", "pushAdvance", "pushNoWrite", "pushAwait",
                "pushNext", "pushGrow"} =>
       i = W(q) /\ l.own = W(q) /\ Len(heap[q]) = W(q) /\ k = Fin(q, W(q))
  /\ a \in {"pushScan", "pushAdvance", "pushNoWrite"} =>
       ~ Closed(q, i) /\ l.begin = heap[q][i].m_nBeginIndex
  /\ a \in {"pushScan", "pushNoWrite"} => l.scan < Half(q, i)
  /\ a \in {"pushScan", "pushNoWrite", "pushAdvance"} =>
       \A j \in Nat : Beg(q, i) <= j /\ j < Beg(q, i) + l.scan => Done(q, j)
  /\ a = "pushAdvance" => l.scan = Half(q, i)
  /\ a = "pushAwait" => l.scan < Size(q, i)
  /\ a \in {"pushAwait", "pushNext", "pushGrow"} =>
       \A j \in Nat : Beg(q, i) <= j /\ j < Beg(q, i) + l.scan => Sg(q, i, j) # 0
  /\ a \in {"pushNext", "pushGrow"} => l.scan = Size(q, i)

(* The push that grows the chain works on a closed ring and on the        *)
(* counter it read, and no other push does.                               *)
GrowerOK(a, l, q, k) ==
  /\ a \in {"pushAwait", "pushNext", "pushGrow", "pushStore", "pushLink"} =>
       Closed(q, W(q))
  /\ a \in {"pushNext", "pushGrow", "pushStore", "pushLink"} =>
       WC(q) = W(q) - 1
  /\ a \in {"pushGrow", "pushStore", "pushLink"} => l.next = W(q)
  /\ a \in {"pushStore", "pushLink"} =>
       l.own = W(q) + 1 /\ Len(heap[q]) = W(q) + 1 /\ k = Fin(q, W(q))
  /\ a = "pushLink" => W(q) \in Slots /\ Slot(q, W(q)) = W(q) + 1
  /\ a = "pushCount" =>
       /\ l.own = W(q) /\ k = Res(q, W(q))
       /\ WC(q) = W(q) - 2 /\ l.next = W(q) - 1

(* Together: a push at label a with locals l.                             *)
PushFits(a, l) ==
  LET q == MicroOf(l.index) k == PosOf(l.index) IN
  /\ HolderOK(a, l, q, k) /\ EntryOK(a, l, q, l.this, k)
  /\ CloserOK(a, l, q, l.this, k) /\ GrowerOK(a, l, q, k)

(* A pop holds a drawn index, works on a ring that m_pRead has reached,   *)
(* and what it reads is pushed and in the window.                         *)
ReaderOK(a, l, q, i, k) ==
  /\ a # "popDone" => Start <= l.index /\ l.index < m_nReadIndex
  /\ a \notin {"popDone", "popEnter", "popRetry"} => i <= R(q)
  /\ a = "popRelease" => i < R(q)
  /\ a \in {"popSpin", "popData", "popClear"} => Beg(q, i) <= k /\ k < Fin(q, i)
  /\ a \in {"popData", "popClear"} => Pushed(q, k)
  /\ a = "popClear" => WasDelivered(At(q, k))

(* A pop that waits in a closed ring came with the place after a window   *)
(* the ring has or had, and has seen read what it waited for; the pop     *)
(* that turns the chain has seen all before it read.                      *)
TurnerOK(a, l, q, i, k) ==
  /\ a \in {"popAsk", "popAwait", "popNext", "popBump", "popTurn"} =>
       /\ Beg(q, i) <= k /\ k <= Fin(q, i) /\ k - Res(q, i) >= Size(q, i)
       /\ (k - Res(q, i)) % Half(q, i) = 0
  /\ a = "popAsk" => l.scan = 0
  /\ a \in {"popAwait", "popNext", "popBump", "popTurn"} => Closed(q, i)
  /\ a = "popAwait" =>
       /\ l.scan < Size(q, i)
       /\ \A j \in Nat : k - Size(q, i) <= j /\ j < k - Size(q, i) + l.scan =>
            Done(q, j)
  /\ a \in {"popNext", "popBump", "popTurn"} =>
       i = R(q) /\ \A j \in Nat : Res(q, i) <= j /\ j < k => Done(q, j)
  /\ a \in {"popNext", "popBump"} => RC(q) = R(q) - 1
  /\ a \in {"popBump", "popTurn"} => R(q) <= WC(q)
  /\ a = "popTurn" => RC(q) = R(q) /\ l.next = R(q)

(* Together: a pop at label a with locals l.                              *)
PopFits(a, l) ==
  LET q == MicroOf(l.index) k == PosOf(l.index) IN
  ReaderOK(a, l, q, l.this, k) /\ TurnerOK(a, l, q, l.this, k)

(* Pops draw after pushes, and pushes at most MaxPush indices.            *)
CountersOK ==
  /\ Start <= m_nReadIndex /\ m_nReadIndex <= m_nPreWriteIndex
  /\ m_nPreWriteIndex <= Start + MaxPush
(* No two pushes hold one place, and no two pops.                         *)
UniqueOK ==
  /\ \A p, r \in Pushers : pc[p] # "pushDone" /\ pc[r] # "pushDone"
       /\ Micro(p) = Micro(r) /\ K(p) = K(r) => p = r
  /\ \A c, d \in Poppers : pc[c] # "popDone" /\ pc[d] # "popDone"
       /\ Micro(c) = Micro(d) /\ K(c) = K(d) => c = d

(* All that is said of one micro queue.                                   *)
QueueOK(q) ==
  /\ \A i \in Rings(q) : RingOK(q, i)
  /\ ChainOK(q) /\ PointersOK(q) /\ PlacesOK(q) /\ CellsOK(q) /\ TurnedOK(q)

(* The inductive invariant.                                               *)
Inv ==
  /\ Shape
  /\ CountersOK /\ UniqueOK /\ DeliveredInOrder
  /\ \A q \in Micros : QueueOK(q)
  /\ \A p \in Pushers : PushFits(pc[p], loc[p])
  /\ \A c \in Poppers : PopFits(pc[c], loc[c])

---------------------------------------------------------------------------

(***************************************************************************)
(* Types, and what steps leave alone.                                      *)
(***************************************************************************)

(* Places of words are numbers.                                           *)
LEMMA PosWType == \A w \in Int : PosW(w) \in Nat
<1> SUFFICES ASSUME NEW w \in Int PROVE PosW(w) \in Nat
  OBVIOUS
<1>1. Word(Start) \in Int
  BY WordType, Sizes
<1>2. Minus(w, Word(Start)) \in Nat
  BY <1>1, WordAssumption DEF Minus
<1> QED
  BY <1>2, Sizes DEF PosW

(* The types of a ring's fields, of a micro queue's pointers and of a     *)
(* thread's locals.                                                       *)
LEMMA RingTypes ==
  ASSUME Shape, NEW q \in Micros, NEW i \in Rings(q)
  PROVE  /\ heap[q][i] \in Ring
         /\ Res(q, i) \in Nat /\ Beg(q, i) \in Nat /\ Size(q, i) \in Nat \ {0}
         /\ Half(q, i) \in Nat /\ Fin(q, i) \in Nat
         /\ Fin(q, i) = Beg(q, i) + Size(q, i)
         /\ Closed(q, i) \in BOOLEAN /\ Freed(q, i) \in BOOLEAN
<1>1. heap[q][i] \in Ring
  BY QueueFacts DEF Rings
<1>2. Res(q, i) \in Nat /\ Beg(q, i) \in Nat
  BY <1>1, PosWType DEF Res, Beg, Ring
<1>3. Size(q, i) \in Nat \ {0}
  BY <1>1 DEF Size, Ring
<1>4. Closed(q, i) \in BOOLEAN /\ Freed(q, i) \in BOOLEAN
  BY <1>1 DEF Closed, Freed, Ring
<1> QED
  BY <1>1, <1>2, <1>3, <1>4 DEF Half, Fin

LEMMA QueueTypes ==
  ASSUME Shape, NEW q \in Micros
  PROVE  /\ Len(heap[q]) \in Nat /\ 1 \in Rings(q)
         /\ Rings(q) = 1 .. Len(heap[q])
         /\ W(q) \in Rings(q) /\ R(q) \in Rings(q)
         /\ W(q) \in Nat /\ R(q) \in Nat
         /\ WC(q) \in Nat /\ RC(q) \in Nat
         /\ \A s \in Slots : Slot(q, s) \in Nat
<1>1. /\ m_queue[q] \in MicroQueues /\ heap[q] \in Seq(Ring)
      /\ DOMAIN heap[q] = 1 .. Len(heap[q])
      /\ 1 \in DOMAIN heap[q]
      /\ m_queue[q].m_pWrite \in DOMAIN heap[q]
      /\ m_queue[q].m_pRead \in DOMAIN heap[q]
  BY QueueFacts
<1> QED
  BY <1>1 DEF Rings, W, R, WC, RC, Slot, MicroQueues

LEMMA ThreadTypes ==
  ASSUME Shape, NEW t \in Threads
  PROVE  /\ Micro(t) \in Micros
         /\ loc[t].this \in Rings(Micro(t)) /\ loc[t].own \in Rings(Micro(t))
         /\ loc[t].scan \in Nat /\ loc[t].next \in Nat
         /\ loc[t].nested \in BOOLEAN /\ loc[t].begin \in Nat
         /\ Index(t) \in Nat
         /\ This(t) = heap[Micro(t)][loc[t].this]
         /\ Pool(t) = m_pPool[Micro(t)][loc[t].this]
         /\ Start <= Index(t) =>
              K(t) \in Nat /\ Index(t) = At(Micro(t), K(t))
<1>1. /\ Micro(t) \in Micros /\ Index(t) \in Nat /\ loc[t] \in Locals
      /\ loc[t].own \in DOMAIN heap[Micro(t)]
      /\ loc[t].this \in DOMAIN heap[Micro(t)]
  BY ThreadFacts
<1>2. DOMAIN heap[Micro(t)] = Rings(Micro(t))
  BY <1>1, QueueFacts DEF Rings
<1>3. Start <= Index(t) => K(t) \in Nat /\ Index(t) = At(Micro(t), K(t))
  BY <1>1, IndexPlace DEF K, Micro
<1> QED
  BY <1>1, <1>2, <1>3, WordAssumption DEF Locals, This, Pool

(* A ring's window is the one its words say.                              *)
LEMMA RingSpans ==
  ASSUME Shape, NEW q \in Micros, NEW i \in Rings(q), RingOK(q, i)
  PROVE  /\ Spans(heap[q][i], q, Res(q, i), Beg(q, i), Size(q, i))
         /\ Fin(q, i) \in Places /\ Fin(q, i) <= 2 * Last + 2 * Block
<1>1. Spans(heap[q][i], q, Res(q, i), Beg(q, i), Size(q, i))
  <2>1. Size(q, i) = heap[q][i].m_nTotalSize
    BY DEF Size
  <2> QED
    BY <2>1, RingTypes, Sizes DEF Spans, RingOK
<1>2. Fin(q, i) \in Nat /\ Fin(q, i) <= 2 * Last + 2 * Block
  BY RingTypes, Sizes DEF RingOK
<1> QED
  BY <1>1, <1>2, Sizes DEF Places

(* A place whose index is drawn is one of the first. *)
LEMMA DrawnPlace ==
  ASSUME CountersOK, NEW q \in Micros, NEW k \in Nat,
         At(q, k) < m_nPreWriteIndex \/ At(q, k) < m_nReadIndex,
         m_nReadIndex \in Nat, m_nPreWriteIndex \in Nat
  PROVE  k <= Last /\ k \in Places
<1>1. At(q, k) < Start + MaxPush
  BY PlaceIndex, Sizes, MaxPushAssumption DEF CountersOK
<1>2. k <= Last
  BY <1>1, PlaceOrder
<1> QED
  BY <1>2, Sizes DEF Places

(* What a step leaves alone: the rings, the pointers, the cells, what is  *)
(* read, what is pushed, a thread.                                        *)
HeapSame ==
  \A q : /\ Rings(q)' = Rings(q) /\ Len(heap[q])' = Len(heap[q])
         /\ \A i : /\ heap[q][i]' = heap[q][i]
                   /\ Res(q, i)' = Res(q, i) /\ Beg(q, i)' = Beg(q, i)
                   /\ Size(q, i)' = Size(q, i) /\ Half(q, i)' = Half(q, i)
                   /\ Fin(q, i)' = Fin(q, i) /\ Closed(q, i)' = Closed(q, i)
                   /\ Freed(q, i)' = Freed(q, i)

PointersSame ==
  \A q : /\ W(q)' = W(q) /\ R(q)' = R(q) /\ WC(q)' = WC(q) /\ RC(q)' = RC(q)
         /\ \A s : Slot(q, s)' = Slot(q, s)

CellsSame ==
  \A q, i, k : Sg(q, i, k)' = Sg(q, i, k) /\ Dt(q, i, k)' = Dt(q, i, k)

DoneSame == \A q \in Micros : \A k \in Nat : Done(q, k)' <=> Done(q, k)
PushedSame == \A q \in Micros : \A k \in Nat : Pushed(q, k)' <=> Pushed(q, k)

Same(u) ==
  /\ pc'[u] = pc[u] /\ loc'[u] = loc[u] /\ Index(u)' = Index(u)
  /\ Micro(u)' = Micro(u) /\ K(u)' = K(u)

(* Steps that do not write a variable leave alone what is made from it.   *)
LEMMA HeapFrame == heap' = heap => HeapSame
BY DEF HeapSame, Rings, Res, Beg, Size, Half, Fin, Closed, Freed

LEMMA PointersFrame == m_queue' = m_queue => PointersSame
BY DEF PointersSame, W, R, WC, RC, Slot

LEMMA CellsFrame == HeapSame /\ m_pPool' = m_pPool => CellsSame
BY DEF HeapSame, CellsSame, Sg, Dt

(* A step of one thread,                                                  *)
LEMMA ThreadFrame ==
  ASSUME Shape, NEW t \in Threads, NEW label, NEW r,
         Goto(t, label), loc' = [loc EXCEPT ![t] = r]
  PROVE  /\ pc'[t] = label /\ loc'[t] = r
         /\ Index(t)' = r.index /\ Micro(t)' = MicroOf(r.index)
         /\ \A u \in Threads : u # t => Same(u)
<1>1. /\ pc'[t] = label /\ loc'[t] = r
      /\ \A u \in Threads : u # t => pc'[u] = pc[u] /\ loc'[u] = loc[u]
  BY DEF Shape, TypeOK, Goto
<1>2. \A u \in Threads : u # t => Index(u)' = Index(u)
  BY <1>1 DEF Index
<1> QED
  BY <1>1, <1>2 DEF Same, Micro, K, Index

(* A thread that keeps its index. *)
LEMMA KeepFrame ==
  ASSUME Shape, NEW t \in Threads, NEW label, NEW r,
         Goto(t, label), loc' = [loc EXCEPT ![t] = r], r.index = loc[t].index
  PROVE  /\ pc'[t] = label /\ loc'[t] = r
         /\ Index(t)' = Index(t) /\ Micro(t)' = Micro(t) /\ K(t)' = K(t)
         /\ \A u \in Threads : u # t => Same(u)
<1>1. /\ pc'[t] = label /\ loc'[t] = r
      /\ Index(t)' = r.index /\ Micro(t)' = MicroOf(r.index)
      /\ \A u \in Threads : u # t => Same(u)
  BY ThreadFrame
<1>2. Index(t)' = Index(t) /\ Micro(t)' = Micro(t)
  BY <1>1 DEF Micro, Index
<1> QED
  BY <1>1, <1>2 DEF K

(* A step that neither draws nor returns leaves what is pushed and read.  *)
LEMMA PushedFrame ==
  ASSUME NEW t \in Threads, \A u \in Threads : u # t => Same(u),
         m_nPreWriteIndex' = m_nPreWriteIndex,
         t \in Pushers => /\ pc[t] # "pushDone" /\ pc'[t] # "pushDone"
                          /\ Micro(t)' = Micro(t) /\ K(t)' = K(t)
  PROVE  PushedSame
<1>1. \A p \in Pushers : \A q, k : PushAt(p, q, k)' <=> PushAt(p, q, k)
  BY DEF PushAt, Same, Threads
<1>2. \A q, k : At(q, k)' = At(q, k)
  BY DEF At
<1> QED
  BY <1>1, <1>2 DEF PushedSame, Pushed

LEMMA DoneFrame ==
  ASSUME NEW t \in Threads, \A u \in Threads : u # t => Same(u),
         m_nReadIndex' = m_nReadIndex,
         t \in Poppers => /\ pc[t] # "popDone" /\ pc'[t] # "popDone"
                          /\ Micro(t)' = Micro(t) /\ K(t)' = K(t)
  PROVE  DoneSame
<1>1. \A c \in Poppers : \A q, k : PopAt(c, q, k)' <=> PopAt(c, q, k)
  BY DEF PopAt, Same, Threads
<1>2. \A q, k : At(q, k)' = At(q, k)
  BY DEF At
<1> QED
  BY <1>1, <1>2 DEF DoneSame, Done

(* A push sees nothing of a step that leaves its micro queue alone. *)
LEMMA PushFitsFrame ==
  ASSUME NEW a, NEW l, l.index \in Nat, PushFits(a, l), HeapSame, PointersSame,
         CellsSame, DoneSame, m_nPreWriteIndex' \in Nat,
         m_nPreWriteIndex \in Nat, m_nPreWriteIndex' >= m_nPreWriteIndex
  PROVE  PushFits(a, l)'
<1> DEFINE q == MicroOf(l.index)
           i == l.this
           k == PosOf(l.index)
<1>2. HolderOK(a, l, q, k) /\ EntryOK(a, l, q, i, k) /\ CloserOK(a, l, q, i, k)
      /\ GrowerOK(a, l, q, k)
  BY DEF PushFits
<1>0. q' = q /\ k' = k /\ q \in Micros
  BY MicroType DEF MicroOf, PosOf, Word, Start, Mode
<1> HIDE DEF q, i, k
<1>3. HolderOK(a, l, q, k)'
  BY <1>0, <1>2, Sizes DEF HolderOK, HeapSame, PointersSame
<1>4. EntryOK(a, l, q, i, k)'
  BY <1>0, <1>2 DEF EntryOK, HeapSame, PointersSame, CellsSame
<1>5. CloserOK(a, l, q, i, k)'
  BY <1>0, <1>2 DEF CloserOK, HeapSame, PointersSame, CellsSame, DoneSame
<1>6. GrowerOK(a, l, q, k)'
  BY <1>0, <1>2 DEF GrowerOK, HeapSame, PointersSame
<1> QED
  BY <1>0, <1>3, <1>4, <1>5, <1>6 DEF PushFits, q, i, k

(* A pop sees nothing of such a step either.                              *)
LEMMA PopFitsFrame ==
  ASSUME NEW a, NEW l, l.index \in Nat, PopFits(a, l), HeapSame, PointersSame,
         DoneSame, PushedSame, \A n : WasDelivered(n) => WasDelivered(n)',
         m_nReadIndex' \in Nat, m_nReadIndex \in Nat,
         m_nReadIndex' >= m_nReadIndex
  PROVE  PopFits(a, l)'
<1> DEFINE q == MicroOf(l.index)
           i == l.this
           k == PosOf(l.index)
<1>1. ReaderOK(a, l, q, i, k) /\ TurnerOK(a, l, q, i, k)
  BY DEF PopFits
<1>2. q' = q /\ k' = k /\ At(q, k)' = At(q, k) /\ q \in Micros
  BY MicroType DEF MicroOf, PosOf, Word, Start, Mode, At
<1>5. a # "popDone" => k \in Nat
  BY <1>1, IndexPlace DEF ReaderOK
<1> HIDE DEF q, i, k
<1>3. ReaderOK(a, l, q, i, k)'
  BY <1>1, <1>2, <1>5, Sizes DEF ReaderOK, HeapSame, PointersSame, PushedSame
<1>4. TurnerOK(a, l, q, i, k)'
  BY <1>1, <1>2 DEF TurnerOK, HeapSame, PointersSame, DoneSame
<1> QED
  BY <1>2, <1>3, <1>4 DEF PopFits, q, i, k

(* What a thread must keep so that the rings left behind stay left. *)
Passes(c, i) == pc[c] \in {"popRelease", "popRetry"} \/ loc[c].this > i

(* Nor does any part of what is said of a micro queue.                    *)
LEMMA RingOKFrame ==
  ASSUME NEW q \in Micros, NEW i, RingOK(q, i), HeapSame, PointersSame,
         m_nPreWriteIndex' >= m_nPreWriteIndex, m_nPreWriteIndex' \in Nat,
         m_nPreWriteIndex \in Nat, Fin(q, i) \in Nat
  PROVE  RingOK(q, i)'
<1>1. \A k : At(q, k)' = At(q, k)
  BY DEF At
<1>2. At(q, Fin(q, i)) \in Nat
  BY PlaceIndex
<1>3. Closed(q, i) => At(q, Fin(q, i)) < m_nPreWriteIndex'
  BY <1>2 DEF RingOK
<1> QED
  BY <1>1, <1>3 DEF RingOK, HeapSame, PointersSame

LEMMA ChainOKFrame ==
  ASSUME NEW q, ChainOK(q), HeapSame PROVE ChainOK(q)'
BY DEF ChainOK, HeapSame

LEMMA PointersOKFrame ==
  ASSUME NEW q \in Micros, PointersOK(q), HeapSame, PointersSame, PushedSame,
         Res(q, W(q)) \in Nat,
         \A c \in Poppers : pc[c] = "popTurn" =>
           pc'[c] = "popTurn" /\ Micro(c)' = Micro(c)
  PROVE  PointersOK(q)'
BY DEF PointersOK, HeapSame, PointersSame, PushedSame

LEMMA PlacesOKFrame ==
  ASSUME NEW q \in Micros, PlacesOK(q), HeapSame, PointersSame, DoneSame, PushedSame,
         \A n : WasDelivered(n) => WasDelivered(n)'
  PROVE  PlacesOK(q)'
<1>1. \A k : At(q, k)' = At(q, k)
  BY DEF At
<1> QED
  BY <1>1 DEF PlacesOK, HeapSame, PointersSame, DoneSame, PushedSame

LEMMA CellsOKFrame ==
  ASSUME NEW q \in Micros, CellsOK(q), HeapSame, CellsSame, DoneSame, PushedSame
  PROVE  CellsOK(q)'
<1>1. \A k : At(q, k)' = At(q, k)
  BY DEF At
<1>2. ASSUME NEW i, NEW k \in Nat, CellOK(q, i, k) PROVE CellOK(q, i, k)'
  BY <1>1, <1>2 DEF CellOK, HeapSame, CellsSame, DoneSame, PushedSame
<1> QED
  BY <1>2 DEF CellsOK, HeapSame

LEMMA TurnedOKFrame ==
  ASSUME NEW q \in Micros, TurnedOK(q), HeapSame, PointersSame, DoneSame,
         m_nReadIndex' = m_nReadIndex,
         \A c \in Poppers : pc'[c] # "popDone" =>
           /\ pc[c] # "popDone" /\ Micro(c)' = Micro(c) /\ K(c)' = K(c)
           /\ \A i : i < R(Micro(c)) /\ Passes(c, i) => Passes(c, i)'
  PROVE  TurnedOK(q)'
<1>1. \A k : At(q, k)' = At(q, k)
  BY DEF At
<1>2. ASSUME NEW i, NEW k \in Nat, TurnedAt(q, i, k), i < R(q) PROVE TurnedAt(q, i, k)'
  <2>1. ASSUME NEW c \in Poppers, PopAt(c, q, k)' PROVE Passes(c, i)'
    BY <1>2, <2>1 DEF TurnedAt, PopAt, Passes
  <2>2. ASSUME NEW c \in Poppers, PopAt(c, q, k)'
        PROVE  pc'[c] \in {"popRelease", "popRetry"} \/ loc'[c].this > i
    BY <2>1, <2>2 DEF Passes
  <2> QED
    BY <1>1, <1>2, <2>2 DEF TurnedAt, HeapSame, DoneSame
<1> QED
  BY <1>2 DEF TurnedOK, HeapSame, PointersSame

(* What every thread's facts need of the types. *)
LEMMA InvTypes ==
  ASSUME Inv
  PROVE  /\ m_nPreWriteIndex \in Nat /\ m_nReadIndex \in Nat
         /\ \A t \in Threads : Index(t) \in Nat /\ Micro(t) \in Micros
         /\ \A q \in Micros : \A i \in Rings(q) : Fin(q, i) \in Nat
         /\ \A q \in Micros : Res(q, W(q)) \in Nat
         /\ \A p \in Pushers : p \in Threads /\ p \notin Poppers
         /\ \A c \in Poppers : c \in Threads /\ c \notin Pushers
<1>1. Shape
  BY DEF Inv
<1> QED
  BY <1>1, ThreadTypes, RingTypes, QueueTypes, ThreadsAssumption DEF Shape, TypeOK, Threads

(* A step of a push that only moves on, keeping its index. *)
LEMMA CalmPush ==
  ASSUME Inv, Shape', NEW p \in Pushers, NEW label, NEW r,
         Goto(p, label), loc' = [loc EXCEPT ![p] = r],
         r.index = loc[p].index, pc[p] # "pushDone", label # "pushDone",
         UNCHANGED <<indexVars, m_queue, heap, m_pPool, delivered>>,
         PushFits(label, r)
  PROVE  Inv'
<1>0. Shape /\ p \in Threads /\ p \notin Poppers
  BY InvTypes DEF Inv
<1>1. /\ pc'[p] = label /\ loc'[p] = r
      /\ Index(p)' = Index(p) /\ Micro(p)' = Micro(p) /\ K(p)' = K(p)
      /\ \A u \in Threads : u # p => Same(u)
  BY <1>0, KeepFrame
<1>2. /\ m_nPreWriteIndex' = m_nPreWriteIndex /\ m_nReadIndex' = m_nReadIndex
      /\ delivered' = delivered
  BY DEF indexVars
<1>3. HeapSame /\ PointersSame /\ CellsSame
  BY HeapFrame, PointersFrame, CellsFrame
<1>4. PushedSame /\ DoneSame
  BY <1>0, <1>1, <1>2, PushedFrame, DoneFrame
<1>5. \A n : WasDelivered(n) => WasDelivered(n)'
  BY <1>2 DEF WasDelivered
<1>6. ASSUME NEW u \in Pushers PROVE PushFits(pc[u], loc[u])'
  <2>1. CASE u = p
    <3>1. PushFits(label, r)'
      BY <1>2, <1>3, <1>4, PushFitsFrame, InvTypes DEF Index
    <3> QED
      BY <1>1, <2>1, <3>1
  <2>2. CASE u # p
    <3> SUFFICES ASSUME NEW a, NEW l, a = pc[u], l = loc[u]
                 PROVE  PushFits(pc[u], loc[u])'
      OBVIOUS
    <3>1. PushFits(a, l) /\ l.index \in Nat
      BY InvTypes DEF Inv, Index
    <3>2. PushFits(a, l)'
      BY <1>2, <1>3, <1>4, <3>1, PushFitsFrame, InvTypes
    <3>3. pc'[u] = a /\ loc'[u] = l
      BY <1>1, <2>2, InvTypes DEF Same
    <3> QED
      BY <3>2, <3>3
  <2> QED
    BY <2>1, <2>2
<1>7. \A c \in Poppers : Same(c)
  BY <1>0, <1>1, InvTypes
<1>8. ASSUME NEW c \in Poppers PROVE PopFits(pc[c], loc[c])'
  <2> SUFFICES ASSUME NEW a, NEW l, a = pc[c], l = loc[c]
               PROVE  PopFits(pc[c], loc[c])'
    OBVIOUS
  <2>1. PopFits(a, l) /\ l.index \in Nat
    BY InvTypes DEF Inv, Index
  <2>2. PopFits(a, l)'
    BY <1>2, <1>3, <1>4, <1>5, <2>1, PopFitsFrame, InvTypes
  <2>3. pc'[c] = a /\ loc'[c] = l
    BY <1>7 DEF Same
  <2> QED
    BY <2>2, <2>3
<1>9. ASSUME NEW q \in Micros PROVE QueueOK(q)'
  <2>0. QueueOK(q)
    BY DEF Inv
  <2>1. \A i \in Rings(q)' : RingOK(q, i)'
    BY <1>2, <1>3, <2>0, RingOKFrame, InvTypes DEF QueueOK, HeapSame
  <2>2. ChainOK(q)' /\ PointersOK(q)' /\ PlacesOK(q)' /\ CellsOK(q)'
    BY <1>3, <1>4, <1>5, <1>7, <2>0, ChainOKFrame, PointersOKFrame,
       PlacesOKFrame, CellsOKFrame, InvTypes DEF QueueOK, Same
  <2>3. \A c \in Poppers : pc'[c] # "popDone" =>
           /\ pc[c] # "popDone" /\ Micro(c)' = Micro(c) /\ K(c)' = K(c)
           /\ \A i : i < R(Micro(c)) /\ Passes(c, i) => Passes(c, i)'
    BY <1>7 DEF Same, Passes
  <2>4. TurnedOK(q)'
    BY <1>2, <1>3, <1>4, <2>0, <2>3, TurnedOKFrame DEF QueueOK
  <2> QED
    BY <2>1, <2>2, <2>4 DEF QueueOK
<1>10. CountersOK' /\ DeliveredInOrder'
  BY <1>2 DEF Inv, CountersOK, DeliveredInOrder
<1>11. UniqueOK'
  BY <1>1, <1>7, InvTypes DEF Inv, UniqueOK, Same
<1> QED
  BY <1>6, <1>8, <1>9, <1>10, <1>11 DEF Inv

(* A step of a pop that only moves on, keeping its index. *)
LEMMA CalmPop ==
  ASSUME Inv, Shape', NEW c \in Poppers, NEW label, NEW r,
         Goto(c, label), loc' = [loc EXCEPT ![c] = r],
         r.index = loc[c].index, pc[c] # "popDone", label # "popDone",
         pc[c] # "popTurn",
         UNCHANGED <<indexVars, m_queue, heap, m_pPool>>,
         delivered \subseteq delivered', DeliveredInOrder',
         \A i : i < R(Micro(c)) /\ Passes(c, i) => Passes(c, i)',
         PopFits(label, r) \/ PopFits(label, r)'
  PROVE  Inv'
<1>0. Shape /\ c \in Threads /\ c \notin Pushers
  BY InvTypes DEF Inv
<1>1. /\ pc'[c] = label /\ loc'[c] = r
      /\ Index(c)' = Index(c) /\ Micro(c)' = Micro(c) /\ K(c)' = K(c)
      /\ \A u \in Threads : u # c => Same(u)
  BY <1>0, KeepFrame
<1>2. m_nPreWriteIndex' = m_nPreWriteIndex /\ m_nReadIndex' = m_nReadIndex
  BY DEF indexVars
<1>3. HeapSame /\ PointersSame /\ CellsSame
  BY HeapFrame, PointersFrame, CellsFrame
<1>4. PushedSame /\ DoneSame
  BY <1>0, <1>1, <1>2, PushedFrame, DoneFrame
<1>5. \A n : WasDelivered(n) => WasDelivered(n)'
  BY DEF WasDelivered
<1>6. \A p \in Pushers : Same(p)
  BY <1>0, <1>1, InvTypes
<1>7. ASSUME NEW p \in Pushers PROVE PushFits(pc[p], loc[p])'
  <2> SUFFICES ASSUME NEW a, NEW l, a = pc[p], l = loc[p]
               PROVE  PushFits(pc[p], loc[p])'
    OBVIOUS
  <2>1. PushFits(a, l) /\ l.index \in Nat
    BY InvTypes DEF Inv, Index
  <2>2. PushFits(a, l)'
    BY <1>2, <1>3, <1>4, <2>1, PushFitsFrame, InvTypes
  <2>3. pc'[p] = a /\ loc'[p] = l
    BY <1>6 DEF Same
  <2> QED
    BY <2>2, <2>3
<1>8. ASSUME NEW d \in Poppers PROVE PopFits(pc[d], loc[d])'
  <2>1. CASE d = c
    <3>1. PopFits(label, r)'
      BY <1>2, <1>3, <1>4, <1>5, PopFitsFrame, InvTypes DEF Index
    <3> QED
      BY <1>1, <2>1, <3>1
  <2>2. CASE d # c
    <3> SUFFICES ASSUME NEW a, NEW l, a = pc[d], l = loc[d]
                 PROVE  PopFits(pc[d], loc[d])'
      OBVIOUS
    <3>1. PopFits(a, l) /\ l.index \in Nat
      BY InvTypes DEF Inv, Index
    <3>2. PopFits(a, l)'
      BY <1>2, <1>3, <1>4, <1>5, <3>1, PopFitsFrame, InvTypes
    <3>3. pc'[d] = a /\ loc'[d] = l
      BY <1>1, <2>2, InvTypes DEF Same
    <3> QED
      BY <3>2, <3>3
  <2> QED
    BY <2>1, <2>2
<1>9. ASSUME NEW q \in Micros PROVE QueueOK(q)'
  <2>0. QueueOK(q)
    BY DEF Inv
  <2>1. \A i \in Rings(q)' : RingOK(q, i)'
    BY <1>2, <1>3, <2>0, RingOKFrame, InvTypes DEF QueueOK, HeapSame
  <2>2. \A d \in Poppers : pc[d] = "popTurn" =>
          pc'[d] = "popTurn" /\ Micro(d)' = Micro(d)
    BY <1>1, InvTypes DEF Same
  <2>3. ChainOK(q)' /\ PointersOK(q)' /\ PlacesOK(q)' /\ CellsOK(q)'
    BY <1>3, <1>4, <1>5, <2>0, <2>2, ChainOKFrame, PointersOKFrame,
       PlacesOKFrame, CellsOKFrame, InvTypes DEF QueueOK
  <2>4. ASSUME NEW d \in Poppers, pc'[d] # "popDone"
        PROVE  /\ pc[d] # "popDone" /\ Micro(d)' = Micro(d) /\ K(d)' = K(d)
               /\ \A i : i < R(Micro(d)) /\ Passes(d, i) => Passes(d, i)'
    <3>1. CASE d = c
      BY <1>1, <3>1
    <3>2. CASE d # c
      BY <1>1, <2>4, <3>2, InvTypes DEF Same, Passes
    <3> QED
      BY <3>1, <3>2
  <2>5. TurnedOK(q)'
    BY <1>2, <1>3, <1>4, <2>0, <2>4, TurnedOKFrame DEF QueueOK
  <2> QED
    BY <2>1, <2>3, <2>5 DEF QueueOK
<1>10. CountersOK'
  BY <1>2 DEF Inv, CountersOK
<1>11. UniqueOK'
  BY <1>1, <1>6, InvTypes DEF Inv, UniqueOK, Same
<1> QED
  BY <1>7, <1>8, <1>9, <1>10, <1>11 DEF Inv

---------------------------------------------------------------------------

(***************************************************************************)
(* Signs and cells.                                                        *)
(***************************************************************************)

(* The signs of a place are apart from the sign before it.                *)
LEMMA LapSigns ==
  ASSUME Roomy, NEW s \in Nat \ {0}, NEW o \in Nat, o <= Far
  PROVE  LET sign == Sign(Lap(s, o)) IN
         /\ sign \in Nat /\ sign > 0 /\ sign % 2 = 0
         /\ Prev(s, o) \in Nat /\ Prev(s, o) % 2 = 0 /\ Prev(s, o) # sign
<1>1. Lap(s, o) \in Nat /\ (o >= s => Lap(s, o) >= 2)
  BY LapFacts
<1>2. Lap(s, o) <= 2 * o
  <2> DEFINE d == (2 * o) \div s
             e == (2 * o) % s
  <2>1. 2 * o = s * d + e /\ d \in Nat /\ e \in 0 .. s - 1
    <3>1. 2 * o \in Nat
      OBVIOUS
    <3> QED
      BY <3>1
  <2> HIDE DEF d, e
  <2>2. s * d >= d
    BY <2>1
  <2> QED
    BY <2>1, <2>2 DEF Lap, d
<1>3. 2 * o < WordSize
  <2>1. Mode * (2 * Far + 2) >= 2 * Far + 2
    BY Sizes
  <2> QED
    BY <2>1, Sizes DEF Roomy
<1> DEFINE h == Lap(s, o)
<1>4. h \in Nat /\ h < WordSize /\ (o >= s => h >= 2)
  BY <1>1, <1>2, <1>3, Sizes
<1> HIDE DEF h
<1>5. Sign(h) \in Nat /\ Sign(h) > 0 /\ Sign(h) % 2 = 0
  BY <1>4, SignFacts
<1>6. CASE o < s
  BY <1>5, <1>6 DEF Prev, h
<1>7. CASE ~ (o < s)
  <2>1. h >= 2 /\ h - 2 \in Nat /\ h - 2 < WordSize
    BY <1>4, <1>7, Sizes
  <2>2. Sign(h - 2) \in Nat /\ Sign(h - 2) % 2 = 0 /\ Sign(h - 2) # Sign(h)
    BY <1>4, <2>1, SignFacts
  <2> QED
    BY <1>5, <1>7, <2>2 DEF Prev, h
<1> QED
  BY <1>6, <1>7

(* The same for a place in a window.                                      *)
LEMMA Signs ==
  ASSUME Roomy, Inv, NEW q \in Micros, NEW i \in Rings(q), NEW k \in Nat,
         Res(q, i) <= k, k < Fin(q, i)
  PROVE  LET s == Size(q, i)
             o == k - Res(q, i)
             sign == Sign(Lap(s, o)) IN
         /\ sign \in Nat /\ sign > 0 /\ sign % 2 = 0
         /\ Prev(s, o) \in Nat /\ Prev(s, o) % 2 = 0 /\ Prev(s, o) # sign
<1>1. RingOK(q, i) /\ Shape
  BY DEF Inv, QueueOK
<1>2. Fin(q, i) \in Places /\ Size(q, i) \in Nat \ {0} /\ Res(q, i) \in Nat
  BY <1>1, RingSpans, RingTypes
<1> DEFINE o == k - Res(q, i)
<1>3. o \in Nat /\ o <= Far
  BY <1>2, Sizes DEF Places
<1> HIDE DEF o
<1> QED
  BY <1>2, <1>3, LapSigns DEF o

(* A cell that shows the sign of a read place: the place is read. *)
LEMMA ShowsRead ==
  ASSUME Roomy, Inv, NEW q \in Micros, NEW i \in Rings(q), NEW k \in Nat,
         Res(q, i) <= k, k < Fin(q, i),
         Sg(q, i, k) = Sign(Lap(Size(q, i), k - Res(q, i)))
  PROVE  Done(q, k)
<1>0. QueueOK(q)
  BY DEF Inv
<1>1. CASE k < Beg(q, i)
  BY <1>0, <1>1 DEF QueueOK, PlacesOK
<1>2. CASE ~ (k < Beg(q, i))
  <2>1. Beg(q, i) \in Nat
    BY RingTypes DEF Inv
  <2>2. CellOK(q, i, k)
    BY <1>0, <1>2, <2>1 DEF QueueOK, CellsOK
  <2> DEFINE sign == Sign(Lap(Size(q, i), k - Res(q, i)))
             prev == Prev(Size(q, i), k - Res(q, i))
  <2>3. sign \in Nat /\ prev # sign
    BY Signs
  <2>4. CASE ~ Pushed(q, k)
    BY <2>2, <2>3, <2>4 DEF CellOK
  <2>5. CASE Pushed(q, k) /\ ~ Done(q, k)
    <3>1. Sg(q, i, k) = sign + 1
      BY <2>2, <2>5 DEF CellOK
    <3> HIDE DEF sign
    <3> QED
      BY <2>3, <3>1 DEF sign
  <2> QED
    BY <2>4, <2>5
<1> QED
  BY <1>1, <1>2

(* A cell that shows the sign of a written place: the payload is there. *)
LEMMA ShowsWritten ==
  ASSUME Roomy, Inv, NEW q \in Micros, NEW i \in Rings(q), NEW k \in Nat,
         Beg(q, i) <= k, k < Fin(q, i),
         Sg(q, i, k) = Sign(Lap(Size(q, i), k - Res(q, i))) + 1
  PROVE  Pushed(q, k)
<1>0. QueueOK(q)
  BY DEF Inv
<1>1. Beg(q, i) \in Nat /\ Res(q, i) \in Nat /\ Res(q, i) <= Beg(q, i)
  BY <1>0, RingTypes DEF Inv, QueueOK, RingOK
<1>2. CellOK(q, i, k)
  BY <1>0 DEF QueueOK, CellsOK
<1> DEFINE sign == Sign(Lap(Size(q, i), k - Res(q, i)))
           prev == Prev(Size(q, i), k - Res(q, i))
<1>3. sign \in Nat /\ sign % 2 = 0 /\ prev \in Nat /\ prev % 2 = 0
  <2>1. Res(q, i) <= k
    BY <1>1
  <2> QED
    BY <2>1, Signs
<1>4. ~ Pushed(q, k) => Sg(q, i, k) = prev
  BY <1>2 DEF CellOK
<1>5. Sg(q, i, k) = sign + 1
  OBVIOUS
<1> HIDE DEF sign, prev
<1> QED
  BY <1>3, <1>4, <1>5

(* The first index of a ring nobody has pushed is in the ring's window. *)
LEMMA FirstOpen ==
  ASSUME Inv, NEW q \in Micros, NEW i \in Rings(q), ~ Pushed(q, Res(q, i))
  PROVE  Beg(q, i) = Res(q, i)
<1>0. QueueOK(q)
  BY DEF Inv
<1>1. Beg(q, i) \in Nat /\ Res(q, i) \in Nat /\ Res(q, i) <= Beg(q, i)
  BY <1>0, RingTypes DEF Inv, QueueOK, RingOK
<1>2. ASSUME Res(q, i) < Beg(q, i) PROVE FALSE
  <2>1. Done(q, Res(q, i))
    BY <1>0, <1>1, <1>2 DEF QueueOK, PlacesOK
  <2> QED
    BY <1>0, <1>1, <2>1 DEF QueueOK, PlacesOK
<1> QED
  BY <1>1, <1>2

---------------------------------------------------------------------------

(***************************************************************************)
(* Steps that only move their thread on.                                   *)
(***************************************************************************)

(* What a push at work holds: a place that is neither pushed nor read.    *)
LEMMA PushFacts ==
  ASSUME Inv, NEW p \in Pushers, pc[p] # "pushDone"
  PROVE  LET q == Micro(p) k == K(p) IN
         /\ p \in Threads /\ q \in Micros /\ k \in Nat /\ k <= Last /\ k \in Places
         /\ Index(p) = At(q, k) /\ At(q, k) < m_nPreWriteIndex
         /\ ~ Pushed(q, k) /\ ~ Done(q, k)
         /\ \A r \in Pushers : PushAt(r, q, k) => r = p
<1> DEFINE q == Micro(p)
           k == K(p)
<1>1. Shape /\ p \in Threads /\ CountersOK /\ PushFits(pc[p], loc[p])
  BY InvTypes DEF Inv
<1>2. Start <= Index(p) /\ Index(p) < m_nPreWriteIndex
  BY <1>1 DEF PushFits, HolderOK, Index
<1>3. q \in Micros /\ k \in Nat /\ Index(p) = At(q, k)
  BY <1>1, <1>2, ThreadTypes
<1>4. k <= Last /\ k \in Places
  BY <1>1, <1>2, <1>3, InvTypes, DrawnPlace
<1>5. ~ Pushed(q, k)
  BY DEF Pushed, PushAt
<1>6. ~ Done(q, k)
  BY <1>3, <1>5 DEF Inv, QueueOK, PlacesOK
<1>7. \A r \in Pushers : PushAt(r, q, k) => r = p
  BY DEF Inv, UniqueOK, PushAt
<1> QED
  BY <1>1, <1>2, <1>3, <1>4, <1>5, <1>6, <1>7

(* Every index past the window is still held, so a push is behind the      *)
(* window's end by less than the number of threads that push. *)
LEMMA Backlog ==
  ASSUME Roomy, Inv, NEW p \in Pushers, pc[p] # "pushDone"
  PROVE  K(p) < Fin(Micro(p), W(Micro(p))) + Cardinality(Pushers)
<1> SUFFICES ASSUME NEW q, NEW k, q = Micro(p), k = K(p),
                    ~ (k < Fin(q, W(q)) + Cardinality(Pushers))
             PROVE  FALSE
  OBVIOUS
<1> DEFINE a == Fin(q, W(q))
           S == a .. k
<1>1. q \in Micros /\ k \in Nat /\ At(q, k) < m_nPreWriteIndex
      /\ m_nPreWriteIndex \in Nat
  BY PushFacts, InvTypes
<1>2. a \in Nat /\ QueueOK(q)
  BY <1>1, QueueTypes, RingTypes DEF Inv
<1>3. Cardinality(Pushers) \in Nat
  BY FS_CardinalityType DEF Roomy
<1> HIDE DEF a
<1>4. a + Cardinality(Pushers) <= k
  BY <1>1, <1>2, <1>3 DEF a
<1>5. ASSUME NEW x \in S PROVE \E u \in Pushers : PushAt(u, q, x)
  <2>1. x \in Nat /\ x <= k /\ x >= a
    BY <1>1, <1>2
  <2>2. ~ Pushed(q, x)
    BY <1>2, <2>1 DEF QueueOK, PlacesOK, a
  <2>3. At(q, x) < m_nPreWriteIndex
    BY <1>1, <2>1, PlaceOrder, PlaceIndex
  <2> QED
    BY <2>2, <2>3 DEF Pushed
<1> DEFINE f == [x \in S |-> CHOOSE u \in Pushers : PushAt(u, q, x)]
<1>6. \A x \in S : f[x] \in Pushers /\ PushAt(f[x], q, x)
  BY <1>5
<1>7. f \in [S -> Pushers]
  BY <1>6
<1> HIDE DEF f
<1>8. IsFiniteSet(S) /\ Cardinality(S) = k - a + 1
  BY <1>1, <1>2, <1>3, <1>4, FS_Interval
<1>9. Cardinality(Pushers) < Cardinality(S)
  BY <1>1, <1>2, <1>3, <1>4, <1>8
<1>11. IsFiniteSet(Pushers)
  BY DEF Roomy
<1>10. \E x, y \in S : x # y /\ f[x] = f[y]
  <2>1. IsFiniteSet(S)
    BY <1>8
  <2> HIDE DEF S
  <2> QED
    BY <1>7, <1>9, <1>11, <2>1, FS_PigeonHole
<1> QED
  BY <1>6, <1>10 DEF PushAt

(* What the invariant says of a push, its ring and its micro queue. *)
Pushing(p, a, l, q, i, k) ==
  /\ a = pc[p] /\ l = loc[p] /\ q = Micro(p) /\ i = l.this /\ k = K(p)
  /\ q = MicroOf(l.index) /\ k = PosOf(l.index) /\ l.index = At(q, k)
  /\ p \in Threads /\ q \in Micros /\ k \in Nat /\ k <= Last /\ k \in Places
  /\ At(q, k) < m_nPreWriteIndex /\ ~ Pushed(q, k) /\ ~ Done(q, k)
  /\ l \in Locals /\ i \in Rings(q) /\ l.own \in Rings(q)
  /\ HolderOK(a, l, q, k) /\ EntryOK(a, l, q, i, k)
  /\ CloserOK(a, l, q, i, k) /\ GrowerOK(a, l, q, k)
  /\ Shape /\ QueueOK(q)

(* What the invariant gives for a push at work,                           *)
LEMMA PushIs ==
  ASSUME Inv, NEW p \in Pushers, pc[p] # "pushDone"
  PROVE  \E a, l, q, i, k : Pushing(p, a, l, q, i, k)
<1> SUFFICES ASSUME NEW a, NEW l, NEW q, NEW i, NEW k,
                    a = pc[p], l = loc[p], q = Micro(p), i = l.this, k = K(p)
             PROVE  Pushing(p, a, l, q, i, k)
  OBVIOUS
<1>1. /\ p \in Threads /\ q \in Micros /\ k \in Nat /\ k <= Last /\ k \in Places
      /\ Index(p) = At(q, k) /\ At(q, k) < m_nPreWriteIndex
      /\ ~ Pushed(q, k) /\ ~ Done(q, k)
  BY PushFacts
<1>2. Shape /\ QueueOK(q) /\ PushFits(a, l)
  BY <1>1 DEF Inv
<1>3. l \in Locals /\ i \in Rings(q) /\ l.own \in Rings(q)
  BY <1>1, <1>2, ThreadTypes, ThreadFacts
<1>4. q = MicroOf(l.index) /\ k = PosOf(l.index) /\ l.index = At(q, k)
  BY <1>1 DEF Micro, Index, K
<1>5. HolderOK(a, l, q, k) /\ EntryOK(a, l, q, i, k)
      /\ CloserOK(a, l, q, i, k) /\ GrowerOK(a, l, q, k)
  BY <1>2, <1>4 DEF PushFits
<1> QED
  BY <1>1, <1>2, <1>3, <1>4, <1>5 DEF Pushing

(* PushLoadOwn keeps the invariant: lines 187 and 209-212.                *)
LEMMA PushLoadOwnInv ==
  ASSUME Roomy, Inv, Shape', NEW p \in Pushers, PushLoadOwn(p)
  PROVE  Inv'
<1>0. pc[p] \in {"pushEnter", "pushRetry"}
  BY DEF PushLoadOwn
<1>1. PICK a, l, q, i, k : Pushing(p, a, l, q, i, k)
  BY <1>0, PushIs
<1> SUFFICES ASSUME NEW w, w = W(q) PROVE Inv'
  OBVIOUS
<1> DEFINE r == [l EXCEPT !.own = w]
<1>2. /\ Goto(p, "pushLoad") /\ loc' = [loc EXCEPT ![p] = r]
      /\ UNCHANGED <<indexVars, m_queue, heap, m_pPool, delivered>>
  BY <1>1 DEF PushLoadOwn, W, Pushing
<1>3. w \in Nat /\ l \in Locals
  BY <1>1, QueueTypes DEF Pushing
<1>4. r.index = l.index /\ r.own = w /\ r.this = i /\ r.nested = l.nested
  BY <1>1, <1>3 DEF Locals, Pushing
<1> HIDE DEF r
<1>5. k < Fin(q, w) + Cardinality(Pushers)
  BY <1>0, <1>1, Backlog DEF Pushing
<1>6. HolderOK("pushLoad", r, q, k)
  BY <1>0, <1>1, <1>4 DEF Pushing, HolderOK, Late
<1>7. EntryOK("pushLoad", r, q, i, k)
  BY <1>3, <1>4, <1>5 DEF EntryOK
<1>8. CloserOK("pushLoad", r, q, i, k) /\ GrowerOK("pushLoad", r, q, k)
  BY DEF CloserOK, GrowerOK
<1>9. PushFits("pushLoad", r)
  BY <1>1, <1>4, <1>6, <1>7, <1>8 DEF PushFits, Pushing
<1> QED
  BY <1>0, <1>1, <1>2, <1>4, <1>9, CalmPush DEF Pushing

(* Lines 60-66 and 108-114 in places: the tests of a thread at place k. *)
LEMMA Window ==
  ASSUME Roomy, Shape, NEW t \in Threads, NEW q \in Micros,
         NEW i \in Rings(q), NEW k \in Places, RingOK(q, i),
         Micro(t) = q, loc[t].this = i, Index(t) = At(q, k)
  PROVE  /\ This(t) = heap[q][i] /\ Pool(t) = m_pPool[q][i]
         /\ This(t).m_nTotalSize = Size(q, i) /\ PerSize(This(t)) = Half(q, i)
         /\ Distance(t) < CheckTotalSize(This(t)) <=>
              Beg(q, i) <= k /\ k < Fin(q, i)
         /\ Distance(t) = CheckTotalSize(This(t)) <=> k = Fin(q, i)
         /\ Distance(t) > CheckTotalSize(This(t)) <=>
              k < Beg(q, i) \/ k > Fin(q, i)
<1>1. /\ This(t) = heap[q][i] /\ Pool(t) = m_pPool[q][i]
      /\ This(t).m_nTotalSize = Size(q, i) /\ PerSize(This(t)) = Half(q, i)
  BY DEF This, Pool, Size, Half, PerSize
<1>2. Spans(heap[q][i], q, Res(q, i), Beg(q, i), Size(q, i))
  BY RingSpans
<1>3. Distance(t) = Minus(Word(At(q, k)), heap[q][i].m_nBeginIndex)
  BY <1>1 DEF Distance
<1> QED
  BY <1>1, <1>2, <1>3, SpanDistance DEF Fin

(* The cell and the signs of a place in the ring its thread works on.     *)
LEMMA CellHere ==
  ASSUME Roomy, Shape, NEW q \in Micros, NEW i \in Rings(q), NEW k \in Places,
         RingOK(q, i), Res(q, i) <= k
  PROVE  LET c == CellOf(heap[q][i], At(q, k))
             sign == Sign(Lap(Size(q, i), k - Res(q, i))) IN
         /\ c = (k - Res(q, i)) % Size(q, i)
         /\ m_pPool[q][i][c].m_nWrite = Sg(q, i, k)
         /\ m_pPool[q][i][c].m_pData = Dt(q, i, k)
         /\ WrittenSign(heap[q][i], At(q, k)) = sign + 1
         /\ ReadSign(heap[q][i], At(q, k)) = sign
<1>1. Spans(heap[q][i], q, Res(q, i), Beg(q, i), Size(q, i))
  BY RingSpans
<1>2. CellOf(heap[q][i], At(q, k)) = (k - Res(q, i)) % Size(q, i)
  BY <1>1, SpanCell
<1> QED
  BY <1>1, <1>2, SpanCell DEF Sg, Dt

(* Lines 73-90 and 121-130 in places: step j of a scan by place k. *)
LEMMA ScanHere ==
  ASSUME Roomy, Shape, NEW q \in Micros, NEW i \in Rings(q), NEW k \in Places,
         RingOK(q, i), k - Res(q, i) >= Size(q, i),
         (k - Res(q, i)) % Half(q, i) = 0, NEW j \in Nat, j < Size(q, i)
  PROVE  LET m == k - Size(q, i) + j
             c == ScanCell(heap[q][i], At(q, k), j) IN
         /\ m_pPool[q][i][c].m_nWrite = Sg(q, i, m)
         /\ ScanSign(heap[q][i], At(q, k), j)
              = Sign(Lap(Size(q, i), m - Res(q, i)))
<1> DEFINE s == Size(q, i)
<1>1. Spans(heap[q][i], q, Res(q, i), Beg(q, i), s)
  BY RingSpans
<1>2. s = 2 * (s \div 2) /\ (k - Res(q, i)) % (s \div 2) = 0
  BY DEF RingOK, Half
<1> HIDE DEF s
<1>3. /\ ScanCell(heap[q][i], At(q, k), j) = (k - s + j - Res(q, i)) % s
      /\ ScanSign(heap[q][i], At(q, k), j) = Sign(Lap(s, k - s + j - Res(q, i)))
  <2>1. k - Res(q, i) >= s /\ j < s
    BY DEF s
  <2> QED
    BY <1>1, <1>2, <2>1, SpanScan
<1> DEFINE m == k - s + j
           c == ScanCell(heap[q][i], At(q, k), j)
<1>4. m - Res(q, i) = k - s + j - Res(q, i)
  BY RingTypes, Sizes DEF s, Places
<1>5. c = (m - Res(q, i)) % s
  BY <1>3, <1>4, Zenon
<1>6. m_pPool[q][i][c].m_nWrite = Sg(q, i, m)
  <2> HIDE DEF m, c
  <2> QED
    BY <1>5 DEF Sg, s
<1>7. ScanSign(heap[q][i], At(q, k), j) = Sign(Lap(s, m - Res(q, i)))
  BY <1>3, <1>4, Zenon
<1> QED
  BY <1>6, <1>7, Zenon DEF s

(* The index right after a window starts a half-lap. *)
LEMMA EndOfWindow ==
  ASSUME Shape, NEW q \in Micros, NEW i \in Rings(q), RingOK(q, i)
  PROVE  /\ Fin(q, i) - Res(q, i) >= Size(q, i)
         /\ (Fin(q, i) - Res(q, i)) % Half(q, i) = 0
         /\ Half(q, i) \in Nat \ {0}
<1> DEFINE h == Half(q, i)
           d == Beg(q, i) - Res(q, i)
<1>1. /\ Res(q, i) \in Nat /\ Beg(q, i) \in Nat /\ Res(q, i) <= Beg(q, i)
      /\ h \in Nat \ {0} /\ Size(q, i) = 2 * h /\ d % h = 0
      /\ Fin(q, i) = Beg(q, i) + Size(q, i)
  BY RingTypes DEF RingOK
<1>2. Fin(q, i) - Res(q, i) = d + h * 2 /\ d \in Int
  BY <1>1
<1> HIDE DEF h, d
<1>3. (d + h * 2) % h = d % h
  <2>1. 2 \in Int
    OBVIOUS
  <2> QED
    BY <1>1, <1>2, <2>1, ModShift, Zenon
<1> QED
  BY <1>1, <1>2, <1>3 DEF h

(* PushLoadThis keeps the invariant: line 191.                            *)
LEMMA PushLoadThisInv ==
  ASSUME Roomy, Inv, Shape', NEW p \in Pushers, PushLoadThis(p)
  PROVE  Inv'
<1>0. pc[p] = "pushLoad"
  BY DEF PushLoadThis
<1>1. PICK a, l, q, i, k : Pushing(p, a, l, q, i, k)
  BY <1>0, PushIs
<1> SUFFICES ASSUME NEW w, w = W(q) PROVE Inv'
  OBVIOUS
<1> DEFINE r == [l EXCEPT !.this = w]
<1>2. /\ Goto(p, "pushBegin") /\ loc' = [loc EXCEPT ![p] = r]
      /\ UNCHANGED <<indexVars, m_queue, heap, m_pPool, delivered>>
  BY <1>1 DEF PushLoadThis, W, Pushing
<1>3. w \in Nat /\ l \in Locals
  BY <1>1, QueueTypes DEF Pushing
<1>4. r.index = l.index /\ r.own = l.own /\ r.this = w /\ r.nested = l.nested
  BY <1>3 DEF Locals
<1> HIDE DEF r
<1>5. HolderOK("pushBegin", r, q, k) /\ ~ l.nested
  BY <1>0, <1>1, <1>4 DEF Pushing, HolderOK, Late
<1>6. EntryOK("pushBegin", r, q, w, k)
  BY <1>0, <1>1, <1>3, <1>4, <1>5 DEF EntryOK, Pushing
<1>7. CloserOK("pushBegin", r, q, w, k) /\ GrowerOK("pushBegin", r, q, k)
  BY DEF CloserOK, GrowerOK
<1>8. PushFits("pushBegin", r)
  BY <1>1, <1>4, <1>5, <1>6, <1>7 DEF PushFits, Pushing
<1> QED
  BY <1>0, <1>1, <1>2, <1>4, <1>8, CalmPush DEF Pushing

(* PushLoadBegin keeps the invariant: lines 60-66.                        *)
LEMMA PushLoadBeginInv ==
  ASSUME Roomy, Inv, Shape', NEW p \in Pushers, PushLoadBegin(p)
  PROVE  Inv'
<1>0. pc[p] = "pushBegin"
  BY DEF PushLoadBegin
<1>1. PICK a, l, q, i, k : Pushing(p, a, l, q, i, k)
  BY <1>0, PushIs
<1> SUFFICES ASSUME NEW b, b = heap[q][i].m_nBeginIndex PROVE Inv'
  OBVIOUS
<1> DEFINE r == [l EXCEPT !.begin = b, !.scan = 0]
<1>2. /\ loc' = [loc EXCEPT ![p] = r]
      /\ UNCHANGED <<indexVars, m_queue, heap, m_pPool, delivered>>
  BY <1>1 DEF PushLoadBegin, This, Pushing
<1>3. /\ q \in Micros /\ i \in Rings(q) /\ k \in Nat /\ l.own \in Rings(q)
      /\ RingOK(q, i) /\ RingOK(q, l.own) /\ RingOK(q, W(q))
      /\ W(q) \in Rings(q) /\ W(q) \in Nat /\ i \in Nat /\ l.own \in Nat
      /\ Beg(q, i) \in Nat /\ Fin(q, i) \in Nat /\ Res(q, i) \in Nat
      /\ Fin(q, i) = Beg(q, i) + Size(q, i) /\ Size(q, i) \in Nat \ {0}
      /\ i > 0 /\ l.own > 0
  <2>1. /\ q \in Micros /\ i \in Rings(q) /\ k \in Nat /\ l.own \in Rings(q)
        /\ QueueOK(q) /\ Shape
    BY <1>1 DEF Pushing
  <2>2. W(q) \in Rings(q) /\ W(q) \in Nat /\ \A j \in Rings(q) : j \in Nat /\ j > 0
    BY <2>1, QueueTypes
  <2>3. /\ Beg(q, i) \in Nat /\ Fin(q, i) \in Nat /\ Res(q, i) \in Nat
        /\ Fin(q, i) = Beg(q, i) + Size(q, i) /\ Size(q, i) \in Nat \ {0}
    BY <2>1, RingTypes
  <2> QED
    BY <2>1, <2>2, <2>3 DEF QueueOK
<1>4. /\ r.index = l.index /\ r.own = l.own /\ r.this = i
      /\ r.nested = l.nested /\ r.begin = b /\ r.scan = 0
  BY <1>1 DEF Locals, Pushing
<1> HIDE DEF r
<1>5. /\ Distance(p) < CheckTotalSize(This(p)) <=> Beg(q, i) <= k /\ k < Fin(q, i)
      /\ Distance(p) = CheckTotalSize(This(p)) <=> k = Fin(q, i)
      /\ Distance(p) > CheckTotalSize(This(p)) <=>
           k < Beg(q, i) \/ k > Fin(q, i)
  <2>1. /\ Shape /\ p \in Threads /\ q \in Micros /\ i \in Rings(q)
        /\ k \in Places /\ RingOK(q, i)
        /\ Micro(p) = q /\ loc[p].this = i /\ Index(p) = At(q, k)
    BY <1>1, <1>3 DEF Pushing, Index
  <2> QED
    BY <2>1, Window
<1>6. i <= W(q) /\ (l.nested => k = Res(q, i))
  BY <1>0, <1>1 DEF Pushing, EntryOK
<1>7. l.nested => Beg(q, i) <= k /\ k < Fin(q, i)
  <2>1. ~ Pushed(q, k)
    BY <1>1 DEF Pushing
  <2>2. ~ Pushed(q, Res(q, i)) => Beg(q, i) = Res(q, i)
    BY <1>3, FirstOpen
  <2> QED
    BY <1>3, <1>6, <2>1, <2>2
<1>8. CASE Beg(q, i) <= k /\ k < Fin(q, i)
  <2>1. Goto(p, "pushData")
    BY <1>3, <1>5, <1>8 DEF PushLoadBegin
  <2>2. HolderOK("pushData", r, q, k)
    BY <1>0, <1>1, <1>4 DEF Pushing, HolderOK, Late
  <2>3. EntryOK("pushData", r, q, i, k)
    BY <1>6, <1>8 DEF EntryOK
  <2>4. CloserOK("pushData", r, q, i, k) /\ GrowerOK("pushData", r, q, k)
    BY DEF CloserOK, GrowerOK
  <2>5. PushFits("pushData", r)
    BY <1>1, <1>4, <2>2, <2>3, <2>4 DEF PushFits, Pushing
  <2> QED
    BY <1>0, <1>1, <1>2, <1>4, <2>1, <2>5, CalmPush DEF Pushing
<1>9. CASE k = Fin(q, i)
  <2>0. ~ l.nested
    BY <1>3, <1>7, <1>9
  <2>1. Goto(p, "pushScan")
    BY <1>3, <1>5, <1>9 DEF PushLoadBegin
  <2>2. ~ Closed(q, i)
    BY <1>0, <1>1, <1>3, <1>9, <2>0 DEF Pushing, HolderOK, Late
  <2>3. i = W(q) /\ Len(heap[q]) = W(q)
    <3>1. PointersOK(q) /\ Len(heap[q]) \in Nat
      BY <1>1, QueueTypes DEF Pushing, QueueOK
    <3> QED
      BY <1>3, <1>6, <2>2, <3>1 DEF PointersOK
  <2>4. l.own <= i /\ k < Fin(q, l.own) + Cardinality(Pushers)
    BY <1>0, <1>1, <2>0 DEF Pushing, EntryOK
  <2>5. l.own = i
    <3>1. ASSUME l.own < i PROVE FALSE
      <4>0. ChainOK(q)
        BY <1>1 DEF Pushing, QueueOK
      <4>1. Fin(q, l.own) <= Res(q, i)
        BY <1>3, <3>1, <4>0 DEF ChainOK
      <4>2. Size(q, i) >= 4 * Block
        BY <1>3, <3>1, <4>0 DEF ChainOK
      <4>3. Cardinality(Pushers) <= 4 * Block /\ Cardinality(Pushers) \in Nat
        BY FS_CardinalityType DEF Roomy
      <4>4. /\ Fin(q, l.own) \in Nat /\ Res(q, i) \in Nat /\ Size(q, i) \in Nat
            /\ Beg(q, i) \in Nat /\ Res(q, i) <= Beg(q, i)
            /\ Fin(q, i) = Beg(q, i) + Size(q, i)
        <5>1. Shape
          BY <1>1 DEF Pushing
        <5>2. Fin(q, l.own) \in Nat
          BY <1>3, <5>1, RingTypes
        <5>3. Res(q, i) <= Beg(q, i)
          BY <1>3 DEF RingOK
        <5> QED
          BY <1>3, <5>2, <5>3
      <4> QED
        BY <1>9, <2>4, <4>1, <4>2, <4>3, <4>4, Sizes
    <3>2. l.own \in Nat /\ i \in Nat /\ l.own <= i
      BY <1>3, <2>4
    <3> QED
      BY <3>1, <3>2
  <2>6. Half(q, i) \in Nat \ {0} /\ Beg(q, i) \in Nat
    BY <1>1, <1>3, EndOfWindow, RingTypes DEF Pushing
  <2>7. HolderOK("pushScan", r, q, k)
    BY <1>0, <1>1, <1>4, <2>0 DEF Pushing, HolderOK, Late
  <2>8. CloserOK("pushScan", r, q, i, k)
    BY <1>4, <1>9, <2>2, <2>3, <2>5, <2>6 DEF CloserOK
  <2>9. EntryOK("pushScan", r, q, i, k) /\ GrowerOK("pushScan", r, q, k)
    BY DEF EntryOK, GrowerOK
  <2>10. PushFits("pushScan", r)
    BY <1>1, <1>4, <2>7, <2>8, <2>9 DEF PushFits, Pushing
  <2> QED
    BY <1>0, <1>1, <1>2, <1>4, <2>1, <2>10, CalmPush DEF Pushing
<1>10. CASE ~ (Beg(q, i) <= k /\ k < Fin(q, i)) /\ k # Fin(q, i)
  <2>1. ~ l.nested
    BY <1>7, <1>10
  <2>2. Goto(p, "pushRetry")
    BY <1>1, <1>5, <1>10, <2>1 DEF PushLoadBegin, Pushing
  <2>3. HolderOK("pushRetry", r, q, k)
    BY <1>0, <1>1, <1>4, <2>1 DEF Pushing, HolderOK, Late
  <2>4. EntryOK("pushRetry", r, q, i, k) /\ CloserOK("pushRetry", r, q, i, k)
        /\ GrowerOK("pushRetry", r, q, k)
    BY DEF EntryOK, CloserOK, GrowerOK
  <2>5. PushFits("pushRetry", r)
    BY <1>1, <1>4, <2>3, <2>4 DEF PushFits, Pushing
  <2> QED
    BY <1>0, <1>1, <1>2, <1>4, <2>2, <2>5, CalmPush DEF Pushing
<1> QED
  BY <1>8, <1>9, <1>10

(* A micro queue and its rings, with the types. *)
LEMMA QueueIs ==
  ASSUME Shape, NEW q \in Micros, QueueOK(q)
  PROVE  /\ W(q) \in Rings(q) /\ W(q) \in Nat /\ R(q) \in Rings(q)
         /\ R(q) \in Nat /\ WC(q) \in Nat /\ RC(q) \in Nat
         /\ Len(heap[q]) \in Nat /\ Rings(q) = 1 .. Len(heap[q])
         /\ \A j \in Rings(q) :
              /\ j \in Nat /\ j > 0 /\ RingOK(q, j)
              /\ Res(q, j) \in Nat /\ Beg(q, j) \in Nat /\ Fin(q, j) \in Nat
              /\ Size(q, j) \in Nat \ {0} /\ Half(q, j) \in Nat \ {0}
              /\ Size(q, j) = 2 * Half(q, j) /\ Res(q, j) <= Beg(q, j)
              /\ Fin(q, j) = Beg(q, j) + Size(q, j)
              /\ Closed(q, j) \in BOOLEAN
<1>1. ASSUME NEW j \in Rings(q)
      PROVE  /\ j \in Nat /\ j > 0 /\ RingOK(q, j)
             /\ Res(q, j) \in Nat /\ Beg(q, j) \in Nat /\ Fin(q, j) \in Nat
             /\ Size(q, j) \in Nat \ {0} /\ Half(q, j) \in Nat \ {0}
             /\ Size(q, j) = 2 * Half(q, j) /\ Res(q, j) <= Beg(q, j)
             /\ Fin(q, j) = Beg(q, j) + Size(q, j)
             /\ Closed(q, j) \in BOOLEAN
  <2>1. j \in Nat /\ j > 0
    BY QueueTypes
  <2>2. RingOK(q, j)
    BY DEF QueueOK
  <2> QED
    BY <2>1, <2>2, RingTypes, EndOfWindow DEF RingOK
<1> QED
  BY <1>1, QueueTypes

(* PushScan keeps the invariant: lines 73-75.                             *)
LEMMA PushScanInv ==
  ASSUME Roomy, Inv, Shape', NEW p \in Pushers, PushScan(p)
  PROVE  Inv'
<1>0. pc[p] = "pushScan"
  BY DEF PushScan
<1>1. PICK a, l, q, i, k : Pushing(p, a, l, q, i, k)
  BY <1>0, PushIs
<1>2. /\ Shape /\ q \in Micros /\ QueueOK(q) /\ i \in Rings(q) /\ l \in Locals
      /\ k \in Places /\ Index(p) = At(q, k) /\ Micro(p) = q /\ l = loc[p]
      /\ loc[p].this = i /\ p \in Threads /\ k \in Nat /\ l.scan \in Nat
  BY <1>1 DEF Pushing, Index, Locals
<1>3. /\ Beg(q, i) \in Nat /\ Size(q, i) = 2 * Half(q, i) /\ RingOK(q, i)
      /\ Half(q, i) \in Nat \ {0} /\ Fin(q, i) = Beg(q, i) + Size(q, i)
      /\ Res(q, i) \in Nat /\ Res(q, i) <= Beg(q, i)
      /\ PerSize(This(p)) = Half(q, i)
      /\ This(p) = heap[q][i] /\ Pool(p) = m_pPool[q][i]
  <2>1. /\ Beg(q, i) \in Nat /\ Size(q, i) = 2 * Half(q, i) /\ RingOK(q, i)
        /\ Half(q, i) \in Nat \ {0} /\ Fin(q, i) = Beg(q, i) + Size(q, i)
        /\ Res(q, i) \in Nat /\ Res(q, i) <= Beg(q, i)
    BY <1>2, QueueIs
  <2> QED
    BY <1>2, <2>1, Window
<1>4. i = W(q) /\ k = Fin(q, i) /\ l.scan < Half(q, i)
  BY <1>0, <1>1 DEF Pushing, CloserOK
<1>5. k - Res(q, i) >= Size(q, i) /\ (k - Res(q, i)) % Half(q, i) = 0
  BY <1>2, <1>3, <1>4, EndOfWindow
<1> DEFINE m == Beg(q, i) + l.scan
           c == ScanCell(This(p), Index(p), l.scan)
           sign == ScanSign(This(p), Index(p), l.scan)
<1>6. /\ Pool(p)[c].m_nWrite = Sg(q, i, m)
      /\ sign = Sign(Lap(Size(q, i), m - Res(q, i)))
  <2>1. k - Size(q, i) + l.scan = m
    BY <1>2, <1>3, <1>4
  <2>2. l.scan < Size(q, i)
    BY <1>2, <1>3, <1>4
  <2>3. /\ m_pPool[q][i][c].m_nWrite = Sg(q, i, k - Size(q, i) + l.scan)
        /\ sign = Sign(Lap(Size(q, i), k - Size(q, i) + l.scan - Res(q, i)))
    <3>1. /\ m_pPool[q][i][c].m_nWrite = Sg(q, i, k - Size(q, i) + l.scan)
          /\ sign = Sign(Lap(Size(q, i), (k - Size(q, i) + l.scan) - Res(q, i)))
      BY <1>2, <1>3, <1>5, <2>2, ScanHere
    <3>2. (k - Size(q, i) + l.scan) - Res(q, i) = k - Size(q, i) + l.scan - Res(q, i)
      BY <1>2, <1>3
    <3> QED
      BY <3>1, <3>2
  <2>4. k - Size(q, i) + l.scan - Res(q, i) = m - Res(q, i)
    BY <1>2, <1>3, <1>4
  <2> QED
    BY <1>3, <2>1, <2>3, <2>4
<1> HIDE DEF m, c, sign
<1>7. CASE Pool(p)[c].m_nWrite = sign
  <2>1. m \in Nat /\ Res(q, i) <= m /\ m < Fin(q, i)
    BY <1>2, <1>3, <1>4 DEF m
  <2>2. Done(q, m)
    BY <1>2, <1>6, <1>7, <2>1, ShowsRead
  <2> DEFINE r == [l EXCEPT !.scan = l.scan + 1]
             label == IF l.scan + 1 = Half(q, i) THEN "pushAdvance" ELSE "pushScan"
  <2>3. /\ Goto(p, label) /\ loc' = [loc EXCEPT ![p] = r]
        /\ UNCHANGED <<indexVars, m_queue, heap, m_pPool, delivered>>
    BY <1>2, <1>3, <1>7 DEF PushScan, c, sign
  <2>4. /\ r.index = l.index /\ r.own = l.own /\ r.this = i
        /\ r.nested = l.nested /\ r.begin = l.begin /\ r.scan = l.scan + 1
    BY <1>2 DEF Locals
  <2> HIDE DEF r
  <2>5. \A j \in Nat : Beg(q, i) <= j /\ j < Beg(q, i) + r.scan => Done(q, j)
    <3>1. \A j \in Nat : Beg(q, i) <= j /\ j < Beg(q, i) + l.scan => Done(q, j)
      BY <1>0, <1>1 DEF Pushing, CloserOK
    <3> QED
      BY <1>2, <1>3, <2>2, <2>4, <3>1 DEF m
  <2>6. HolderOK(label, r, q, k)
    BY <1>0, <1>1, <2>4 DEF Pushing, HolderOK, Late
  <2>7. CloserOK(label, r, q, i, k)
    <3>1. CloserOK("pushScan", l, q, i, k)
      BY <1>0, <1>1 DEF Pushing
    <3>2. /\ i = W(q) /\ l.own = W(q) /\ Len(heap[q]) = W(q) /\ k = Fin(q, W(q))
          /\ ~ Closed(q, i) /\ l.begin = heap[q][i].m_nBeginIndex
      BY <3>1 DEF CloserOK
    <3>3. CASE l.scan + 1 = Half(q, i)
      <4>1. label = "pushAdvance" /\ r.scan = Half(q, i)
        BY <2>4, <3>3
      <4>2. CloserOK("pushAdvance", r, q, i, k)
        BY <2>4, <2>5, <3>2, <4>1 DEF CloserOK
      <4> QED
        BY <4>1, <4>2
    <3>4. CASE l.scan + 1 # Half(q, i)
      <4>1. label = "pushScan" /\ r.scan < Half(q, i)
        BY <1>2, <1>3, <1>4, <2>4, <3>4
      <4>2. CloserOK("pushScan", r, q, i, k)
        BY <2>4, <2>5, <3>2, <4>1 DEF CloserOK
      <4> QED
        BY <4>1, <4>2
    <3> QED
      BY <3>3, <3>4
  <2>8. EntryOK(label, r, q, i, k) /\ GrowerOK(label, r, q, k)
    BY DEF EntryOK, GrowerOK
  <2>9. PushFits(label, r)
    BY <1>1, <2>4, <2>6, <2>7, <2>8 DEF PushFits, Pushing
  <2> QED
    BY <1>0, <1>2, <2>3, <2>4, <2>9, CalmPush
<1>8. CASE Pool(p)[c].m_nWrite # sign
  <2>1. /\ Goto(p, "pushNoWrite") /\ loc' = [loc EXCEPT ![p] = l]
        /\ UNCHANGED <<indexVars, m_queue, heap, m_pPool, delivered>>
    BY <1>2, <1>8 DEF PushScan, c, sign, Shape, TypeOK
  <2>2. HolderOK("pushNoWrite", l, q, k)
    BY <1>0, <1>1 DEF Pushing, HolderOK, Late
  <2>3. CloserOK("pushNoWrite", l, q, i, k)
    BY <1>0, <1>1 DEF Pushing, CloserOK
  <2>4. EntryOK("pushNoWrite", l, q, i, k) /\ GrowerOK("pushNoWrite", l, q, k)
    BY DEF EntryOK, GrowerOK
  <2>5. PushFits("pushNoWrite", l)
    BY <1>1, <2>2, <2>3, <2>4 DEF PushFits, Pushing
  <2> QED
    BY <1>0, <1>2, <2>1, <2>5, CalmPush
<1> QED
  BY <1>7, <1>8

(* PushAwait keeps the invariant: lines 78-91.                            *)
LEMMA PushAwaitInv ==
  ASSUME Roomy, Inv, Shape', NEW p \in Pushers, PushAwait(p)
  PROVE  Inv'
<1>0. pc[p] = "pushAwait"
  BY DEF PushAwait
<1>1. PICK a, l, q, i, k : Pushing(p, a, l, q, i, k)
  BY <1>0, PushIs
<1>2. /\ Shape /\ q \in Micros /\ QueueOK(q) /\ i \in Rings(q) /\ l \in Locals
      /\ k \in Places /\ Index(p) = At(q, k) /\ Micro(p) = q /\ l = loc[p]
      /\ loc[p].this = i /\ p \in Threads /\ k \in Nat /\ l.scan \in Nat
  BY <1>1 DEF Pushing, Index, Locals
<1>3. /\ Beg(q, i) \in Nat /\ Size(q, i) = 2 * Half(q, i) /\ RingOK(q, i)
      /\ Half(q, i) \in Nat \ {0} /\ Fin(q, i) = Beg(q, i) + Size(q, i)
      /\ Res(q, i) \in Nat /\ Res(q, i) <= Beg(q, i)
      /\ This(p).m_nTotalSize = Size(q, i)
      /\ This(p) = heap[q][i] /\ Pool(p) = m_pPool[q][i]
  <2>1. /\ Beg(q, i) \in Nat /\ Size(q, i) = 2 * Half(q, i) /\ RingOK(q, i)
        /\ Half(q, i) \in Nat \ {0} /\ Fin(q, i) = Beg(q, i) + Size(q, i)
        /\ Res(q, i) \in Nat /\ Res(q, i) <= Beg(q, i)
    BY <1>2, QueueIs
  <2> QED
    BY <1>2, <2>1, Window
<1>4. /\ i = W(q) /\ k = Fin(q, i) /\ l.scan < Size(q, i) /\ ~ l.nested
  BY <1>0, <1>1 DEF Pushing, CloserOK, HolderOK
<1>5. k - Res(q, i) >= Size(q, i) /\ (k - Res(q, i)) % Half(q, i) = 0
  BY <1>2, <1>3, <1>4, EndOfWindow
<1> DEFINE m == Beg(q, i) + l.scan
           c == ScanCell(This(p), Index(p), l.scan)
<1>6. Sg(q, i, m) # 0
  <2>1. k - Size(q, i) + l.scan = m
    BY <1>2, <1>3, <1>4
  <2>2. m_pPool[q][i][c].m_nWrite = Sg(q, i, k - Size(q, i) + l.scan)
    BY <1>2, <1>3, <1>4, <1>5, ScanHere
  <2>3. Pool(p)[c].m_nWrite # 0
    BY <1>2 DEF PushAwait
  <2> QED
    BY <1>3, <2>1, <2>2, <2>3
<1> DEFINE r == [l EXCEPT !.scan = l.scan + 1]
           label == IF l.scan + 1 = Size(q, i) THEN "pushNext" ELSE "pushAwait"
<1>7. /\ Goto(p, label) /\ loc' = [loc EXCEPT ![p] = r]
      /\ UNCHANGED <<indexVars, m_queue, heap, m_pPool, delivered>>
  BY <1>2, <1>3, <1>4 DEF PushAwait
<1>8. /\ r.index = l.index /\ r.own = l.own /\ r.this = i
      /\ r.nested = l.nested /\ r.begin = l.begin /\ r.scan = l.scan + 1
  BY <1>2 DEF Locals
<1> HIDE DEF r
<1>9. \A j \in Nat : Beg(q, i) <= j /\ j < Beg(q, i) + r.scan => Sg(q, i, j) # 0
  <2>1. \A j \in Nat : Beg(q, i) <= j /\ j < Beg(q, i) + l.scan => Sg(q, i, j) # 0
    BY <1>0, <1>1 DEF Pushing, CloserOK
  <2> QED
    BY <1>2, <1>3, <1>6, <1>8, <2>1
<1> HIDE DEF m, c
<1>10. ASSUME l.scan + 1 = Size(q, i) PROVE WC(q) = W(q) - 1
  <2> SUFFICES ASSUME WC(q) # W(q) - 1 PROVE FALSE
    OBVIOUS
  <2>1. ~ Pushed(q, Res(q, i))
    BY <1>2, <1>4 DEF QueueOK, PointersOK
  <2>2. Beg(q, i) = Res(q, i)
    BY <1>2, <2>1, FirstOpen
  <2>3. Sg(q, i, Res(q, i)) # 0
    BY <1>3, <1>8, <1>9, <1>10, <2>2
  <2>4. CellOK(q, i, Res(q, i))
    BY <1>2, <1>3, <2>2 DEF QueueOK, CellsOK
  <2>5. Prev(Size(q, i), Res(q, i) - Res(q, i)) = 0
    BY <1>3 DEF Prev
  <2> QED
    BY <2>1, <2>3, <2>4, <2>5 DEF CellOK
<1>11. HolderOK(label, r, q, k)
  BY <1>0, <1>1, <1>4, <1>8 DEF Pushing, HolderOK, Late
<1>12. CloserOK(label, r, q, i, k)
  <2>1. i = W(q) /\ r.own = W(q) /\ Len(heap[q]) = W(q) /\ k = Fin(q, W(q))
    BY <1>0, <1>1, <1>4, <1>8 DEF Pushing, CloserOK
  <2>2. l.scan + 1 # Size(q, i) => r.scan < Size(q, i)
    BY <1>2, <1>3, <1>4, <1>8
  <2> QED
    BY <1>8, <1>9, <2>1, <2>2 DEF CloserOK
<1>13. GrowerOK(label, r, q, k)
  BY <1>0, <1>1, <1>10 DEF Pushing, GrowerOK
<1>14. EntryOK(label, r, q, i, k)
  BY DEF EntryOK
<1>15. PushFits(label, r)
  BY <1>1, <1>8, <1>11, <1>12, <1>13, <1>14 DEF PushFits, Pushing
<1> QED
  BY <1>0, <1>2, <1>7, <1>8, <1>15, CalmPush

(* PushNext keeps the invariant: line 196.                                *)
LEMMA PushNextInv ==
  ASSUME Roomy, Inv, Shape', NEW p \in Pushers, PushNext(p)
  PROVE  Inv'
<1>0. pc[p] = "pushNext"
  BY DEF PushNext
<1>1. PICK a, l, q, i, k : Pushing(p, a, l, q, i, k)
  BY <1>0, PushIs
<1>2. /\ Shape /\ q \in Micros /\ QueueOK(q) /\ l \in Locals /\ Micro(p) = q
      /\ l = loc[p]
  BY <1>1 DEF Pushing
<1>3. WC(q) + 1 = W(q) /\ W(q) \in Nat
  BY <1>0, <1>1, <1>2, QueueIs DEF Pushing, GrowerOK
<1> SUFFICES ASSUME NEW w, w = W(q) PROVE Inv'
  OBVIOUS
<1> DEFINE r == [l EXCEPT !.next = w]
<1>4. /\ Goto(p, "pushGrow") /\ loc' = [loc EXCEPT ![p] = r]
      /\ UNCHANGED <<indexVars, m_queue, heap, m_pPool, delivered>>
  BY <1>2, <1>3 DEF PushNext, WC
<1>5. /\ r.index = l.index /\ r.own = l.own /\ r.this = i
      /\ r.nested = l.nested /\ r.begin = l.begin /\ r.scan = l.scan
      /\ r.next = w
  BY <1>1, <1>2 DEF Locals, Pushing
<1> HIDE DEF r
<1>6. HolderOK("pushGrow", r, q, k)
  BY <1>0, <1>1, <1>5 DEF Pushing, HolderOK, Late
<1>7. CloserOK("pushGrow", r, q, i, k) /\ GrowerOK("pushGrow", r, q, k)
  BY <1>0, <1>1, <1>5 DEF Pushing, CloserOK, GrowerOK
<1>8. EntryOK("pushGrow", r, q, i, k)
  BY DEF EntryOK
<1>9. PushFits("pushGrow", r)
  BY <1>1, <1>5, <1>6, <1>7, <1>8 DEF PushFits, Pushing
<1> QED
  BY <1>0, <1>2, <1>4, <1>5, <1>9, CalmPush

(* What the invariant says of a pop, its ring and its micro queue. *)
Popping(c, a, l, q, i, k) ==
  /\ a = pc[c] /\ l = loc[c] /\ q = Micro(c) /\ i = l.this /\ k = K(c)
  /\ loc[c].this = i /\ Index(c) = At(q, k)
  /\ q = MicroOf(l.index) /\ k = PosOf(l.index) /\ l.index = At(q, k)
  /\ c \in Threads /\ q \in Micros /\ k \in Nat /\ k <= Last /\ k \in Places
  /\ At(q, k) < m_nReadIndex /\ ~ Done(q, k)
  /\ l \in Locals /\ i \in Rings(q) /\ l.scan \in Nat
  /\ ReaderOK(a, l, q, i, k) /\ TurnerOK(a, l, q, i, k)
  /\ Shape /\ QueueOK(q)

(* and for a pop.                                                         *)
LEMMA PopIs ==
  ASSUME Inv, NEW c \in Poppers, pc[c] # "popDone"
  PROVE  \E a, l, q, i, k : Popping(c, a, l, q, i, k)
<1> SUFFICES ASSUME NEW a, NEW l, NEW q, NEW i, NEW k,
                    a = pc[c], l = loc[c], q = Micro(c), i = l.this, k = K(c)
             PROVE  Popping(c, a, l, q, i, k)
  OBVIOUS
<1>1. Shape /\ c \in Threads /\ CountersOK /\ PopFits(a, l)
  BY InvTypes DEF Inv
<1>2. Start <= Index(c) /\ Index(c) < m_nReadIndex
  BY <1>1 DEF PopFits, ReaderOK, Index
<1>3. q \in Micros /\ k \in Nat /\ Index(c) = At(q, k)
  BY <1>1, <1>2, ThreadTypes
<1>4. k <= Last /\ k \in Places
  BY <1>1, <1>2, <1>3, InvTypes, DrawnPlace
<1>5. ~ Done(q, k)
  BY DEF Done, PopAt
<1>6. l \in Locals /\ i \in Rings(q) /\ l.scan \in Nat
  BY <1>1, <1>3, ThreadTypes, ThreadFacts
<1>7. q = MicroOf(l.index) /\ k = PosOf(l.index) /\ l.index = At(q, k)
  BY <1>3 DEF Micro, Index, K
<1>8. ReaderOK(a, l, q, i, k) /\ TurnerOK(a, l, q, i, k)
  BY <1>1, <1>7 DEF PopFits
<1>9. QueueOK(q)
  BY <1>3 DEF Inv
<1> QED
  BY <1>1, <1>2, <1>3, <1>4, <1>5, <1>6, <1>7, <1>8, <1>9 DEF Popping

(* A step that delivers nothing. *)
LEMMA NothingNew ==
  ASSUME Inv, delivered' = delivered
  PROVE  delivered \subseteq delivered' /\ DeliveredInOrder'
BY DEF Inv, DeliveredInOrder

(* PopLoadOwn keeps the invariant: lines 217, 231 and 238-241.            *)
LEMMA PopLoadOwnInv ==
  ASSUME Roomy, Inv, Shape', NEW c \in Poppers, PopLoadOwn(c)
  PROVE  Inv'
<1>0. pc[c] \in {"popEnter", "popRetry"}
  BY DEF PopLoadOwn
<1>1. PICK a, l, q, i, k : Popping(c, a, l, q, i, k)
  BY <1>0, PopIs
<1> SUFFICES ASSUME NEW w, w = R(q) PROVE Inv'
  OBVIOUS
<1> DEFINE r == [l EXCEPT !.this = w]
<1>2. /\ Goto(c, "popBegin") /\ loc' = [loc EXCEPT ![c] = r]
      /\ UNCHANGED <<indexVars, m_queue, heap, m_pPool>> /\ delivered' = delivered
  BY <1>1 DEF PopLoadOwn, R, Popping
<1>3. /\ Shape /\ q \in Micros /\ QueueOK(q) /\ l \in Locals /\ Micro(c) = q
      /\ l = loc[c] /\ c \in Threads
  BY <1>1 DEF Popping
<1>4. w \in Nat
  BY <1>3, QueueIs
<1>5. r.index = l.index /\ r.this = w
  BY <1>3, <1>4 DEF Locals
<1> HIDE DEF r
<1>6. ReaderOK("popBegin", r, q, w, k) /\ TurnerOK("popBegin", r, q, w, k)
  BY <1>0, <1>1, <1>4, <1>5 DEF Popping, ReaderOK, TurnerOK
<1>7. PopFits("popBegin", r)
  BY <1>1, <1>5, <1>6 DEF PopFits, Popping
<1>8. \A j : j < R(Micro(c)) /\ Passes(c, j) => Passes(c, j)'
  BY <1>2, <1>3, <1>5, KeepFrame DEF Passes
<1> QED
  BY <1>0, <1>2, <1>3, <1>5, <1>7, <1>8, CalmPop, NothingNew

(* A step of a pop that stays on its ring passes the rings it passed. *)
LEMMA PassesKept ==
  ASSUME Shape, NEW c \in Threads, NEW label, NEW r, Goto(c, label),
         loc' = [loc EXCEPT ![c] = r], r.this = loc[c].this,
         pc[c] \notin {"popRelease", "popRetry"}
  PROVE  \A j : j < R(Micro(c)) /\ Passes(c, j) => Passes(c, j)'
BY DEF Passes, Shape, TypeOK, Goto

(* PopLoadBegin keeps the invariant: lines 108-114.                       *)
LEMMA PopLoadBeginInv ==
  ASSUME Roomy, Inv, Shape', NEW c \in Poppers, PopLoadBegin(c)
  PROVE  Inv'
<1>0. pc[c] = "popBegin"
  BY DEF PopLoadBegin
<1>1. PICK a, l, q, i, k : Popping(c, a, l, q, i, k)
  BY <1>0, PopIs
<1>2. /\ Shape /\ q \in Micros /\ QueueOK(q) /\ l \in Locals /\ Micro(c) = q
      /\ l = loc[c] /\ c \in Threads /\ i \in Rings(q) /\ k \in Places
      /\ k \in Nat /\ loc[c].this = i /\ Index(c) = At(q, k) /\ a = pc[c]
  BY <1>1 DEF Popping
<1> SUFFICES ASSUME NEW b, b = heap[q][i].m_nBeginIndex PROVE Inv'
  OBVIOUS
<1> DEFINE r == [l EXCEPT !.begin = b, !.scan = 0]
<1>3. /\ loc' = [loc EXCEPT ![c] = r]
      /\ UNCHANGED <<indexVars, m_queue, heap, m_pPool>> /\ delivered' = delivered
  BY <1>2 DEF PopLoadBegin, This
<1>4. r.index = l.index /\ r.this = i /\ r.scan = 0
  BY <1>1, <1>2 DEF Locals, Popping
<1> HIDE DEF r
<1>5. RingOK(q, i) /\ Fin(q, i) \in Nat /\ Beg(q, i) \in Nat
      /\ Fin(q, i) = Beg(q, i) + Size(q, i) /\ Size(q, i) \in Nat \ {0}
  BY <1>2, QueueIs
<1>6. /\ Distance(c) < CheckTotalSize(This(c)) <=> Beg(q, i) <= k /\ k < Fin(q, i)
      /\ Distance(c) = CheckTotalSize(This(c)) <=> k = Fin(q, i)
      /\ Distance(c) > CheckTotalSize(This(c)) <=>
           k < Beg(q, i) \/ k > Fin(q, i)
  BY <1>2, <1>5, Window
<1> DEFINE label == IF k = Fin(q, i) THEN "popAsk"
                    ELSE IF Beg(q, i) <= k /\ k < Fin(q, i) THEN "popSpin"
                    ELSE "popRetry"
<1>7. Goto(c, label)
  BY <1>2, <1>5, <1>6 DEF PopLoadBegin
<1>8. ReaderOK(label, r, q, i, k)
  BY <1>0, <1>1, <1>2, <1>4 DEF Popping, ReaderOK
<1>9. k = Fin(q, i) => k - Res(q, i) >= Size(q, i) /\ (k - Res(q, i)) % Half(q, i) = 0
  BY <1>2, <1>5, EndOfWindow
<1>10. TurnerOK(label, r, q, i, k)
  BY <1>2, <1>4, <1>5, <1>9 DEF TurnerOK
<1> HIDE DEF label
<1>11. PopFits(label, r)
  BY <1>1, <1>4, <1>8, <1>10 DEF PopFits, Popping
<1>12. \A j : j < R(Micro(c)) /\ Passes(c, j) => Passes(c, j)'
  BY <1>0, <1>2, <1>3, <1>4, <1>7, PassesKept
<1>13. label # "popDone"
  BY DEF label
<1> QED
  BY <1>0, <1>2, <1>3, <1>4, <1>7, <1>11, <1>12, <1>13, CalmPop, NothingNew

(* PopAsk keeps the invariant: lines 115 and 133.                         *)
LEMMA PopAskInv ==
  ASSUME Roomy, Inv, Shape', NEW c \in Poppers, PopAsk(c)
  PROVE  Inv'
<1>0. pc[c] = "popAsk"
  BY DEF PopAsk
<1>1. PICK a, l, q, i, k : Popping(c, a, l, q, i, k)
  BY <1>0, PopIs
<1>2. /\ Shape /\ q \in Micros /\ QueueOK(q) /\ l \in Locals /\ Micro(c) = q
      /\ l = loc[c] /\ c \in Threads /\ i \in Rings(q) /\ a = pc[c]
      /\ loc[c].this = i /\ k \in Nat
  BY <1>1 DEF Popping
<1>3. Size(q, i) \in Nat \ {0} /\ Closed(q, i) \in BOOLEAN
  BY <1>2, QueueIs
<1> SUFFICES ASSUME NEW label, label = IF Closed(q, i) THEN "popAwait" ELSE "popRetry"
             PROVE  Inv'
  OBVIOUS
<1>4. /\ Goto(c, label) /\ loc' = [loc EXCEPT ![c] = l]
      /\ UNCHANGED <<indexVars, m_queue, heap, m_pPool>> /\ delivered' = delivered
  BY <1>2 DEF PopAsk, This, Closed, Shape, TypeOK
<1>5. ReaderOK(label, l, q, i, k)
  BY <1>0, <1>1, <1>2 DEF Popping, ReaderOK
<1>6. TurnerOK(label, l, q, i, k)
  BY <1>0, <1>1, <1>2, <1>3 DEF Popping, TurnerOK
<1>7. PopFits(label, l)
  BY <1>1, <1>5, <1>6 DEF PopFits, Popping
<1>8. \A j : j < R(Micro(c)) /\ Passes(c, j) => Passes(c, j)'
  BY <1>0, <1>2, <1>4, PassesKept
<1> QED
  BY <1>0, <1>2, <1>4, <1>7, <1>8, CalmPop, NothingNew

(* PopNext keeps the invariant: lines 226-228.                            *)
LEMMA PopNextInv ==
  ASSUME Roomy, Inv, Shape', NEW c \in Poppers, PopNext(c)
  PROVE  Inv'
<1>0. pc[c] = "popNext"
  BY DEF PopNext
<1>1. PICK a, l, q, i, k : Popping(c, a, l, q, i, k)
  BY <1>0, PopIs
<1>2. /\ Shape /\ q \in Micros /\ QueueOK(q) /\ l \in Locals /\ Micro(c) = q
      /\ l = loc[c] /\ c \in Threads /\ i \in Rings(q) /\ a = pc[c]
      /\ loc[c].this = i /\ k \in Nat
  BY <1>1 DEF Popping
<1>3. /\ Goto(c, "popBump") /\ loc' = [loc EXCEPT ![c] = l]
      /\ UNCHANGED <<indexVars, m_queue, heap, m_pPool>> /\ delivered' = delivered
      /\ RC(q) # WC(q)
  BY <1>2 DEF PopNext, RC, WC, Shape, TypeOK
<1>4. R(q) <= WC(q)
  <2>1. R(q) \in Nat /\ WC(q) \in Nat /\ RC(q) \in Nat
    BY <1>2, QueueIs
  <2>2. R(q) <= WC(q) + 1
    BY <1>2 DEF QueueOK, PointersOK
  <2>3. RC(q) = R(q) - 1
    BY <1>0, <1>1 DEF Popping, TurnerOK
  <2> QED
    BY <1>3, <2>1, <2>2, <2>3
<1>5. ReaderOK("popBump", l, q, i, k) /\ TurnerOK("popBump", l, q, i, k)
  BY <1>0, <1>1, <1>2, <1>4 DEF Popping, ReaderOK, TurnerOK
<1>6. PopFits("popBump", l)
  BY <1>1, <1>5 DEF PopFits, Popping
<1>7. \A j : j < R(Micro(c)) /\ Passes(c, j) => Passes(c, j)'
  BY <1>0, <1>2, <1>3, PassesKept
<1> QED
  BY <1>0, <1>2, <1>3, <1>6, <1>7, CalmPop, NothingNew

(* PopSpin keeps the invariant: lines 141-143.                            *)
LEMMA PopSpinInv ==
  ASSUME Roomy, Inv, Shape', NEW c \in Poppers, PopSpin(c)
  PROVE  Inv'
<1>0. pc[c] = "popSpin"
  BY DEF PopSpin
<1>1. PICK a, l, q, i, k : Popping(c, a, l, q, i, k)
  BY <1>0, PopIs
<1>2. /\ Shape /\ q \in Micros /\ QueueOK(q) /\ l \in Locals /\ Micro(c) = q
      /\ l = loc[c] /\ c \in Threads /\ i \in Rings(q) /\ a = pc[c]
      /\ loc[c].this = i /\ k \in Nat /\ k \in Places /\ Index(c) = At(q, k)
  BY <1>1 DEF Popping
<1>3. /\ Goto(c, "popData") /\ loc' = [loc EXCEPT ![c] = l]
      /\ UNCHANGED <<indexVars, m_queue, heap, m_pPool>> /\ delivered' = delivered
      /\ m_pPool[q][i][CellOf(heap[q][i], At(q, k))].m_nWrite
           = WrittenSign(heap[q][i], At(q, k))
  BY <1>2 DEF PopSpin, This, Pool, Shape, TypeOK
<1>4. Beg(q, i) <= k /\ k < Fin(q, i)
  BY <1>0, <1>1 DEF Popping, ReaderOK
<1>5. RingOK(q, i) /\ Res(q, i) <= k
  BY <1>2, <1>4, QueueIs
<1>6. Pushed(q, k)
  <2>1. Sg(q, i, k) = Sign(Lap(Size(q, i), k - Res(q, i))) + 1
    BY <1>2, <1>3, <1>5, CellHere
  <2> QED
    BY <1>2, <1>4, <2>1, ShowsWritten
<1>7. ReaderOK("popData", l, q, i, k) /\ TurnerOK("popData", l, q, i, k)
  BY <1>0, <1>1, <1>2, <1>6 DEF Popping, ReaderOK, TurnerOK
<1>8. PopFits("popData", l)
  BY <1>1, <1>7 DEF PopFits, Popping
<1>9. \A j : j < R(Micro(c)) /\ Passes(c, j) => Passes(c, j)'
  BY <1>0, <1>2, <1>3, PassesKept
<1> QED
  BY <1>0, <1>2, <1>3, <1>8, <1>9, CalmPop, NothingNew

(* The pop that has seen its ring drained up to its own index is alone. *)
LEMMA OneTurner ==
  ASSUME Inv, NEW c \in Poppers, NEW a, NEW l, NEW q, NEW i, NEW k,
         Popping(c, a, l, q, i, k), a # "popDone", Res(q, i) <= k,
         \A j \in Nat : Res(q, i) <= j /\ j < k => Done(q, j),
         NEW d \in Poppers, pc[d] \in {"popNext", "popBump", "popTurn"},
         Micro(d) = q, loc[d].this = i
  PROVE  d = c
<1>1. PICK b, m, x, y, z : Popping(d, b, m, x, y, z)
  BY PopIs
<1>2. x = q /\ y = i /\ b = pc[d] /\ z \in Nat /\ k \in Nat /\ z = K(d) /\ k = K(c)
      /\ Micro(c) = q /\ a = pc[c]
  BY <1>1 DEF Popping
<1>3. \A j \in Nat : Res(q, i) <= j /\ j < z => Done(q, j)
  BY <1>1, <1>2 DEF Popping, TurnerOK
<1>4. ~ Done(q, k) /\ ~ Done(q, z)
  BY <1>1, <1>2 DEF Popping
<1>5. Res(q, i) <= z
  <2>1. Beg(q, i) <= z /\ q \in Micros /\ i \in Rings(q) /\ Shape /\ QueueOK(q)
    BY <1>1, <1>2 DEF Popping, TurnerOK
  <2> QED
    BY <1>2, <2>1, QueueIs
<1>6. z = k
  BY <1>2, <1>3, <1>4, <1>5
<1> QED
  BY <1>2, <1>6 DEF Inv, UniqueOK

(* PopAwait keeps the invariant: lines 121-131.                           *)
LEMMA PopAwaitInv ==
  ASSUME Roomy, Inv, Shape', NEW c \in Poppers, PopAwait(c)
  PROVE  Inv'
<1>0. pc[c] = "popAwait"
  BY DEF PopAwait
<1>1. PICK a, l, q, i, k : Popping(c, a, l, q, i, k)
  BY <1>0, PopIs
<1>2. /\ Shape /\ q \in Micros /\ QueueOK(q) /\ l \in Locals /\ Micro(c) = q
      /\ l = loc[c] /\ c \in Threads /\ i \in Rings(q) /\ a = pc[c]
      /\ loc[c].this = i /\ k \in Nat /\ k \in Places /\ Index(c) = At(q, k)
      /\ l.scan \in Nat /\ ~ Done(q, k)
  BY <1>1 DEF Popping
<1>3. /\ RingOK(q, i) /\ Beg(q, i) \in Nat /\ Res(q, i) \in Nat
      /\ Res(q, i) <= Beg(q, i) /\ Size(q, i) \in Nat \ {0}
      /\ Fin(q, i) = Beg(q, i) + Size(q, i) /\ i \in Nat /\ R(q) \in Nat
      /\ RC(q) \in Nat
  BY <1>2, QueueIs
<1>4. /\ This(c) = heap[q][i] /\ Pool(c) = m_pPool[q][i]
      /\ This(c).m_nTotalSize = Size(q, i)
  BY <1>2, <1>3, Window
<1>5. /\ Beg(q, i) <= k /\ k <= Fin(q, i) /\ k - Res(q, i) >= Size(q, i)
      /\ (k - Res(q, i)) % Half(q, i) = 0 /\ Closed(q, i)
      /\ l.scan < Size(q, i) /\ i <= R(q)
      /\ \A j \in Nat : k - Size(q, i) <= j /\ j < k - Size(q, i) + l.scan =>
           Done(q, j)
  BY <1>0, <1>1, <1>2 DEF Popping, TurnerOK, ReaderOK
<1> DEFINE m == k - Size(q, i) + l.scan
           cell == ScanCell(This(c), Index(c), l.scan)
           sign == ScanSign(This(c), Index(c), l.scan)
<1>6. m \in Nat /\ Res(q, i) <= m /\ m < Fin(q, i)
  BY <1>2, <1>3, <1>5
<1>7. /\ m_pPool[q][i][cell].m_nWrite = Sg(q, i, m)
      /\ sign = Sign(Lap(Size(q, i), m - Res(q, i)))
  BY <1>2, <1>3, <1>4, <1>5, ScanHere
<1>8. Pool(c)[cell].m_nWrite = sign
  BY <1>2 DEF PopAwait
<1> HIDE DEF m, cell, sign
<1>9. Done(q, m)
  BY <1>2, <1>4, <1>6, <1>7, <1>8, ShowsRead
<1> DEFINE r == [l EXCEPT !.scan = l.scan + 1]
           label == IF l.scan + 1 = Size(q, i) THEN "popNext" ELSE "popAwait"
<1>10. /\ Goto(c, label) /\ loc' = [loc EXCEPT ![c] = r]
       /\ UNCHANGED <<indexVars, m_queue, heap, m_pPool>> /\ delivered' = delivered
  BY <1>2, <1>4 DEF PopAwait
<1>11. r.index = l.index /\ r.this = i /\ r.scan = l.scan + 1
  BY <1>2 DEF Locals
<1> HIDE DEF r
<1>12. \A j \in Nat : k - Size(q, i) <= j /\ j < k - Size(q, i) + r.scan =>
           Done(q, j)
  BY <1>2, <1>3, <1>5, <1>9, <1>11 DEF m
<1>13. ASSUME l.scan + 1 = Size(q, i)
       PROVE  /\ i = R(q) /\ RC(q) = R(q) - 1
              /\ \A j \in Nat : Res(q, i) <= j /\ j < k => Done(q, j)
  <2>1. \A j \in Nat : Res(q, i) <= j /\ j < k => Done(q, j)
    <3> SUFFICES ASSUME NEW j \in Nat, Res(q, i) <= j, j < k PROVE Done(q, j)
      OBVIOUS
    <3>1. CASE j < Beg(q, i)
      BY <1>2, <3>1 DEF QueueOK, PlacesOK
    <3>2. CASE ~ (j < Beg(q, i))
      BY <1>2, <1>3, <1>5, <1>11, <1>12, <1>13, <3>2
    <3> QED
      BY <3>1, <3>2
  <2>2. i = R(q)
    <3> SUFFICES ASSUME i < R(q) PROVE FALSE
      BY <1>3, <1>5
    <3>1. PICK z \in Nat : TurnedAt(q, i, z)
      BY <1>2 DEF QueueOK, TurnedOK
    <3>2. /\ Beg(q, i) <= z /\ z <= Fin(q, i)
          /\ \A j \in Nat : Res(q, i) <= j /\ j < z => Done(q, j)
          /\ z = Fin(q, i) \/ ~ Done(q, z)
      BY <3>1 DEF TurnedAt
    <3>3. z = k
      BY <1>2, <1>3, <1>5, <2>1, <3>2
    <3>4. PopAt(c, q, k)
      BY <1>0, <1>1 DEF PopAt, Popping
    <3> QED
      BY <1>0, <1>2, <1>3, <3>1, <3>3, <3>4 DEF TurnedAt
  <2>3. RC(q) = R(q) - 1
    <3> SUFFICES ASSUME RC(q) # R(q) - 1 PROVE FALSE
      OBVIOUS
    <3>1. PICK d \in Poppers : pc[d] = "popTurn" /\ Micro(d) = q
      BY <1>2 DEF QueueOK, PointersOK
    <3>2. PICK b, n, x, y, z : Popping(d, b, n, x, y, z)
      BY <3>1, PopIs
    <3>3. loc[d].this = i
      BY <2>2, <3>1, <3>2 DEF Popping, TurnerOK
    <3>4. d = c
      <4>1. a # "popDone" /\ Res(q, i) <= k /\ pc[d] \in {"popNext", "popBump", "popTurn"}
        BY <1>0, <1>2, <1>3, <1>5, <3>1
      <4> QED
        BY <1>1, <2>1, <3>1, <3>3, <4>1, OneTurner
    <3> QED
      BY <1>0, <3>1, <3>4
  <2> QED
    BY <2>1, <2>2, <2>3
<1>14. ReaderOK(label, r, q, i, k)
  BY <1>0, <1>1, <1>2, <1>11 DEF Popping, ReaderOK
<1>15. TurnerOK(label, r, q, i, k)
  <2>1. l.scan + 1 # Size(q, i) => r.scan < Size(q, i)
    BY <1>2, <1>3, <1>5, <1>11
  <2> QED
    BY <1>5, <1>11, <1>12, <1>13, <2>1 DEF TurnerOK
<1>16. PopFits(label, r)
  BY <1>1, <1>11, <1>14, <1>15 DEF PopFits, Popping
<1>17. \A j : j < R(Micro(c)) /\ Passes(c, j) => Passes(c, j)'
  BY <1>0, <1>2, <1>10, <1>11, PassesKept
<1> QED
  BY <1>0, <1>2, <1>10, <1>11, <1>16, <1>17, CalmPop, NothingNew

(* PopData keeps the invariant: line 144.                                 *)
LEMMA PopDataInv ==
  ASSUME Roomy, Inv, Shape', NEW c \in Poppers, PopData(c)
  PROVE  Inv'
<1>0. pc[c] = "popData"
  BY DEF PopData
<1>1. PICK a, l, q, i, k : Popping(c, a, l, q, i, k)
  BY <1>0, PopIs
<1>2. /\ Shape /\ q \in Micros /\ QueueOK(q) /\ l \in Locals /\ Micro(c) = q
      /\ l = loc[c] /\ c \in Threads /\ i \in Rings(q) /\ a = pc[c]
      /\ loc[c].this = i /\ k \in Nat /\ k \in Places /\ Index(c) = At(q, k)
      /\ ~ Done(q, k)
  BY <1>1 DEF Popping
<1>3. /\ Goto(c, "popClear") /\ loc' = [loc EXCEPT ![c] = l]
      /\ UNCHANGED <<indexVars, m_queue, heap, m_pPool>>
      /\ delivered' = delivered \cup
           {<<At(q, k), m_pPool[q][i][CellOf(heap[q][i], At(q, k))].m_pData>>}
  BY <1>2 DEF PopData, This, Pool, Shape, TypeOK
<1>4. Beg(q, i) <= k /\ k < Fin(q, i) /\ Pushed(q, k)
  BY <1>0, <1>1 DEF Popping, ReaderOK
<1>5. RingOK(q, i) /\ Res(q, i) <= k
  BY <1>2, <1>4, QueueIs
<1>6. Dt(q, i, k) = At(q, k)
  BY <1>2, <1>4 DEF QueueOK, CellsOK, CellOK
<1>7. delivered' = delivered \cup {<<At(q, k), At(q, k)>>}
  BY <1>2, <1>3, <1>5, <1>6, CellHere
<1>8. delivered \subseteq delivered' /\ DeliveredInOrder' /\ WasDelivered(At(q, k))'
  <2>1. At(q, k)' = At(q, k)
    BY DEF At
  <2>2. \A d \in delivered : d[1] = d[2]
    BY DEF Inv, DeliveredInOrder
  <2> SUFFICES ASSUME NEW n, n = At(q, k)
               PROVE  /\ delivered \subseteq delivered' /\ DeliveredInOrder'
                      /\ WasDelivered(n)'
    BY <2>1
  <2>3. delivered' = delivered \cup {<<n, n>>}
    BY <1>7
  <2>4. <<n, n>> \in delivered' /\ <<n, n>>[1] = n /\ <<n, n>>[2] = n
    BY <2>3
  <2>5. WasDelivered(n)'
    BY <2>4 DEF WasDelivered
  <2>6. DeliveredInOrder'
    BY <2>2, <2>3, <2>4 DEF DeliveredInOrder
  <2> QED
    BY <2>3, <2>5, <2>6
<1>9. PopFits("popClear", l)'
  <2>1. HeapSame /\ PointersSame
    BY <1>3, HeapFrame, PointersFrame
  <2>2. \A u \in Threads : u # c => Same(u)
    BY <1>2, <1>3, KeepFrame
  <2>3. PushedSame
    BY <1>2, <1>3, <2>2, InvTypes, PushedFrame DEF indexVars
  <2>4. ReaderOK("popClear", l, q, i, k)' /\ TurnerOK("popClear", l, q, i, k)'
    BY <1>0, <1>1, <1>2, <1>3, <1>4, <1>8, <2>1, <2>3
       DEF Popping, ReaderOK, TurnerOK, HeapSame, PointersSame, PushedSame, indexVars
  <2> QED
    BY <1>1, <2>4 DEF PopFits, Popping
<1>10. \A j : j < R(Micro(c)) /\ Passes(c, j) => Passes(c, j)'
  BY <1>0, <1>2, <1>3, PassesKept
<1> QED
  BY <1>0, <1>2, <1>3, <1>8, <1>9, <1>10, CalmPop

(* The threads other than t keep their facts: the part of a step's proof   *)
(* that is the same for every step that leaves rings, cells and pointers   *)
(* alone. *)
LEMMA OthersFit ==
  ASSUME Inv, NEW t \in Threads, \A u \in Threads : u # t => Same(u),
         HeapSame, PointersSame, CellsSame, DoneSame, PushedSame,
         \A n : WasDelivered(n) => WasDelivered(n)',
         m_nPreWriteIndex' \in Nat, m_nPreWriteIndex' >= m_nPreWriteIndex,
         m_nReadIndex' \in Nat, m_nReadIndex' >= m_nReadIndex
  PROVE  /\ \A p \in Pushers : p # t => PushFits(pc[p], loc[p])'
         /\ \A c \in Poppers : c # t => PopFits(pc[c], loc[c])'
<1>1. ASSUME NEW p \in Pushers, p # t PROVE PushFits(pc[p], loc[p])'
  <2> SUFFICES ASSUME NEW a, NEW l, a = pc[p], l = loc[p]
               PROVE  PushFits(pc[p], loc[p])'
    OBVIOUS
  <2>1. PushFits(a, l) /\ l.index \in Nat
    BY InvTypes DEF Inv, Index
  <2>2. PushFits(a, l)'
    BY <2>1, PushFitsFrame, InvTypes
  <2>3. pc'[p] = a /\ loc'[p] = l
    BY <1>1, InvTypes DEF Same
  <2> QED
    BY <2>2, <2>3
<1>2. ASSUME NEW c \in Poppers, c # t PROVE PopFits(pc[c], loc[c])'
  <2> SUFFICES ASSUME NEW a, NEW l, a = pc[c], l = loc[c]
               PROVE  PopFits(pc[c], loc[c])'
    OBVIOUS
  <2>1. PopFits(a, l) /\ l.index \in Nat
    BY InvTypes DEF Inv, Index
  <2>2. PopFits(a, l)'
    BY <2>1, PopFitsFrame, InvTypes
  <2>3. pc'[c] = a /\ loc'[c] = l
    BY <1>2, InvTypes DEF Same
  <2> QED
    BY <2>2, <2>3
<1> QED
  BY <1>1, <1>2

(* DrawPush keeps the invariant: a push draws its index.                  *)
LEMMA DrawPushInv ==
  ASSUME Roomy, Inv, Shape', NEW p \in Pushers, DrawPush(p)
  PROVE  Inv'
<1> SUFFICES ASSUME NEW n, n = m_nPreWriteIndex PROVE Inv'
  OBVIOUS
<1> DEFINE r == [NoCall EXCEPT !.index = n]
           q == MicroOf(n)
           k == PosOf(n)
<1>0. /\ pc[p] = "pushDone" /\ Goto(p, "pushEnter")
      /\ loc' = [loc EXCEPT ![p] = r] /\ n < Start + MaxPush
      /\ UNCHANGED <<m_queue, heap, m_pPool, delivered, m_nReadIndex>>
      /\ m_nPreWriteIndex' = n + 1
  BY DEF DrawPush, EnterPush, Start
<1>1. /\ Shape /\ p \in Threads /\ p \notin Poppers /\ n \in Nat
      /\ m_nReadIndex \in Nat /\ CountersOK
  BY InvTypes DEF Inv
<1>2. r.index = n /\ r.nested = FALSE
  BY DEF NoCall
<1>3. q \in Micros /\ k \in Nat /\ n = At(q, k) /\ Start <= n
  <2>1. Start <= n
    BY <1>1, Sizes DEF CountersOK
  <2> QED
    BY <1>1, <2>1, IndexPlace
<1> HIDE DEF r
<1>4. /\ pc'[p] = "pushEnter" /\ loc'[p] = r /\ Index(p)' = n /\ Micro(p)' = q
      /\ \A u \in Threads : u # p => Same(u)
  <2>1. /\ Shape /\ p \in Threads /\ Goto(p, "pushEnter")
        /\ loc' = [loc EXCEPT ![p] = r]
    BY <1>0, <1>1
  <2>2. /\ pc'[p] = "pushEnter" /\ loc'[p] = r
        /\ Index(p)' = r.index /\ Micro(p)' = MicroOf(r.index)
        /\ \A u \in Threads : u # p => Same(u)
    BY <2>1, ThreadFrame
  <2> QED
    BY <1>2, <2>2
<1>5. K(p)' = k
  BY <1>4 DEF K, PosOf
<1> HIDE DEF q, k
<1>6. HeapSame /\ PointersSame /\ CellsSame
  BY <1>0, HeapFrame, PointersFrame, CellsFrame
<1>7. DoneSame
  BY <1>0, <1>1, <1>4, DoneFrame
<1>8. PushedSame
  <2> SUFFICES ASSUME NEW x \in Micros, NEW y \in Nat
               PROVE  Pushed(x, y)' <=> Pushed(x, y)
    BY DEF PushedSame
  <2>1. At(x, y) \in Nat /\ At(x, y)' = At(x, y)
    BY PlaceIndex DEF At
  <2>2. At(x, y) = n <=> x = q /\ y = k
    BY <1>3, PlaceIndex
  <2>3. \A u \in Pushers : u # p => (PushAt(u, x, y)' <=> PushAt(u, x, y))
    BY <1>4, InvTypes DEF Same, PushAt
  <2>4. PushAt(p, x, y)' <=> At(x, y) = n
    BY <1>4, <1>5, <2>2 DEF PushAt
  <2>5. ~ PushAt(p, x, y)
    BY <1>0 DEF PushAt
  <2>6. At(x, y) < n + 1 /\ At(x, y) # n <=> At(x, y) < n
    BY <1>1, <2>1
  <2> QED
    BY <1>0, <2>1, <2>3, <2>4, <2>5, <2>6 DEF Pushed
<1>9. \A m : WasDelivered(m) => WasDelivered(m)'
  BY <1>0 DEF WasDelivered
<1>10. PushFits("pushEnter", r)'
  <2>0. QueueOK(q)
    BY <1>3 DEF Inv
  <2>1. ASSUME NEW i \in Rings(q), Closed(q, i), k = Fin(q, i) PROVE FALSE
    BY <1>1, <1>3, <2>0, <2>1, PlaceIndex DEF QueueOK, RingOK
  <2>2. ASSUME WC(q) = W(q) - 2, k = Res(q, W(q)) PROVE FALSE
    <3>1. /\ W(q) \in Nat /\ WC(q) \in Nat /\ W(q) \in Rings(q)
          /\ Rings(q) = 1 .. Len(heap[q]) /\ Len(heap[q]) \in Nat
      BY <1>1, <1>3, <2>0, QueueIs
    <3>2. W(q) - 1 \in Rings(q) /\ W(q) = (W(q) - 1) + 1 /\ W(q) - 1 < W(q)
      BY <2>2, <3>1
    <3>3. Closed(q, W(q) - 1) /\ Res(q, W(q)) = Fin(q, W(q) - 1)
      BY <2>0, <3>1, <3>2 DEF QueueOK, PointersOK, ChainOK
    <3> QED
      BY <2>1, <2>2, <3>2, <3>3
  <2>3. HolderOK("pushEnter", r, q, k)'
    BY <1>0, <1>1, <1>2, <1>3, <1>6, <2>1, <2>2 DEF HolderOK, HeapSame, PointersSame
  <2>4. EntryOK("pushEnter", r, q, r.this, k)' /\ CloserOK("pushEnter", r, q, r.this, k)'
        /\ GrowerOK("pushEnter", r, q, k)'
    BY DEF EntryOK, CloserOK, GrowerOK
  <2> QED
    BY <1>2, <2>3, <2>4 DEF PushFits, q, k
<1>11. /\ \A u \in Pushers : PushFits(pc[u], loc[u])'
       /\ \A c \in Poppers : PopFits(pc[c], loc[c])'
  <2>1. /\ \A u \in Pushers : u # p => PushFits(pc[u], loc[u])'
        /\ \A c \in Poppers : c # p => PopFits(pc[c], loc[c])'
    BY <1>0, <1>1, <1>4, <1>6, <1>7, <1>8, <1>9, OthersFit
  <2> QED
    BY <1>1, <1>4, <1>10, <2>1
<1>12. ASSUME NEW x \in Micros PROVE QueueOK(x)'
  <2>0. QueueOK(x) /\ m_nPreWriteIndex' \in Nat /\ m_nPreWriteIndex' >= n
    BY <1>0, <1>1 DEF Inv
  <2>1. \A i \in Rings(x)' : RingOK(x, i)'
    BY <1>1, <1>6, <2>0, RingOKFrame, InvTypes DEF QueueOK, HeapSame
  <2>2. \A c \in Poppers : Same(c)
    BY <1>1, <1>4, InvTypes
  <2>3. ChainOK(x)' /\ PointersOK(x)' /\ PlacesOK(x)' /\ CellsOK(x)'
    BY <1>6, <1>7, <1>8, <1>9, <2>0, <2>2, ChainOKFrame, PointersOKFrame,
       PlacesOKFrame, CellsOKFrame, InvTypes DEF QueueOK, Same
  <2>4. \A c \in Poppers : pc'[c] # "popDone" =>
           /\ pc[c] # "popDone" /\ Micro(c)' = Micro(c) /\ K(c)' = K(c)
           /\ \A i : i < R(Micro(c)) /\ Passes(c, i) => Passes(c, i)'
    BY <2>2 DEF Same, Passes
  <2>5. TurnedOK(x)'
    BY <1>0, <1>6, <1>7, <2>0, <2>4, TurnedOKFrame DEF QueueOK
  <2> QED
    BY <2>1, <2>3, <2>5 DEF QueueOK
<1>13. CountersOK' /\ DeliveredInOrder'
  BY <1>0, <1>1, Sizes, MaxPushAssumption DEF Inv, CountersOK, DeliveredInOrder
<1>14. UniqueOK'
  <2>1. ASSUME NEW u \in Pushers, u # p, pc'[u] # "pushDone", Micro(u)' = q, K(u)' = k
        PROVE  FALSE
    <3>1. Same(u)
      BY <1>4, <2>1, InvTypes
    <3>2. pc[u] # "pushDone" /\ Micro(u) = q /\ K(u) = k
      BY <2>1, <3>1 DEF Same
    <3>3. At(q, k) < m_nPreWriteIndex
      BY <3>2, PushFacts
    <3> QED
      BY <1>1, <1>3, <3>3
  <2>2. \A u, v \in Pushers : pc'[u] # "pushDone" /\ pc'[v] # "pushDone"
          /\ Micro(u)' = Micro(v)' /\ K(u)' = K(v)' => u = v
    <3> SUFFICES ASSUME NEW u \in Pushers, NEW v \in Pushers, pc'[u] # "pushDone",
                        pc'[v] # "pushDone", Micro(u)' = Micro(v)',
                        K(u)' = K(v)', u # v
                 PROVE  FALSE
      OBVIOUS
    <3>1. u # p /\ v # p
      BY <1>4, <1>5, <2>1
    <3> QED
      BY <1>4, <3>1, InvTypes DEF Inv, UniqueOK, Same
  <2>3. \A c, d \in Poppers : pc'[c] # "popDone" /\ pc'[d] # "popDone"
          /\ Micro(c)' = Micro(d)' /\ K(c)' = K(d)' => c = d
    BY <1>1, <1>4, InvTypes DEF Inv, UniqueOK, Same
  <2> QED
    BY <2>2, <2>3 DEF UniqueOK
<1> QED
  BY <1>11, <1>12, <1>13, <1>14 DEF Inv

(* DrawPop keeps the invariant: a pop draws its index.                    *)
LEMMA DrawPopInv ==
  ASSUME Roomy, Inv, Shape', NEW c \in Poppers, DrawPop(c)
  PROVE  Inv'
<1> SUFFICES ASSUME NEW n, n = m_nReadIndex PROVE Inv'
  OBVIOUS
<1> DEFINE r == [NoCall EXCEPT !.index = n]
           q == MicroOf(n)
           k == PosOf(n)
<1>0. /\ pc[c] = "popDone" /\ Goto(c, "popEnter")
      /\ loc' = [loc EXCEPT ![c] = r] /\ n < m_nPreWriteIndex
      /\ UNCHANGED <<m_queue, heap, m_pPool, delivered, m_nPreWriteIndex>>
      /\ m_nReadIndex' = n + 1
  BY DEF DrawPop, EnterPop
<1>1. /\ Shape /\ c \in Threads /\ c \notin Pushers /\ n \in Nat
      /\ m_nPreWriteIndex \in Nat /\ CountersOK
  BY InvTypes DEF Inv
<1>2. r.index = n
  BY DEF NoCall
<1>3. q \in Micros /\ k \in Nat /\ n = At(q, k) /\ Start <= n
  <2>1. Start <= n
    BY <1>1, Sizes DEF CountersOK
  <2> QED
    BY <1>1, <2>1, IndexPlace
<1> HIDE DEF r
<1>4. /\ pc'[c] = "popEnter" /\ loc'[c] = r /\ Index(c)' = n /\ Micro(c)' = q
      /\ \A u \in Threads : u # c => Same(u)
  BY <1>0, <1>1, <1>2, ThreadFrame
<1>5. K(c)' = k
  BY <1>4 DEF K, PosOf
<1> HIDE DEF q, k
<1>6. HeapSame /\ PointersSame /\ CellsSame
  BY <1>0, HeapFrame, PointersFrame, CellsFrame
<1>7. PushedSame
  BY <1>0, <1>1, <1>4, PushedFrame
<1>8. DoneSame
  <2> SUFFICES ASSUME NEW x \in Micros, NEW y \in Nat
               PROVE  Done(x, y)' <=> Done(x, y)
    BY DEF DoneSame
  <2>1. At(x, y) \in Nat /\ At(x, y)' = At(x, y)
    BY PlaceIndex DEF At
  <2>2. At(x, y) = n <=> x = q /\ y = k
    BY <1>3, PlaceIndex
  <2>3. \A u \in Poppers : u # c => (PopAt(u, x, y)' <=> PopAt(u, x, y))
    BY <1>4, InvTypes DEF Same, PopAt
  <2>4. PopAt(c, x, y)' <=> At(x, y) = n
    BY <1>4, <1>5, <2>2 DEF PopAt
  <2>5. ~ PopAt(c, x, y)
    BY <1>0 DEF PopAt
  <2>6. At(x, y) < n + 1 /\ At(x, y) # n <=> At(x, y) < n
    BY <1>1, <2>1
  <2> QED
    BY <1>0, <2>1, <2>3, <2>4, <2>5, <2>6 DEF Done
<1>9. \A m : WasDelivered(m) => WasDelivered(m)'
  BY <1>0 DEF WasDelivered
<1>10. PopFits("popEnter", r)'
  <2>3. ReaderOK("popEnter", r, q, r.this, k)'
    BY <1>0, <1>1, <1>2, <1>3 DEF ReaderOK
  <2>4. TurnerOK("popEnter", r, q, r.this, k)'
    BY DEF TurnerOK
  <2> QED
    BY <1>2, <2>3, <2>4 DEF PopFits, q, k
<1>11. /\ \A u \in Pushers : PushFits(pc[u], loc[u])'
       /\ \A d \in Poppers : PopFits(pc[d], loc[d])'
  <2>0. m_nReadIndex' \in Nat /\ m_nReadIndex' >= m_nReadIndex
    BY <1>0, <1>1
  <2>1. /\ \A u \in Pushers : u # c => PushFits(pc[u], loc[u])'
        /\ \A d \in Poppers : d # c => PopFits(pc[d], loc[d])'
    BY <1>0, <1>1, <1>4, <1>6, <1>7, <1>8, <1>9, <2>0, OthersFit
  <2> QED
    BY <1>1, <1>4, <1>10, <2>1
<1>12. ASSUME NEW x \in Micros PROVE QueueOK(x)'
  <2>0. QueueOK(x) /\ m_nPreWriteIndex' \in Nat /\ m_nPreWriteIndex' >= m_nPreWriteIndex
    BY <1>0, <1>1 DEF Inv
  <2>1. \A i \in Rings(x)' : RingOK(x, i)'
    BY <1>1, <1>6, <2>0, RingOKFrame, InvTypes DEF QueueOK, HeapSame
  <2>2. \A d \in Poppers : pc[d] = "popTurn" =>
          pc'[d] = "popTurn" /\ Micro(d)' = Micro(d)
    BY <1>0, <1>1, <1>4, InvTypes DEF Same
  <2>3. ChainOK(x)' /\ PointersOK(x)' /\ PlacesOK(x)' /\ CellsOK(x)'
    BY <1>6, <1>7, <1>8, <1>9, <2>0, <2>2, ChainOKFrame, PointersOKFrame,
       PlacesOKFrame, CellsOKFrame, InvTypes DEF QueueOK
  <2>4. ASSUME NEW i \in Rings(x), NEW y \in Nat, TurnedAt(x, i, y)
        PROVE  TurnedAt(x, i, y)'
    <3>1. At(x, y) \in Nat /\ At(x, y)' = At(x, y) /\ At(x, y) < n
      BY <2>4, PlaceIndex DEF At, TurnedAt
    <3>2. ~ PopAt(c, x, y)'
      BY <1>3, <1>4, <1>5, <3>1 DEF PopAt
    <3>3. \A d \in Poppers : PopAt(d, x, y)' =>
            pc'[d] \in {"popRelease", "popRetry"} \/ loc'[d].this > i
      BY <1>4, <2>4, <3>2, InvTypes DEF Same, PopAt, TurnedAt
    <3>4. At(x, y)' < m_nReadIndex'
      BY <1>0, <1>1, <3>1
    <3> QED
      BY <1>6, <1>8, <2>4, <3>3, <3>4 DEF TurnedAt, HeapSame, DoneSame
  <2>5. TurnedOK(x)'
    BY <1>6, <2>0, <2>4 DEF QueueOK, TurnedOK, HeapSame, PointersSame
  <2> QED
    BY <2>1, <2>3, <2>5 DEF QueueOK
<1>13. CountersOK' /\ DeliveredInOrder'
  BY <1>0, <1>1, Sizes, MaxPushAssumption DEF Inv, CountersOK, DeliveredInOrder
<1>14. UniqueOK'
  <2>1. ASSUME NEW u \in Poppers, u # c, pc'[u] # "popDone", Micro(u)' = q, K(u)' = k
        PROVE  FALSE
    <3>1. Same(u)
      BY <1>4, <2>1, InvTypes
    <3>2. pc[u] # "popDone" /\ Micro(u) = q /\ K(u) = k
      BY <2>1, <3>1 DEF Same
    <3>3. At(q, k) < m_nReadIndex
      BY <3>2, PopIs DEF Popping
    <3> QED
      BY <1>1, <1>3, <3>3
  <2>2. \A u, v \in Poppers : pc'[u] # "popDone" /\ pc'[v] # "popDone"
          /\ Micro(u)' = Micro(v)' /\ K(u)' = K(v)' => u = v
    <3> SUFFICES ASSUME NEW u \in Poppers, NEW v \in Poppers, pc'[u] # "popDone",
                        pc'[v] # "popDone", Micro(u)' = Micro(v)',
                        K(u)' = K(v)', u # v
                 PROVE  FALSE
      OBVIOUS
    <3>1. u # c /\ v # c
      BY <1>4, <1>5, <2>1
    <3> QED
      BY <1>4, <3>1, InvTypes DEF Inv, UniqueOK, Same
  <2>3. \A u, v \in Pushers : pc'[u] # "pushDone" /\ pc'[v] # "pushDone"
          /\ Micro(u)' = Micro(v)' /\ K(u)' = K(v)' => u = v
    BY <1>1, <1>4, InvTypes DEF Inv, UniqueOK, Same
  <2> QED
    BY <2>2, <2>3 DEF UniqueOK
<1> QED
  BY <1>11, <1>12, <1>13, <1>14 DEF Inv

---------------------------------------------------------------------------

(***************************************************************************)
(* Steps that write shared memory.                                         *)
(***************************************************************************)

(* A micro queue of which a step changes nothing, unless it frees a pool.  *)
QueueSame(x) ==
  /\ Rings(x)' = Rings(x) /\ Len(heap[x])' = Len(heap[x])
  /\ \A i \in Rings(x) :
            /\ heap[x][i].m_nResBeginIndex' = heap[x][i].m_nResBeginIndex
            /\ heap[x][i].m_nBeginIndex' = heap[x][i].m_nBeginIndex
            /\ Res(x, i)' = Res(x, i) /\ Beg(x, i)' = Beg(x, i)
            /\ Size(x, i)' = Size(x, i) /\ Half(x, i)' = Half(x, i)
            /\ Fin(x, i)' = Fin(x, i) /\ Closed(x, i)' = Closed(x, i)
  /\ W(x)' = W(x) /\ R(x)' = R(x) /\ WC(x)' = WC(x) /\ RC(x)' = RC(x)
  /\ \A s \in Slots : 
       (s < W(x) \/ s = W(x)) /\ Slot(x, s) = s + 1 => Slot(x, s)' = s + 1
  /\ \A i \in Rings(x) : \A k : Sg(x, i, k)' = Sg(x, i, k) /\ Dt(x, i, k)' = Dt(x, i, k)
  /\ \A k \in Nat : Done(x, k)' <=> Done(x, k)
  /\ \A k \in Nat : Pushed(x, k)' <=> Pushed(x, k)

(* A step of thread t in micro queue q that draws and delivers nothing. *)
Within(t, q) ==
  /\ t \in Threads /\ q \in Micros /\ Micro(t) = q
  /\ pc[t] \notin {"pushDone", "popDone"}
  /\ \A u \in Threads : u # t => Same(u)
  /\ \/ pc'[t] \in {"pushDone", "popDone"}
     \/ Micro(t)' = Micro(t) /\ K(t)' = K(t)
  /\ \A x \in Micros : x # q =>
       heap'[x] = heap[x] /\ m_queue'[x] = m_queue[x] /\ m_pPool'[x] = m_pPool[x]
  /\ m_nPreWriteIndex' = m_nPreWriteIndex /\ m_nReadIndex' = m_nReadIndex
  /\ delivered' = delivered

(* A step in one micro queue leaves the others alone.                     *)
LEMMA Elsewhere ==
  ASSUME Inv, Shape', NEW t, NEW q, Within(t, q), NEW x \in Micros, x # q
  PROVE  QueueSame(x)
<1>0. heap'[x] = heap[x] /\ m_queue'[x] = m_queue[x] /\ m_pPool'[x] = m_pPool[x]
  BY DEF Within
<1>1. /\ Rings(x)' = Rings(x) /\ Len(heap[x])' = Len(heap[x])
      /\ \A i \in Rings(x) :
            /\ heap[x][i].m_nResBeginIndex' = heap[x][i].m_nResBeginIndex
                /\ heap[x][i].m_nBeginIndex' = heap[x][i].m_nBeginIndex
                /\ Res(x, i)' = Res(x, i) /\ Beg(x, i)' = Beg(x, i)
                /\ Size(x, i)' = Size(x, i) /\ Half(x, i)' = Half(x, i)
                /\ Fin(x, i)' = Fin(x, i) /\ Closed(x, i)' = Closed(x, i)
  BY <1>0 DEF Rings, Res, Beg, Size, Half, Fin, Closed
<1>2. /\ W(x)' = W(x) /\ R(x)' = R(x) /\ WC(x)' = WC(x) /\ RC(x)' = RC(x)
      /\ \A s : Slot(x, s)' = Slot(x, s)
  BY <1>0 DEF W, R, WC, RC, Slot
<1>3. \A i \in Rings(x) : \A k : Sg(x, i, k)' = Sg(x, i, k) /\ Dt(x, i, k)' = Dt(x, i, k)
  BY <1>0, <1>1 DEF Sg, Dt
<1>4. ASSUME NEW k \in Nat
      PROVE (Done(x, k)' <=> Done(x, k)) /\ (Pushed(x, k)' <=> Pushed(x, k))
  <2>1. \A u \in Poppers : PopAt(u, x, k)' <=> PopAt(u, x, k)
    <3> SUFFICES ASSUME NEW u \in Poppers PROVE PopAt(u, x, k)' <=> PopAt(u, x, k)
      OBVIOUS
    <3>1. CASE u = t
      <4>1. pc'[u] \in PopLabels
        BY DEF Shape, TypeOK
      <4>2. pc'[u] # "pushDone"
        BY <4>1 DEF PopLabels
      <4> QED
        BY <3>1, <4>2 DEF Within, PopAt
    <3>2. CASE u # t
      BY <3>2, InvTypes DEF Within, Same, PopAt
    <3> QED
      BY <3>1, <3>2
  <2>2. \A u \in Pushers : PushAt(u, x, k)' <=> PushAt(u, x, k)
    <3> SUFFICES ASSUME NEW u \in Pushers PROVE PushAt(u, x, k)' <=> PushAt(u, x, k)
      OBVIOUS
    <3>1. CASE u = t
      <4>1. pc'[u] \in PushLabels
        BY DEF Shape, TypeOK
      <4>2. pc'[u] # "popDone"
        BY <4>1 DEF PushLabels
      <4> QED
        BY <3>1, <4>2 DEF Within, PushAt
    <3>2. CASE u # t
      BY <3>2, InvTypes DEF Within, Same, PushAt
    <3> QED
      BY <3>1, <3>2
  <2>3. At(x, k)' = At(x, k)
    BY DEF At
  <2> QED
    BY <2>1, <2>2, <2>3 DEF Done, Pushed, Within
<1> QED
  BY <1>1, <1>2, <1>3, <1>4 DEF QueueSame

(* What is said of a micro queue survives a step that leaves it alone.    *)
LEMMA QueueFrame ==
  ASSUME Inv, NEW x \in Micros, QueueSame(x),
         m_nPreWriteIndex' = m_nPreWriteIndex, m_nReadIndex' = m_nReadIndex,
         delivered' = delivered,
         \A i \in Rings(x) : Freed(x, i)' => Freed(x, i) \/ i < R(x),
         \A d \in Poppers : pc[d] = "popTurn" /\ Micro(d) = x =>
           pc'[d] = "popTurn" /\ Micro(d)' = x,
         \A d \in Poppers : \A y : PopAt(d, x, y)' =>
           PopAt(d, x, y) /\ \A i : i < R(x) /\ Passes(d, i) => Passes(d, i)'
  PROVE  QueueOK(x)'
<1>0. QueueOK(x) /\ W(x) \in Rings(x) /\ 1 \in Rings(x)
  BY QueueTypes DEF Inv
<1>1. /\ \A k : At(x, k)' = At(x, k)
      /\ \A n : WasDelivered(n)' <=> WasDelivered(n)
  BY DEF At, WasDelivered
<1>4. \A i \in Rings(x)' : RingOK(x, i)'
  <2>1. ASSUME NEW i \in Rings(x) PROVE RingOK(x, i)'
    <3>1. RingOK(x, i)
      BY <1>0 DEF QueueOK
    <3>2. /\ At(x, Res(x, i))' = At(x, Res(x, i))
          /\ At(x, Beg(x, i))' = At(x, Beg(x, i))
          /\ At(x, Fin(x, i))' = At(x, Fin(x, i))
      BY <1>0 DEF QueueSame, At
    <3> QED
      BY <1>0, <1>1, <3>1, <3>2 DEF QueueSame, RingOK
  <2> QED
    BY <1>0, <2>1 DEF QueueSame
<1>5. ChainOK(x)'
  BY <1>0 DEF QueueOK, QueueSame, ChainOK
<1>6. PointersOK(x)'
  <2>2. Pushed(x, Res(x, W(x)))' <=> Pushed(x, Res(x, W(x)))
    <3> SUFFICES ASSUME NEW m, m = Res(x, W(x)) PROVE Pushed(x, m)' <=> Pushed(x, m)
      BY <1>0 DEF QueueSame
    <3>1. m \in Nat
      BY InvTypes
    <3> QED
      BY <1>0, <3>1 DEF QueueSame
  <2> QED
    BY <1>0, <2>2 DEF QueueOK, QueueSame, PointersOK
<1>7. PlacesOK(x)'
  BY <1>0, <1>1 DEF QueueOK, QueueSame, PlacesOK
<1>8. CellsOK(x)'
  <2>1. ASSUME NEW i \in Rings(x), NEW k \in Nat, CellOK(x, i, k) PROVE CellOK(x, i, k)'
    BY <1>0, <1>1, <2>1 DEF QueueSame, CellOK
  <2> QED
    BY <1>0, <2>1 DEF QueueOK, QueueSame, CellsOK
<1>9. TurnedOK(x)'
  <2>1. ASSUME NEW i \in Rings(x), i < R(x), NEW y \in Nat, TurnedAt(x, i, y)
        PROVE  TurnedAt(x, i, y)'
    <3>1. \A d \in Poppers : PopAt(d, x, y)' =>
            pc'[d] \in {"popRelease", "popRetry"} \/ loc'[d].this > i
      BY <2>1 DEF Passes, TurnedAt
    <3> QED
      BY <1>0, <1>1, <2>1, <3>1 DEF TurnedAt, QueueSame
  <2> QED
    BY <1>0, <2>1 DEF QueueOK, TurnedOK, QueueSame
<1> QED
  BY <1>4, <1>5, <1>6, <1>7, <1>8, <1>9 DEF QueueOK

(* So every other micro queue stays as it is.                             *)
LEMMA QueueKept ==
  ASSUME Inv, Shape', NEW t, NEW q, Within(t, q), NEW x \in Micros, x # q
  PROVE  QueueOK(x)'
<1>1. /\ m_nPreWriteIndex' = m_nPreWriteIndex /\ m_nReadIndex' = m_nReadIndex
      /\ delivered' = delivered /\ heap'[x] = heap[x]
  BY DEF Within
<1>2. \A d \in Poppers : Micro(d) = x => Same(d)
  BY InvTypes DEF Within
<1>3. \A d \in Poppers : Micro(d)' = x /\ pc'[d] # "popDone" => Same(d)
  <2> SUFFICES ASSUME NEW d \in Poppers, Micro(d)' = x, pc'[d] # "popDone",
                      ~ Same(d)
               PROVE  FALSE
    OBVIOUS
  <2>1. d = t
    BY InvTypes DEF Within
  <2>2. pc'[d] \in PopLabels
    BY DEF Shape, TypeOK
  <2>3. pc'[d] # "pushDone"
    BY <2>2 DEF PopLabels
  <2> QED
    BY <2>1, <2>3 DEF Within
<1>4. \A d \in Poppers : \A y : PopAt(d, x, y)' =>
        PopAt(d, x, y) /\ \A i : i < R(x) /\ Passes(d, i) => Passes(d, i)'
  BY <1>3 DEF PopAt, Same, Passes
<1>5. \A i \in Rings(x) : Freed(x, i)' => Freed(x, i)
  BY <1>1 DEF Freed
<1>6. \A d \in Poppers : pc[d] = "popTurn" /\ Micro(d) = x =>
        pc'[d] = "popTurn" /\ Micro(d)' = x
  BY <1>2 DEF Same
<1> QED
  BY <1>1, <1>4, <1>5, <1>6, Elsewhere, QueueFrame

(* The facts of a thread of a micro queue that is left alone. *)
LEMMA PushKept ==
  ASSUME NEW a, NEW l, NEW x \in Micros, x = MicroOf(l.index), l.index \in Nat,
         PushFits(a, l), QueueSame(x), m_nPreWriteIndex' = m_nPreWriteIndex,
         Shape, l.this \in Rings(x), l.own \in Rings(x)
  PROVE  PushFits(a, l)'
<1>0. MicroOf(l.index)' = x /\ PosOf(l.index)' = PosOf(l.index)
  BY DEF MicroOf, PosOf, Word
<1> SUFFICES ASSUME NEW k, k = PosOf(l.index), NEW i, i = l.this PROVE PushFits(a, l)'
  OBVIOUS
<1>5. W(x) \in Rings(x)
  BY QueueTypes
<1>1. HolderOK(a, l, x, k)'
  BY <1>5 DEF PushFits, HolderOK, QueueSame
<1>2. EntryOK(a, l, x, i, k)'
  BY <1>5 DEF PushFits, EntryOK, QueueSame
<1>3. CloserOK(a, l, x, i, k)'
  <2>1. CloserOK(a, l, x, i, k)
    BY DEF PushFits
  <2> QED
    BY <1>5, <2>1 DEF CloserOK, QueueSame
<1>4. GrowerOK(a, l, x, k)'
  BY <1>5 DEF PushFits, GrowerOK, QueueSame
<1> QED
  BY <1>0, <1>1, <1>2, <1>3, <1>4 DEF PushFits

(* The same for a pop.                                                    *)
LEMMA PopKept ==
  ASSUME NEW a, NEW l, NEW x \in Micros, x = MicroOf(l.index), l.index \in Nat,
         PopFits(a, l), QueueSame(x), m_nReadIndex' = m_nReadIndex,
         delivered' = delivered, a # "popDone", Shape, l.this \in Rings(x)
  PROVE  PopFits(a, l)'
<1> SUFFICES ASSUME NEW k, k = PosOf(l.index), NEW i, i = l.this PROVE PopFits(a, l)'
  OBVIOUS
<1>0. MicroOf(l.index)' = x /\ PosOf(l.index)' = k
  BY DEF MicroOf, PosOf, Word
<1>1. ReaderOK(a, l, x, i, k) /\ TurnerOK(a, l, x, i, k)
  BY DEF PopFits
<1>2. k \in Nat
  BY <1>1, IndexPlace DEF ReaderOK
<1>3. WasDelivered(At(x, k))' <=> WasDelivered(At(x, k))
  BY DEF WasDelivered, At
<1>4. ReaderOK(a, l, x, i, k)'
  BY <1>1, <1>2, <1>3 DEF ReaderOK, QueueSame
<1>5. TurnerOK(a, l, x, i, k)'
  BY <1>1 DEF TurnerOK, QueueSame
<1> QED
  BY <1>0, <1>4, <1>5 DEF PopFits

(* A step in micro queue q keeps the invariant when it keeps q's part of   *)
(* it. *)
LEMMA StepWithin ==
  ASSUME Inv, Shape', NEW t, NEW q, Within(t, q), QueueOK(q)',
         \A u \in Pushers : \A a, l, i, k : u # t /\ a # "pushDone"
           /\ Pushing(u, a, l, q, i, k) => PushFits(a, l)',
         \A u \in Poppers : \A a, l, i, k : u # t /\ a # "popDone"
           /\ Popping(u, a, l, q, i, k) => PopFits(a, l)',
         t \in Pushers => PushFits(pc[t], loc[t])',
         t \in Poppers => PopFits(pc[t], loc[t])'
  PROVE  Inv'
<1>0. /\ m_nPreWriteIndex' = m_nPreWriteIndex /\ m_nReadIndex' = m_nReadIndex
      /\ delivered' = delivered
  BY DEF Within
<1>1. CountersOK' /\ DeliveredInOrder'
  BY <1>0 DEF Inv, CountersOK, DeliveredInOrder
<1>2. \A x \in Micros : QueueOK(x)'
  BY QueueKept
<1>3. ASSUME NEW u \in Pushers PROVE PushFits(pc[u], loc[u])'
  <2>1. CASE u = t
    BY <2>1
  <2>2. CASE u # t
    <3> SUFFICES ASSUME NEW a, NEW l, a = pc[u], l = loc[u]
                 PROVE  PushFits(pc[u], loc[u])'
      OBVIOUS
    <3>1. PushFits(a, l) /\ l.index \in Nat /\ MicroOf(l.index) \in Micros /\ Same(u)
          /\ Micro(u) = MicroOf(l.index) /\ Shape
          /\ l.this \in Rings(Micro(u)) /\ l.own \in Rings(Micro(u))
      BY <2>2, InvTypes, ThreadTypes DEF Inv, Index, Within, Micro
    <3>2. CASE a = "pushDone"
      <4>1. PushFits("pushDone", l)'
        BY DEF PushFits, HolderOK, EntryOK, CloserOK, GrowerOK
      <4> QED
        BY <3>1, <3>2, <4>1 DEF Same
    <3>3. CASE a # "pushDone" /\ Micro(u) = q
      <4>1. PICK b, m, x, i, k : Pushing(u, b, m, x, i, k)
        BY <3>3, PushIs
      <4>2. b = a /\ m = l /\ x = q
        BY <3>3, <4>1 DEF Pushing
      <4>3. PushFits(a, l)'
        BY <2>2, <3>3, <4>1, <4>2
      <4> QED
        BY <3>1, <4>3 DEF Same
    <3>4. CASE Micro(u) # q
      <4>1. PICK x : x = MicroOf(l.index)
        OBVIOUS
      <4>2. QueueSame(x)
        BY <3>1, <3>4, <4>1, Elsewhere
      <4>3. PushFits(a, l)'
        BY <1>0, <3>1, <4>1, <4>2, PushKept
      <4> QED
        BY <3>1, <4>3 DEF Same
    <3> QED
      BY <3>2, <3>3, <3>4
  <2> QED
    BY <2>1, <2>2
<1>4. ASSUME NEW u \in Poppers PROVE PopFits(pc[u], loc[u])'
  <2>1. CASE u = t
    BY <2>1
  <2>2. CASE u # t
    <3> SUFFICES ASSUME NEW a, NEW l, a = pc[u], l = loc[u]
                 PROVE  PopFits(pc[u], loc[u])'
      OBVIOUS
    <3>1. PopFits(a, l) /\ l.index \in Nat /\ MicroOf(l.index) \in Micros /\ Same(u)
          /\ Micro(u) = MicroOf(l.index) /\ Shape
          /\ l.this \in Rings(Micro(u)) /\ l.own \in Rings(Micro(u))
      BY <2>2, InvTypes, ThreadTypes DEF Inv, Index, Within, Micro
    <3>2. CASE a = "popDone"
      <4>1. PopFits("popDone", l)'
        BY DEF PopFits, ReaderOK, TurnerOK
      <4> QED
        BY <3>1, <3>2, <4>1 DEF Same
    <3>3. CASE a # "popDone" /\ Micro(u) = q
      <4>1. PICK b, m, x, i, k : Popping(u, b, m, x, i, k)
        BY <3>3, PopIs
      <4>2. b = a /\ m = l /\ x = q
        BY <3>3, <4>1 DEF Popping
      <4>3. PopFits(a, l)'
        BY <2>2, <3>3, <4>1, <4>2
      <4> QED
        BY <3>1, <4>3 DEF Same
    <3>4. CASE a # "popDone" /\ Micro(u) # q
      <4>1. PICK x : x = MicroOf(l.index)
        OBVIOUS
      <4>2. QueueSame(x)
        BY <3>1, <3>4, <4>1, Elsewhere
      <4>3. PopFits(a, l)'
        BY <1>0, <3>1, <3>4, <4>1, <4>2, PopKept
      <4> QED
        BY <3>1, <4>3 DEF Same
    <3> QED
      BY <3>2, <3>3, <3>4
  <2> QED
    BY <2>1, <2>2
<1>5. UniqueOK'
  <2>1. \A u \in Pushers : pc'[u] # "pushDone" =>
          pc[u] # "pushDone" /\ Micro(u)' = Micro(u) /\ K(u)' = K(u)
    <3> SUFFICES ASSUME NEW u \in Pushers, pc'[u] # "pushDone"
                 PROVE  pc[u] # "pushDone" /\ Micro(u)' = Micro(u) /\ K(u)' = K(u)
      OBVIOUS
    <3>1. pc'[u] # "popDone"
      BY DEF Shape, TypeOK, PushLabels
    <3> QED
      BY <3>1, InvTypes DEF Within, Same
  <2>2. \A u \in Poppers : pc'[u] # "popDone" =>
          pc[u] # "popDone" /\ Micro(u)' = Micro(u) /\ K(u)' = K(u)
    <3> SUFFICES ASSUME NEW u \in Poppers, pc'[u] # "popDone"
                 PROVE  pc[u] # "popDone" /\ Micro(u)' = Micro(u) /\ K(u)' = K(u)
      OBVIOUS
    <3>1. pc'[u] # "pushDone"
      BY DEF Shape, TypeOK, PopLabels
    <3> QED
      BY <3>1, InvTypes DEF Within, Same
  <2> QED
    BY <2>1, <2>2 DEF Inv, UniqueOK
<1> QED
  BY <1>1, <1>2, <1>3, <1>4, <1>5 DEF Inv

(* A step of a thread that goes on with its index. *)
LEMMA KeepWithin ==
  ASSUME Inv, NEW t \in Threads, NEW q, q = Micro(t), NEW label, NEW r,
         Goto(t, label), loc' = [loc EXCEPT ![t] = r], r.index = loc[t].index,
         pc[t] \notin {"pushDone", "popDone"}, label \notin {"pushDone", "popDone"},
         m_nPreWriteIndex' = m_nPreWriteIndex, m_nReadIndex' = m_nReadIndex,
         delivered' = delivered,
         \A x \in Micros : x # q =>
           heap'[x] = heap[x] /\ m_queue'[x] = m_queue[x] /\ m_pPool'[x] = m_pPool[x]
  PROVE  /\ Within(t, q) /\ DoneSame /\ PushedSame
         /\ Micro(t)' = Micro(t) /\ K(t)' = K(t) /\ Index(t)' = Index(t)
         /\ \A u \in Threads : u # t => Same(u)
<1>1. /\ pc'[t] = label /\ loc'[t] = r
      /\ Index(t)' = Index(t) /\ Micro(t)' = Micro(t) /\ K(t)' = K(t)
      /\ \A u \in Threads : u # t => Same(u)
  BY KeepFrame DEF Inv
<1>2. Micro(t) \in Micros
  BY InvTypes
<1>3. DoneSame
  BY <1>1, DoneFrame
<1>4. PushedSame
  BY <1>1, PushedFrame
<1> QED
  BY <1>1, <1>2, <1>3, <1>4 DEF Within

(* A step turns ring i of micro queue q into f and leaves every other ring *)
(* as it is. *)
OnlyRing(q, i, f) ==
  /\ \A x \in Micros : x # q => heap'[x] = heap[x]
  /\ Rings(q)' = Rings(q) /\ Len(heap[q])' = Len(heap[q])
  /\ heap'[q][i] = f
  /\ \A j \in Rings(q) : j # i =>
       /\ heap'[q][j] = heap[q][j]
       /\ Res(q, j)' = Res(q, j) /\ Beg(q, j)' = Beg(q, j)
       /\ Size(q, j)' = Size(q, j) /\ Half(q, j)' = Half(q, j)
       /\ Fin(q, j)' = Fin(q, j) /\ Closed(q, j)' = Closed(q, j)
       /\ Freed(q, j)' = Freed(q, j)

(* Rewriting a ring's record is such a step.                              *)
LEMMA RingChange ==
  ASSUME Shape, NEW q \in Micros, NEW i \in Rings(q), NEW f,
         heap' = [heap EXCEPT ![q] = [heap[q] EXCEPT ![i] = f]]
  PROVE  OnlyRing(q, i, f)
<1>1. heap \in [Micros -> Seq(Ring)]
  BY DEF Shape, TypeOK
<1>2. /\ heap'[q] = [heap[q] EXCEPT ![i] = f]
      /\ \A x \in Micros : x # q => heap'[x] = heap[x]
  BY <1>1
<1>3. heap[q] \in Seq(Ring)
  BY <1>1
<1>4. /\ DOMAIN heap'[q] = DOMAIN heap[q] /\ DOMAIN heap[q] = 1 .. Len(heap[q])
      /\ Len(heap[q]) \in Nat /\ Rings(q) = 1 .. Len(heap[q])
  BY <1>2, <1>3 DEF Rings
<1>5. Len(heap'[q]) = Len(heap[q])
  BY <1>2, <1>3, <1>4
<1>6. heap'[q][i] = f /\ \A j \in Rings(q) : j # i => heap'[q][j] = heap[q][j]
  BY <1>2, <1>4
<1>7. Rings(q)' = Rings(q)
  BY <1>5 DEF Rings
<1> QED
  BY <1>2, <1>5, <1>6, <1>7 DEF OnlyRing, Res, Beg, Size, Half, Fin, Closed, Freed

(* PopRelease keeps the invariant: line 230.                              *)
LEMMA PopReleaseInv ==
  ASSUME Roomy, Inv, Shape', NEW c \in Poppers, PopRelease(c)
  PROVE  Inv'
<1>0. pc[c] = "popRelease"
  BY DEF PopRelease
<1>1. PICK a, l, q, i, k : Popping(c, a, l, q, i, k)
  BY <1>0, PopIs
<1>2. /\ Shape /\ q \in Micros /\ QueueOK(q) /\ l \in Locals /\ Micro(c) = q
      /\ l = loc[c] /\ c \in Threads /\ i \in Rings(q) /\ a = pc[c]
      /\ loc[c].this = i /\ k \in Nat
  BY <1>1 DEF Popping
<1> DEFINE f == [heap[q][i] EXCEPT !.m_bReleased = TRUE]
<1>3. /\ Goto(c, "popRetry") /\ loc' = [loc EXCEPT ![c] = l]
      /\ m_queue' = m_queue /\ m_pPool' = m_pPool /\ delivered' = delivered
      /\ m_nPreWriteIndex' = m_nPreWriteIndex /\ m_nReadIndex' = m_nReadIndex
      /\ heap' = [heap EXCEPT ![q] = [heap[q] EXCEPT ![i] = f]]
  BY <1>2 DEF PopRelease, indexVars, Shape, TypeOK
<1>4. /\ f.m_nResBeginIndex = heap[q][i].m_nResBeginIndex
      /\ f.m_nBeginIndex = heap[q][i].m_nBeginIndex
      /\ f.m_nTotalSize = heap[q][i].m_nTotalSize
      /\ f.m_bNoWrite = heap[q][i].m_bNoWrite
  BY <1>2, RingTypes DEF Ring
<1> HIDE DEF f
<1>5. /\ \A x \in Micros : x # q => heap'[x] = heap[x]
      /\ Rings(q)' = Rings(q) /\ Len(heap[q])' = Len(heap[q])
      /\ heap'[q][i] = f
      /\ \A j \in Rings(q) : j # i =>
              /\ heap'[q][j] = heap[q][j]
              /\ Res(q, j)' = Res(q, j) /\ Beg(q, j)' = Beg(q, j)
              /\ Size(q, j)' = Size(q, j) /\ Half(q, j)' = Half(q, j)
              /\ Fin(q, j)' = Fin(q, j) /\ Closed(q, j)' = Closed(q, j)
              /\ Freed(q, j)' = Freed(q, j)
  <2>1. heap' = [heap EXCEPT ![q] = [heap[q] EXCEPT ![i] = f]]
    BY <1>3
  <2>2. Shape /\ q \in Micros /\ i \in Rings(q)
    BY <1>2
  <2>3. OnlyRing(q, i, f)
    BY <2>1, <2>2, RingChange
  <2> QED
    BY <2>3 DEF OnlyRing
<1>6. /\ Within(c, q) /\ DoneSame /\ PushedSame
      /\ Micro(c)' = Micro(c) /\ K(c)' = K(c)
      /\ \A u \in Threads : u # c => Same(u)
  <2>1. \A x \in Micros : x # q =>
          heap'[x] = heap[x] /\ m_queue'[x] = m_queue[x] /\ m_pPool'[x] = m_pPool[x]
    BY <1>3, <1>5
  <2>2. l.index = loc[c].index /\ q = Micro(c)
        /\ pc[c] \notin {"pushDone", "popDone"} /\ "popRetry" \notin {"pushDone", "popDone"}
    BY <1>0, <1>2
  <2> QED
    BY <1>2, <1>3, <2>1, <2>2, KeepWithin
<1>14. pc'[c] = "popRetry" /\ loc'[c] = l
  BY <1>2, <1>3 DEF Goto, Shape, TypeOK
<1>7. /\ Res(q, i)' = Res(q, i) /\ Beg(q, i)' = Beg(q, i)
      /\ Size(q, i)' = Size(q, i) /\ Half(q, i)' = Half(q, i)
      /\ Fin(q, i)' = Fin(q, i) /\ Closed(q, i)' = Closed(q, i)
  BY <1>4, <1>5 DEF Res, Beg, Size, Half, Fin, Closed
<1>8. QueueSame(q)
  <2>1. PointersSame
    BY <1>3, PointersFrame
  <2>2. \A j \in Rings(q) : Res(q, j)' = Res(q, j) /\ Size(q, j)' = Size(q, j)
    BY <1>5, <1>7
  <2>3. \A j \in Rings(q) : \A y : Sg(q, j, y)' = Sg(q, j, y) /\ Dt(q, j, y)' = Dt(q, j, y)
    BY <1>3, <2>2 DEF Sg, Dt
  <2>4. /\ \A y \in Nat : Done(q, y)' <=> Done(q, y)
        /\ \A y \in Nat : Pushed(q, y)' <=> Pushed(q, y)
    BY <1>2, <1>6 DEF DoneSame, PushedSame
  <2>5. \A j \in Rings(q) :
          /\ heap[q][j].m_nResBeginIndex' = heap[q][j].m_nResBeginIndex
          /\ heap[q][j].m_nBeginIndex' = heap[q][j].m_nBeginIndex
    BY <1>4, <1>5
  <2> QED
    BY <1>5, <1>7, <2>1, <2>3, <2>4, <2>5 DEF QueueSame, PointersSame
<1>9. i < R(q)
  BY <1>0, <1>1, <1>2 DEF Popping, ReaderOK
<1>10. QueueOK(q)'
  <2>1. \A j \in Rings(q) : Freed(q, j)' => Freed(q, j) \/ j < R(q)
    BY <1>5, <1>9
  <2>2. \A d \in Poppers : pc[d] = "popTurn" /\ Micro(d) = q =>
           pc'[d] = "popTurn" /\ Micro(d)' = q
    BY <1>0, <1>6, InvTypes DEF Same
  <2>3. \A d \in Poppers : \A y : PopAt(d, q, y)' =>
           PopAt(d, q, y) /\ \A j : j < R(q) /\ Passes(d, j) => Passes(d, j)'
    <3> SUFFICES ASSUME NEW d \in Poppers, NEW y, PopAt(d, q, y)'
                 PROVE  PopAt(d, q, y) /\ \A j : j < R(q) /\ Passes(d, j) => Passes(d, j)'
      OBVIOUS
    <3>1. CASE d = c
      BY <1>0, <1>6, <1>14, <3>1 DEF PopAt, Passes
    <3>2. CASE d # c
      BY <1>6, <3>2, InvTypes DEF PopAt, Passes, Same
    <3> QED
      BY <3>1, <3>2
  <2> QED
    BY <1>2, <1>3, <1>8, <2>1, <2>2, <2>3, QueueFrame
<1>11. \A u \in Pushers : \A b, m, j, y : u # c /\ b # "pushDone"
         /\ Pushing(u, b, m, q, j, y) => PushFits(b, m)'
  <2> SUFFICES ASSUME NEW u \in Pushers, NEW b, NEW m, NEW j, NEW y,
                      Pushing(u, b, m, q, j, y)
               PROVE  PushFits(b, m)'
    OBVIOUS
  <2>1. PushFits(b, m)
    BY DEF Pushing, PushFits
  <2> QED
    BY <1>2, <1>3, <1>8, <2>1, PushKept DEF Pushing, Locals
<1>12. ASSUME NEW d \in Poppers, NEW b, NEW m, NEW j, NEW y, b # "popDone",
              Popping(d, b, m, q, j, y)
       PROVE  PopFits(b, m)'
  <2>1. PopFits(b, m)
    BY <1>12 DEF Popping, PopFits
  <2> QED
    BY <1>2, <1>3, <1>8, <1>12, <2>1, PopKept DEF Popping, Locals
<1>13. PopFits(pc[c], loc[c])'
  <2>1. ReaderOK("popRetry", l, q, i, k)'
    BY <1>0, <1>1, <1>2, <1>3 DEF Popping, ReaderOK
  <2>2. TurnerOK("popRetry", l, q, i, k)'
    BY DEF TurnerOK
  <2>3. PopFits("popRetry", l)'
    BY <1>1, <2>1, <2>2 DEF PopFits, Popping
  <2> QED
    BY <1>14, <2>3
<1> QED
  BY <1>2, <1>6, <1>10, <1>11, <1>12, <1>13, StepWithin, InvTypes

(* A step that rewrites one micro queue's pointers. *)
(* Thread t moves on to label and locals r, keeping its index. *)
Moves(t, label, r) ==
  /\ Goto(t, label) /\ loc' = [loc EXCEPT ![t] = r]
  /\ r.index = loc[t].index
  /\ pc[t] \notin {"pushDone", "popDone"} /\ label \notin {"pushDone", "popDone"}

(* A step turns the pointers of thread t's micro queue q into g and writes *)
(* nothing else. *)
OnlyPointers(t, q, g) ==
  /\ Within(t, q) /\ HeapSame /\ CellsSame /\ DoneSame /\ PushedSame
  /\ m_queue'[q] = g /\ Micro(t)' = Micro(t) /\ K(t)' = K(t)
  /\ \A u \in Threads : u # t => Same(u)

(* Rewriting the pointers is such a step.                                 *)
LEMMA PointerChange ==
  ASSUME Inv, NEW t \in Threads, NEW q, q = Micro(t), NEW label, NEW r, NEW g,
         Moves(t, label, r), m_queue' = [m_queue EXCEPT ![q] = g],
         UNCHANGED <<indexVars, heap, m_pPool, delivered>>
  PROVE  OnlyPointers(t, q, g)
<1>1. q \in Micros
  BY InvTypes
<1>2. /\ m_nPreWriteIndex' = m_nPreWriteIndex /\ m_nReadIndex' = m_nReadIndex
      /\ delivered' = delivered /\ heap' = heap /\ m_pPool' = m_pPool
  BY DEF indexVars
<1>3. m_queue'[q] = g /\ \A x \in Micros : x # q => m_queue'[x] = m_queue[x]
  BY <1>1 DEF Inv, Shape, TypeOK
<1>4. /\ Within(t, q) /\ DoneSame /\ PushedSame
      /\ Micro(t)' = Micro(t) /\ K(t)' = K(t)
      /\ \A u \in Threads : u # t => Same(u)
  BY <1>2, <1>3, KeepWithin DEF Moves
<1> QED
  BY <1>2, <1>3, <1>4, HeapFrame, CellsFrame DEF OnlyPointers

(* PushStore keeps the invariant: line 198.                               *)
LEMMA PushStoreInv ==
  ASSUME Roomy, Inv, Shape', NEW p \in Pushers, PushStore(p)
  PROVE  Inv'
<1>0. pc[p] = "pushStore"
  BY DEF PushStore
<1>1. PICK a, l, q, i, k : Pushing(p, a, l, q, i, k)
  BY <1>0, PushIs
<1>2. /\ Shape /\ q \in Micros /\ QueueOK(q) /\ l \in Locals /\ Micro(p) = q
      /\ l = loc[p] /\ p \in Threads /\ p \notin Poppers /\ a = pc[p]
      /\ l.index \in Nat
  BY <1>1, InvTypes DEF Pushing, Locals
<1>3. /\ l.next = W(q) /\ l.own = W(q) + 1 /\ W(q) \in Nat /\ R(q) \in Nat
      /\ W(q) \in Rings(q)
  BY <1>0, <1>1, <1>2, QueueIs DEF Pushing, GrowerOK
<1> DEFINE g == [m_queue[q] EXCEPT !.m_pCircle =
                   [m_queue[q].m_pCircle EXCEPT ![W(q)] = W(q) + 1]]
<1>4. /\ Goto(p, "pushLink") /\ loc' = [loc EXCEPT ![p] = l] /\ W(q) \in Slots
      /\ m_queue' = [m_queue EXCEPT ![q] = g]
      /\ UNCHANGED <<indexVars, heap, m_pPool, delivered>>
  BY <1>2, <1>3 DEF PushStore, Shape, TypeOK
<1>5. /\ g.m_pWrite = W(q) /\ g.m_pRead = R(q)
      /\ g.m_nWriteCircle = WC(q) /\ g.m_nReadCircle = RC(q)
      /\ g.m_pCircle[W(q)] = W(q) + 1
      /\ \A s \in Slots : s # W(q) => g.m_pCircle[s] = Slot(q, s)
  <2>1. m_queue[q] \in MicroQueues
    BY <1>2 DEF Shape, TypeOK
  <2>2. /\ DOMAIN m_queue[q].m_pCircle = Slots
        /\ DOMAIN m_queue[q] = {"m_nWriteCircle", "m_nReadCircle", "m_pWrite",
                                "m_pRead", "m_pCircle"}
    BY <2>1 DEF MicroQueues
  <2>3. /\ g.m_pCircle = [m_queue[q].m_pCircle EXCEPT ![W(q)] = W(q) + 1]
        /\ g.m_pWrite = m_queue[q].m_pWrite /\ g.m_pRead = m_queue[q].m_pRead
        /\ g.m_nWriteCircle = m_queue[q].m_nWriteCircle
        /\ g.m_nReadCircle = m_queue[q].m_nReadCircle
    BY <2>2
  <2> HIDE DEF g
  <2>4. /\ g.m_pCircle[W(q)] = W(q) + 1
        /\ \A s \in Slots : s # W(q) => g.m_pCircle[s] = m_queue[q].m_pCircle[s]
    BY <1>4, <2>2, <2>3
  <2> QED
    BY <2>3, <2>4 DEF W, R, WC, RC, Slot
<1> HIDE DEF g
<1>6. /\ Within(p, q) /\ HeapSame /\ CellsSame /\ DoneSame /\ PushedSame
      /\ m_queue'[q] = g /\ Micro(p)' = Micro(p) /\ K(p)' = K(p)
      /\ \A u \in Threads : u # p => Same(u)
  <2>1. q = Micro(p) /\ p \in Threads /\ l.index = loc[p].index
    BY <1>2
  <2>2. Moves(p, "pushLink", l)
    BY <1>0, <1>4, <2>1 DEF Moves
  <2>3. /\ m_queue' = [m_queue EXCEPT ![q] = g]
        /\ UNCHANGED <<indexVars, heap, m_pPool, delivered>>
    BY <1>4
  <2>4. OnlyPointers(p, q, g)
    BY <2>1, <2>2, <2>3, PointerChange
  <2> QED
    BY <2>4 DEF OnlyPointers
<1>7. pc'[p] = "pushLink" /\ loc'[p] = l
  BY <1>2, <1>4 DEF Goto, Shape, TypeOK
<1>8. /\ W(q)' = W(q) /\ R(q)' = R(q) /\ WC(q)' = WC(q) /\ RC(q)' = RC(q)
      /\ \A s \in Slots : s # W(q) => Slot(q, s)' = Slot(q, s)
      /\ Slot(q, W(q))' = W(q) + 1
  BY <1>5, <1>6 DEF W, R, WC, RC, Slot
<1>9. QueueSame(q)
  BY <1>2, <1>3, <1>6, <1>8 DEF QueueSame, HeapSame, CellsSame, DoneSame, PushedSame
<1>10. QueueOK(q)'
  <2>1. \A j \in Rings(q) : Freed(q, j)' => Freed(q, j)
    BY <1>6 DEF HeapSame
  <2>2. \A d \in Poppers : pc[d] = "popTurn" /\ Micro(d) = q =>
           pc'[d] = "popTurn" /\ Micro(d)' = q
    BY <1>2, <1>6, InvTypes DEF Same
  <2>3. \A d \in Poppers : \A y : PopAt(d, q, y)' =>
           PopAt(d, q, y) /\ \A j : j < R(q) /\ Passes(d, j) => Passes(d, j)'
    BY <1>2, <1>6, InvTypes DEF PopAt, Passes, Same
  <2> QED
    BY <1>2, <1>4, <1>9, <2>1, <2>2, <2>3, QueueFrame DEF indexVars
<1>11. \A u \in Pushers : \A b, m, j, y : u # p /\ b # "pushDone"
         /\ Pushing(u, b, m, q, j, y) => PushFits(b, m)'
  <2> SUFFICES ASSUME NEW u \in Pushers, NEW b, NEW m, NEW j, NEW y,
                      Pushing(u, b, m, q, j, y)
               PROVE  PushFits(b, m)'
    OBVIOUS
  <2>1. PushFits(b, m)
    BY DEF Pushing, PushFits
  <2> QED
    BY <1>2, <1>4, <1>9, <2>1, PushKept DEF Pushing, Locals, indexVars
<1>12. ASSUME NEW d \in Poppers, NEW b, NEW m, NEW j, NEW y, b # "popDone",
              Popping(d, b, m, q, j, y)
       PROVE  PopFits(b, m)'
  <2>1. PopFits(b, m)
    BY <1>12 DEF Popping, PopFits
  <2> QED
    BY <1>2, <1>4, <1>9, <1>12, <2>1, PopKept DEF Popping, Locals, indexVars
<1>13. PushFits(pc[p], loc[p])'
  <2>1. PushFits("pushStore", l)
    BY <1>0, <1>1, <1>2 DEF Pushing, PushFits
  <2>2. PushFits("pushStore", l)'
    BY <1>1, <1>2, <1>4, <1>9, <2>1, PushKept DEF Pushing, indexVars
  <2>3. MicroOf(l.index)' = q /\ PosOf(l.index)' = k
    BY <1>1 DEF Pushing, MicroOf, PosOf, Word
  <2>4. /\ HolderOK("pushStore", l, q, k)' /\ EntryOK("pushStore", l, q, i, k)'
        /\ CloserOK("pushStore", l, q, i, k)' /\ GrowerOK("pushStore", l, q, k)'
    BY <1>1, <2>2, <2>3 DEF PushFits, Pushing
  <2>5. HolderOK("pushLink", l, q, k)'
    BY <2>4 DEF HolderOK, Late
  <2>6. EntryOK("pushLink", l, q, i, k)' /\ CloserOK("pushLink", l, q, i, k)'
    BY DEF EntryOK, CloserOK
  <2>7. GrowerOK("pushLink", l, q, k)'
    BY <1>3, <1>4, <1>8, <2>4 DEF GrowerOK, Slots
  <2>8. PushFits("pushLink", l)'
    BY <1>1, <2>3, <2>5, <2>6, <2>7 DEF PushFits, Pushing
  <2> QED
    BY <1>7, <2>8
<1> QED
  BY <1>2, <1>6, <1>10, <1>11, <1>12, <1>13, StepWithin

(* A step that leaves the rings keeps them sound,                         *)
LEMMA RingsKept ==
  ASSUME Inv, NEW q \in Micros, HeapSame, R(q)' \in Nat, R(q) <= R(q)',
         m_nPreWriteIndex' = m_nPreWriteIndex
  PROVE  \A j \in Rings(q)' : RingOK(q, j)'
<1>1. ASSUME NEW j \in Rings(q) PROVE RingOK(q, j)'
  <2>1. RingOK(q, j) /\ R(q) \in Nat /\ j \in Nat
    BY QueueIs DEF Inv, QueueOK
  <2>2. /\ At(q, Res(q, j))' = At(q, Res(q, j))
        /\ At(q, Beg(q, j))' = At(q, Beg(q, j))
        /\ At(q, Fin(q, j))' = At(q, Fin(q, j))
    BY DEF HeapSame, At
  <2> QED
    BY <2>1, <2>2 DEF HeapSame, RingOK
<1> QED
  BY <1>1 DEF HeapSame

(* and those left behind too.                                             *)
LEMMA TurnedKept ==
  ASSUME Inv, NEW t \in Threads, NEW q \in Micros, t \notin Poppers,
         HeapSame, DoneSame, \A u \in Threads : u # t => Same(u),
         R(q)' = R(q), m_nReadIndex' = m_nReadIndex
  PROVE  TurnedOK(q)'
<1>1. ASSUME NEW j \in Rings(q), NEW y \in Nat, TurnedAt(q, j, y)
      PROVE  TurnedAt(q, j, y)'
  <2>1. \A d \in Poppers : PopAt(d, q, y)' =>
          pc'[d] \in {"popRelease", "popRetry"} \/ loc'[d].this > j
    BY <1>1, InvTypes DEF PopAt, Same, TurnedAt
  <2> QED
    BY <1>1, <2>1 DEF TurnedAt, HeapSame, DoneSame, At
<1> QED
  BY <1>1 DEF Inv, QueueOK, TurnedOK, HeapSame

(* PushLink keeps the invariant: line 200.                                *)
LEMMA PushLinkInv ==
  ASSUME Roomy, Inv, Shape', NEW p \in Pushers, PushLink(p)
  PROVE  Inv'
<1>0. pc[p] = "pushLink"
  BY DEF PushLink
<1>1. PICK a, l, q, i, k : Pushing(p, a, l, q, i, k)
  BY <1>0, PushIs
<1>2. /\ Shape /\ q \in Micros /\ QueueOK(q) /\ l \in Locals /\ Micro(p) = q
      /\ l = loc[p] /\ p \in Threads /\ p \notin Poppers /\ a = pc[p]
      /\ l.index \in Nat /\ K(p) = k /\ k \in Nat
      /\ Len(heap[q]) \in Nat /\ Rings(q) = 1 .. Len(heap[q])
  BY <1>1, InvTypes, QueueTypes DEF Pushing, Locals
<1> SUFFICES ASSUME NEW w, w = W(q) PROVE Inv'
  OBVIOUS
<1>3. /\ w \in Nat /\ R(q) \in Nat /\ w \in Rings(q) /\ WC(q) \in Nat /\ RC(q) \in Nat
      /\ l.own = w + 1 /\ Len(heap[q]) = w + 1 /\ k = Fin(q, w) /\ WC(q) = w - 1
      /\ Closed(q, w) /\ w \in Slots /\ Slot(q, w) = w + 1 /\ l.next = w
  BY <1>0, <1>1, <1>2, QueueIs DEF Pushing, GrowerOK
<1> DEFINE v == w + 1
           g == [m_queue[q] EXCEPT !.m_pWrite = v]
<1>4. /\ Goto(p, "pushCount") /\ loc' = [loc EXCEPT ![p] = l]
      /\ m_queue' = [m_queue EXCEPT ![q] = g]
      /\ UNCHANGED <<indexVars, heap, m_pPool, delivered>>
  BY <1>2, <1>3 DEF PushLink, Shape, TypeOK
<1>5. /\ g.m_pWrite = v /\ g.m_pRead = R(q)
      /\ g.m_nWriteCircle = WC(q) /\ g.m_nReadCircle = RC(q)
      /\ \A s : g.m_pCircle[s] = Slot(q, s)
  BY <1>2 DEF Shape, TypeOK, MicroQueues, R, WC, RC, Slot
<1>14. v = w + 1 /\ v \in Nat /\ v \in Rings(q)
  BY <1>2, <1>3
<1> HIDE DEF g, v
<1>6. /\ Within(p, q) /\ HeapSame /\ CellsSame /\ DoneSame /\ PushedSame
      /\ m_queue'[q] = g /\ Micro(p)' = Micro(p) /\ K(p)' = K(p)
      /\ \A u \in Threads : u # p => Same(u)
  <2>1. q = Micro(p) /\ p \in Threads /\ l.index = loc[p].index
    BY <1>2
  <2>2. Moves(p, "pushCount", l)
    BY <1>0, <1>4, <2>1 DEF Moves
  <2>3. /\ m_queue' = [m_queue EXCEPT ![q] = g]
        /\ UNCHANGED <<indexVars, heap, m_pPool, delivered>>
    BY <1>4
  <2>4. OnlyPointers(p, q, g)
    BY <2>1, <2>2, <2>3, PointerChange
  <2> QED
    BY <2>4 DEF OnlyPointers
<1>7. pc'[p] = "pushCount" /\ loc'[p] = l
  BY <1>2, <1>4 DEF Goto, Shape, TypeOK
<1>8. /\ W(q)' = v /\ R(q)' = R(q) /\ WC(q)' = WC(q) /\ RC(q)' = RC(q)
      /\ \A s : Slot(q, s)' = Slot(q, s)
  BY <1>5, <1>6 DEF W, R, WC, RC, Slot
<1>9. /\ m_nPreWriteIndex' = m_nPreWriteIndex /\ m_nReadIndex' = m_nReadIndex
      /\ delivered' = delivered /\ \A n : WasDelivered(n)' <=> WasDelivered(n)
      /\ \A n : At(q, n)' = At(q, n)
  BY <1>4 DEF indexVars, WasDelivered, At
<1>15. /\ Res(q, v) = Fin(q, w) /\ k = Res(q, v) /\ Res(q, v) <= Fin(q, v)
       /\ Fin(q, w) \in Nat /\ Fin(q, v) \in Nat /\ Res(q, v) \in Nat
  <2>1. Res(q, v) = Fin(q, w)
    BY <1>2, <1>3, <1>14 DEF QueueOK, ChainOK
  <2>2. /\ Fin(q, w) \in Nat /\ Fin(q, v) \in Nat /\ Res(q, v) \in Nat
        /\ Size(q, v) \in Nat /\ Beg(q, v) \in Nat
        /\ Fin(q, v) = Beg(q, v) + Size(q, v) /\ Res(q, v) <= Beg(q, v)
    BY <1>2, <1>3, <1>14, QueueIs
  <2> QED
    BY <1>3, <2>1, <2>2
<1>16. ~ Pushed(q, k)
  BY <1>1 DEF Pushing
<1>10. QueueOK(q)'
  <2>1. \A j \in Rings(q)' : RingOK(q, j)'
    BY <1>2, <1>3, <1>6, <1>8, <1>9, RingsKept
  <2>2. ChainOK(q)'
    BY <1>2, <1>6, ChainOKFrame DEF QueueOK
  <2>3. PointersOK(q)'
    <3>1. PointersOK(q)
      BY <1>2 DEF QueueOK
    <3>2. R(q) <= w /\ R(q) <= WC(q) + 1
      BY <1>3, <3>1 DEF PointersOK
    <3>3. RC(q) = R(q) - 1 \/ (RC(q) = R(q) /\ \E c \in Poppers :
            pc'[c] = "popTurn" /\ Micro(c)' = q)
      BY <1>2, <1>6, <3>1, InvTypes DEF PointersOK, Same
    <3>4. \A j \in Rings(q) : j < v => Closed(q, j)
      BY <1>2, <1>3, <1>14, <3>1 DEF PointersOK
    <3>5. ~ Pushed(q, Res(q, v))'
      <4>1. ~ Pushed(q, k)'
        BY <1>2, <1>6, <1>16 DEF PushedSame
      <4>2. Res(q, v)' = k
        BY <1>6, <1>15 DEF HeapSame
      <4> QED
        BY <4>1, <4>2
    <3>6. \A s \in Slots : s < v => Slot(q, s) = s + 1
      <4>1. \A s \in Slots : s < v => s < w \/ s = w
        BY <1>3, <1>14 DEF Slots
      <4>2. Slot(q, w) = w + 1
        BY <1>3
      <4> QED
        BY <3>1, <4>1, <4>2 DEF PointersOK
    <3>7. v <= CirclePointNumber
      BY <1>3, <1>14, SlotsAssumption DEF Slots
    <3>8. R(q) <= v /\ Len(heap[q]) <= v + 1 /\ Len(heap[q]) = v /\ WC(q) = v - 2
          /\ \A j \in Rings(q) : ~ (j > v)
      BY <1>2, <1>3, <1>14, <3>2
    <3> QED
      BY <1>6, <1>8, <3>2, <3>3, <3>4, <3>5, <3>6, <3>7, <3>8 DEF PointersOK, HeapSame
  <2>4. PlacesOK(q)'
    <3>1. \A y \in Nat : y >= Fin(q, v) => ~ Pushed(q, y)
      <4> SUFFICES ASSUME NEW y \in Nat, y >= Fin(q, v) PROVE ~ Pushed(q, y)
        OBVIOUS
      <4>1. y >= Fin(q, w)
        BY <1>15
      <4> QED
        BY <1>2, <4>1 DEF QueueOK, PlacesOK
    <3> QED
      BY <1>2, <1>6, <1>8, <1>9, <3>1 DEF QueueOK, PlacesOK, HeapSame, DoneSame, PushedSame
  <2>5. CellsOK(q)'
    BY <1>2, <1>6, CellsOKFrame DEF QueueOK
  <2>6. TurnedOK(q)'
    BY <1>2, <1>6, <1>8, <1>9, TurnedKept
  <2> QED
    BY <2>1, <2>2, <2>3, <2>4, <2>5, <2>6 DEF QueueOK
<1>11. ASSUME NEW u \in Pushers, NEW b, NEW m, NEW j, NEW y, u # p, b # "pushDone",
              Pushing(u, b, m, q, j, y)
       PROVE  PushFits(b, m)'
  <2>1. /\ b = pc[u] /\ Micro(u) = q /\ K(u) = y /\ m.own \in Rings(q) /\ j \in Rings(q)
        /\ HolderOK(b, m, q, y) /\ EntryOK(b, m, q, j, y)
        /\ CloserOK(b, m, q, j, y) /\ GrowerOK(b, m, q, y)
        /\ q = MicroOf(m.index) /\ y = PosOf(m.index) /\ j = m.this /\ y \in Nat
        /\ j \in Nat /\ m.own \in Nat
    BY <1>2, <1>11 DEF Pushing
  <2>2. y # k
    BY <1>0, <1>2, <1>11, <2>1 DEF Inv, UniqueOK
  <2>3. b \notin {"pushScan", "pushAdvance", "pushNoWrite", "pushAwait", "pushNext",
                  "pushGrow", "pushStore", "pushLink"}
    BY <1>3, <2>1, <2>2 DEF CloserOK, GrowerOK
  <2>4. b # "pushCount"
    BY <1>3, <2>1 DEF GrowerOK
  <2>5. HolderOK(b, m, q, y)'
    BY <1>6, <1>8, <1>9, <1>15, <2>1, <2>2 DEF HolderOK, HeapSame
  <2>6. EntryOK(b, m, q, j, y)'
    <3>1. j <= w => j <= v
      BY <1>3, <1>14, <2>1
    <3>2. m.own <= w => m.own <= v
      BY <1>3, <1>14, <2>1
    <3> QED
      BY <1>6, <1>8, <2>1, <3>1, <3>2 DEF EntryOK, HeapSame, CellsSame
  <2>7. CloserOK(b, m, q, j, y)' /\ GrowerOK(b, m, q, y)'
    BY <2>3, <2>4 DEF CloserOK, GrowerOK
  <2>8. MicroOf(m.index)' = q /\ PosOf(m.index)' = y
    BY <2>1 DEF MicroOf, PosOf, Word
  <2> QED
    BY <2>1, <2>5, <2>6, <2>7, <2>8 DEF PushFits
<1>12. ASSUME NEW d \in Poppers, NEW b, NEW m, NEW j, NEW y, b # "popDone",
              Popping(d, b, m, q, j, y)
       PROVE  PopFits(b, m)'
  <2>1. ReaderOK(b, m, q, j, y)'
    BY <1>6, <1>8, <1>9, <1>12 DEF Popping, ReaderOK, HeapSame, PushedSame
  <2>2. TurnerOK(b, m, q, j, y)'
    BY <1>6, <1>8, <1>12 DEF Popping, TurnerOK, HeapSame, DoneSame
  <2>3. MicroOf(m.index)' = q /\ PosOf(m.index)' = y
    BY <1>12 DEF Popping, MicroOf, PosOf, Word
  <2> QED
    BY <1>12, <2>1, <2>2, <2>3 DEF PopFits, Popping
<1>13. PushFits(pc[p], loc[p])'
  <2>3. MicroOf(l.index)' = q /\ PosOf(l.index)' = k
    BY <1>1 DEF Pushing, MicroOf, PosOf, Word
  <2>5. HolderOK("pushCount", l, q, k)'
    BY <1>0, <1>1, <1>2, <1>6, <1>9 DEF Pushing, HolderOK, Late, HeapSame
  <2>6. EntryOK("pushCount", l, q, i, k)' /\ CloserOK("pushCount", l, q, i, k)'
    BY DEF EntryOK, CloserOK
  <2>7. GrowerOK("pushCount", l, q, k)'
    <3>1. Res(q, v)' = k
      BY <1>6, <1>15 DEF HeapSame
    <3>2. WC(q) = v - 2 /\ l.next = v - 1 /\ l.own = v
      BY <1>3, <1>14
    <3> QED
      BY <1>8, <3>1, <3>2 DEF GrowerOK
  <2>8. PushFits("pushCount", l)'
    BY <1>1, <2>3, <2>5, <2>6, <2>7 DEF PushFits, Pushing
  <2> QED
    BY <1>7, <2>8
<1> QED
  BY <1>2, <1>6, <1>10, <1>11, <1>12, <1>13, StepWithin

(* PushCount keeps the invariant: lines 201-203.                          *)
LEMMA PushCountInv ==
  ASSUME Roomy, Inv, Shape', NEW p \in Pushers, PushCount(p)
  PROVE  Inv'
<1>0. pc[p] = "pushCount"
  BY DEF PushCount
<1>1. PICK a, l, q, i, k : Pushing(p, a, l, q, i, k)
  BY <1>0, PushIs
<1>2. /\ Shape /\ q \in Micros /\ QueueOK(q) /\ l \in Locals /\ Micro(p) = q
      /\ l = loc[p] /\ p \in Threads /\ p \notin Poppers /\ a = pc[p]
      /\ l.index \in Nat /\ K(p) = k /\ k \in Nat
      /\ Len(heap[q]) \in Nat /\ Rings(q) = 1 .. Len(heap[q])
  BY <1>1, InvTypes, QueueTypes DEF Pushing, Locals
<1> SUFFICES ASSUME NEW w, w = W(q), NEW s, s = w - 1 PROVE Inv'
  OBVIOUS
<1>3. /\ w \in Nat /\ R(q) \in Nat /\ w \in Rings(q) /\ WC(q) \in Nat /\ RC(q) \in Nat
      /\ l.own = w /\ k = Res(q, w) /\ WC(q) = w - 2 /\ l.next = s
  BY <1>0, <1>1, <1>2, QueueIs DEF Pushing, GrowerOK
<1> DEFINE g == [m_queue[q] EXCEPT !.m_nWriteCircle = s]
           r == [l EXCEPT !.this = w, !.nested = TRUE]
<1>4. /\ Goto(p, "pushBegin") /\ loc' = [loc EXCEPT ![p] = r]
      /\ m_queue' = [m_queue EXCEPT ![q] = g]
      /\ UNCHANGED <<indexVars, heap, m_pPool, delivered>>
  BY <1>2, <1>3 DEF PushCount, Shape, TypeOK
<1>5. /\ g.m_pWrite = w /\ g.m_pRead = R(q)
      /\ g.m_nWriteCircle = s /\ g.m_nReadCircle = RC(q)
      /\ \A x : g.m_pCircle[x] = Slot(q, x)
  BY <1>2 DEF Shape, TypeOK, MicroQueues, R, W, WC, RC, Slot
<1>14. r.index = l.index /\ r.this = w /\ r.nested = TRUE
  BY <1>2 DEF Locals
<1> HIDE DEF g, r
<1>6. /\ Within(p, q) /\ HeapSame /\ CellsSame /\ DoneSame /\ PushedSame
      /\ m_queue'[q] = g /\ Micro(p)' = Micro(p) /\ K(p)' = K(p)
      /\ \A u \in Threads : u # p => Same(u)
  <2>1. q = Micro(p) /\ p \in Threads /\ r.index = loc[p].index
    BY <1>2, <1>14
  <2>2. Moves(p, "pushBegin", r)
    BY <1>0, <1>4, <2>1 DEF Moves
  <2>3. /\ m_queue' = [m_queue EXCEPT ![q] = g]
        /\ UNCHANGED <<indexVars, heap, m_pPool, delivered>>
    BY <1>4
  <2>4. OnlyPointers(p, q, g)
    BY <2>1, <2>2, <2>3, PointerChange
  <2> QED
    BY <2>4 DEF OnlyPointers
<1>7. pc'[p] = "pushBegin" /\ loc'[p] = r
  BY <1>2, <1>4 DEF Goto, Shape, TypeOK
<1>8. /\ W(q)' = w /\ R(q)' = R(q) /\ WC(q)' = s /\ RC(q)' = RC(q)
      /\ \A x : Slot(q, x)' = Slot(q, x)
  BY <1>5, <1>6 DEF W, R, WC, RC, Slot
<1>9. /\ m_nPreWriteIndex' = m_nPreWriteIndex /\ m_nReadIndex' = m_nReadIndex
      /\ delivered' = delivered /\ \A n : WasDelivered(n)' <=> WasDelivered(n)
      /\ \A n : At(q, n)' = At(q, n)
  BY <1>4 DEF indexVars, WasDelivered, At
<1>10. QueueOK(q)'
  <2>1. \A j \in Rings(q)' : RingOK(q, j)'
    BY <1>2, <1>3, <1>6, <1>8, <1>9, RingsKept
  <2>2. ChainOK(q)'
    BY <1>2, <1>6, ChainOKFrame DEF QueueOK
  <2>3. PointersOK(q)'
    <3>1. PointersOK(q)
      BY <1>2 DEF QueueOK
    <3>2. R(q) <= WC(q) + 1 /\ R(q) <= s + 1 /\ s = w - 1
      BY <1>3, <3>1 DEF PointersOK
    <3>3. RC(q) = R(q) - 1 \/ (RC(q) = R(q) /\ \E c \in Poppers :
            pc'[c] = "popTurn" /\ Micro(c)' = q)
      BY <1>2, <1>6, <3>1, InvTypes DEF PointersOK, Same
    <3> QED
      BY <1>6, <1>8, <3>1, <3>2, <3>3 DEF PointersOK, HeapSame
  <2>4. PlacesOK(q)'
    BY <1>2, <1>6, <1>8, <1>9 DEF QueueOK, PlacesOK, HeapSame, DoneSame, PushedSame
  <2>5. CellsOK(q)'
    BY <1>2, <1>6, CellsOKFrame DEF QueueOK
  <2>6. TurnedOK(q)'
    BY <1>2, <1>6, <1>8, <1>9, TurnedKept
  <2> QED
    BY <2>1, <2>2, <2>3, <2>4, <2>5, <2>6 DEF QueueOK
<1>11. ASSUME NEW u \in Pushers, NEW b, NEW m, NEW j, NEW y, u # p, b # "pushDone",
              Pushing(u, b, m, q, j, y)
       PROVE  PushFits(b, m)'
  <2>1. /\ b = pc[u] /\ Micro(u) = q /\ K(u) = y /\ m.own \in Rings(q) /\ j \in Rings(q)
        /\ HolderOK(b, m, q, y) /\ EntryOK(b, m, q, j, y)
        /\ CloserOK(b, m, q, j, y) /\ GrowerOK(b, m, q, y)
        /\ q = MicroOf(m.index) /\ y = PosOf(m.index) /\ j = m.this /\ y \in Nat
    BY <1>2, <1>11 DEF Pushing
  <2>2. y # k
    BY <1>0, <1>2, <1>11, <2>1 DEF Inv, UniqueOK
  <2>4. b \notin {"pushNext", "pushGrow", "pushStore", "pushLink", "pushCount"}
    BY <1>3, <2>1, <2>2 DEF GrowerOK
  <2>5. HolderOK(b, m, q, y)'
    <3>1. s # w - 2
      BY <1>3
    <3> QED
      BY <1>6, <1>8, <1>9, <2>1, <3>1 DEF HolderOK, HeapSame
  <2>6. EntryOK(b, m, q, j, y)'
    BY <1>6, <1>8, <2>1 DEF EntryOK, HeapSame, CellsSame
  <2>7. CloserOK(b, m, q, j, y)'
    <3>1. CloserOK(b, m, q, j, y) /\ W(q)' = W(q) /\ j \in Rings(q)
          /\ HeapSame /\ CellsSame /\ \A x \in Nat : Done(q, x)' <=> Done(q, x)
      BY <1>2, <1>6, <1>8, <2>1 DEF DoneSame
    <3> QED
      BY <3>1 DEF CloserOK, HeapSame, CellsSame
  <2>9. GrowerOK(b, m, q, y)'
    BY <1>6, <1>8, <2>1, <2>4 DEF GrowerOK, HeapSame
  <2>8. MicroOf(m.index)' = q /\ PosOf(m.index)' = y
    BY <2>1 DEF MicroOf, PosOf, Word
  <2> QED
    BY <2>1, <2>5, <2>6, <2>7, <2>8, <2>9 DEF PushFits
<1>12. ASSUME NEW d \in Poppers, NEW b, NEW m, NEW j, NEW y, b # "popDone",
              Popping(d, b, m, q, j, y)
       PROVE  PopFits(b, m)'
  <2>1. ReaderOK(b, m, q, j, y)'
    BY <1>6, <1>8, <1>9, <1>12 DEF Popping, ReaderOK, HeapSame, PushedSame
  <2>2. TurnerOK(b, m, q, j, y)'
    <3>1. R(q) <= WC(q) => R(q) <= s
      BY <1>3
    <3> QED
      BY <1>6, <1>8, <1>12, <3>1 DEF Popping, TurnerOK, HeapSame, DoneSame
  <2>3. MicroOf(m.index)' = q /\ PosOf(m.index)' = y
    BY <1>12 DEF Popping, MicroOf, PosOf, Word
  <2> QED
    BY <1>12, <2>1, <2>2, <2>3 DEF PopFits, Popping
<1>13. PushFits(pc[p], loc[p])'
  <2>3. MicroOf(l.index)' = q /\ PosOf(l.index)' = k
    BY <1>1 DEF Pushing, MicroOf, PosOf, Word
  <2>5. HolderOK("pushBegin", r, q, k)'
    <3>1. s # w - 2
      BY <1>3
    <3>2. Start <= l.index /\ l.index < m_nPreWriteIndex
      BY <1>0, <1>1, <1>2 DEF Pushing, HolderOK
    <3> QED
      BY <1>8, <1>9, <1>14, <3>1, <3>2 DEF HolderOK
  <2>6. EntryOK("pushBegin", r, q, w, k)'
    <3>1. Res(q, w)' = k /\ w <= w
      BY <1>3, <1>6 DEF HeapSame
    <3> QED
      BY <1>8, <1>14, <3>1 DEF EntryOK
  <2>7. GrowerOK("pushBegin", r, q, k)' /\ CloserOK("pushBegin", r, q, w, k)'
    BY DEF GrowerOK, CloserOK
  <2>8. PushFits("pushBegin", r)'
    BY <1>1, <1>14, <2>3, <2>5, <2>6, <2>7 DEF PushFits, Pushing
  <2> QED
    BY <1>7, <2>8
<1> QED
  BY <1>2, <1>6, <1>10, <1>11, <1>12, <1>13, StepWithin

(* PopBump keeps the invariant: line 229, the counter.                    *)
LEMMA PopBumpInv ==
  ASSUME Roomy, Inv, Shape', NEW c \in Poppers, PopBump(c)
  PROVE  Inv'
<1>0. pc[c] = "popBump"
  BY DEF PopBump
<1>1. PICK a, l, q, i, k : Popping(c, a, l, q, i, k)
  BY <1>0, PopIs
<1>2. /\ Shape /\ q \in Micros /\ QueueOK(q) /\ l \in Locals /\ Micro(c) = q
      /\ l = loc[c] /\ c \in Threads /\ i \in Rings(q) /\ a = pc[c]
      /\ loc[c].this = i /\ k \in Nat /\ K(c) = k /\ c \notin Pushers
  BY <1>1, InvTypes DEF Popping
<1> SUFFICES ASSUME NEW w, w = R(q) PROVE Inv'
  OBVIOUS
<1>3. /\ w \in Nat /\ WC(q) \in Nat /\ RC(q) \in Nat /\ W(q) \in Rings(q)
      /\ RC(q) + 1 = w /\ w <= WC(q) /\ i = w /\ Res(q, i) <= k
      /\ \A j \in Nat : Res(q, i) <= j /\ j < k => Done(q, j)
  <2>1. /\ i = w /\ RC(q) = w - 1 /\ w <= WC(q) /\ Beg(q, i) <= k
        /\ \A j \in Nat : Res(q, i) <= j /\ j < k => Done(q, j)
    BY <1>0, <1>1, <1>2 DEF Popping, TurnerOK
  <2>2. /\ w \in Nat /\ WC(q) \in Nat /\ RC(q) \in Nat /\ W(q) \in Rings(q)
        /\ Res(q, i) \in Nat /\ Beg(q, i) \in Nat /\ Res(q, i) <= Beg(q, i)
    BY <1>2, QueueIs
  <2> QED
    BY <1>2, <2>1, <2>2
<1> DEFINE g == [m_queue[q] EXCEPT !.m_nReadCircle = w]
           r == [l EXCEPT !.next = w]
<1>4. /\ Goto(c, "popTurn") /\ loc' = [loc EXCEPT ![c] = r]
      /\ m_queue' = [m_queue EXCEPT ![q] = g]
      /\ UNCHANGED <<indexVars, heap, m_pPool, delivered>>
  BY <1>2, <1>3 DEF PopBump, Shape, TypeOK, RC
<1>5. /\ g.m_pWrite = W(q) /\ g.m_pRead = R(q)
      /\ g.m_nWriteCircle = WC(q) /\ g.m_nReadCircle = w
      /\ \A x : g.m_pCircle[x] = Slot(q, x)
  BY <1>2 DEF Shape, TypeOK, MicroQueues, R, W, WC, RC, Slot
<1>14. r.index = l.index /\ r.this = i /\ r.next = w
  BY <1>2 DEF Locals
<1> HIDE DEF g, r
<1>6. /\ Within(c, q) /\ HeapSame /\ CellsSame /\ DoneSame /\ PushedSame
      /\ m_queue'[q] = g /\ Micro(c)' = Micro(c) /\ K(c)' = K(c)
      /\ \A u \in Threads : u # c => Same(u)
  <2>1. q = Micro(c) /\ c \in Threads /\ r.index = loc[c].index
    BY <1>2, <1>14
  <2>2. Moves(c, "popTurn", r)
    BY <1>0, <1>4, <2>1 DEF Moves
  <2>3. /\ m_queue' = [m_queue EXCEPT ![q] = g]
        /\ UNCHANGED <<indexVars, heap, m_pPool, delivered>>
    BY <1>4
  <2>4. OnlyPointers(c, q, g)
    BY <2>1, <2>2, <2>3, PointerChange
  <2> QED
    BY <2>4 DEF OnlyPointers
<1>7. pc'[c] = "popTurn" /\ loc'[c] = r
  BY <1>2, <1>4 DEF Goto, Shape, TypeOK
<1>8. /\ W(q)' = W(q) /\ R(q)' = w /\ WC(q)' = WC(q) /\ RC(q)' = w
      /\ \A x : Slot(q, x)' = Slot(q, x)
  BY <1>5, <1>6 DEF W, R, WC, RC, Slot
<1>9. /\ m_nPreWriteIndex' = m_nPreWriteIndex /\ m_nReadIndex' = m_nReadIndex
      /\ delivered' = delivered /\ \A n : WasDelivered(n)' <=> WasDelivered(n)
      /\ \A n : At(q, n)' = At(q, n)
  BY <1>4 DEF indexVars, WasDelivered, At
<1>10. QueueOK(q)'
  <2>1. \A j \in Rings(q)' : RingOK(q, j)'
    BY <1>2, <1>3, <1>6, <1>8, <1>9, RingsKept
  <2>2. ChainOK(q)'
    BY <1>2, <1>6, ChainOKFrame DEF QueueOK
  <2>3. PointersOK(q)'
    <3>1. PointersOK(q)
      BY <1>2 DEF QueueOK
    <3>2. \E d \in Poppers : pc'[d] = "popTurn" /\ Micro(d)' = q
      BY <1>2, <1>6, <1>7
    <3>3. Pushed(q, Res(q, W(q)))' <=> Pushed(q, Res(q, W(q)))
      <4> SUFFICES ASSUME NEW m, m = Res(q, W(q)) PROVE Pushed(q, m)' <=> Pushed(q, m)
        BY <1>6, <1>8 DEF HeapSame
      <4>1. m \in Nat
        BY <1>2, InvTypes
      <4> QED
        BY <1>2, <1>6, <4>1 DEF PushedSame
    <3> QED
      BY <1>6, <1>8, <3>1, <3>2, <3>3 DEF PointersOK, HeapSame
  <2>4. PlacesOK(q)'
    BY <1>2, <1>6, <1>8, <1>9 DEF QueueOK, PlacesOK, HeapSame, DoneSame, PushedSame
  <2>5. CellsOK(q)'
    BY <1>2, <1>6, CellsOKFrame DEF QueueOK
  <2>6. TurnedOK(q)'
    <3>1. ASSUME NEW j \in Rings(q), j < w, NEW y \in Nat, TurnedAt(q, j, y)
          PROVE  TurnedAt(q, j, y)'
      <4>1. ASSUME NEW d \in Poppers, PopAt(d, q, y)'
            PROVE  pc'[d] \in {"popRelease", "popRetry"} \/ loc'[d].this > j
        <5>1. CASE d = c
          BY <1>3, <1>7, <1>14, <3>1, <5>1
        <5>2. CASE d # c
          BY <1>2, <1>6, <3>1, <4>1, <5>2, InvTypes DEF PopAt, Same, TurnedAt
        <5> QED
          BY <5>1, <5>2
      <4> QED
        BY <1>2, <1>6, <1>9, <3>1, <4>1 DEF TurnedAt, HeapSame, DoneSame
    <3> QED
      BY <1>2, <1>6, <1>8, <3>1 DEF QueueOK, TurnedOK, HeapSame
  <2> QED
    BY <2>1, <2>2, <2>3, <2>4, <2>5, <2>6 DEF QueueOK
<1>11. ASSUME NEW u \in Pushers, NEW b, NEW m, NEW j, NEW y, b # "pushDone",
              Pushing(u, b, m, q, j, y)
       PROVE  PushFits(b, m)'
  <2>1. /\ HolderOK(b, m, q, y) /\ EntryOK(b, m, q, j, y)
        /\ CloserOK(b, m, q, j, y) /\ GrowerOK(b, m, q, y)
        /\ q = MicroOf(m.index) /\ y = PosOf(m.index) /\ j = m.this /\ y \in Nat
        /\ j \in Rings(q)
    BY <1>11 DEF Pushing
  <2>2. HolderOK(b, m, q, y)'
    BY <1>6, <1>8, <1>9, <2>1 DEF HolderOK, HeapSame
  <2>3. EntryOK(b, m, q, j, y)'
    BY <1>6, <1>8, <2>1 DEF EntryOK, HeapSame, CellsSame
  <2>4. CloserOK(b, m, q, j, y)'
    <3>1. CloserOK(b, m, q, j, y) /\ W(q)' = W(q) /\ j \in Rings(q)
          /\ HeapSame /\ CellsSame /\ \A x \in Nat : Done(q, x)' <=> Done(q, x)
      BY <1>2, <1>6, <1>8, <2>1 DEF DoneSame
    <3> QED
      BY <3>1 DEF CloserOK, HeapSame, CellsSame
  <2>5. GrowerOK(b, m, q, y)'
    BY <1>6, <1>8, <2>1 DEF GrowerOK, HeapSame
  <2>6. MicroOf(m.index)' = q /\ PosOf(m.index)' = y
    BY <2>1 DEF MicroOf, PosOf, Word
  <2> QED
    BY <2>1, <2>2, <2>3, <2>4, <2>5, <2>6 DEF PushFits
<1>12. ASSUME NEW d \in Poppers, NEW b, NEW m, NEW j, NEW y, d # c, b # "popDone",
              Popping(d, b, m, q, j, y)
       PROVE  PopFits(b, m)'
  <2>1. ReaderOK(b, m, q, j, y)'
    BY <1>6, <1>8, <1>9, <1>12 DEF Popping, ReaderOK, HeapSame, PushedSame
  <2>4. b \notin {"popNext", "popBump", "popTurn"}
    <3> SUFFICES ASSUME b \in {"popNext", "popBump", "popTurn"} PROVE FALSE
      OBVIOUS
    <3>1. pc[d] = b /\ Micro(d) = q /\ loc[d].this = j /\ j = w
      BY <1>12 DEF Popping, TurnerOK
    <3>2. d = c
      BY <1>0, <1>1, <1>2, <1>3, <1>12, <3>1, OneTurner
    <3> QED
      BY <1>12, <3>2
  <2>2. TurnerOK(b, m, q, j, y)'
    BY <1>6, <1>8, <1>12, <2>4 DEF Popping, TurnerOK, HeapSame, DoneSame
  <2>3. MicroOf(m.index)' = q /\ PosOf(m.index)' = y
    BY <1>12 DEF Popping, MicroOf, PosOf, Word
  <2> QED
    BY <1>12, <2>1, <2>2, <2>3 DEF PopFits, Popping
<1>13. PopFits(pc[c], loc[c])'
  <2>1. ReaderOK("popTurn", r, q, i, k)'
    BY <1>0, <1>1, <1>2, <1>8, <1>9, <1>14 DEF Popping, ReaderOK
  <2>2. TurnerOK("popTurn", r, q, i, k)'
    BY <1>0, <1>1, <1>2, <1>3, <1>6, <1>8, <1>14 DEF Popping, TurnerOK, HeapSame, DoneSame
  <2>3. MicroOf(l.index)' = q /\ PosOf(l.index)' = k
    BY <1>1 DEF Popping, MicroOf, PosOf, Word
  <2>4. PopFits("popTurn", r)'
    BY <1>14, <2>1, <2>2, <2>3 DEF PopFits
  <2> QED
    BY <1>7, <2>4
<1> QED
  BY <1>2, <1>6, <1>10, <1>11, <1>12, <1>13, StepWithin

(* PopTurn keeps the invariant: line 229, m_pRead.                        *)
LEMMA PopTurnInv ==
  ASSUME Roomy, Inv, Shape', NEW c \in Poppers, PopTurn(c)
  PROVE  Inv'
<1>0. pc[c] = "popTurn"
  BY DEF PopTurn
<1>1. PICK a, l, q, i, k : Popping(c, a, l, q, i, k)
  BY <1>0, PopIs
<1>2. /\ Shape /\ q \in Micros /\ QueueOK(q) /\ l \in Locals /\ Micro(c) = q
      /\ l = loc[c] /\ c \in Threads /\ i \in Rings(q) /\ a = pc[c]
      /\ loc[c].this = i /\ k \in Nat /\ K(c) = k /\ c \notin Pushers
      /\ At(q, k) < m_nReadIndex /\ ~ Done(q, k)
  BY <1>1, InvTypes DEF Popping
<1> SUFFICES ASSUME NEW w, w = R(q), NEW v, v = w + 1 PROVE Inv'
  OBVIOUS
<1>3. /\ w \in Nat /\ WC(q) \in Nat /\ RC(q) = w /\ W(q) \in Rings(q) /\ W(q) \in Nat
      /\ w <= WC(q) /\ i = w /\ Res(q, i) <= k /\ v <= W(q) /\ l.next = w
      /\ Beg(q, i) <= k /\ k <= Fin(q, i) /\ v \in Nat /\ w < v
      /\ \A j \in Nat : Res(q, i) <= j /\ j < k => Done(q, j)
  <2>1. /\ i = w /\ RC(q) = w /\ w <= WC(q) /\ Beg(q, i) <= k /\ k <= Fin(q, i)
        /\ \A j \in Nat : Res(q, i) <= j /\ j < k => Done(q, j)
        /\ l.next = w
    BY <1>0, <1>1, <1>2 DEF Popping, TurnerOK
  <2>2. /\ w \in Nat /\ WC(q) \in Nat /\ RC(q) \in Nat /\ W(q) \in Rings(q)
        /\ Res(q, i) \in Nat /\ Beg(q, i) \in Nat /\ Res(q, i) <= Beg(q, i)
        /\ W(q) \in Nat
    BY <1>2, QueueIs
  <2>3. WC(q) = W(q) - 1 \/ WC(q) = W(q) - 2
    BY <1>2 DEF QueueOK, PointersOK
  <2> QED
    BY <1>2, <2>1, <2>2, <2>3
<1>15. w \in Slots /\ Slot(q, w) = v
  <2>1. w \in Slots
    BY <1>2, <1>3 DEF PopTurn
  <2>2. w < W(q)
    BY <1>3
  <2> QED
    BY <1>2, <2>1, <2>2 DEF QueueOK, PointersOK
<1> DEFINE g == [m_queue[q] EXCEPT !.m_pRead = v]
<1>4. /\ Goto(c, "popRelease") /\ loc' = [loc EXCEPT ![c] = l]
      /\ m_queue' = [m_queue EXCEPT ![q] = g]
      /\ UNCHANGED <<indexVars, heap, m_pPool, delivered>>
  BY <1>2, <1>3, <1>15 DEF PopTurn, Shape, TypeOK, Slot
<1>5. /\ g.m_pWrite = W(q) /\ g.m_pRead = v
      /\ g.m_nWriteCircle = WC(q) /\ g.m_nReadCircle = w
      /\ \A x : g.m_pCircle[x] = Slot(q, x)
  BY <1>2, <1>3 DEF Shape, TypeOK, MicroQueues, R, W, WC, RC, Slot
<1> HIDE DEF g
<1>6. /\ Within(c, q) /\ HeapSame /\ CellsSame /\ DoneSame /\ PushedSame
      /\ m_queue'[q] = g /\ Micro(c)' = Micro(c) /\ K(c)' = K(c)
      /\ \A u \in Threads : u # c => Same(u)
  <2>1. q = Micro(c) /\ c \in Threads /\ l.index = loc[c].index
    BY <1>2
  <2>2. Moves(c, "popRelease", l)
    BY <1>0, <1>4, <2>1 DEF Moves
  <2>3. /\ m_queue' = [m_queue EXCEPT ![q] = g]
        /\ UNCHANGED <<indexVars, heap, m_pPool, delivered>>
    BY <1>4
  <2>4. OnlyPointers(c, q, g)
    BY <2>1, <2>2, <2>3, PointerChange
  <2> QED
    BY <2>4 DEF OnlyPointers
<1>7. pc'[c] = "popRelease" /\ loc'[c] = l
  BY <1>2, <1>4 DEF Goto, Shape, TypeOK
<1>8. /\ W(q)' = W(q) /\ R(q)' = v /\ WC(q)' = WC(q) /\ RC(q)' = w
      /\ \A x : Slot(q, x)' = Slot(q, x)
  BY <1>5, <1>6 DEF W, R, WC, RC, Slot
<1>9. /\ m_nPreWriteIndex' = m_nPreWriteIndex /\ m_nReadIndex' = m_nReadIndex
      /\ delivered' = delivered /\ \A n : WasDelivered(n)' <=> WasDelivered(n)
      /\ \A n : At(q, n)' = At(q, n)
  BY <1>4 DEF indexVars, WasDelivered, At
<1>10. QueueOK(q)'
  <2>1. \A j \in Rings(q)' : RingOK(q, j)'
    <3>1. R(q)' \in Nat /\ R(q) <= R(q)'
      BY <1>3, <1>8
    <3> QED
      BY <1>2, <1>6, <1>9, <3>1, RingsKept
  <2>2. ChainOK(q)'
    BY <1>2, <1>6, ChainOKFrame DEF QueueOK
  <2>3. PointersOK(q)'
    <3>1. PointersOK(q)
      BY <1>2 DEF QueueOK
    <3>2. v <= WC(q) + 1 /\ w = v - 1
      BY <1>3
    <3>3. Pushed(q, Res(q, W(q)))' <=> Pushed(q, Res(q, W(q)))
      <4> SUFFICES ASSUME NEW m, m = Res(q, W(q)) PROVE Pushed(q, m)' <=> Pushed(q, m)
        BY <1>6, <1>8 DEF HeapSame
      <4>1. m \in Nat
        BY <1>2, InvTypes
      <4> QED
        BY <1>2, <1>6, <4>1 DEF PushedSame
    <3> QED
      BY <1>3, <1>6, <1>8, <3>1, <3>2, <3>3 DEF PointersOK, HeapSame
  <2>4. PlacesOK(q)'
    BY <1>2, <1>6, <1>8, <1>9 DEF QueueOK, PlacesOK, HeapSame, DoneSame, PushedSame
  <2>5. CellsOK(q)'
    BY <1>2, <1>6, CellsOKFrame DEF QueueOK
  <2>6. TurnedOK(q)'
    <3>1. ASSUME NEW j \in Rings(q), NEW y \in Nat,
                 TurnedAt(q, j, y) \/ (j = w /\ y = k)
          PROVE  TurnedAt(q, j, y)'
      <4>1. ASSUME NEW d \in Poppers, PopAt(d, q, y)'
            PROVE  pc'[d] \in {"popRelease", "popRetry"} \/ loc'[d].this > j
        <5>1. CASE d = c
          BY <1>7, <5>1
        <5>2. CASE d # c
          <6>1. PopAt(d, q, y) /\ pc'[d] = pc[d] /\ loc'[d] = loc[d]
            BY <1>2, <1>6, <4>1, <5>2, InvTypes DEF PopAt, Same
          <6>2. ~ (j = w /\ y = k)
            BY <1>0, <1>2, <5>2, <6>1 DEF Inv, UniqueOK, PopAt
          <6> QED
            BY <3>1, <6>1, <6>2 DEF TurnedAt
        <5> QED
          BY <5>1, <5>2
      <4>2. /\ Beg(q, j) <= y /\ y <= Fin(q, j) /\ At(q, y) < m_nReadIndex
            /\ \A x \in Nat : Res(q, j) <= x /\ x < y => Done(q, x)
            /\ y = Fin(q, j) \/ ~ Done(q, y)
        BY <1>2, <1>3, <3>1 DEF TurnedAt
      <4> QED
        BY <1>2, <1>6, <1>9, <4>1, <4>2 DEF TurnedAt, HeapSame, DoneSame
    <3>2. ASSUME NEW j \in Rings(q), j < v PROVE \E y \in Nat : TurnedAt(q, j, y)'
      <4>1. j < w \/ j = w
        BY <1>2, <1>3, <3>2, QueueIs
      <4>2. CASE j < w
        <5>1. PICK y \in Nat : TurnedAt(q, j, y)
          BY <1>2, <4>2 DEF QueueOK, TurnedOK
        <5> QED
          BY <3>1, <5>1
      <4>3. CASE j = w
        BY <1>2, <3>1, <4>3
      <4> QED
        BY <4>1, <4>2, <4>3
    <3> QED
      BY <1>6, <1>8, <3>2 DEF TurnedOK, HeapSame
  <2> QED
    BY <2>1, <2>2, <2>3, <2>4, <2>5, <2>6 DEF QueueOK
<1>11. ASSUME NEW u \in Pushers, NEW b, NEW m, NEW j, NEW y, b # "pushDone",
              Pushing(u, b, m, q, j, y)
       PROVE  PushFits(b, m)'
  <2>1. /\ HolderOK(b, m, q, y) /\ EntryOK(b, m, q, j, y)
        /\ CloserOK(b, m, q, j, y) /\ GrowerOK(b, m, q, y)
        /\ q = MicroOf(m.index) /\ y = PosOf(m.index) /\ j = m.this /\ y \in Nat
        /\ j \in Rings(q)
    BY <1>11 DEF Pushing
  <2>2. HolderOK(b, m, q, y)'
    BY <1>6, <1>8, <1>9, <2>1 DEF HolderOK, HeapSame
  <2>3. EntryOK(b, m, q, j, y)'
    BY <1>6, <1>8, <2>1 DEF EntryOK, HeapSame, CellsSame
  <2>4. CloserOK(b, m, q, j, y)'
    <3>1. CloserOK(b, m, q, j, y) /\ W(q)' = W(q) /\ j \in Rings(q)
          /\ HeapSame /\ CellsSame /\ \A x \in Nat : Done(q, x)' <=> Done(q, x)
      BY <1>2, <1>6, <1>8, <2>1 DEF DoneSame
    <3> QED
      BY <3>1 DEF CloserOK, HeapSame, CellsSame
  <2>5. GrowerOK(b, m, q, y)'
    BY <1>6, <1>8, <2>1 DEF GrowerOK, HeapSame
  <2>6. MicroOf(m.index)' = q /\ PosOf(m.index)' = y
    BY <2>1 DEF MicroOf, PosOf, Word
  <2> QED
    BY <2>1, <2>2, <2>3, <2>4, <2>5, <2>6 DEF PushFits
<1>12. ASSUME NEW d \in Poppers, NEW b, NEW m, NEW j, NEW y, d # c, b # "popDone",
              Popping(d, b, m, q, j, y)
       PROVE  PopFits(b, m)'
  <2>0. (j <= w => j <= v) /\ (j < w => j < v)
    <3>1. j \in Rings(q)
      BY <1>12 DEF Popping
    <3>2. j \in Nat
      BY <1>2, <3>1, QueueIs
    <3> QED
      BY <1>3, <3>2
  <2>1. ReaderOK(b, m, q, j, y)'
    BY <1>6, <1>8, <1>9, <1>12, <2>0 DEF Popping, ReaderOK, HeapSame, PushedSame
  <2>4. b \notin {"popNext", "popBump", "popTurn"}
    <3> SUFFICES ASSUME b \in {"popNext", "popBump", "popTurn"} PROVE FALSE
      OBVIOUS
    <3>1. pc[d] = b /\ Micro(d) = q /\ loc[d].this = j /\ j = w
      BY <1>12 DEF Popping, TurnerOK
    <3>2. d = c
      BY <1>0, <1>1, <1>2, <1>3, <1>12, <3>1, OneTurner
    <3> QED
      BY <1>12, <3>2
  <2>2. TurnerOK(b, m, q, j, y)'
    BY <1>6, <1>8, <1>12, <2>4 DEF Popping, TurnerOK, HeapSame, DoneSame
  <2>3. MicroOf(m.index)' = q /\ PosOf(m.index)' = y
    BY <1>12 DEF Popping, MicroOf, PosOf, Word
  <2> QED
    BY <1>12, <2>1, <2>2, <2>3 DEF PopFits, Popping
<1>13. PopFits(pc[c], loc[c])'
  <2>0. i <= v /\ i < v
    BY <1>3
  <2>1. ReaderOK("popRelease", l, q, i, k)'
    BY <1>0, <1>1, <1>2, <1>8, <1>9, <2>0 DEF Popping, ReaderOK
  <2>2. TurnerOK("popRelease", l, q, i, k)'
    BY DEF TurnerOK
  <2>3. MicroOf(l.index)' = q /\ PosOf(l.index)' = k
    BY <1>1 DEF Popping, MicroOf, PosOf, Word
  <2>4. PopFits("popRelease", l)'
    BY <1>1, <2>1, <2>2, <2>3 DEF PopFits, Popping
  <2> QED
    BY <1>7, <2>4
<1> QED
  BY <1>2, <1>6, <1>10, <1>11, <1>12, <1>13, StepWithin

(* A rest is smaller than its divisor.                                    *)
LEMMA ModRange ==
  ASSUME NEW n \in Nat \ {0}, NEW a \in Int
  PROVE  a % n \in 0 .. n - 1
OBVIOUS

(* A step that rewrites the cell of a place in a ring's window. *)
LEMMA CellChange ==
  ASSUME Inv, NEW q \in Micros, NEW i \in Rings(q), NEW k \in Nat,
         Beg(q, i) <= k, k < Fin(q, i), NEW f, heap' = heap, NEW z,
         z = (k - Res(q, i)) % Size(q, i),
         \A j \in Rings(q) : j # i => m_pPool'[q][j] = m_pPool[q][j],
         m_pPool'[q][i] = [m_pPool[q][i] EXCEPT ![z] = f]
  PROVE  /\ Sg(q, i, k)' = f.m_nWrite /\ Dt(q, i, k)' = f.m_pData
         /\ \A j \in Rings(q) : \A y \in Nat :
              j # i \/ (Beg(q, i) <= y /\ y < Fin(q, i) /\ y # k) =>
                Sg(q, j, y)' = Sg(q, j, y) /\ Dt(q, j, y)' = Dt(q, j, y)
         /\ \A j \in Rings(q) : \A y \in Nat :
              \/ Sg(q, j, y)' = Sg(q, j, y)
              \/ /\ j = i /\ Sg(q, i, y) = Sg(q, i, k)
                 /\ Sg(q, j, y)' = f.m_nWrite
<1> DEFINE Spot(j, y) == (y - Res(q, j)) % Size(q, j)
<1>1. /\ DOMAIN m_pPool = Micros /\ DOMAIN m_pPool[q] = Rings(q)
      /\ \A j \in Rings(q) : /\ Res(q, j) \in Nat /\ Size(q, j) \in Nat \ {0}
                             /\ Beg(q, j) \in Nat
                             /\ Fin(q, j) = Beg(q, j) + Size(q, j)
      /\ \A j \in Rings(q) : DOMAIN m_pPool[q][j] = 0 .. Size(q, j) - 1
  <2>1. Shape
    BY DEF Inv
  <2>2. heap[q] \in Seq(Ring)
    BY <2>1 DEF Shape, TypeOK
  <2>3. DOMAIN heap[q] = Rings(q)
    BY <2>2 DEF Rings
  <2> QED
    BY <2>1, <2>3, RingTypes DEF Shape, TypeOK, Size
<1>2. \A j \in Rings(q) : \A y \in Nat : Spot(j, y) \in 0 .. Size(q, j) - 1
  <2> SUFFICES ASSUME NEW j \in Rings(q), NEW y \in Nat
               PROVE  Spot(j, y) \in 0 .. Size(q, j) - 1
    OBVIOUS
  <2>1. y - Res(q, j) \in Int /\ Size(q, j) \in Nat \ {0}
    BY <1>1
  <2> QED
    BY <2>1, ModRange
<1>3. HeapSame
  BY HeapFrame
<1>4. ASSUME NEW j \in Rings(q), NEW y \in Nat
      PROVE  /\ Sg(q, j, y) = m_pPool[q][j][Spot(j, y)].m_nWrite
             /\ Dt(q, j, y) = m_pPool[q][j][Spot(j, y)].m_pData
             /\ Sg(q, j, y)' = m_pPool'[q][j][Spot(j, y)].m_nWrite
             /\ Dt(q, j, y)' = m_pPool'[q][j][Spot(j, y)].m_pData
  BY <1>3 DEF Sg, Dt, HeapSame
<1>5. \A y \in Nat : Beg(q, i) <= y /\ y < Fin(q, i) /\ Spot(i, y) = Spot(i, k) => y = k
  <2> SUFFICES ASSUME NEW y \in Nat, Beg(q, i) <= y, y < Fin(q, i),
                      Spot(i, y) = Spot(i, k)
               PROVE  y = k
    OBVIOUS
  <2>1. /\ y - Res(q, i) \in Int /\ k - Res(q, i) \in Int /\ Size(q, i) \in Nat \ {0}
        /\ (y - Res(q, i)) - (k - Res(q, i)) < Size(q, i)
        /\ (k - Res(q, i)) - (y - Res(q, i)) < Size(q, i)
    <3>1. /\ Res(q, i) \in Nat /\ Size(q, i) \in Nat \ {0} /\ Beg(q, i) \in Nat
          /\ Fin(q, i) = Beg(q, i) + Size(q, i)
      BY <1>1
    <3>2. Beg(q, i) <= y /\ y < Fin(q, i) /\ Beg(q, i) <= k /\ k < Fin(q, i)
      OBVIOUS
    <3> HIDE DEF Spot
    <3> QED
      BY <3>1, <3>2
  <2>2. y - Res(q, i) = k - Res(q, i)
    BY <2>1, CellApart
  <2> QED
    BY <1>1, <2>2
<1>7. /\ \A j \in Rings(q) : j # i => m_pPool'[q][j] = m_pPool[q][j]
      /\ m_pPool'[q][i] = [m_pPool[q][i] EXCEPT ![Spot(i, k)] = f]
  OBVIOUS
<1> HIDE DEF Spot
<1>8. /\ m_pPool'[q][i][Spot(i, k)] = f
      /\ \A x \in 0 .. Size(q, i) - 1 : x # Spot(i, k) =>
           m_pPool'[q][i][x] = m_pPool[q][i][x]
  BY <1>1, <1>2, <1>7
<1>9. Sg(q, i, k)' = f.m_nWrite /\ Dt(q, i, k)' = f.m_pData
  BY <1>4, <1>8
<1>10. ASSUME NEW j \in Rings(q), NEW y \in Nat
       PROVE  /\ j # i \/ Spot(i, y) # Spot(i, k) =>
                   Sg(q, j, y)' = Sg(q, j, y) /\ Dt(q, j, y)' = Dt(q, j, y)
              /\ \/ Sg(q, j, y)' = Sg(q, j, y)
                 \/ /\ j = i /\ Sg(q, i, y) = Sg(q, i, k)
                    /\ Sg(q, j, y)' = f.m_nWrite
  <2>1. j # i => Sg(q, j, y)' = Sg(q, j, y) /\ Dt(q, j, y)' = Dt(q, j, y)
    BY <1>4, <1>7
  <2>4. /\ Sg(q, i, y) = m_pPool[q][i][Spot(i, y)].m_nWrite
        /\ Dt(q, i, y) = m_pPool[q][i][Spot(i, y)].m_pData
        /\ Sg(q, i, y)' = m_pPool'[q][i][Spot(i, y)].m_nWrite
        /\ Dt(q, i, y)' = m_pPool'[q][i][Spot(i, y)].m_pData
        /\ Sg(q, i, k) = m_pPool[q][i][Spot(i, k)].m_nWrite
        /\ Spot(i, y) \in 0 .. Size(q, i) - 1
    BY <1>2, <1>4
  <2>2. Spot(i, y) # Spot(i, k) =>
          Sg(q, i, y)' = Sg(q, i, y) /\ Dt(q, i, y)' = Dt(q, i, y)
    BY <1>8, <2>4
  <2>3. Spot(i, y) = Spot(i, k) =>
          Sg(q, i, y) = Sg(q, i, k) /\ Sg(q, i, y)' = f.m_nWrite
    BY <1>8, <2>4
  <2> QED
    BY <2>1, <2>2, <2>3
<1> QED
  BY <1>5, <1>7, <1>9, <1>10

(* What a closing push has seen stays true.                               *)
LEMMA CloserFrame ==
  ASSUME NEW a, NEW l, NEW q, NEW i, NEW k, CloserOK(a, l, q, i, k),
         HeapSame, W(q)' = W(q),
         \A x \in Nat : Done(q, x) => Done(q, x)',
         \A x \in Nat : Sg(q, i, x) # 0 => Sg(q, i, x)' # 0
  PROVE  CloserOK(a, l, q, i, k)'
<1>1. /\ Len(heap[q])' = Len(heap[q]) /\ Beg(q, i)' = Beg(q, i)
      /\ Half(q, i)' = Half(q, i) /\ Size(q, i)' = Size(q, i)
      /\ Closed(q, i)' = Closed(q, i) /\ heap[q][i]' = heap[q][i]
      /\ Fin(q, W(q))' = Fin(q, W(q)) /\ W(q)' = W(q)
  BY DEF HeapSame
<1>2. a \in {"pushScan", "pushAdvance", "pushNoWrite", "pushAwait",
                "pushNext", "pushGrow"} =>
       i = W(q)' /\ l.own = W(q)' /\ Len(heap[q])' = W(q)' /\ k = Fin(q, W(q))'
  BY <1>1 DEF CloserOK
<1>3. /\ a \in {"pushScan", "pushAdvance", "pushNoWrite"} =>
           ~ Closed(q, i)' /\ l.begin = heap[q][i].m_nBeginIndex'
      /\ a \in {"pushScan", "pushNoWrite"} => l.scan < Half(q, i)'
      /\ a = "pushAdvance" => l.scan = Half(q, i)'
      /\ a = "pushAwait" => l.scan < Size(q, i)'
      /\ a \in {"pushNext", "pushGrow"} => l.scan = Size(q, i)'
  BY <1>1 DEF CloserOK
<1>4. a \in {"pushScan", "pushNoWrite", "pushAdvance"} =>
        \A j \in Nat : Beg(q, i)' <= j /\ j < Beg(q, i)' + l.scan => Done(q, j)'
  BY <1>1 DEF CloserOK
<1>5. a \in {"pushAwait", "pushNext", "pushGrow"} =>
        \A j \in Nat : Beg(q, i)' <= j /\ j < Beg(q, i)' + l.scan => Sg(q, i, j)' # 0
  BY <1>1 DEF CloserOK
<1> QED
  BY <1>2, <1>3, <1>4, <1>5 DEF CloserOK

(* A ring has a pool of its size.                                         *)
LEMMA PoolTypes ==
  ASSUME Shape, NEW q \in Micros, NEW i \in Rings(q)
  PROVE  /\ DOMAIN m_pPool = Micros /\ DOMAIN m_pPool[q] = Rings(q)
         /\ m_pPool[q][i] \in [0 .. Size(q, i) - 1 -> Cell]
<1>1. heap[q] \in Seq(Ring)
  BY DEF Shape, TypeOK
<1>2. DOMAIN heap[q] = Rings(q)
  BY <1>1 DEF Rings
<1> QED
  BY <1>2 DEF Shape, TypeOK, Size

(* PushData keeps the invariant: line 103.                                *)
LEMMA PushDataInv ==
  ASSUME Roomy, Inv, Shape', NEW p \in Pushers, PushData(p)
  PROVE  Inv'
<1>0. pc[p] = "pushData"
  BY DEF PushData
<1>1. PICK a, l, q, i, k : Pushing(p, a, l, q, i, k)
  BY <1>0, PushIs
<1>2. /\ Shape /\ q \in Micros /\ QueueOK(q) /\ l \in Locals /\ Micro(p) = q
      /\ l = loc[p] /\ p \in Threads /\ p \notin Poppers /\ a = pc[p]
      /\ i = loc[p].this /\ l.index \in Nat /\ K(p) = k /\ k \in Nat /\ k \in Places
      /\ i \in Rings(q) /\ l.index = At(q, k) /\ ~ Pushed(q, k)
  BY <1>1, InvTypes DEF Pushing, Locals
<1>3. /\ i <= W(q) /\ Beg(q, i) <= k /\ k < Fin(q, i) /\ Res(q, i) <= k /\ RingOK(q, i)
  <2>1. i <= W(q) /\ Beg(q, i) <= k /\ k < Fin(q, i)
    BY <1>0, <1>1, <1>2 DEF Pushing, EntryOK
  <2>2. RingOK(q, i) /\ Res(q, i) \in Nat /\ Beg(q, i) \in Nat /\ Res(q, i) <= Beg(q, i)
    BY <1>2, QueueIs
  <2> QED
    BY <1>2, <2>1, <2>2
<1> DEFINE z == (k - Res(q, i)) % Size(q, i)
           f == [m_pPool[q][i][z] EXCEPT !.m_pData = l.index]
<1>4. /\ Goto(p, "pushSign") /\ loc' = [loc EXCEPT ![p] = l]
      /\ m_pPool' = [m_pPool EXCEPT ![q][i][z] = f]
      /\ m_queue' = m_queue /\ heap' = heap /\ delivered' = delivered
      /\ m_nPreWriteIndex' = m_nPreWriteIndex /\ m_nReadIndex' = m_nReadIndex
  <2>1. CellOf(This(p), Index(p)) = z
    BY <1>2, <1>3, CellHere DEF This, Index
  <2> QED
    BY <1>2, <2>1 DEF PushData, Index, Shape, TypeOK, indexVars, Pool
<1>5. f.m_pData = l.index /\ f.m_nWrite = Sg(q, i, k)
  <2>1. m_pPool[q][i] \in [0 .. Size(q, i) - 1 -> Cell]
    BY <1>2, PoolTypes
  <2>2. z \in 0 .. Size(q, i) - 1
    BY <1>2, RingTypes
  <2>3. m_pPool[q][i][z] \in Cell
    BY <2>1, <2>2
  <2> QED
    BY <2>3 DEF Cell, Sg
<1> HIDE DEF f
<1>15. /\ \A x \in Micros : x # q => m_pPool'[x] = m_pPool[x]
       /\ \A j \in Rings(q) : j # i => m_pPool'[q][j] = m_pPool[q][j]
       /\ m_pPool'[q][i] = [m_pPool[q][i] EXCEPT ![z] = f]
  <2>1. DOMAIN m_pPool = Micros /\ DOMAIN m_pPool[q] = Rings(q)
    BY <1>2, PoolTypes
  <2>2. m_pPool' = [m_pPool EXCEPT ![q][i][z] = f]
    BY <1>4
  <2> HIDE DEF z
  <2> QED
    BY <1>2, <2>1, <2>2
<1>6. /\ Sg(q, i, k)' = f.m_nWrite /\ Dt(q, i, k)' = f.m_pData
      /\ \A j \in Rings(q) : \A y \in Nat :
              j # i \/ (Beg(q, i) <= y /\ y < Fin(q, i) /\ y # k) =>
                Sg(q, j, y)' = Sg(q, j, y) /\ Dt(q, j, y)' = Dt(q, j, y)
      /\ \A j \in Rings(q) : \A y \in Nat :
              \/ Sg(q, j, y)' = Sg(q, j, y)
              \/ /\ j = i /\ Sg(q, i, y) = Sg(q, i, k)
                 /\ Sg(q, j, y)' = f.m_nWrite
  <2>1. z = (k - Res(q, i)) % Size(q, i)
    OBVIOUS
  <2> HIDE DEF z
  <2>2. /\ q \in Micros /\ i \in Rings(q) /\ k \in Nat
        /\ Beg(q, i) <= k /\ k < Fin(q, i) /\ heap' = heap
    BY <1>2, <1>3, <1>4
  <2> QED
    BY <1>15, <2>1, <2>2, CellChange
<1>7. /\ Within(p, q) /\ DoneSame /\ PushedSame
      /\ Micro(p)' = Micro(p) /\ K(p)' = K(p)
      /\ \A u \in Threads : u # p => Same(u)
  <2>1. \A x \in Micros : x # q =>
          heap'[x] = heap[x] /\ m_queue'[x] = m_queue[x] /\ m_pPool'[x] = m_pPool[x]
    BY <1>4, <1>15
  <2>2. l.index = loc[p].index /\ q = Micro(p)
        /\ pc[p] \notin {"pushDone", "popDone"} /\ "pushSign" \notin {"pushDone", "popDone"}
    BY <1>0, <1>2
  <2> QED
    BY <1>2, <1>4, <2>1, <2>2, KeepWithin
<1>8. pc'[p] = "pushSign" /\ loc'[p] = l
  BY <1>2, <1>4 DEF Goto, Shape, TypeOK
<1>9. /\ HeapSame /\ PointersSame
      /\ \A n : WasDelivered(n)' <=> WasDelivered(n)
      /\ \A n : At(q, n)' = At(q, n)
  BY <1>4, HeapFrame, PointersFrame DEF WasDelivered, At
<1>10. \A j \in Rings(q) : \A y \in Nat : Sg(q, j, y)' = Sg(q, j, y)
  BY <1>5, <1>6
<1>11. QueueOK(q)'
  <2>1. \A j \in Rings(q)' : RingOK(q, j)'
    <3>1. R(q)' \in Nat /\ R(q) <= R(q)'
      BY <1>2, <1>9, QueueIs DEF PointersSame
    <3> QED
      BY <1>2, <1>4, <1>9, <3>1, RingsKept
  <2>2. \A d \in Poppers : pc[d] = "popTurn" =>
          pc'[d] = "popTurn" /\ Micro(d)' = Micro(d)
    BY <1>2, <1>7, InvTypes DEF Same
  <2>3. ChainOK(q)' /\ PointersOK(q)' /\ PlacesOK(q)'
    BY <1>2, <1>7, <1>9, <2>2, ChainOKFrame, PointersOKFrame, PlacesOKFrame,
       InvTypes DEF QueueOK
  <2>4. CellsOK(q)'
    <3> SUFFICES ASSUME NEW j \in Rings(q), NEW y \in Nat,
                        Beg(q, j) <= y, y < Fin(q, j)
                 PROVE  CellOK(q, j, y)'
      BY <1>9 DEF CellsOK, HeapSame
    <3>1. CellOK(q, j, y)
      BY <1>2 DEF QueueOK, CellsOK
    <3>2. Pushed(q, y) => Dt(q, j, y)' = Dt(q, j, y)
      BY <1>2, <1>6
    <3> QED
      BY <1>2, <1>7, <1>9, <1>10, <3>1, <3>2 DEF CellOK, HeapSame, DoneSame, PushedSame
  <2>5. TurnedOK(q)'
    BY <1>2, <1>4, <1>7, <1>9, TurnedKept DEF PointersSame
  <2> QED
    BY <2>1, <2>3, <2>4, <2>5 DEF QueueOK
<1>12. ASSUME NEW u \in Pushers, NEW b, NEW m, NEW j, NEW y, u # p, b # "pushDone",
              Pushing(u, b, m, q, j, y)
       PROVE  PushFits(b, m)'
  <2>1. /\ b = pc[u] /\ Micro(u) = q /\ K(u) = y
        /\ HolderOK(b, m, q, y) /\ EntryOK(b, m, q, j, y)
        /\ CloserOK(b, m, q, j, y) /\ GrowerOK(b, m, q, y)
        /\ q = MicroOf(m.index) /\ y = PosOf(m.index) /\ j = m.this /\ y \in Nat
        /\ j \in Rings(q)
    BY <1>12 DEF Pushing
  <2>2. y # k
    BY <1>0, <1>2, <1>12, <2>1 DEF Inv, UniqueOK
  <2>3. HolderOK(b, m, q, y)'
    BY <1>4, <1>9, <2>1 DEF HolderOK, HeapSame, PointersSame
  <2>4. EntryOK(b, m, q, j, y)'
    <3>1. b = "pushSign" => Dt(q, j, y)' = Dt(q, j, y)
      BY <1>6, <2>1, <2>2 DEF EntryOK
    <3> QED
      BY <1>9, <2>1, <3>1 DEF EntryOK, HeapSame, PointersSame
  <2>5. CloserOK(b, m, q, j, y)'
    <3>1. CloserOK(b, m, q, j, y) /\ W(q)' = W(q) /\ HeapSame
      BY <1>9, <2>1 DEF PointersSame
    <3>2. \A x \in Nat : Done(q, x) => Done(q, x)'
      BY <1>2, <1>7 DEF DoneSame
    <3>3. \A x \in Nat : Sg(q, j, x) # 0 => Sg(q, j, x)' # 0
      BY <1>10, <2>1
    <3> QED
      BY <3>1, <3>2, <3>3, CloserFrame
  <2>6. GrowerOK(b, m, q, y)'
    BY <1>9, <2>1 DEF GrowerOK, HeapSame, PointersSame
  <2>7. MicroOf(m.index)' = q /\ PosOf(m.index)' = y
    BY <2>1 DEF MicroOf, PosOf, Word
  <2> QED
    BY <2>1, <2>3, <2>4, <2>5, <2>6, <2>7 DEF PushFits
<1>13. ASSUME NEW d \in Poppers, NEW b, NEW m, NEW j, NEW y, b # "popDone",
              Popping(d, b, m, q, j, y)
       PROVE  PopFits(b, m)'
  <2>1. PopFits(b, m)
    BY <1>13 DEF Popping, PopFits
  <2>2. m.index \in Nat /\ \A n : WasDelivered(n) => WasDelivered(n)'
    BY <1>9, <1>13 DEF Popping, Locals
  <2> QED
    BY <1>4, <1>7, <1>9, <2>1, <2>2, PopFitsFrame, InvTypes
<1>14. PushFits(pc[p], loc[p])'
  <2>1. /\ HolderOK("pushData", l, q, k) /\ EntryOK("pushData", l, q, i, k)
    BY <1>0, <1>1, <1>2 DEF Pushing
  <2>2. HolderOK("pushSign", l, q, k)'
    BY <1>4, <1>9, <2>1 DEF HolderOK, Late, HeapSame, PointersSame
  <2>3. Dt(q, i, k)' = l.index
    BY <1>5, <1>6
  <2>4. EntryOK("pushSign", l, q, i, k)'
    BY <1>9, <2>1, <2>3 DEF EntryOK, HeapSame, PointersSame
  <2>5. CloserOK("pushSign", l, q, i, k)' /\ GrowerOK("pushSign", l, q, k)'
    BY DEF CloserOK, GrowerOK
  <2>6. MicroOf(l.index)' = q /\ PosOf(l.index)' = k
    BY <1>1 DEF Pushing, MicroOf, PosOf, Word
  <2>7. PushFits("pushSign", l)'
    BY <1>1, <2>2, <2>4, <2>5, <2>6 DEF PushFits, Pushing
  <2> QED
    BY <1>8, <2>7
<1> QED
  BY <1>2, <1>7, <1>11, <1>12, <1>13, <1>14, StepWithin

(* Windows of different rings have no place in common. *)
LEMMA WindowsApart ==
  ASSUME Shape, NEW q \in Micros, QueueOK(q), NEW i \in Rings(q), NEW j \in Rings(q),
         NEW k \in Nat, Beg(q, i) <= k, k < Fin(q, i), Beg(q, j) <= k, k < Fin(q, j)
  PROVE  i = j
<1>1. /\ i \in Nat /\ j \in Nat
      /\ Res(q, i) \in Nat /\ Beg(q, i) \in Nat /\ Fin(q, i) \in Nat
      /\ Res(q, j) \in Nat /\ Beg(q, j) \in Nat /\ Fin(q, j) \in Nat
      /\ Res(q, i) <= Beg(q, i) /\ Res(q, j) <= Beg(q, j)
  BY QueueIs
<1>2. ASSUME i < j PROVE FALSE
  <2>1. Fin(q, i) <= Res(q, j)
    BY <1>2 DEF QueueOK, ChainOK
  <2> QED
    BY <1>1, <2>1
<1>3. ASSUME j < i PROVE FALSE
  <2>1. Fin(q, j) <= Res(q, i)
    BY <1>3 DEF QueueOK, ChainOK
  <2> QED
    BY <1>1, <2>1
<1> QED
  BY <1>1, <1>2, <1>3

(* PushSign keeps the invariant: lines 104-105.                           *)
LEMMA PushSignInv ==
  ASSUME Roomy, Inv, Shape', NEW p \in Pushers, PushSign(p)
  PROVE  Inv'
<1>0. pc[p] = "pushSign"
  BY DEF PushSign
<1>1. PICK a, l, q, i, k : Pushing(p, a, l, q, i, k)
  BY <1>0, PushIs
<1>2. /\ Shape /\ q \in Micros /\ QueueOK(q) /\ l \in Locals /\ Micro(p) = q
      /\ l = loc[p] /\ p \in Threads /\ p \notin Poppers /\ a = pc[p]
      /\ i = loc[p].this /\ l.index \in Nat /\ K(p) = k /\ k \in Nat /\ k \in Places
      /\ i \in Rings(q) /\ l.index = At(q, k) /\ ~ Pushed(q, k) /\ ~ Done(q, k)
      /\ At(q, k) < m_nPreWriteIndex
  BY <1>1, InvTypes DEF Pushing, Locals
<1>3. /\ i <= W(q) /\ Beg(q, i) <= k /\ k < Fin(q, i) /\ Res(q, i) <= k /\ RingOK(q, i)
      /\ Dt(q, i, k) = At(q, k)
  <2>1. i <= W(q) /\ Beg(q, i) <= k /\ k < Fin(q, i) /\ Dt(q, i, k) = At(q, k)
    BY <1>0, <1>1, <1>2 DEF Pushing, EntryOK
  <2>2. RingOK(q, i) /\ Res(q, i) \in Nat /\ Beg(q, i) \in Nat /\ Res(q, i) <= Beg(q, i)
    BY <1>2, QueueIs
  <2> QED
    BY <1>2, <2>1, <2>2
<1> SUFFICES ASSUME NEW sign, sign = Sign(Lap(Size(q, i), k - Res(q, i))) PROVE Inv'
  OBVIOUS
<1>16. sign \in Nat /\ sign > 0
  BY <1>2, <1>3, Signs
<1> DEFINE z == (k - Res(q, i)) % Size(q, i)
           f == [m_pPool[q][i][z] EXCEPT !.m_nWrite = sign + 1]
<1>4. /\ Return(p, "pushDone")
      /\ m_pPool' = [m_pPool EXCEPT ![q][i][z] = f]
      /\ m_queue' = m_queue /\ heap' = heap /\ delivered' = delivered
      /\ m_nPreWriteIndex' = m_nPreWriteIndex /\ m_nReadIndex' = m_nReadIndex
  <2>1. /\ CellOf(This(p), Index(p)) = z
        /\ WrittenSign(This(p), Index(p)) = sign + 1
    BY <1>2, <1>3, CellHere DEF This, Index
  <2> QED
    BY <1>2, <2>1 DEF PushSign, Index, Shape, TypeOK, indexVars, Pool
<1>5. f.m_nWrite = sign + 1 /\ f.m_pData = Dt(q, i, k)
  <2>1. m_pPool[q][i] \in [0 .. Size(q, i) - 1 -> Cell]
    BY <1>2, PoolTypes
  <2>2. z \in 0 .. Size(q, i) - 1
    BY <1>2, RingTypes
  <2>3. m_pPool[q][i][z] \in Cell
    BY <2>1, <2>2
  <2> QED
    BY <2>3 DEF Cell, Dt
<1> HIDE DEF f
<1>15. /\ \A x \in Micros : x # q => m_pPool'[x] = m_pPool[x]
       /\ \A j \in Rings(q) : j # i => m_pPool'[q][j] = m_pPool[q][j]
       /\ m_pPool'[q][i] = [m_pPool[q][i] EXCEPT ![z] = f]
  <2>1. DOMAIN m_pPool = Micros /\ DOMAIN m_pPool[q] = Rings(q)
    BY <1>2, PoolTypes
  <2>2. m_pPool' = [m_pPool EXCEPT ![q][i][z] = f]
    BY <1>4
  <2> HIDE DEF z
  <2> QED
    BY <1>2, <2>1, <2>2
<1>6. /\ Sg(q, i, k)' = f.m_nWrite /\ Dt(q, i, k)' = f.m_pData
      /\ \A j \in Rings(q) : \A y \in Nat :
              j # i \/ (Beg(q, i) <= y /\ y < Fin(q, i) /\ y # k) =>
                Sg(q, j, y)' = Sg(q, j, y) /\ Dt(q, j, y)' = Dt(q, j, y)
      /\ \A j \in Rings(q) : \A y \in Nat :
              \/ Sg(q, j, y)' = Sg(q, j, y)
              \/ /\ j = i /\ Sg(q, i, y) = Sg(q, i, k)
                 /\ Sg(q, j, y)' = f.m_nWrite
  <2>1. z = (k - Res(q, i)) % Size(q, i)
    OBVIOUS
  <2> HIDE DEF z
  <2>2. /\ q \in Micros /\ i \in Rings(q) /\ k \in Nat
        /\ Beg(q, i) <= k /\ k < Fin(q, i) /\ heap' = heap
    BY <1>2, <1>3, <1>4
  <2> QED
    BY <1>15, <2>1, <2>2, CellChange
<1>8. pc'[p] = "pushDone" /\ \A u \in Threads : u # p => Same(u)
  <2>1. Goto(p, "pushDone") /\ loc' = [loc EXCEPT ![p] = NoCall]
    BY <1>4 DEF Return
  <2> QED
    BY <1>2, <2>1, ThreadFrame
<1>7. Within(p, q) /\ DoneSame
  <2>1. \A x \in Micros : x # q =>
          heap'[x] = heap[x] /\ m_queue'[x] = m_queue[x] /\ m_pPool'[x] = m_pPool[x]
    BY <1>4, <1>15
  <2>2. DoneSame
    BY <1>2, <1>4, <1>8, DoneFrame
  <2> QED
    BY <1>0, <1>2, <1>4, <1>8, <2>1, <2>2 DEF Within
<1>9. /\ HeapSame /\ PointersSame
      /\ \A n : WasDelivered(n)' <=> WasDelivered(n)
      /\ \A n : At(q, n)' = At(q, n)
  BY <1>4, HeapFrame, PointersFrame DEF WasDelivered, At
<1>17. \A y \in Nat : Pushed(q, y)' <=> Pushed(q, y) \/ y = k
  <2> SUFFICES ASSUME NEW y \in Nat PROVE Pushed(q, y)' <=> Pushed(q, y) \/ y = k
    OBVIOUS
  <2>1. \A u \in Pushers : u # p => (PushAt(u, q, y)' <=> PushAt(u, q, y))
    BY <1>8, InvTypes DEF Same, PushAt
  <2>2. ~ PushAt(p, q, y)' /\ (PushAt(p, q, y) <=> y = k)
    BY <1>0, <1>2, <1>8 DEF PushAt
  <2>3. \A u \in Pushers : PushAt(u, q, k) => u = p
    BY <1>0, <1>2, PushFacts
  <2> QED
    BY <1>2, <1>4, <1>9, <2>1, <2>2, <2>3 DEF Pushed
<1>18. \A j \in Rings(q) : \A y \in Nat : Sg(q, j, y) # 0 => Sg(q, j, y)' # 0
  BY <1>5, <1>6, <1>16
<1>19. /\ W(q) \in Nat /\ W(q) \in Rings(q) /\ i \in Nat
       /\ Res(q, W(q)) \in Nat /\ Fin(q, W(q)) \in Nat /\ Beg(q, W(q)) \in Nat
       /\ Size(q, W(q)) \in Nat
       /\ Fin(q, W(q)) = Beg(q, W(q)) + Size(q, W(q))
       /\ Res(q, W(q)) <= Beg(q, W(q)) /\ Fin(q, i) \in Nat
  BY <1>2, QueueIs
<1>11. QueueOK(q)'
  <2>1. \A j \in Rings(q)' : RingOK(q, j)'
    <3>1. R(q)' \in Nat /\ R(q) <= R(q)'
      BY <1>2, <1>9, QueueIs DEF PointersSame
    <3> QED
      BY <1>2, <1>4, <1>9, <3>1, RingsKept
  <2>2. ChainOK(q)'
    BY <1>2, <1>9, ChainOKFrame DEF QueueOK
  <2>3. PointersOK(q)'
    <3>1. PointersOK(q)
      BY <1>2 DEF QueueOK
    <3>2. WC(q) = W(q) - 2 /\ ~ Pushed(q, Res(q, W(q))) =>
            ~ Pushed(q, Res(q, W(q)))'
      <4> SUFFICES ASSUME NEW m, m = Res(q, W(q)), WC(q) = W(q) - 2, ~ Pushed(q, m)
                   PROVE  ~ Pushed(q, m)'
        BY <1>9 DEF HeapSame, PointersSame
      <4>1. m # k
        BY <1>0, <1>1, <1>2 DEF Pushing, HolderOK
      <4> QED
        BY <1>17, <1>19, <4>1
    <3>3. \A d \in Poppers : pc[d] = "popTurn" =>
            pc'[d] = "popTurn" /\ Micro(d)' = Micro(d)
      BY <1>2, <1>8, InvTypes DEF Same
    <3> QED
      BY <1>9, <3>1, <3>2, <3>3 DEF PointersOK, HeapSame, PointersSame
  <2>4. PlacesOK(q)'
    <3>1. k < Fin(q, W(q))
      <4>1. CASE i = W(q)
        BY <1>3, <4>1
      <4>2. CASE i < W(q)
        <5>1. Fin(q, i) <= Res(q, W(q))
          BY <1>2, <1>19, <4>2 DEF QueueOK, ChainOK
        <5> QED
          BY <1>2, <1>3, <1>19, <5>1
      <4> QED
        BY <1>3, <1>19, <4>1, <4>2
    <3>2. \A y \in Nat : y >= Fin(q, W(q)) => ~ Pushed(q, y)'
      <4> SUFFICES ASSUME NEW y \in Nat, y >= Fin(q, W(q)) PROVE ~ Pushed(q, y)'
        OBVIOUS
      <4>1. y # k
        BY <1>2, <1>19, <3>1
      <4> QED
        BY <1>2, <1>17, <4>1 DEF QueueOK, PlacesOK
    <3>3. \A y \in Nat : Done(q, y)' => Pushed(q, y)' /\ WasDelivered(At(q, y))'
      BY <1>2, <1>7, <1>9, <1>17 DEF QueueOK, PlacesOK, DoneSame
    <3>4. \A j \in Rings(q) : \A y \in Nat :
            Res(q, j) <= y /\ y < Beg(q, j) => Done(q, y)'
      BY <1>2, <1>7 DEF QueueOK, PlacesOK, DoneSame
    <3> QED
      BY <1>9, <3>2, <3>3, <3>4 DEF PlacesOK, HeapSame, PointersSame
  <2>5. CellsOK(q)'
    <3> SUFFICES ASSUME NEW j \in Rings(q), NEW y \in Nat,
                        Beg(q, j) <= y, y < Fin(q, j)
                 PROVE  CellOK(q, j, y)'
      BY <1>9 DEF CellsOK, HeapSame
    <3>1. CellOK(q, j, y)
      BY <1>2 DEF QueueOK, CellsOK
    <3>2. CASE y = k
      <4>1. j = i
        BY <1>2, <1>3, <3>2, WindowsApart
      <4>2. /\ Sg(q, i, k)' = sign + 1 /\ Dt(q, i, k)' = At(q, k)
            /\ ~ Done(q, k)' /\ Pushed(q, k)'
        BY <1>2, <1>3, <1>5, <1>6, <1>7, <1>17 DEF DoneSame
      <4>3. CellOK(q, i, k)'
        BY <1>9, <4>2 DEF CellOK, HeapSame
      <4> QED
        BY <3>2, <4>1, <4>3
    <3>3. CASE y # k
      <4>1. Sg(q, j, y)' = Sg(q, j, y) /\ Dt(q, j, y)' = Dt(q, j, y)
        BY <1>6, <3>3
      <4>2. (Done(q, y)' <=> Done(q, y)) /\ (Pushed(q, y)' <=> Pushed(q, y))
        BY <1>2, <1>7, <1>17, <3>3 DEF DoneSame
      <4> QED
        BY <1>9, <3>1, <4>1, <4>2 DEF CellOK, HeapSame
    <3> QED
      BY <3>2, <3>3
  <2>6. TurnedOK(q)'
    BY <1>2, <1>4, <1>7, <1>8, <1>9, TurnedKept DEF PointersSame
  <2> QED
    BY <2>1, <2>2, <2>3, <2>4, <2>5, <2>6 DEF QueueOK
<1>12. ASSUME NEW u \in Pushers, NEW b, NEW m, NEW j, NEW y, u # p, b # "pushDone",
              Pushing(u, b, m, q, j, y)
       PROVE  PushFits(b, m)'
  <2>1. /\ b = pc[u] /\ Micro(u) = q /\ K(u) = y
        /\ HolderOK(b, m, q, y) /\ EntryOK(b, m, q, j, y)
        /\ CloserOK(b, m, q, j, y) /\ GrowerOK(b, m, q, y)
        /\ q = MicroOf(m.index) /\ y = PosOf(m.index) /\ j = m.this /\ y \in Nat
        /\ j \in Rings(q)
    BY <1>12 DEF Pushing
  <2>2. y # k
    BY <1>0, <1>2, <1>12, <2>1 DEF Inv, UniqueOK
  <2>3. HolderOK(b, m, q, y)'
    BY <1>4, <1>9, <2>1 DEF HolderOK, HeapSame, PointersSame
  <2>4. EntryOK(b, m, q, j, y)'
    <3>1. b = "pushSign" => Dt(q, j, y)' = Dt(q, j, y)
      BY <1>6, <2>1, <2>2 DEF EntryOK
    <3> QED
      BY <1>9, <2>1, <3>1 DEF EntryOK, HeapSame, PointersSame
  <2>5. CloserOK(b, m, q, j, y)'
    <3>1. CloserOK(b, m, q, j, y) /\ W(q)' = W(q) /\ HeapSame
      BY <1>9, <2>1 DEF PointersSame
    <3>2. \A x \in Nat : Done(q, x) => Done(q, x)'
      BY <1>2, <1>7 DEF DoneSame
    <3>3. \A x \in Nat : Sg(q, j, x) # 0 => Sg(q, j, x)' # 0
      BY <1>18, <2>1
    <3> QED
      BY <3>1, <3>2, <3>3, CloserFrame
  <2>6. GrowerOK(b, m, q, y)'
    BY <1>9, <2>1 DEF GrowerOK, HeapSame, PointersSame
  <2>7. MicroOf(m.index)' = q /\ PosOf(m.index)' = y
    BY <2>1 DEF MicroOf, PosOf, Word
  <2> QED
    BY <2>1, <2>3, <2>4, <2>5, <2>6, <2>7 DEF PushFits
<1>13. ASSUME NEW d \in Poppers, NEW b, NEW m, NEW j, NEW y, b # "popDone",
              Popping(d, b, m, q, j, y)
       PROVE  PopFits(b, m)'
  <2>1. ReaderOK(b, m, q, j, y)'
    BY <1>4, <1>9, <1>13, <1>17 DEF Popping, ReaderOK, HeapSame, PointersSame
  <2>2. TurnerOK(b, m, q, j, y)'
    BY <1>7, <1>9, <1>13 DEF Popping, TurnerOK, HeapSame, PointersSame, DoneSame
  <2>3. MicroOf(m.index)' = q /\ PosOf(m.index)' = y
    BY <1>13 DEF Popping, MicroOf, PosOf, Word
  <2> QED
    BY <1>13, <2>1, <2>2, <2>3 DEF PopFits, Popping
<1>14. PushFits(pc[p], loc[p])'
  <2>1. \A m : PushFits("pushDone", m)'
    BY DEF PushFits, HolderOK, EntryOK, CloserOK, GrowerOK
  <2>2. PushFits("pushDone", NoCall)'
    BY <2>1
  <2>3. loc'[p] = NoCall
    BY <1>2, <1>4 DEF Return, Shape, TypeOK
  <2> QED
    BY <1>8, <2>2, <2>3
<1> QED
  BY <1>2, <1>7, <1>11, <1>12, <1>13, <1>14, StepWithin

(* PopClear keeps the invariant: lines 145-146.                           *)
LEMMA PopClearInv ==
  ASSUME Roomy, Inv, Shape', NEW c \in Poppers, PopClear(c)
  PROVE  Inv'
<1>0. pc[c] = "popClear"
  BY DEF PopClear
<1>1. PICK a, l, q, i, k : Popping(c, a, l, q, i, k)
  BY <1>0, PopIs
<1>2. /\ Shape /\ q \in Micros /\ QueueOK(q) /\ l \in Locals /\ Micro(c) = q
      /\ l = loc[c] /\ c \in Threads /\ c \notin Pushers /\ a = pc[c]
      /\ i = loc[c].this /\ l.index \in Nat /\ K(c) = k /\ k \in Nat /\ k \in Places
      /\ i \in Rings(q) /\ l.index = At(q, k) /\ ~ Done(q, k)
      /\ At(q, k) < m_nReadIndex
  BY <1>1, InvTypes DEF Popping, Locals
<1>3. /\ Beg(q, i) <= k /\ k < Fin(q, i) /\ Res(q, i) <= k /\ RingOK(q, i)
      /\ Pushed(q, k) /\ WasDelivered(At(q, k))
      /\ Res(q, i) \in Nat /\ Beg(q, i) \in Nat /\ Res(q, i) <= Beg(q, i)
  <2>1. Beg(q, i) <= k /\ k < Fin(q, i) /\ Pushed(q, k) /\ WasDelivered(At(q, k))
    BY <1>0, <1>1, <1>2 DEF Popping, ReaderOK
  <2>2. RingOK(q, i) /\ Res(q, i) \in Nat /\ Beg(q, i) \in Nat /\ Res(q, i) <= Beg(q, i)
    BY <1>2, QueueIs
  <2> QED
    BY <1>2, <2>1, <2>2
<1> SUFFICES ASSUME NEW sign, sign = Sign(Lap(Size(q, i), k - Res(q, i))) PROVE Inv'
  OBVIOUS
<1>16. sign \in Nat /\ sign > 0
  BY <1>2, <1>3, Signs
<1> DEFINE z == (k - Res(q, i)) % Size(q, i)
           f == [m_pPool[q][i][z] EXCEPT !.m_nWrite = sign]
<1>4. /\ Return(c, "popDone")
      /\ m_pPool' = [m_pPool EXCEPT ![q][i][z] = f]
      /\ m_queue' = m_queue /\ heap' = heap /\ delivered' = delivered
      /\ m_nPreWriteIndex' = m_nPreWriteIndex /\ m_nReadIndex' = m_nReadIndex
  <2>1. /\ CellOf(This(c), Index(c)) = z
        /\ ReadSign(This(c), Index(c)) = sign
    BY <1>2, <1>3, CellHere DEF This, Index
  <2> QED
    BY <1>2, <2>1 DEF PopClear, Index, Shape, TypeOK, indexVars, Pool
<1>5. f.m_nWrite = sign /\ f.m_pData = Dt(q, i, k)
  <2>1. m_pPool[q][i] \in [0 .. Size(q, i) - 1 -> Cell]
    BY <1>2, PoolTypes
  <2>2. z \in 0 .. Size(q, i) - 1
    BY <1>2, RingTypes
  <2>3. m_pPool[q][i][z] \in Cell
    BY <2>1, <2>2
  <2> QED
    BY <2>3 DEF Cell, Dt
<1> HIDE DEF f
<1>15. /\ \A x \in Micros : x # q => m_pPool'[x] = m_pPool[x]
       /\ \A j \in Rings(q) : j # i => m_pPool'[q][j] = m_pPool[q][j]
       /\ m_pPool'[q][i] = [m_pPool[q][i] EXCEPT ![z] = f]
  <2>1. DOMAIN m_pPool = Micros /\ DOMAIN m_pPool[q] = Rings(q)
    BY <1>2, PoolTypes
  <2>2. m_pPool' = [m_pPool EXCEPT ![q][i][z] = f]
    BY <1>4
  <2> HIDE DEF z
  <2> QED
    BY <1>2, <2>1, <2>2
<1>6. /\ Sg(q, i, k)' = f.m_nWrite /\ Dt(q, i, k)' = f.m_pData
      /\ \A j \in Rings(q) : \A y \in Nat :
              j # i \/ (Beg(q, i) <= y /\ y < Fin(q, i) /\ y # k) =>
                Sg(q, j, y)' = Sg(q, j, y) /\ Dt(q, j, y)' = Dt(q, j, y)
      /\ \A j \in Rings(q) : \A y \in Nat :
              \/ Sg(q, j, y)' = Sg(q, j, y)
              \/ /\ j = i /\ Sg(q, i, y) = Sg(q, i, k)
                 /\ Sg(q, j, y)' = f.m_nWrite
  <2>1. z = (k - Res(q, i)) % Size(q, i)
    OBVIOUS
  <2> HIDE DEF z
  <2>2. /\ q \in Micros /\ i \in Rings(q) /\ k \in Nat
        /\ Beg(q, i) <= k /\ k < Fin(q, i) /\ heap' = heap
    BY <1>2, <1>3, <1>4
  <2> QED
    BY <1>15, <2>1, <2>2, CellChange
<1>8. pc'[c] = "popDone" /\ \A u \in Threads : u # c => Same(u)
  <2>1. Goto(c, "popDone") /\ loc' = [loc EXCEPT ![c] = NoCall]
    BY <1>4 DEF Return
  <2> QED
    BY <1>2, <2>1, ThreadFrame
<1>7. Within(c, q) /\ PushedSame
  <2>1. \A x \in Micros : x # q =>
          heap'[x] = heap[x] /\ m_queue'[x] = m_queue[x] /\ m_pPool'[x] = m_pPool[x]
    BY <1>4, <1>15
  <2>2. PushedSame
    BY <1>2, <1>4, <1>8, PushedFrame
  <2> QED
    BY <1>0, <1>2, <1>4, <1>8, <2>1, <2>2 DEF Within
<1>9. /\ HeapSame /\ PointersSame
      /\ \A n : WasDelivered(n)' <=> WasDelivered(n)
      /\ \A n : At(q, n)' = At(q, n)
  BY <1>4, HeapFrame, PointersFrame DEF WasDelivered, At
<1>17. \A y \in Nat : Done(q, y)' <=> Done(q, y) \/ y = k
  <2> SUFFICES ASSUME NEW y \in Nat PROVE Done(q, y)' <=> Done(q, y) \/ y = k
    OBVIOUS
  <2>1. \A u \in Poppers : u # c => (PopAt(u, q, y)' <=> PopAt(u, q, y))
    BY <1>8, InvTypes DEF Same, PopAt
  <2>2. ~ PopAt(c, q, y)' /\ (PopAt(c, q, y) <=> y = k)
    BY <1>0, <1>2, <1>8 DEF PopAt
  <2>3. \A u \in Poppers : PopAt(u, q, k) => u = c
    BY <1>0, <1>2 DEF Inv, UniqueOK, PopAt
  <2> QED
    BY <1>2, <1>4, <1>9, <2>1, <2>2, <2>3 DEF Done
<1>18. \A j \in Rings(q) : \A y \in Nat : Sg(q, j, y) # 0 => Sg(q, j, y)' # 0
  BY <1>5, <1>6, <1>16
<1>11. QueueOK(q)'
  <2>1. \A j \in Rings(q)' : RingOK(q, j)'
    <3>1. R(q)' \in Nat /\ R(q) <= R(q)'
      BY <1>2, <1>9, QueueIs DEF PointersSame
    <3> QED
      BY <1>2, <1>4, <1>9, <3>1, RingsKept
  <2>2. ChainOK(q)'
    BY <1>2, <1>9, ChainOKFrame DEF QueueOK
  <2>3. PointersOK(q)'
    <3>1. \A d \in Poppers : pc[d] = "popTurn" =>
            pc'[d] = "popTurn" /\ Micro(d)' = Micro(d)
      BY <1>0, <1>2, <1>8, InvTypes DEF Same
    <3> QED
      BY <1>2, <1>7, <1>9, <3>1, PointersOKFrame, InvTypes DEF QueueOK
  <2>4. PlacesOK(q)'
    <3>1. \A y \in Nat : Done(q, y)' => Pushed(q, y)' /\ WasDelivered(At(q, y))'
      BY <1>2, <1>3, <1>7, <1>9, <1>17 DEF QueueOK, PlacesOK, PushedSame
    <3>2. \A y \in Nat : y >= Fin(q, W(q)) => ~ Pushed(q, y)'
      BY <1>2, <1>7 DEF QueueOK, PlacesOK, PushedSame
    <3>3. \A j \in Rings(q) : \A y \in Nat :
            Res(q, j) <= y /\ y < Beg(q, j) => Done(q, y)'
      BY <1>2, <1>17 DEF QueueOK, PlacesOK
    <3> QED
      BY <1>9, <3>1, <3>2, <3>3 DEF PlacesOK, HeapSame, PointersSame
  <2>5. CellsOK(q)'
    <3> SUFFICES ASSUME NEW j \in Rings(q), NEW y \in Nat,
                        Beg(q, j) <= y, y < Fin(q, j)
                 PROVE  CellOK(q, j, y)'
      BY <1>9 DEF CellsOK, HeapSame
    <3>1. CellOK(q, j, y)
      BY <1>2 DEF QueueOK, CellsOK
    <3>2. CASE y = k
      <4>1. j = i
        BY <1>2, <1>3, <3>2, WindowsApart
      <4>2. /\ Sg(q, i, k)' = sign
            /\ Done(q, k)' /\ Pushed(q, k)'
        BY <1>2, <1>3, <1>5, <1>6, <1>7, <1>17 DEF PushedSame
      <4>3. CellOK(q, i, k)'
        BY <1>9, <4>2 DEF CellOK, HeapSame
      <4> QED
        BY <3>2, <4>1, <4>3
    <3>3. CASE y # k
      <4>1. Sg(q, j, y)' = Sg(q, j, y) /\ Dt(q, j, y)' = Dt(q, j, y)
        BY <1>6, <3>3
      <4>2. (Done(q, y)' <=> Done(q, y)) /\ (Pushed(q, y)' <=> Pushed(q, y))
        BY <1>2, <1>7, <1>17, <3>3 DEF PushedSame
      <4> QED
        BY <1>9, <3>1, <4>1, <4>2 DEF CellOK, HeapSame
    <3> QED
      BY <3>2, <3>3
  <2>6. TurnedOK(q)'
    <3>1. ASSUME NEW j \in Rings(q), j < R(q), NEW y \in Nat, TurnedAt(q, j, y)
          PROVE  TurnedAt(q, j, y)'
      <4>1. ASSUME NEW d \in Poppers, PopAt(d, q, y)'
            PROVE  pc'[d] \in {"popRelease", "popRetry"} \/ loc'[d].this > j
        <5>1. d # c
          BY <1>8, <4>1 DEF PopAt
        <5> QED
          BY <3>1, <4>1, <5>1, <1>8, InvTypes DEF PopAt, Same, TurnedAt
      <4>2. /\ Beg(q, j) <= y /\ y <= Fin(q, j) /\ At(q, y) < m_nReadIndex
            /\ \A x \in Nat : Res(q, j) <= x /\ x < y => Done(q, x)
            /\ y = Fin(q, j) \/ ~ Done(q, y)
        BY <3>1 DEF TurnedAt
      <4>3. y = k => y = Fin(q, j)
        <5> SUFFICES ASSUME y = k PROVE y = Fin(q, j)
          OBVIOUS
        <5>1. i > j
          BY <1>0, <1>2, <3>1 DEF TurnedAt, PopAt
        <5>2. Fin(q, j) <= Res(q, i)
          <6>1. j \in Nat /\ i \in Nat /\ j < i
            BY <1>2, <5>1, QueueIs
          <6> QED
            BY <1>2, <6>1 DEF QueueOK, ChainOK
        <5>3. Fin(q, j) \in Nat
          BY <1>2, QueueIs
        <5> QED
          BY <1>2, <1>3, <4>2, <5>2, <5>3
      <4>4. y = Fin(q, j) \/ ~ Done(q, y)'
        BY <1>17, <4>2, <4>3
      <4>5. \A x \in Nat : Res(q, j) <= x /\ x < y => Done(q, x)'
        BY <1>17, <4>2
      <4> QED
        BY <1>4, <1>9, <4>1, <4>2, <4>4, <4>5 DEF TurnedAt, HeapSame
    <3> QED
      BY <1>2, <1>9, <3>1 DEF QueueOK, TurnedOK, HeapSame, PointersSame
  <2> QED
    BY <2>1, <2>2, <2>3, <2>4, <2>5, <2>6 DEF QueueOK
<1>12. ASSUME NEW u \in Pushers, NEW b, NEW m, NEW j, NEW y, b # "pushDone",
              Pushing(u, b, m, q, j, y)
       PROVE  PushFits(b, m)'
  <2>1. /\ b = pc[u] /\ Micro(u) = q /\ K(u) = y /\ ~ Pushed(q, y)
        /\ HolderOK(b, m, q, y) /\ EntryOK(b, m, q, j, y)
        /\ CloserOK(b, m, q, j, y) /\ GrowerOK(b, m, q, y)
        /\ q = MicroOf(m.index) /\ y = PosOf(m.index) /\ j = m.this /\ y \in Nat
        /\ j \in Rings(q)
    BY <1>12 DEF Pushing
  <2>2. y # k
    BY <1>3, <2>1
  <2>3. HolderOK(b, m, q, y)'
    BY <1>4, <1>9, <2>1 DEF HolderOK, HeapSame, PointersSame
  <2>4. EntryOK(b, m, q, j, y)'
    <3>1. b = "pushSign" => Dt(q, j, y)' = Dt(q, j, y)
      BY <1>6, <2>1, <2>2 DEF EntryOK
    <3> QED
      BY <1>9, <2>1, <3>1 DEF EntryOK, HeapSame, PointersSame
  <2>5. CloserOK(b, m, q, j, y)'
    <3>1. CloserOK(b, m, q, j, y) /\ W(q)' = W(q) /\ HeapSame
      BY <1>9, <2>1 DEF PointersSame
    <3>2. \A x \in Nat : Done(q, x) => Done(q, x)'
      BY <1>17
    <3>3. \A x \in Nat : Sg(q, j, x) # 0 => Sg(q, j, x)' # 0
      BY <1>18, <2>1
    <3> QED
      BY <3>1, <3>2, <3>3, CloserFrame
  <2>6. GrowerOK(b, m, q, y)'
    BY <1>9, <2>1 DEF GrowerOK, HeapSame, PointersSame
  <2>7. MicroOf(m.index)' = q /\ PosOf(m.index)' = y
    BY <2>1 DEF MicroOf, PosOf, Word
  <2> QED
    BY <2>1, <2>3, <2>4, <2>5, <2>6, <2>7 DEF PushFits
<1>13. ASSUME NEW d \in Poppers, NEW b, NEW m, NEW j, NEW y, b # "popDone",
              Popping(d, b, m, q, j, y)
       PROVE  PopFits(b, m)'
  <2>1. ReaderOK(b, m, q, j, y)'
    BY <1>4, <1>7, <1>9, <1>13 DEF Popping, ReaderOK, HeapSame, PointersSame, PushedSame
  <2>2. TurnerOK(b, m, q, j, y)'
    <3>1. \A x \in Nat : Done(q, x) => Done(q, x)'
      BY <1>17
    <3> QED
      BY <1>9, <1>13, <3>1 DEF Popping, TurnerOK, HeapSame, PointersSame
  <2>3. MicroOf(m.index)' = q /\ PosOf(m.index)' = y
    BY <1>13 DEF Popping, MicroOf, PosOf, Word
  <2> QED
    BY <1>13, <2>1, <2>2, <2>3 DEF PopFits, Popping
<1>14. PopFits(pc[c], loc[c])'
  <2>1. \A m : PopFits("popDone", m)'
    BY DEF PopFits, ReaderOK, TurnerOK
  <2>2. PopFits("popDone", NoCall)'
    BY <2>1
  <2>3. loc'[c] = NoCall
    BY <1>2, <1>4 DEF Return, Shape, TypeOK
  <2> QED
    BY <1>8, <2>2, <2>3
<1> QED
  BY <1>2, <1>7, <1>11, <1>12, <1>13, <1>14, StepWithin

(* PushNoWrite keeps the invariant: line 76.                              *)
LEMMA PushNoWriteInv ==
  ASSUME Roomy, Inv, Shape', NEW p \in Pushers, PushNoWrite(p)
  PROVE  Inv'
<1>0. pc[p] = "pushNoWrite"
  BY DEF PushNoWrite
<1>1. PICK a, l, q, i, k : Pushing(p, a, l, q, i, k)
  BY <1>0, PushIs
<1>2. /\ Shape /\ q \in Micros /\ QueueOK(q) /\ l \in Locals /\ Micro(p) = q
      /\ l = loc[p] /\ p \in Threads /\ p \notin Poppers /\ i \in Rings(q) /\ a = pc[p]
      /\ loc[p].this = i /\ k \in Nat /\ K(p) = k /\ At(q, k) < m_nPreWriteIndex
  BY <1>1, InvTypes DEF Pushing
<1>3. /\ i = W(q) /\ l.own = i /\ Len(heap[q]) = i /\ k = Fin(q, i)
      /\ l.scan < Half(q, i) /\ l.scan \in Nat /\ ~ l.nested
      /\ \A j \in Nat : Beg(q, i) <= j /\ j < Beg(q, i) + l.scan => Done(q, j)
  <2>1. CloserOK("pushNoWrite", l, q, i, k) /\ HolderOK("pushNoWrite", l, q, k)
    BY <1>0, <1>1, <1>2 DEF Pushing
  <2> QED
    BY <1>2, <2>1 DEF CloserOK, HolderOK, Locals
<1> DEFINE f == [heap[q][i] EXCEPT !.m_bNoWrite = TRUE]
<1>4. /\ Goto(p, "pushAwait") /\ loc' = [loc EXCEPT ![p] = l]
      /\ m_queue' = m_queue /\ m_pPool' = m_pPool /\ delivered' = delivered
      /\ m_nPreWriteIndex' = m_nPreWriteIndex /\ m_nReadIndex' = m_nReadIndex
      /\ heap' = [heap EXCEPT ![q] = [heap[q] EXCEPT ![i] = f]]
  BY <1>2 DEF PushNoWrite, indexVars, Shape, TypeOK
<1>5. /\ f.m_nResBeginIndex = heap[q][i].m_nResBeginIndex
      /\ f.m_nBeginIndex = heap[q][i].m_nBeginIndex
      /\ f.m_nTotalSize = heap[q][i].m_nTotalSize
      /\ f.m_bNoWrite = TRUE
      /\ f.m_bReleased = heap[q][i].m_bReleased
  BY <1>2, RingTypes DEF Ring
<1> HIDE DEF f
<1>6. /\ \A x \in Micros : x # q => heap'[x] = heap[x]
      /\ Rings(q)' = Rings(q) /\ Len(heap[q])' = Len(heap[q])
      /\ heap'[q][i] = f
      /\ \A j \in Rings(q) : j # i =>
              /\ heap'[q][j] = heap[q][j]
              /\ Res(q, j)' = Res(q, j) /\ Beg(q, j)' = Beg(q, j)
              /\ Size(q, j)' = Size(q, j) /\ Half(q, j)' = Half(q, j)
              /\ Fin(q, j)' = Fin(q, j) /\ Closed(q, j)' = Closed(q, j)
              /\ Freed(q, j)' = Freed(q, j)
  <2>1. heap' = [heap EXCEPT ![q] = [heap[q] EXCEPT ![i] = f]]
    BY <1>4
  <2>2. Shape /\ q \in Micros /\ i \in Rings(q)
    BY <1>2
  <2>3. OnlyRing(q, i, f)
    BY <2>1, <2>2, RingChange
  <2> QED
    BY <2>3 DEF OnlyRing
<1>7. /\ Within(p, q) /\ DoneSame /\ PushedSame
      /\ Micro(p)' = Micro(p) /\ K(p)' = K(p)
      /\ \A u \in Threads : u # p => Same(u)
  <2>1. \A x \in Micros : x # q =>
          heap'[x] = heap[x] /\ m_queue'[x] = m_queue[x] /\ m_pPool'[x] = m_pPool[x]
    BY <1>4, <1>6
  <2>2. l.index = loc[p].index /\ q = Micro(p)
        /\ pc[p] \notin {"pushDone", "popDone"} /\ "pushAwait" \notin {"pushDone", "popDone"}
    BY <1>0, <1>2
  <2> QED
    BY <1>2, <1>4, <2>1, <2>2, KeepWithin
<1>8. pc'[p] = "pushAwait" /\ loc'[p] = l
  BY <1>2, <1>4 DEF Goto, Shape, TypeOK
<1>9. /\ \A j \in Rings(q) :
           /\ heap[q][j].m_nResBeginIndex' = heap[q][j].m_nResBeginIndex
           /\ heap[q][j].m_nBeginIndex' = heap[q][j].m_nBeginIndex
           /\ Res(q, j)' = Res(q, j) /\ Beg(q, j)' = Beg(q, j)
           /\ Size(q, j)' = Size(q, j) /\ Half(q, j)' = Half(q, j)
           /\ Fin(q, j)' = Fin(q, j) /\ Freed(q, j)' = Freed(q, j)
           /\ j # i => Closed(q, j)' = Closed(q, j)
      /\ Closed(q, i)'
  <2>1. /\ Res(q, i)' = Res(q, i) /\ Beg(q, i)' = Beg(q, i)
        /\ Size(q, i)' = Size(q, i) /\ Half(q, i)' = Half(q, i)
        /\ Fin(q, i)' = Fin(q, i) /\ Freed(q, i)' = Freed(q, i)
        /\ heap[q][i].m_nResBeginIndex' = heap[q][i].m_nResBeginIndex
        /\ heap[q][i].m_nBeginIndex' = heap[q][i].m_nBeginIndex
        /\ Closed(q, i)'
    BY <1>5, <1>6 DEF Res, Beg, Size, Half, Fin, Closed, Freed
  <2> QED
    BY <1>6, <2>1
<1>10. PointersSame /\ (\A n : WasDelivered(n)' <=> WasDelivered(n))
       /\ \A n : At(q, n)' = At(q, n)
  BY <1>4, PointersFrame DEF WasDelivered, At
<1>11. \A j \in Rings(q) : \A y : Sg(q, j, y)' = Sg(q, j, y) /\ Dt(q, j, y)' = Dt(q, j, y)
  BY <1>4, <1>9 DEF Sg, Dt
<1>12. /\ \A y \in Nat : Done(q, y)' <=> Done(q, y)
       /\ \A y \in Nat : Pushed(q, y)' <=> Pushed(q, y)
  BY <1>2, <1>7 DEF DoneSame, PushedSame
<1>13. /\ W(q)' = W(q) /\ R(q)' = R(q) /\ WC(q)' = WC(q) /\ RC(q)' = RC(q)
       /\ \A s : Slot(q, s)' = Slot(q, s)
       /\ Rings(q)' = Rings(q) /\ Len(heap[q])' = Len(heap[q])
       /\ W(q) \in Nat /\ W(q) \in Rings(q) /\ 1 \in Rings(q)
  BY <1>2, <1>6, <1>10, QueueIs, QueueTypes DEF PointersSame
<1>14. \A j \in Rings(q) : /\ j \in Nat /\ RingOK(q, j) /\ Fin(q, j) \in Nat
                           /\ Beg(q, j) \in Nat /\ Size(q, j) \in Nat /\ Half(q, j) \in Nat
                           /\ Size(q, j) = 2 * Half(q, j) /\ Res(q, j) \in Nat
                           /\ Res(q, j) <= Beg(q, j) /\ Fin(q, j) = Beg(q, j) + Size(q, j)
  BY <1>2, QueueIs
<1>15. QueueOK(q)'
  <2>1. \A j \in Rings(q)' : RingOK(q, j)'
    <3> SUFFICES ASSUME NEW j \in Rings(q) PROVE RingOK(q, j)'
      BY <1>13
    <3>1. Closed(q, j)' => At(q, Fin(q, j)) < m_nPreWriteIndex
      BY <1>2, <1>3, <1>9, <1>14 DEF RingOK
    <3>2. (Fin(q, j))' = Fin(q, j) /\ Fin(q, j) \in Nat /\ Res(q, j)' = Res(q, j)
          /\ Beg(q, j)' = Beg(q, j)
      BY <1>9, <1>14
    <3>3. /\ heap[q][j].m_nResBeginIndex' = Word(At(q, Res(q, j)))
          /\ heap[q][j].m_nBeginIndex' = Word(At(q, Beg(q, j)))
      BY <1>9, <1>14 DEF RingOK
    <3>4. /\ At(q, Res(q, j))' = At(q, Res(q, j)) /\ At(q, Beg(q, j))' = At(q, Beg(q, j))
          /\ At(q, Fin(q, j))' = At(q, Fin(q, j))
      BY <3>2 DEF At
    <3>5. /\ Word(At(q, Res(q, j)))' = Word(At(q, Res(q, j)))
          /\ Word(At(q, Beg(q, j)))' = Word(At(q, Beg(q, j)))
      BY <3>4 DEF Word
    <3>6. Freed(q, j)' => j < R(q)'
      BY <1>9, <1>13, <1>14 DEF RingOK
    <3>7. /\ Res(q, j)' <= Beg(q, j)' /\ Beg(q, j)' <= Last
          /\ 2 * Block <= Size(q, j)' /\ Size(q, j)' <= Res(q, j)' + 2 * Block
          /\ Size(q, j)' = 2 * Half(q, j)'
          /\ (Beg(q, j)' - Res(q, j)') % Half(q, j)' = 0
      BY <1>9, <1>14 DEF RingOK
    <3>8. Closed(q, j)' => At(q, Fin(q, j))' < m_nPreWriteIndex'
      BY <1>4, <3>1, <3>4
    <3> QED
      BY <3>3, <3>5, <3>6, <3>7, <3>8 DEF RingOK
  <2>2. ChainOK(q)'
    <3>1. ChainOK(q)
      BY <1>2 DEF QueueOK
    <3> QED
      BY <1>9, <1>13, <3>1 DEF ChainOK
  <2>3. PointersOK(q)'
    <3>1. PointersOK(q)
      BY <1>2 DEF QueueOK
    <3>2. ~ Pushed(q, Res(q, W(q)))' <=> ~ Pushed(q, Res(q, W(q)))
      <4> SUFFICES ASSUME NEW m, m = Res(q, W(q))
                   PROVE  Pushed(q, m)' <=> Pushed(q, m)
        BY <1>9, <1>13
      <4> QED
        BY <1>12, <1>13, <1>14
    <3>3. \A d \in Poppers : pc[d] = "popTurn" =>
            pc'[d] = "popTurn" /\ Micro(d)' = Micro(d)
      BY <1>2, <1>7, InvTypes DEF Same
    <3>4. \A j \in Rings(q) : j < W(q) => Closed(q, j)'
      BY <1>3, <1>9, <1>14, <3>1 DEF PointersOK
    <3>5. Closed(q, W(q))'
      BY <1>3, <1>9, <1>13
    <3>6. \A j \in Rings(q) : j > W(q) => ~ Closed(q, j)' /\ Beg(q, j)' = Res(q, j)'
      <4> SUFFICES ASSUME NEW j \in Rings(q), j > W(q)
                   PROVE  ~ Closed(q, j)' /\ Beg(q, j)' = Res(q, j)'
        OBVIOUS
      <4>1. ~ Closed(q, j) /\ Beg(q, j) = Res(q, j)
        BY <3>1 DEF PointersOK
      <4>2. j # i
        BY <1>3, <1>13
      <4> QED
        BY <1>9, <4>1, <4>2
    <3>7. /\ R(q)' <= W(q)' /\ Len(heap[q])' <= W(q)' + 1 /\ W(q)' <= CirclePointNumber
          /\ WC(q)' = W(q)' - 1 \/ (WC(q)' = W(q)' - 2 /\ ~ Pushed(q, Res(q, W(q)))')
          /\ R(q)' <= WC(q)' + 1
          /\ \A s \in Slots : s < W(q)' => Slot(q, s)' = s + 1
      BY <1>13, <3>1, <3>2 DEF PointersOK
    <3>8. \/ RC(q)' = R(q)' - 1
          \/ RC(q)' = R(q)' /\ \E c \in Poppers : pc'[c] = "popTurn" /\ Micro(c)' = q
      BY <1>13, <3>1, <3>3 DEF PointersOK
    <3> QED
      BY <1>13, <3>4, <3>5, <3>6, <3>7, <3>8 DEF PointersOK
  <2>4. PlacesOK(q)'
    <3>0. PlacesOK(q)
      BY <1>2 DEF QueueOK
    <3>1. \A y \in Nat : Done(q, y)' => Pushed(q, y)' /\ WasDelivered(At(q, y))'
      BY <1>10, <1>12, <3>0 DEF PlacesOK
    <3>2. Fin(q, W(q))' = Fin(q, W(q))
      BY <1>9, <1>13
    <3>3. \A y \in Nat : y >= Fin(q, W(q))' => ~ Pushed(q, y)'
      BY <1>12, <3>0, <3>2 DEF PlacesOK
    <3>4. \A j \in Rings(q)' : \A y \in Nat :
            Res(q, j)' <= y /\ y < Beg(q, j)' => Done(q, y)'
      BY <1>9, <1>12, <1>13, <3>0 DEF PlacesOK
    <3> QED
      BY <3>1, <3>3, <3>4 DEF PlacesOK
  <2>5. CellsOK(q)'
    <3> SUFFICES ASSUME NEW j \in Rings(q), NEW y \in Nat,
                        Beg(q, j) <= y, y < Fin(q, j)
                 PROVE  CellOK(q, j, y)'
      BY <1>9, <1>13 DEF CellsOK
    <3>1. CellOK(q, j, y)
      BY <1>2 DEF QueueOK, CellsOK
    <3> QED
      BY <1>9, <1>10, <1>11, <1>12, <3>1 DEF CellOK
  <2>6. TurnedOK(q)'
    <3>1. ASSUME NEW j \in Rings(q), NEW y \in Nat, TurnedAt(q, j, y)
          PROVE  TurnedAt(q, j, y)'
      <4>1. \A d \in Poppers : PopAt(d, q, y)' =>
              pc'[d] \in {"popRelease", "popRetry"} \/ loc'[d].this > j
        BY <1>2, <1>7, <3>1, InvTypes DEF PopAt, Same, TurnedAt
      <4> QED
        BY <1>4, <1>9, <1>10, <1>12, <3>1, <4>1 DEF TurnedAt
    <3> QED
      BY <1>2, <1>13, <3>1 DEF QueueOK, TurnedOK
  <2> QED
    BY <2>1, <2>2, <2>3, <2>4, <2>5, <2>6 DEF QueueOK
<1>16. ASSUME NEW u \in Pushers, NEW b, NEW m, NEW j, NEW y, u # p, b # "pushDone",
              Pushing(u, b, m, q, j, y)
       PROVE  PushFits(b, m)'
  <2>1. /\ b = pc[u] /\ Micro(u) = q /\ K(u) = y
        /\ HolderOK(b, m, q, y) /\ EntryOK(b, m, q, j, y)
        /\ CloserOK(b, m, q, j, y) /\ GrowerOK(b, m, q, y)
        /\ q = MicroOf(m.index) /\ y = PosOf(m.index) /\ j = m.this /\ y \in Nat
        /\ j \in Rings(q) /\ m.own \in Rings(q)
    BY <1>16 DEF Pushing
  <2>2. y # Fin(q, i)
    BY <1>0, <1>2, <1>3, <1>16, <2>1 DEF Inv, UniqueOK
  <2>3. HolderOK(b, m, q, y)'
    BY <1>4, <1>9, <1>13, <2>1, <2>2 DEF HolderOK
  <2>4. EntryOK(b, m, q, j, y)'
    BY <1>9, <1>11, <1>13, <2>1 DEF EntryOK
  <2>5. CloserOK(b, m, q, j, y)'
    <3>1. b \notin {"pushScan", "pushAdvance", "pushNoWrite", "pushAwait",
                    "pushNext", "pushGrow"}
      BY <1>3, <2>1, <2>2 DEF CloserOK
    <3> QED
      BY <3>1 DEF CloserOK
  <2>6. GrowerOK(b, m, q, y)'
    <3>1. Closed(q, W(q)) => Closed(q, W(q))'
      BY <1>3, <1>9, <1>13
    <3> QED
      BY <1>9, <1>13, <2>1, <3>1 DEF GrowerOK
  <2>7. MicroOf(m.index)' = q /\ PosOf(m.index)' = y
    BY <2>1 DEF MicroOf, PosOf, Word
  <2> QED
    BY <2>1, <2>3, <2>4, <2>5, <2>6, <2>7 DEF PushFits
<1>17. ASSUME NEW d \in Poppers, NEW b, NEW m, NEW j, NEW y, b # "popDone",
              Popping(d, b, m, q, j, y)
       PROVE  PopFits(b, m)'
  <2>0. j \in Rings(q) /\ y \in Nat /\ Closed(q, j) => Closed(q, j)'
    BY <1>9
  <2>1. ReaderOK(b, m, q, j, y)'
    BY <1>4, <1>9, <1>10, <1>12, <1>13, <1>17 DEF Popping, ReaderOK
  <2>2. TurnerOK(b, m, q, j, y)'
    BY <1>9, <1>12, <1>13, <1>17, <2>0 DEF Popping, TurnerOK
  <2>3. MicroOf(m.index)' = q /\ PosOf(m.index)' = y
    BY <1>17 DEF Popping, MicroOf, PosOf, Word
  <2> QED
    BY <1>17, <2>1, <2>2, <2>3 DEF PopFits, Popping
<1>18. PushFits(pc[p], loc[p])'
  <2>1. HolderOK("pushAwait", l, q, k)'
    <3>1. HolderOK("pushNoWrite", l, q, k)
      BY <1>0, <1>1, <1>2 DEF Pushing
    <3> QED
      BY <1>3, <1>4, <1>9, <1>13, <3>1 DEF HolderOK, Late
  <2>2. EntryOK("pushAwait", l, q, i, k)'
    BY DEF EntryOK
  <2>3. \A j \in Nat : Beg(q, i) <= j /\ j < Beg(q, i) + l.scan => Sg(q, i, j) # 0
    <3> SUFFICES ASSUME NEW j \in Nat, Beg(q, i) <= j, j < Beg(q, i) + l.scan
                 PROVE  Sg(q, i, j) # 0
      OBVIOUS
    <3>1. /\ Res(q, i) <= j /\ j < Fin(q, i) /\ i \in Rings(q)
      <4>1. /\ Res(q, i) \in Nat /\ Beg(q, i) \in Nat /\ Half(q, i) \in Nat
            /\ Res(q, i) <= Beg(q, i) /\ Fin(q, i) = Beg(q, i) + Size(q, i)
            /\ Size(q, i) = 2 * Half(q, i) /\ i \in Rings(q)
        BY <1>2, <1>14
      <4>2. l.scan \in Nat /\ l.scan < Half(q, i)
        BY <1>3
      <4> QED
        BY <4>1, <4>2
    <3>2. CellOK(q, i, j) /\ Done(q, j)
      <4>1. CellsOK(q)
        BY <1>2 DEF QueueOK
      <4>2. Done(q, j)
        BY <1>3
      <4> QED
        BY <3>1, <4>1, <4>2 DEF CellsOK
    <3>3. Sign(Lap(Size(q, i), j - Res(q, i))) \in Nat
          /\ Sign(Lap(Size(q, i), j - Res(q, i))) > 0
      BY <1>2, <3>1, Signs
    <3>4. Sg(q, i, j) = Sign(Lap(Size(q, i), j - Res(q, i)))
      BY <3>2 DEF CellOK
    <3> QED
      BY <3>3, <3>4
  <2>4. l.scan < Size(q, i)
    BY <1>2, <1>3, <1>14
  <2>5. CloserOK("pushAwait", l, q, i, k)'
    <3>1. /\ i = W(q)' /\ l.own = W(q)' /\ Len(heap[q])' = W(q)'
          /\ k = Fin(q, W(q))'
      BY <1>2, <1>3, <1>9, <1>13
    <3>2. l.scan < Size(q, i)'
      BY <1>2, <1>9, <2>4
    <3>3. \A j \in Nat : Beg(q, i)' <= j /\ j < Beg(q, i)' + l.scan => Sg(q, i, j)' # 0
      BY <1>2, <1>9, <1>11, <2>3
    <3> QED
      BY <3>1, <3>2, <3>3 DEF CloserOK
  <2>6. GrowerOK("pushAwait", l, q, k)'
    BY <1>3, <1>9, <1>13 DEF GrowerOK
  <2>7. MicroOf(l.index)' = q /\ PosOf(l.index)' = k
    BY <1>1 DEF Pushing, MicroOf, PosOf, Word
  <2>8. PushFits("pushAwait", l)'
    BY <1>1, <2>1, <2>2, <2>5, <2>6, <2>7 DEF PushFits, Pushing
  <2> QED
    BY <1>8, <2>8
<1> QED
  BY <1>2, <1>7, <1>15, <1>16, <1>17, <1>18, StepWithin

(* PushAdvance keeps the invariant: line 94.                              *)
LEMMA PushAdvanceInv ==
  ASSUME Roomy, Inv, Shape', NEW p \in Pushers, PushAdvance(p)
  PROVE  Inv'
<1>0. pc[p] = "pushAdvance"
  BY DEF PushAdvance
<1>1. PICK a, l, q, i, k : Pushing(p, a, l, q, i, k)
  BY <1>0, PushIs
<1>2. /\ Shape /\ q \in Micros /\ QueueOK(q) /\ l \in Locals /\ Micro(p) = q
      /\ l = loc[p] /\ p \in Threads /\ p \notin Poppers /\ i \in Rings(q) /\ a = pc[p]
      /\ loc[p].this = i /\ k \in Nat /\ K(p) = k /\ At(q, k) < m_nPreWriteIndex
      /\ k <= Last
  BY <1>1, InvTypes DEF Pushing
<1>3. /\ i = W(q) /\ Len(heap[q]) = i /\ k = Fin(q, i) /\ ~ Closed(q, i)
      /\ l.begin = heap[q][i].m_nBeginIndex /\ l.scan = Half(q, i)
      /\ ~ l.nested
      /\ \A j \in Nat : Beg(q, i) <= j /\ j < Beg(q, i) + l.scan => Done(q, j)
  <2>1. CloserOK("pushAdvance", l, q, i, k) /\ HolderOK("pushAdvance", l, q, k)
    BY <1>0, <1>1, <1>2 DEF Pushing
  <2> QED
    BY <1>2, <2>1 DEF CloserOK, HolderOK, Locals
<1> SUFFICES ASSUME NEW b, b = Beg(q, i), NEW h, h = Half(q, i),
                    NEW s, s = Size(q, i), NEW r, r = Res(q, i)
             PROVE  Inv'
  OBVIOUS
<1>19. /\ b \in Nat /\ h \in Nat /\ h > 0 /\ s \in Nat /\ s > 0 /\ r \in Nat
       /\ s = 2 * h /\ r <= b /\ k = b + s /\ b + h <= Last
       /\ Fin(q, i) = b + s
  <2>1. /\ b \in Nat /\ h \in Nat \ {0} /\ s \in Nat \ {0} /\ r \in Nat
        /\ s = 2 * h /\ r <= b /\ Fin(q, i) = b + s
    BY <1>2, QueueIs
  <2>2. k <= Last /\ k = Fin(q, i) /\ Last \in Nat
    BY <1>2, <1>3, Sizes
  <2> QED
    BY <2>1, <2>2
<1>23. h = s \div 2 /\ (b - r) % h = 0 /\ RingOK(q, i) /\ b + h \in Places
  <2>1. RingOK(q, i)
    BY <1>2, QueueIs
  <2>2. b + h \in Places
    <3>1. Last <= Far /\ Far \in Nat /\ Last \in Nat
      BY Sizes
    <3> QED
      BY <1>19, <3>1 DEF Places
  <2> QED
    BY <2>1, <2>2 DEF RingOK, Half
<1>20. \A j \in Nat : b <= j /\ j < b + h => Done(q, j)
  BY <1>3
<1> DEFINE f == [heap[q][i] EXCEPT !.m_nBeginIndex = Word(At(q, b + h))]
<1>4. /\ Goto(p, "pushData") /\ loc' = [loc EXCEPT ![p] = l]
      /\ m_queue' = m_queue /\ m_pPool' = m_pPool /\ delivered' = delivered
      /\ m_nPreWriteIndex' = m_nPreWriteIndex /\ m_nReadIndex' = m_nReadIndex
      /\ heap' = [heap EXCEPT ![q] = [heap[q] EXCEPT ![i] = f]]
  <2>1. AdvancedBegin(This(p), loc[p].begin) = Word(At(q, b + h))
    <3>1. Spans(heap[q][i], q, r, b, s)
      BY <1>2, <1>23, RingSpans
    <3>2. AdvancedBegin(heap[q][i], heap[q][i].m_nBeginIndex) = Word(At(q, b + (s \div 2)))
      <4>1. s = 2 * (s \div 2)
        BY <1>19, <1>23
      <4> QED
        BY <3>1, <4>1, SpanMoves
    <3> QED
      BY <1>2, <1>3, <1>23, <3>2 DEF This
  <2> QED
    BY <1>2, <2>1 DEF PushAdvance, indexVars, Shape, TypeOK
<1>5. /\ f.m_nResBeginIndex = heap[q][i].m_nResBeginIndex
      /\ f.m_nBeginIndex = Word(At(q, b + h))
      /\ f.m_nTotalSize = heap[q][i].m_nTotalSize
      /\ f.m_bNoWrite = heap[q][i].m_bNoWrite
      /\ f.m_bReleased = heap[q][i].m_bReleased
  BY <1>2, RingTypes DEF Ring
<1> HIDE DEF f
<1>6. /\ \A x \in Micros : x # q => heap'[x] = heap[x]
      /\ Rings(q)' = Rings(q) /\ Len(heap[q])' = Len(heap[q])
      /\ heap'[q][i] = f
      /\ \A j \in Rings(q) : j # i =>
              /\ heap'[q][j] = heap[q][j]
              /\ Res(q, j)' = Res(q, j) /\ Beg(q, j)' = Beg(q, j)
              /\ Size(q, j)' = Size(q, j) /\ Half(q, j)' = Half(q, j)
              /\ Fin(q, j)' = Fin(q, j) /\ Closed(q, j)' = Closed(q, j)
              /\ Freed(q, j)' = Freed(q, j)
  <2>1. heap' = [heap EXCEPT ![q] = [heap[q] EXCEPT ![i] = f]]
    BY <1>4
  <2>2. Shape /\ q \in Micros /\ i \in Rings(q)
    BY <1>2
  <2>3. OnlyRing(q, i, f)
    BY <2>1, <2>2, RingChange
  <2> QED
    BY <2>3 DEF OnlyRing
<1>7. /\ Within(p, q) /\ DoneSame /\ PushedSame
      /\ Micro(p)' = Micro(p) /\ K(p)' = K(p)
      /\ \A u \in Threads : u # p => Same(u)
  <2>1. \A x \in Micros : x # q =>
          heap'[x] = heap[x] /\ m_queue'[x] = m_queue[x] /\ m_pPool'[x] = m_pPool[x]
    BY <1>4, <1>6
  <2>2. l.index = loc[p].index /\ q = Micro(p)
        /\ pc[p] \notin {"pushDone", "popDone"} /\ "pushData" \notin {"pushDone", "popDone"}
    BY <1>0, <1>2
  <2> QED
    BY <1>2, <1>4, <2>1, <2>2, KeepWithin
<1>8. pc'[p] = "pushData" /\ loc'[p] = l
  BY <1>2, <1>4 DEF Goto, Shape, TypeOK
<1>9. /\ \A j \in Rings(q) :
           /\ heap[q][j].m_nResBeginIndex' = heap[q][j].m_nResBeginIndex
           /\ Res(q, j)' = Res(q, j)
           /\ Size(q, j)' = Size(q, j) /\ Half(q, j)' = Half(q, j)
           /\ Closed(q, j)' = Closed(q, j) /\ Freed(q, j)' = Freed(q, j)
           /\ j # i => /\ Beg(q, j)' = Beg(q, j) /\ Fin(q, j)' = Fin(q, j)
                       /\ heap[q][j].m_nBeginIndex' = heap[q][j].m_nBeginIndex
      /\ Beg(q, i)' = b + h /\ Fin(q, i)' = b + h + s
      /\ heap[q][i].m_nBeginIndex' = Word(At(q, b + h))
  <2>1. /\ Res(q, i)' = Res(q, i) /\ Size(q, i)' = Size(q, i)
        /\ Half(q, i)' = Half(q, i)
        /\ Closed(q, i)' = Closed(q, i) /\ Freed(q, i)' = Freed(q, i)
        /\ heap[q][i].m_nResBeginIndex' = heap[q][i].m_nResBeginIndex
        /\ heap[q][i].m_nBeginIndex' = Word(At(q, b + h))
    BY <1>5, <1>6 DEF Res, Size, Half, Closed, Freed
  <2>2. PosW(Word(At(q, b + h))) = b + h
    BY <1>2, <1>23, PlaceWord
  <2>3. Beg(q, i)' = b + h
    BY <2>1, <2>2 DEF Beg, PosW, Minus, Word
  <2>4. Fin(q, i)' = b + h + s
    BY <2>1, <2>3 DEF Fin
  <2> QED
    BY <1>6, <2>1, <2>3, <2>4
<1>10. PointersSame /\ (\A n : WasDelivered(n)' <=> WasDelivered(n))
       /\ \A n : At(q, n)' = At(q, n)
  BY <1>4, PointersFrame DEF WasDelivered, At
<1>11. \A j \in Rings(q) : \A y : Sg(q, j, y)' = Sg(q, j, y) /\ Dt(q, j, y)' = Dt(q, j, y)
  BY <1>4, <1>9 DEF Sg, Dt
<1>12. /\ \A y \in Nat : Done(q, y)' <=> Done(q, y)
       /\ \A y \in Nat : Pushed(q, y)' <=> Pushed(q, y)
  BY <1>2, <1>7 DEF DoneSame, PushedSame
<1>13. /\ W(q)' = W(q) /\ R(q)' = R(q) /\ WC(q)' = WC(q) /\ RC(q)' = RC(q)
       /\ \A z : Slot(q, z)' = Slot(q, z)
       /\ Rings(q)' = Rings(q) /\ Len(heap[q])' = Len(heap[q])
       /\ W(q) \in Nat /\ W(q) \in Rings(q) /\ 1 \in Rings(q)
  BY <1>2, <1>6, <1>10, QueueIs, QueueTypes DEF PointersSame
<1>14. \A j \in Rings(q) : /\ j \in Nat /\ j <= i /\ RingOK(q, j) /\ Fin(q, j) \in Nat
                           /\ Beg(q, j) \in Nat /\ Size(q, j) \in Nat /\ Half(q, j) \in Nat
                           /\ Size(q, j) = 2 * Half(q, j) /\ Res(q, j) \in Nat
                           /\ Res(q, j) <= Beg(q, j) /\ Fin(q, j) = Beg(q, j) + Size(q, j)
  <2>1. \A j \in Rings(q) : j \in Nat /\ j <= i
    <3>1. Rings(q) = 1 .. i /\ i \in Nat
      <4>1. Rings(q) = 1 .. Len(heap[q]) /\ Len(heap[q]) \in Nat
        BY <1>2, QueueTypes
      <4> QED
        BY <1>3, <4>1
    <3> QED
      BY <3>1
  <2> QED
    BY <1>2, <2>1, QueueIs
(* Nobody is at the places the window leaves. *)
<1>21. \A j \in Rings(q) : \A y \in Nat :
         ~ Done(q, y) /\ Beg(q, j) <= y => Beg(q, j)' <= y
  <2>1. \A y \in Nat : ~ Done(q, y) /\ b <= y => b + h <= y
    BY <1>19, <1>20
  <2>2. \A y \in Nat : ~ Done(q, y) /\ Beg(q, i) <= y => Beg(q, i)' <= y
    BY <1>9, <2>1
  <2>3. \A j \in Rings(q) : j # i => Beg(q, j)' = Beg(q, j)
    BY <1>9
  <2> SUFFICES ASSUME NEW j \in Rings(q), NEW y \in Nat, ~ Done(q, y), Beg(q, j) <= y
               PROVE  Beg(q, j)' <= y
    OBVIOUS
  <2>4. CASE j = i
    BY <2>2, <2>4
  <2>5. CASE j # i
    BY <2>3, <2>5
  <2> QED
    BY <2>4, <2>5
<1>22. \A j \in Rings(q) : Fin(q, j)' \in Nat /\ Fin(q, j) <= Fin(q, j)'
  <2>1. Fin(q, i)' \in Nat /\ Fin(q, i) <= Fin(q, i)'
    <3>1. b + h + s \in Nat /\ b + s <= b + h + s
      BY <1>19
    <3> QED
      BY <1>9, <1>19, <3>1
  <2> QED
    BY <1>9, <1>14, <2>1
<1>15. QueueOK(q)'
  <2>1. \A j \in Rings(q)' : RingOK(q, j)'
    <3> SUFFICES ASSUME NEW j \in Rings(q) PROVE RingOK(q, j)'
      BY <1>13
    <3>1. Closed(q, j)' => At(q, Fin(q, j))' < m_nPreWriteIndex'
      <4>1. CASE j = i
        BY <1>3, <1>9, <4>1
      <4>2. CASE j # i
        <5>1. Fin(q, j)' = Fin(q, j) /\ Closed(q, j)' = Closed(q, j)
          BY <1>9, <4>2
        <5> QED
          BY <1>4, <1>14, <5>1 DEF RingOK, At
      <4> QED
        BY <4>1, <4>2
    <3>2. heap[q][j].m_nResBeginIndex' = Word(At(q, Res(q, j)))'
      BY <1>9, <1>14 DEF RingOK, At, Word
    <3>3. heap[q][j].m_nBeginIndex' = Word(At(q, Beg(q, j)))'
      <4>1. CASE j = i
        <5>1. Beg(q, j)' = b + h
          BY <1>9, <4>1
        <5> QED
          BY <1>9, <4>1, <5>1 DEF At, Word
      <4>2. CASE j # i
        BY <1>9, <1>14, <4>2 DEF RingOK, At, Word
      <4> QED
        BY <4>1, <4>2
    <3>4. Freed(q, j)' => j < R(q)'
      BY <1>9, <1>13, <1>14 DEF RingOK
    <3>5. /\ 2 * Block <= Size(q, j)' /\ Size(q, j)' <= Res(q, j)' + 2 * Block
          /\ Size(q, j)' = 2 * Half(q, j)'
      BY <1>9, <1>14 DEF RingOK
    <3>6. /\ Res(q, j)' <= Beg(q, j)' /\ Beg(q, j)' <= Last
          /\ (Beg(q, j)' - Res(q, j)') % Half(q, j)' = 0
      <4>1. CASE j = i
        <5>1. Res(q, j)' = r /\ Beg(q, j)' = b + h /\ Half(q, j)' = h
          BY <1>9, <4>1
        <5>2. (b + h) - r = (b - r) + h * 1 /\ b - r \in Int /\ 1 \in Int
          BY <1>19
        <5>3. \A x \in Int : (x + h * 1) % h = x % h
          <6>1. h \in Nat \ {0} /\ 1 \in Int
            BY <1>19
          <6> QED
            BY <6>1, ModShift
        <5>4. ((b + h) - r) % h = 0
          BY <1>23, <5>2, <5>3
        <5>5. r <= b + h /\ b + h <= Last
          BY <1>19
        <5> QED
          BY <5>1, <5>4, <5>5
      <4>2. CASE j # i
        <5>1. Res(q, j)' = Res(q, j) /\ Beg(q, j)' = Beg(q, j) /\ Half(q, j)' = Half(q, j)
          BY <1>9, <4>2
        <5> QED
          BY <1>14, <5>1 DEF RingOK
      <4> QED
        BY <4>1, <4>2
    <3> QED
      BY <3>1, <3>2, <3>3, <3>4, <3>5, <3>6 DEF RingOK
  <2>2. ChainOK(q)'
    <3>1. ChainOK(q)
      BY <1>2 DEF QueueOK
    <3>2. Res(q, 1)' = 0 /\ Size(q, 1)' = 2 * Block
          /\ \A j \in Rings(q) : j > 1 => Size(q, j)' >= 4 * Block
      BY <1>9, <1>13, <3>1 DEF ChainOK
    <3>3. \A j, m \in Rings(q) : m = j + 1 =>
            Res(q, m)' = Fin(q, j)' /\ Size(q, m)' = 2 * Size(q, j)'
      <4> SUFFICES ASSUME NEW j \in Rings(q), NEW m \in Rings(q), m = j + 1
                   PROVE  Res(q, m)' = Fin(q, j)' /\ Size(q, m)' = 2 * Size(q, j)'
        OBVIOUS
      <4>1. j # i
        BY <1>14
      <4> QED
        BY <1>9, <3>1, <4>1 DEF ChainOK
    <3>4. \A j, m \in Rings(q) : j < m => Fin(q, j)' <= Res(q, m)'
      <4> SUFFICES ASSUME NEW j \in Rings(q), NEW m \in Rings(q), j < m
                   PROVE  Fin(q, j)' <= Res(q, m)'
        OBVIOUS
      <4>1. j # i
        BY <1>14
      <4> QED
        BY <1>9, <3>1, <4>1 DEF ChainOK
    <3> QED
      BY <1>13, <3>2, <3>3, <3>4 DEF ChainOK
  <2>3. PointersOK(q)'
    <3>1. PointersOK(q)
      BY <1>2 DEF QueueOK
    <3>2. ~ Pushed(q, Res(q, W(q)))' <=> ~ Pushed(q, Res(q, W(q)))
      <4> SUFFICES ASSUME NEW m, m = Res(q, W(q))
                   PROVE  Pushed(q, m)' <=> Pushed(q, m)
        BY <1>9, <1>13
      <4> QED
        BY <1>12, <1>13, <1>14
    <3>3. \A d \in Poppers : pc[d] = "popTurn" =>
            pc'[d] = "popTurn" /\ Micro(d)' = Micro(d)
      BY <1>2, <1>7, InvTypes DEF Same
    <3>4. \A j \in Rings(q) : j < W(q) => Closed(q, j)'
      BY <1>9, <3>1 DEF PointersOK
    <3>5. ~ Closed(q, W(q))' => Len(heap[q])' = W(q)'
      BY <1>3, <1>13
    <3>6. \A j \in Rings(q) : j > W(q) => ~ Closed(q, j)' /\ Beg(q, j)' = Res(q, j)'
      BY <1>3, <1>14
    <3>7. /\ R(q)' <= W(q)' /\ Len(heap[q])' <= W(q)' + 1 /\ W(q)' <= CirclePointNumber
          /\ WC(q)' = W(q)' - 1 \/ (WC(q)' = W(q)' - 2 /\ ~ Pushed(q, Res(q, W(q)))')
          /\ R(q)' <= WC(q)' + 1
          /\ \A z \in Slots : z < W(q)' => Slot(q, z)' = z + 1
      BY <1>13, <3>1, <3>2 DEF PointersOK
    <3>8. \/ RC(q)' = R(q)' - 1
          \/ RC(q)' = R(q)' /\ \E c \in Poppers : pc'[c] = "popTurn" /\ Micro(c)' = q
      BY <1>13, <3>1, <3>3 DEF PointersOK
    <3> QED
      BY <1>13, <3>4, <3>5, <3>6, <3>7, <3>8 DEF PointersOK
  <2>4. PlacesOK(q)'
    <3>0. PlacesOK(q)
      BY <1>2 DEF QueueOK
    <3>1. \A y \in Nat : Done(q, y)' => Pushed(q, y)' /\ WasDelivered(At(q, y))'
      BY <1>10, <1>12, <3>0 DEF PlacesOK
    <3>2. Fin(q, W(q))' = Fin(q, i)'
      BY <1>3, <1>13
    <3>3. \A y \in Nat : y >= Fin(q, W(q))' => ~ Pushed(q, y)'
      <4> SUFFICES ASSUME NEW y \in Nat, y >= Fin(q, W(q))' PROVE ~ Pushed(q, y)'
        OBVIOUS
      <4>1. y >= Fin(q, W(q))
        BY <1>2, <1>3, <1>14, <1>22, <3>2
      <4> QED
        BY <1>12, <3>0, <4>1 DEF PlacesOK
    <3>4. \A j \in Rings(q)' : \A y \in Nat :
            Res(q, j)' <= y /\ y < Beg(q, j)' => Done(q, y)'
      <4> SUFFICES ASSUME NEW j \in Rings(q), NEW y \in Nat,
                          Res(q, j)' <= y, y < Beg(q, j)'
                   PROVE  Done(q, y)
        BY <1>12, <1>13
      <4>1. CASE j = i /\ b <= y
        BY <1>9, <1>20, <4>1
      <4>2. CASE ~ (j = i /\ b <= y)
        <5>1. Res(q, j) <= y /\ y < Beg(q, j)
          <6>1. CASE j = i
            <7>1. Res(q, j) = r /\ Beg(q, j) = b /\ y < b
              BY <1>9, <1>19, <4>2, <6>1
            <7> QED
              BY <1>9, <6>1, <7>1
          <6>2. CASE j # i
            BY <1>9, <6>2
          <6> QED
            BY <6>1, <6>2
        <5> QED
          BY <3>0, <5>1 DEF PlacesOK
      <4> QED
        BY <4>1, <4>2
    <3> QED
      BY <3>1, <3>3, <3>4 DEF PlacesOK
  <2>5. CellsOK(q)'
    <3> SUFFICES ASSUME NEW j \in Rings(q), NEW y \in Nat,
                        Beg(q, j)' <= y, y < Fin(q, j)'
                 PROVE  CellOK(q, j, y)'
      BY <1>13 DEF CellsOK
    <3>1. CASE j # i \/ y < k
      <4>1. Beg(q, j) <= y /\ y < Fin(q, j)
        <5>1. CASE j # i
          BY <1>9, <5>1
        <5>2. CASE j = i
          <6>1. y < b + s /\ b + h <= y
            BY <1>9, <1>19, <3>1, <5>2
          <6> QED
            BY <1>19, <5>2, <6>1
        <5> QED
          BY <5>1, <5>2
      <4>2. CellOK(q, j, y)
        BY <1>2, <4>1 DEF QueueOK, CellsOK
      <4> QED
        BY <1>9, <1>10, <1>11, <1>12, <4>2 DEF CellOK
    <3>2. CASE ~ (j # i \/ y < k)
      <4>1. j = i /\ y - s \in Nat /\ b <= y - s /\ y - s < b + h /\ y >= k
            /\ y < b + h + s
        <5>1. j = i /\ ~ (y < k) /\ y < b + h + s
          BY <1>9, <3>2
        <5> QED
          BY <1>2, <1>19, <5>1
      <4>2. ~ Pushed(q, y) /\ ~ Done(q, y)
        BY <1>2, <1>3, <4>1 DEF QueueOK, PlacesOK
      <4> DEFINE o == y - r
      <4>3. o \in Nat /\ o >= s /\ o - s = y - s - r /\ y - s < Fin(q, i)
        BY <1>19, <4>1
      <4>4. Sg(q, i, y - s) = Sign(Lap(s, y - s - r))
        <5>1. Done(q, y - s) /\ CellOK(q, i, y - s)
          BY <1>2, <1>20, <4>1, <4>3 DEF QueueOK, CellsOK
        <5> QED
          BY <5>1 DEF CellOK
      <4>5. (y - s - r) % s = (y - r) % s /\ Lap(s, y - s - r) = Lap(s, y - r) - 2
        <5>1. (o - s) % s = o % s /\ Lap(s, o - s) = Lap(s, o) - 2
          <6> HIDE DEF o
          <6> QED
            <7>1. s \in Nat \ {0}
              BY <1>19
            <7> QED
              BY <4>3, <7>1, LapFacts
        <5> QED
          BY <4>3, <5>1
      <4>6. Sg(q, i, y) = Sg(q, i, y - s)
        BY <4>5 DEF Sg
      <4>7. Sg(q, i, y) = Prev(s, y - r)
        <5>1. ~ (y - r < s)
          BY <1>19, <4>3
        <5>2. Sg(q, i, y) = Sign(Lap(s, y - r) - 2)
          BY <4>4, <4>5, <4>6
        <5> QED
          BY <5>1, <5>2 DEF Prev
      <4>8. /\ ~ Pushed(q, y)' /\ ~ Done(q, y)' /\ Sg(q, i, y)' = Prev(s, y - r)
            /\ Size(q, i)' = s /\ Res(q, i)' = r
        BY <1>2, <1>9, <1>11, <1>12, <4>2, <4>7
      <4>9. CellOK(q, i, y)'
        BY <4>8 DEF CellOK, Prev, Sign, Word, Lap
      <4> QED
        BY <4>1, <4>9
    <3> QED
      BY <3>1, <3>2
  <2>6. TurnedOK(q)'
    <3>1. ASSUME NEW j \in Rings(q), NEW y \in Nat, TurnedAt(q, j, y), j # i
          PROVE  TurnedAt(q, j, y)'
      <4>1. \A d \in Poppers : PopAt(d, q, y)' =>
              pc'[d] \in {"popRelease", "popRetry"} \/ loc'[d].this > j
        BY <1>2, <1>7, <3>1, InvTypes DEF PopAt, Same, TurnedAt
      <4> QED
        BY <1>4, <1>9, <1>10, <1>12, <3>1, <4>1 DEF TurnedAt
    <3>2. \A j \in Rings(q) : j < R(q) => j # i
      <4>1. R(q) <= i /\ R(q) \in Nat
        BY <1>2, <1>3, QueueIs DEF QueueOK, PointersOK
      <4> QED
        BY <1>14, <4>1
    <3> QED
      BY <1>2, <1>13, <3>1, <3>2 DEF QueueOK, TurnedOK
  <2> QED
    BY <2>1, <2>2, <2>3, <2>4, <2>5, <2>6 DEF QueueOK
<1>16. ASSUME NEW u \in Pushers, NEW c, NEW m, NEW j, NEW y, u # p, c # "pushDone",
              Pushing(u, c, m, q, j, y)
       PROVE  PushFits(c, m)'
  <2>1. /\ c = pc[u] /\ Micro(u) = q /\ K(u) = y /\ ~ Done(q, y)
        /\ HolderOK(c, m, q, y) /\ EntryOK(c, m, q, j, y)
        /\ CloserOK(c, m, q, j, y) /\ GrowerOK(c, m, q, y)
        /\ q = MicroOf(m.index) /\ y = PosOf(m.index) /\ j = m.this /\ y \in Nat
        /\ j \in Rings(q) /\ m.own \in Rings(q)
    BY <1>16 DEF Pushing
  <2>2. y # Fin(q, i)
    BY <1>0, <1>2, <1>3, <1>16, <2>1 DEF Inv, UniqueOK
  <2>3. HolderOK(c, m, q, y)'
    BY <1>3, <1>4, <1>9, <1>13, <2>1, <2>2 DEF HolderOK
  <2>4. EntryOK(c, m, q, j, y)'
    <3>1. Cardinality(Pushers) \in Nat
      BY FS_CardinalityType DEF Roomy
    <3>2. y < Fin(q, m.own) + Cardinality(Pushers) =>
            y < Fin(q, m.own)' + Cardinality(Pushers)
      BY <1>14, <1>22, <2>1, <3>1
    <3>3. Beg(q, j) <= y /\ y < Fin(q, j) => Beg(q, j)' <= y /\ y < Fin(q, j)'
      BY <1>14, <1>21, <1>22, <2>1
    <3>4. Res(q, j)' = Res(q, j) /\ W(q)' = W(q) /\ Dt(q, j, y)' = Dt(q, j, y)
      BY <1>9, <1>11, <1>13, <2>1
    <3> QED
      BY <2>1, <3>2, <3>3, <3>4 DEF EntryOK
  <2>5. CloserOK(c, m, q, j, y)'
    <3>1. c \notin {"pushScan", "pushAdvance", "pushNoWrite", "pushAwait",
                    "pushNext", "pushGrow"}
      BY <1>3, <2>1, <2>2 DEF CloserOK
    <3> QED
      BY <3>1 DEF CloserOK
  <2>6. GrowerOK(c, m, q, y)'
    <3>1. c \notin {"pushAwait", "pushNext", "pushGrow", "pushStore", "pushLink"}
      BY <1>3, <2>1 DEF GrowerOK
    <3>2. c = "pushCount" =>
            /\ m.own = W(q)' /\ y = Res(q, W(q))'
            /\ WC(q)' = W(q)' - 2 /\ m.next = W(q)' - 1
      BY <1>9, <1>13, <2>1 DEF GrowerOK
    <3> QED
      BY <3>1, <3>2 DEF GrowerOK
  <2>7. MicroOf(m.index)' = q /\ PosOf(m.index)' = y
    BY <2>1 DEF MicroOf, PosOf, Word
  <2> QED
    BY <2>1, <2>3, <2>4, <2>5, <2>6, <2>7 DEF PushFits
<1>17. ASSUME NEW d \in Poppers, NEW c, NEW m, NEW j, NEW y, c # "popDone",
              Popping(d, c, m, q, j, y)
       PROVE  PopFits(c, m)'
  <2>0. /\ j \in Rings(q) /\ y \in Nat /\ ~ Done(q, y)
        /\ ReaderOK(c, m, q, j, y) /\ TurnerOK(c, m, q, j, y)
    BY <1>17 DEF Popping
  <2>4. /\ Beg(q, j) <= y => Beg(q, j)' <= y
        /\ y < Fin(q, j) => y < Fin(q, j)'
        /\ y <= Fin(q, j) => y <= Fin(q, j)'
        /\ Res(q, j)' = Res(q, j) /\ Size(q, j)' = Size(q, j)
        /\ Half(q, j)' = Half(q, j) /\ Closed(q, j)' = Closed(q, j)
    BY <1>9, <1>14, <1>21, <1>22, <2>0
  <2>1. ReaderOK(c, m, q, j, y)'
    BY <1>4, <1>10, <1>12, <1>13, <2>0, <2>4 DEF ReaderOK
  <2>2. TurnerOK(c, m, q, j, y)'
    <3>1. c \in {"popAsk", "popAwait", "popNext", "popBump", "popTurn"} =>
            /\ Beg(q, j)' <= y /\ y <= Fin(q, j)'
            /\ y - Res(q, j)' >= Size(q, j)'
            /\ (y - Res(q, j)') % Half(q, j)' = 0
      BY <2>0, <2>4 DEF TurnerOK
    <3> QED
      BY <1>12, <1>13, <2>0, <2>4, <3>1 DEF TurnerOK
  <2>3. MicroOf(m.index)' = q /\ PosOf(m.index)' = y
    BY <1>17 DEF Popping, MicroOf, PosOf, Word
  <2> QED
    BY <1>17, <2>1, <2>2, <2>3 DEF PopFits, Popping
<1>18. PushFits(pc[p], loc[p])'
  <2>1. HolderOK("pushData", l, q, k)'
    <3>1. HolderOK("pushAdvance", l, q, k)
      BY <1>0, <1>1, <1>2 DEF Pushing
    <3>2. \A j \in Rings(q) : ~ (Closed(q, j)' /\ k = Fin(q, j)')
      <4> SUFFICES ASSUME NEW j \in Rings(q), Closed(q, j)', k = Fin(q, j)'
                   PROVE  FALSE
        OBVIOUS
      <4>1. j # i
        BY <1>3, <1>9
      <4>2. Closed(q, j) /\ k = Fin(q, j)
        BY <1>9, <4>1
      <4> QED
        BY <1>3, <3>1, <4>2 DEF HolderOK, Late
    <3>3. k # Res(q, W(q))'
      BY <1>3, <1>9, <1>13, <1>19
    <3> QED
      BY <1>3, <1>4, <1>13, <3>1, <3>2, <3>3 DEF HolderOK
  <2>2. EntryOK("pushData", l, q, i, k)'
    <3>1. Beg(q, i)' <= k /\ k < Fin(q, i)' /\ i <= W(q)'
      <4>1. b + h <= k /\ k < b + h + s
        BY <1>19
      <4> QED
        BY <1>3, <1>9, <1>13, <4>1
    <3> QED
      BY <3>1 DEF EntryOK
  <2>5. CloserOK("pushData", l, q, i, k)' /\ GrowerOK("pushData", l, q, k)'
    BY DEF CloserOK, GrowerOK
  <2>7. MicroOf(l.index)' = q /\ PosOf(l.index)' = k
    BY <1>1 DEF Pushing, MicroOf, PosOf, Word
  <2>8. PushFits("pushData", l)'
    BY <1>1, <2>1, <2>2, <2>5, <2>7 DEF PushFits, Pushing
  <2> QED
    BY <1>8, <2>8
<1> QED
  BY <1>2, <1>7, <1>15, <1>16, <1>17, <1>18, StepWithin

(* PushGrow keeps the invariant: line 197.                                *)
LEMMA PushGrowInv ==
  ASSUME Roomy, Inv, Shape', NEW p \in Pushers, PushGrow(p)
  PROVE  Inv'
<1>0. pc[p] = "pushGrow"
  BY DEF PushGrow
<1>1. PICK a, l, q, i, k : Pushing(p, a, l, q, i, k)
  BY <1>0, PushIs
<1>2. /\ Shape /\ q \in Micros /\ QueueOK(q) /\ l \in Locals /\ Micro(p) = q
      /\ l = loc[p] /\ p \in Threads /\ p \notin Poppers /\ i \in Rings(q) /\ a = pc[p]
      /\ loc[p].this = i /\ k \in Nat /\ K(p) = k /\ At(q, k) < m_nPreWriteIndex
      /\ k <= Last
  BY <1>1, InvTypes DEF Pushing
<1>3. /\ i = W(q) /\ l.own = i /\ Len(heap[q]) = i /\ k = Fin(q, i) /\ ~ l.nested
      /\ Closed(q, i) /\ WC(q) = i - 1 /\ l.next = i
  <2>1. /\ CloserOK("pushGrow", l, q, i, k) /\ HolderOK("pushGrow", l, q, k)
        /\ GrowerOK("pushGrow", l, q, k)
    BY <1>0, <1>1, <1>2 DEF Pushing
  <2> QED
    BY <1>2, <2>1 DEF CloserOK, HolderOK, GrowerOK
<1> SUFFICES ASSUME NEW n, n = i + 1, NEW s, s = Size(q, i) PROVE Inv'
  OBVIOUS
<1>4. /\ i \in Nat /\ i > 0 /\ n \in Nat /\ n > 0 /\ s \in Nat /\ s > 0
      /\ Beg(q, i) \in Nat /\ Res(q, i) \in Nat /\ Res(q, i) <= Beg(q, i)
      /\ k = Beg(q, i) + s /\ RingOK(q, i)
      /\ Rings(q) = 1 .. i
  <2>1. Rings(q) = 1 .. Len(heap[q])
    BY <1>2, QueueTypes
  <2>2. /\ i \in Nat /\ i > 0 /\ s \in Nat \ {0} /\ Beg(q, i) \in Nat
        /\ Res(q, i) \in Nat /\ Res(q, i) <= Beg(q, i) /\ RingOK(q, i)
        /\ Fin(q, i) = Beg(q, i) + s
    BY <1>2, QueueIs
  <2> QED
    BY <1>3, <2>1, <2>2
<1>5. k \in Places /\ s = 2 * (s \div 2)
  <2>1. Last <= Far /\ Far \in Nat /\ Last \in Nat
    BY Sizes
  <2> QED
    BY <1>2, <1>4, <2>1 DEF Places, RingOK, Half
<1> DEFINE ring == NewCircle(Word(At(q, k)), 2 * s)
           r == [l EXCEPT !.own = n]
<1>6. /\ Goto(p, "pushStore") /\ loc' = [loc EXCEPT ![p] = r]
      /\ m_queue' = m_queue /\ delivered' = delivered
      /\ m_nPreWriteIndex' = m_nPreWriteIndex /\ m_nReadIndex' = m_nReadIndex
      /\ heap' = [heap EXCEPT ![q] = Append(heap[q], ring)]
      /\ m_pPool' = [m_pPool EXCEPT ![q] = Append(m_pPool[q], NewPool(ring))]
  <2>1. CreateNextCircle(heap[q][loc[p].own]) = ring
    <3>1. Spans(heap[q][i], q, Res(q, i), Beg(q, i), s)
      BY <1>2, <1>4, RingSpans
    <3>2. CreateNextCircle(heap[q][i]) = NewCircle(Word(At(q, Beg(q, i) + s)), 2 * s)
      BY <1>5, <3>1, SpanMoves
    <3> QED
      BY <1>2, <1>3, <1>4, <3>2
  <2> HIDE DEF ring
  <2> QED
    BY <1>2, <1>3, <2>1 DEF PushGrow, indexVars, Shape, TypeOK
<1>7. /\ r.index = l.index /\ r.own = n /\ r.this = i /\ r.nested = l.nested
      /\ r.next = i
  BY <1>2, <1>3 DEF Locals
<1>8. /\ ring.m_nResBeginIndex = Word(At(q, k)) /\ ring.m_nBeginIndex = Word(At(q, k))
      /\ ring.m_nTotalSize = 2 * s /\ ring.m_bNoWrite = FALSE
      /\ ring.m_bReleased = FALSE
      /\ NewPool(ring) = [z \in 0 .. 2 * s - 1 |-> [m_pData |-> NoData, m_nWrite |-> 0]]
  BY DEF NewCircle, NewPool
<1> HIDE DEF r, ring
<1>9. /\ \A x \in Micros : x # q => heap'[x] = heap[x] /\ m_pPool'[x] = m_pPool[x]
      /\ Len(heap[q])' = n /\ Rings(q)' = 1 .. n
      /\ heap'[q][n] = ring /\ m_pPool'[q][n] = NewPool(ring)
      /\ \A j \in Rings(q) : heap'[q][j] = heap[q][j] /\ m_pPool'[q][j] = m_pPool[q][j]
  <2>1. /\ heap[q] \in Seq(Ring) /\ m_pPool[q] \in Seq(Pools)
        /\ DOMAIN m_pPool[q] = DOMAIN heap[q]
        /\ q \in DOMAIN heap /\ q \in DOMAIN m_pPool
    BY <1>2 DEF Shape, TypeOK
  <2>2. heap'[q] = Append(heap[q], ring) /\ m_pPool'[q] = Append(m_pPool[q], NewPool(ring))
    BY <1>6, <2>1
  <2>3. heap'[q] \in Seq(Ring) /\ m_pPool'[q] \in Seq(Pools)
    BY <1>2 DEF Shape, TypeOK
  <2>4. Len(m_pPool[q]) = i
    BY <1>3, <1>4, <2>1
  <2>5. Len(heap[q])' = n /\ heap'[q][n] = ring /\ \A j \in 1 .. i : heap'[q][j] = heap[q][j]
    BY <1>3, <2>1, <2>2, <2>3, <1>4, AppendProperties
  <2>6. m_pPool'[q][n] = NewPool(ring) /\ \A j \in 1 .. i : m_pPool'[q][j] = m_pPool[q][j]
    BY <1>4, <2>1, <2>2, <2>3, <2>4, AppendProperties
  <2>7. \A x \in Micros : x # q => heap'[x] = heap[x] /\ m_pPool'[x] = m_pPool[x]
    BY <1>2, <1>6 DEF Shape, TypeOK
  <2>8. Rings(q)' = 1 .. n
    BY <2>5 DEF Rings
  <2> QED
    BY <1>4, <2>5, <2>6, <2>7, <2>8
<1>10. /\ Within(p, q) /\ DoneSame /\ PushedSame
       /\ Micro(p)' = Micro(p) /\ K(p)' = K(p)
       /\ \A u \in Threads : u # p => Same(u)
  <2>1. \A x \in Micros : x # q =>
          heap'[x] = heap[x] /\ m_queue'[x] = m_queue[x] /\ m_pPool'[x] = m_pPool[x]
    BY <1>6, <1>9
  <2>2. r.index = loc[p].index /\ q = Micro(p)
        /\ pc[p] \notin {"pushDone", "popDone"} /\ "pushStore" \notin {"pushDone", "popDone"}
    BY <1>0, <1>2, <1>7
  <2> QED
    BY <1>2, <1>6, <2>1, <2>2, KeepWithin
<1>11. pc'[p] = "pushStore" /\ loc'[p] = r
  BY <1>2, <1>6 DEF Goto, Shape, TypeOK
<1>12. /\ \A j \in Rings(q) :
            /\ heap[q][j].m_nResBeginIndex' = heap[q][j].m_nResBeginIndex
            /\ heap[q][j].m_nBeginIndex' = heap[q][j].m_nBeginIndex
            /\ Res(q, j)' = Res(q, j) /\ Beg(q, j)' = Beg(q, j)
            /\ Size(q, j)' = Size(q, j) /\ Half(q, j)' = Half(q, j)
            /\ Fin(q, j)' = Fin(q, j) /\ Freed(q, j)' = Freed(q, j)
            /\ Closed(q, j)' = Closed(q, j)
       /\ \A j \in Rings(q) : \A y : Sg(q, j, y)' = Sg(q, j, y) /\ Dt(q, j, y)' = Dt(q, j, y)
  <2>1. \A j \in Rings(q) : heap'[q][j] = heap[q][j] /\ m_pPool'[q][j] = m_pPool[q][j]
    BY <1>9
  <2>2. \A j \in Rings(q) :
            /\ heap[q][j].m_nResBeginIndex' = heap[q][j].m_nResBeginIndex
            /\ heap[q][j].m_nBeginIndex' = heap[q][j].m_nBeginIndex
            /\ Res(q, j)' = Res(q, j) /\ Beg(q, j)' = Beg(q, j)
            /\ Size(q, j)' = Size(q, j) /\ Half(q, j)' = Half(q, j)
            /\ Fin(q, j)' = Fin(q, j) /\ Freed(q, j)' = Freed(q, j)
            /\ Closed(q, j)' = Closed(q, j)
    BY <2>1 DEF Res, Beg, Size, Half, Fin, Freed, Closed
  <2>3. \A j \in Rings(q) : \A y : Sg(q, j, y)' = Sg(q, j, y) /\ Dt(q, j, y)' = Dt(q, j, y)
    BY <2>1, <2>2 DEF Sg, Dt
  <2> QED
    BY <2>2, <2>3
<1>13. /\ Res(q, n)' = k /\ Beg(q, n)' = k /\ Size(q, n)' = 2 * s /\ Half(q, n)' = s
       /\ Fin(q, n)' = k + 2 * s /\ ~ Closed(q, n)' /\ ~ Freed(q, n)'
       /\ heap[q][n].m_nResBeginIndex' = Word(At(q, k))
       /\ heap[q][n].m_nBeginIndex' = Word(At(q, k))
       /\ \A y \in Nat : y >= k => Sg(q, n, y)' = 0
  <2>1. PosW(Word(At(q, k))) = k
    BY <1>2, <1>5, PlaceWord
  <2>2. Res(q, n)' = k /\ Beg(q, n)' = k
    BY <1>8, <1>9, <2>1 DEF Res, Beg, PosW, Minus, Word
  <2>3. Size(q, n)' = 2 * s /\ ~ Closed(q, n)' /\ ~ Freed(q, n)'
    BY <1>8, <1>9 DEF Size, Closed, Freed
  <2>4. Half(q, n)' = s
    <3>1. (2 * s) \div 2 = s
      BY <1>4
    <3> QED
      BY <2>3, <3>1 DEF Half
  <2>5. Fin(q, n)' = k + 2 * s
    BY <2>2, <2>3 DEF Fin
  <2>6. ASSUME NEW y \in Nat, y >= k PROVE Sg(q, n, y)' = 0
    <3>1. (y - k) % (2 * s) \in 0 .. 2 * s - 1
      <4>1. y - k \in Int /\ 2 * s \in Nat \ {0}
        BY <1>2, <1>4
      <4> QED
        BY <4>1, ModRange
    <3>2. m_pPool'[q][n][(y - k) % (2 * s)].m_nWrite = 0
      BY <1>8, <1>9, <3>1
    <3> QED
      BY <2>2, <2>3, <3>2 DEF Sg
  <2> QED
    BY <1>8, <1>9, <2>2, <2>3, <2>4, <2>5, <2>6
<1>14. PointersSame /\ (\A x : WasDelivered(x)' <=> WasDelivered(x))
       /\ \A x : At(q, x)' = At(q, x)
  BY <1>6, PointersFrame DEF WasDelivered, At
<1>15. /\ \A y \in Nat : Done(q, y)' <=> Done(q, y)
       /\ \A y \in Nat : Pushed(q, y)' <=> Pushed(q, y)
  BY <1>2, <1>10 DEF DoneSame, PushedSame
<1>16. /\ W(q)' = i /\ R(q)' = R(q) /\ WC(q)' = WC(q) /\ RC(q)' = RC(q)
       /\ \A z : Slot(q, z)' = Slot(q, z)
       /\ W(q) = i /\ 1 \in Rings(q) /\ R(q) \in Nat
  BY <1>2, <1>3, <1>14, QueueIs, QueueTypes DEF PointersSame
<1>17. \A j \in Rings(q) : /\ j \in Nat /\ j <= i /\ RingOK(q, j) /\ Fin(q, j) \in Nat
                           /\ Beg(q, j) \in Nat /\ Size(q, j) \in Nat /\ Half(q, j) \in Nat
                           /\ Size(q, j) = 2 * Half(q, j) /\ Res(q, j) \in Nat
                           /\ Res(q, j) <= Beg(q, j) /\ Fin(q, j) = Beg(q, j) + Size(q, j)
  <2>1. \A j \in Rings(q) : j \in Nat /\ j <= i
    BY <1>4
  <2> QED
    BY <1>2, <2>1, QueueIs
<1>18. \A j \in Rings(q)' : j \in Rings(q) \/ j = n
  BY <1>4, <1>9
<1>19. QueueOK(q)'
  <2>1. \A j \in Rings(q)' : RingOK(q, j)'
    <3>1. ASSUME NEW j \in Rings(q) PROVE RingOK(q, j)'
      <4>1. /\ heap[q][j].m_nResBeginIndex' = Word(At(q, Res(q, j)))'
            /\ heap[q][j].m_nBeginIndex' = Word(At(q, Beg(q, j)))'
        BY <1>12, <1>17, <3>1 DEF RingOK, At, Word
      <4>2. Closed(q, j)' => At(q, Fin(q, j))' < m_nPreWriteIndex'
        BY <1>6, <1>12, <1>17, <3>1 DEF RingOK, At
      <4> QED
        BY <1>12, <1>16, <1>17, <3>1, <4>1, <4>2 DEF RingOK
    <3>2. RingOK(q, n)'
      <4>1. /\ heap[q][n].m_nResBeginIndex' = Word(At(q, Res(q, n)))'
            /\ heap[q][n].m_nBeginIndex' = Word(At(q, Beg(q, n)))'
        BY <1>13 DEF At, Word
      <4>2. 2 * Block <= s /\ s <= Res(q, i) + 2 * Block /\ Block \in Nat
        BY <1>4, Sizes DEF RingOK
      <4>3. /\ Res(q, n)' <= Beg(q, n)' /\ Beg(q, n)' <= Last
            /\ 2 * Block <= Size(q, n)' /\ Size(q, n)' <= Res(q, n)' + 2 * Block
            /\ Size(q, n)' = 2 * Half(q, n)'
        <5>1. k <= k /\ 2 * Block <= 2 * s /\ 2 * s <= k + 2 * Block
          BY <1>2, <1>4, <4>2
        <5> QED
          BY <1>2, <1>13, <5>1
      <4>4. (Beg(q, n)' - Res(q, n)') % Half(q, n)' = 0
        <5>1. k - k = 0 /\ 0 % s = 0
          BY <1>2, <1>4
        <5> QED
          BY <1>13, <5>1
      <4> QED
        BY <1>13, <4>1, <4>3, <4>4 DEF RingOK
    <3> QED
      BY <1>18, <3>1, <3>2
  <2>2. ChainOK(q)'
    <3>1. ChainOK(q)
      BY <1>2 DEF QueueOK
    <3>2. Res(q, 1)' = 0 /\ Size(q, 1)' = 2 * Block
      BY <1>12, <1>16, <3>1 DEF ChainOK
    <3>3. \A j \in Rings(q)' : j > 1 => Size(q, j)' >= 4 * Block
      <4>1. Size(q, n)' >= 4 * Block
        <5>1. 2 * Block <= s /\ Block \in Nat
          BY <1>4, Sizes DEF RingOK
        <5>2. 2 * s >= 4 * Block
          BY <1>4, <5>1
        <5> QED
          BY <1>13, <5>2
      <4> QED
        BY <1>12, <1>18, <3>1, <4>1 DEF ChainOK
    <3>4. \A j, m \in Rings(q)' : m = j + 1 =>
            Res(q, m)' = Fin(q, j)' /\ Size(q, m)' = 2 * Size(q, j)'
      <4> SUFFICES ASSUME NEW j \in Rings(q)', NEW m \in Rings(q)', m = j + 1
                   PROVE  Res(q, m)' = Fin(q, j)' /\ Size(q, m)' = 2 * Size(q, j)'
        OBVIOUS
      <4>1. CASE m = n
        <5>1. j = i
          BY <1>4, <1>9, <4>1
        <5> QED
          BY <1>2, <1>3, <1>12, <1>13, <4>1, <5>1
      <4>2. CASE m # n
        <5>1. m \in Rings(q) /\ j \in Rings(q)
          BY <1>4, <1>9, <4>2
        <5> QED
          BY <1>12, <3>1, <5>1 DEF ChainOK
      <4> QED
        BY <4>1, <4>2
    <3>5. \A j, m \in Rings(q)' : j < m => Fin(q, j)' <= Res(q, m)'
      <4> SUFFICES ASSUME NEW j \in Rings(q)', NEW m \in Rings(q)', j < m
                   PROVE  Fin(q, j)' <= Res(q, m)'
        OBVIOUS
      <4>1. CASE m = n
        <5>1. j \in Rings(q) /\ (j = i \/ j < i)
          BY <1>4, <1>9, <4>1
        <5>2. Fin(q, j) <= k
          <6>1. CASE j = i
            BY <1>2, <1>3, <6>1
          <6>2. CASE j < i
            <7>1. Fin(q, j) <= Res(q, i)
              BY <1>2, <3>1, <5>1, <6>2 DEF ChainOK
            <7>2. i \in Rings(q) /\ Fin(q, i) = k
              BY <1>2, <1>3, <1>4
            <7>3. /\ Res(q, i) <= Beg(q, i) /\ Fin(q, i) = Beg(q, i) + Size(q, i)
                  /\ Res(q, i) \in Nat /\ Beg(q, i) \in Nat /\ Size(q, i) \in Nat
              BY <1>17, <7>2
            <7>4. Res(q, i) <= k /\ k \in Nat
              BY <7>2, <7>3
            <7>5. Fin(q, j) \in Nat
              BY <1>17, <5>1
            <7> QED
              BY <7>1, <7>3, <7>4, <7>5
          <6> QED
            BY <5>1, <6>1, <6>2
        <5> QED
          BY <1>12, <1>13, <4>1, <5>1, <5>2
      <4>2. CASE m # n
        <5>1. m \in Rings(q) /\ j \in Rings(q)
          BY <1>4, <1>9, <4>2
        <5> QED
          BY <1>12, <3>1, <5>1 DEF ChainOK
      <4> QED
        BY <4>1, <4>2
    <3> QED
      BY <3>2, <3>3, <3>4, <3>5 DEF ChainOK
  <2>3. PointersOK(q)'
    <3>1. PointersOK(q)
      BY <1>2 DEF QueueOK
    <3>3. \A d \in Poppers : pc[d] = "popTurn" =>
            pc'[d] = "popTurn" /\ Micro(d)' = Micro(d)
      BY <1>2, <1>10, InvTypes DEF Same
    <3>4. \A j \in Rings(q)' : j < W(q)' => Closed(q, j)'
      <4>1. \A j \in Rings(q)' : j < i => j \in Rings(q)
        BY <1>4, <1>9
      <4> QED
        BY <1>12, <1>16, <3>1, <4>1 DEF PointersOK
    <3>5. Closed(q, W(q))'
      BY <1>2, <1>3, <1>12, <1>16
    <3>6. \A j \in Rings(q)' : j > W(q)' => ~ Closed(q, j)' /\ Beg(q, j)' = Res(q, j)'
      <4>1. \A j \in Rings(q)' : j > i => j = n
        BY <1>4, <1>9
      <4> QED
        BY <1>13, <1>16, <4>1
    <3>7. /\ R(q)' <= W(q)' /\ W(q)' <= CirclePointNumber
          /\ R(q)' <= WC(q)' + 1
          /\ \A z \in Slots : z < W(q)' => Slot(q, z)' = z + 1
      BY <1>16, <3>1 DEF PointersOK
    <3>8. \/ RC(q)' = R(q)' - 1
          \/ RC(q)' = R(q)' /\ \E c \in Poppers : pc'[c] = "popTurn" /\ Micro(c)' = q
      BY <1>16, <3>1, <3>3 DEF PointersOK
    <3>9. Len(heap[q])' <= W(q)' + 1
      BY <1>4, <1>9, <1>16
    <3>10. WC(q)' = W(q)' - 1
      BY <1>3, <1>16
    <3> QED
      BY <3>4, <3>5, <3>6, <3>7, <3>8, <3>9, <3>10 DEF PointersOK
  <2>4. PlacesOK(q)'
    <3>0. PlacesOK(q)
      BY <1>2 DEF QueueOK
    <3>1. \A y \in Nat : Done(q, y)' => Pushed(q, y)' /\ WasDelivered(At(q, y))'
      BY <1>14, <1>15, <3>0 DEF PlacesOK
    <3>2. Fin(q, W(q))' = Fin(q, W(q))
      BY <1>2, <1>12, <1>16
    <3>3. \A y \in Nat : y >= Fin(q, W(q))' => ~ Pushed(q, y)'
      BY <1>15, <3>0, <3>2 DEF PlacesOK
    <3>4. \A j \in Rings(q)' : \A y \in Nat :
            Res(q, j)' <= y /\ y < Beg(q, j)' => Done(q, y)'
      <4> SUFFICES ASSUME NEW j \in Rings(q)', NEW y \in Nat,
                          Res(q, j)' <= y, y < Beg(q, j)'
                   PROVE  Done(q, y)
        BY <1>15
      <4>1. j # n
        BY <1>2, <1>13
      <4>2. j \in Rings(q)
        BY <1>18, <4>1
      <4> QED
        BY <1>12, <3>0, <4>2 DEF PlacesOK
    <3> QED
      BY <3>1, <3>3, <3>4 DEF PlacesOK
  <2>5. CellsOK(q)'
    <3> SUFFICES ASSUME NEW j \in Rings(q)', NEW y \in Nat,
                        Beg(q, j)' <= y, y < Fin(q, j)'
                 PROVE  CellOK(q, j, y)'
      BY DEF CellsOK
    <3>1. CASE j \in Rings(q)
      <4>1. CellOK(q, j, y)
        BY <1>2, <1>12, <3>1 DEF QueueOK, CellsOK
      <4> QED
        BY <1>12, <1>14, <1>15, <3>1, <4>1 DEF CellOK
    <3>2. CASE j = n
      <4>1. y >= k /\ y - k < 2 * s
        <5>1. k <= y /\ y < k + 2 * s
          BY <1>13, <3>2
        <5> QED
          BY <1>2, <1>4, <5>1
      <4>2. ~ Pushed(q, y) /\ ~ Done(q, y)
        BY <1>2, <1>3, <4>1 DEF QueueOK, PlacesOK
      <4>3. Sg(q, n, y)' = 0 /\ ~ Pushed(q, y)' /\ ~ Done(q, y)'
        BY <1>13, <1>15, <4>1, <4>2
      <4>4. y - Res(q, n)' < Size(q, n)'
        BY <1>13, <4>1
      <4>5. Prev(Size(q, n), y - Res(q, n))' = 0
        BY <4>4 DEF Prev
      <4> QED
        BY <3>2, <4>3, <4>5 DEF CellOK
    <3> QED
      BY <1>18, <3>1, <3>2
  <2>6. TurnedOK(q)'
    <3>1. ASSUME NEW j \in Rings(q), NEW y \in Nat, TurnedAt(q, j, y)
          PROVE  TurnedAt(q, j, y)'
      <4>1. \A d \in Poppers : PopAt(d, q, y)' =>
              pc'[d] \in {"popRelease", "popRetry"} \/ loc'[d].this > j
        BY <1>2, <1>10, <3>1, InvTypes DEF PopAt, Same, TurnedAt
      <4> QED
        BY <1>6, <1>12, <1>14, <1>15, <3>1, <4>1 DEF TurnedAt
    <3>2. \A j \in Rings(q)' : j < R(q) => j \in Rings(q)
      <4>1. R(q) <= i
        BY <1>2, <1>3 DEF QueueOK, PointersOK
      <4> QED
        BY <1>4, <1>9, <1>16, <4>1
    <3> QED
      BY <1>2, <1>16, <3>1, <3>2 DEF QueueOK, TurnedOK
  <2> QED
    BY <2>1, <2>2, <2>3, <2>4, <2>5, <2>6 DEF QueueOK
<1>20. ASSUME NEW u \in Pushers, NEW b, NEW m, NEW j, NEW y, u # p, b # "pushDone",
              Pushing(u, b, m, q, j, y)
       PROVE  PushFits(b, m)'
  <2>1. /\ b = pc[u] /\ Micro(u) = q /\ K(u) = y
        /\ HolderOK(b, m, q, y) /\ EntryOK(b, m, q, j, y)
        /\ CloserOK(b, m, q, j, y) /\ GrowerOK(b, m, q, y)
        /\ q = MicroOf(m.index) /\ y = PosOf(m.index) /\ j = m.this /\ y \in Nat
        /\ j \in Rings(q) /\ m.own \in Rings(q)
    BY <1>20 DEF Pushing
  <2>2. y # k
    BY <1>0, <1>2, <1>20, <2>1 DEF Inv, UniqueOK
  <2>3. HolderOK(b, m, q, y)'
    <3>1. \A x \in Rings(q)' : Closed(q, x)' => x \in Rings(q) /\ Closed(q, x)
      BY <1>12, <1>13, <1>18
    <3>2. Res(q, W(q))' = Res(q, W(q))
      BY <1>2, <1>12, <1>16
    <3> QED
      BY <1>6, <1>12, <1>16, <2>1, <3>1, <3>2 DEF HolderOK
  <2>4. EntryOK(b, m, q, j, y)'
    BY <1>12, <1>16, <2>1 DEF EntryOK
  <2>8. b \notin {"pushScan", "pushAdvance", "pushNoWrite", "pushAwait",
                  "pushNext", "pushGrow"}
    BY <1>3, <2>1, <2>2 DEF CloserOK
  <2>5. CloserOK(b, m, q, j, y)'
    BY <2>8 DEF CloserOK
  <2>6. GrowerOK(b, m, q, y)'
    <3>1. b \notin {"pushStore", "pushLink"}
      BY <1>3, <2>1, <2>2 DEF GrowerOK
    <3>2. b = "pushCount" =>
            /\ m.own = W(q)' /\ y = Res(q, W(q))'
            /\ WC(q)' = W(q)' - 2 /\ m.next = W(q)' - 1
      BY <1>2, <1>12, <1>16, <2>1 DEF GrowerOK
    <3> QED
      BY <2>8, <3>1, <3>2 DEF GrowerOK
  <2>7. MicroOf(m.index)' = q /\ PosOf(m.index)' = y
    BY <2>1 DEF MicroOf, PosOf, Word
  <2> QED
    BY <2>1, <2>3, <2>4, <2>5, <2>6, <2>7 DEF PushFits
<1>21. ASSUME NEW d \in Poppers, NEW b, NEW m, NEW j, NEW y, b # "popDone",
              Popping(d, b, m, q, j, y)
       PROVE  PopFits(b, m)'
  <2>0. /\ j \in Rings(q) /\ y \in Nat
        /\ ReaderOK(b, m, q, j, y) /\ TurnerOK(b, m, q, j, y)
    BY <1>21 DEF Popping
  <2>1. ReaderOK(b, m, q, j, y)'
    BY <1>6, <1>12, <1>14, <1>15, <1>16, <2>0 DEF ReaderOK
  <2>2. TurnerOK(b, m, q, j, y)'
    BY <1>12, <1>15, <1>16, <2>0 DEF TurnerOK
  <2>3. MicroOf(m.index)' = q /\ PosOf(m.index)' = y
    BY <1>21 DEF Popping, MicroOf, PosOf, Word
  <2> QED
    BY <1>21, <2>1, <2>2, <2>3 DEF PopFits, Popping
<1>22. PushFits(pc[p], loc[p])'
  <2>1. HolderOK("pushStore", r, q, k)'
    <3>1. HolderOK("pushGrow", l, q, k)
      BY <1>0, <1>1, <1>2 DEF Pushing
    <3>2. k # Res(q, W(q))'
      BY <1>2, <1>4, <1>12, <1>16
    <3> QED
      BY <1>3, <1>6, <1>7, <3>1, <3>2 DEF HolderOK, Late
  <2>2. EntryOK("pushStore", r, q, i, k)' /\ CloserOK("pushStore", r, q, i, k)'
    BY DEF EntryOK, CloserOK
  <2>3. GrowerOK("pushStore", r, q, k)'
    BY <1>2, <1>3, <1>7, <1>9, <1>12, <1>16 DEF GrowerOK
  <2>4. MicroOf(r.index)' = q /\ PosOf(r.index)' = k
    BY <1>1, <1>7 DEF Pushing, MicroOf, PosOf, Word
  <2>5. PushFits("pushStore", r)'
    BY <1>7, <2>1, <2>2, <2>3, <2>4 DEF PushFits
  <2> QED
    BY <1>11, <2>5
<1> QED
  BY <1>2, <1>10, <1>19, <1>20, <1>21, <1>22, StepWithin

---------------------------------------------------------------------------

(***************************************************************************)
(* The invariant is one.                                                   *)
(***************************************************************************)

(* The invariant holds at the start,                                      *)
LEMMA InvInit == Roomy /\ Init => Inv
<1> SUFFICES ASSUME Roomy, Init PROVE Inv
  OBVIOUS
<1>0. Shape
  BY ShapeInit
<1>1. /\ Start \in Nat /\ m_nPreWriteIndex = Start /\ m_nReadIndex = Start
      /\ delivered = {} /\ Last \in Nat /\ Block \in Nat \ {0} /\ 0 \in Places
      /\ MaxPush \in Nat
  BY Sizes, MaxPushAssumption DEF Init, Start, Places
<1>2. ASSUME NEW t \in Threads
      PROVE  pc[t] = (IF t \in Pushers THEN "pushDone" ELSE "popDone")
  BY DEF Init
<1>3. /\ \A p \in Pushers : pc[p] = "pushDone"
      /\ \A c \in Poppers : pc[c] = "popDone"
  BY <1>2, ThreadsAssumption DEF Threads
<1>4. CountersOK /\ UniqueOK /\ DeliveredInOrder
  BY <1>1, <1>3 DEF CountersOK, UniqueOK, DeliveredInOrder
<1>5. \A p \in Pushers : PushFits(pc[p], loc[p])
  BY <1>3 DEF PushFits, HolderOK, EntryOK, CloserOK, GrowerOK
<1>6. \A c \in Poppers : PopFits(pc[c], loc[c])
  BY <1>3 DEF PopFits, ReaderOK, TurnerOK
<1>7. ASSUME NEW q \in Micros PROVE QueueOK(q)
  <2> DEFINE ring == CreateCircle(CCLockfreeQueueStartIndex + q)
  <2>1. /\ heap[q] = <<ring>> /\ m_pPool[q] = <<NewPool(ring)>>
        /\ m_queue[q] = [m_nWriteCircle |-> 0, m_nReadCircle |-> 0,
                         m_pWrite |-> 1, m_pRead |-> 1,
                         m_pCircle |-> [s \in Slots |-> IF s = 0 THEN 1 ELSE 0]]
    BY <1>7 DEF Init
  <2>2. /\ ring.m_nResBeginIndex = Word(Start + q) /\ ring.m_nBeginIndex = Word(Start + q)
        /\ ring.m_nTotalSize = 2 * Block /\ ring.m_bNoWrite = FALSE
        /\ ring.m_bReleased = FALSE
        /\ NewPool(ring) = [z \in 0 .. 2 * Block - 1 |-> [m_pData |-> NoData, m_nWrite |-> 0]]
    BY DEF CreateCircle, NewCircle, NewPool, Start, Block
  <2> HIDE DEF ring
  <2>3. At(q, 0) = Start + q
    <3>1. Mode * 0 = 0 /\ q \in Int
      BY Sizes, <1>7 DEF Micros
    <3> QED
      BY <1>1, <3>1 DEF At
  <2>4. PosW(Word(At(q, 0))) = 0
    BY <1>1, <1>7, PlaceWord
  <2>5. /\ Rings(q) = {1} /\ Len(heap[q]) = 1
        /\ heap[q][1] = ring /\ m_pPool[q][1] = NewPool(ring)
    BY <2>1 DEF Rings
  <2>6. /\ W(q) = 1 /\ R(q) = 1 /\ WC(q) = 0 /\ RC(q) = 0
        /\ \A s \in Slots : Slot(q, s) = IF s = 0 THEN 1 ELSE 0
    BY <2>1 DEF W, R, WC, RC, Slot
  <2>7. /\ Res(q, 1) = 0 /\ Beg(q, 1) = 0 /\ Size(q, 1) = 2 * Block
        /\ Half(q, 1) = Block /\ Fin(q, 1) = 2 * Block
        /\ ~ Closed(q, 1) /\ ~ Freed(q, 1)
    <3>1. Res(q, 1) = 0 /\ Beg(q, 1) = 0 /\ Size(q, 1) = 2 * Block
          /\ ~ Closed(q, 1) /\ ~ Freed(q, 1)
      BY <2>2, <2>3, <2>4, <2>5 DEF Res, Beg, Size, Closed, Freed
    <3>2. (2 * Block) \div 2 = Block /\ 0 + 2 * Block = 2 * Block
      BY <1>1
    <3>3. Half(q, 1) = Block
      BY <3>1, <3>2 DEF Half
    <3>4. Fin(q, 1) = 2 * Block
      BY <3>1, <3>2 DEF Fin
    <3> QED
      BY <3>1, <3>3, <3>4
  <2>8. \A k \in Nat : ~ Pushed(q, k) /\ ~ Done(q, k)
    <3> SUFFICES ASSUME NEW k \in Nat PROVE ~ Pushed(q, k) /\ ~ Done(q, k)
      OBVIOUS
    <3>1. At(q, k) \in Nat /\ Start <= At(q, k)
      BY <1>7, PlaceIndex
    <3> QED
      BY <1>1, <3>1 DEF Pushed, Done
  <2>9. RingOK(q, 1)
    <3>1. /\ 0 % Block = 0 /\ 0 - 0 = 0 /\ 2 * Block <= 0 + 2 * Block /\ 0 <= Last
          /\ 2 * Block <= 2 * Block
      BY <1>1
    <3> QED
      BY <2>2, <2>3, <2>5, <2>7, <3>1 DEF RingOK
  <2>10. ChainOK(q)
    BY <2>5, <2>7 DEF ChainOK
  <2>11. PointersOK(q)
    <3>1. 1 <= CirclePointNumber /\ CirclePointNumber \in Nat
      BY SlotsAssumption
    <3>2. \A s \in Slots : s < W(q) => Slot(q, s) = s + 1
      <4>1. \A s \in Slots : s < 1 => s = 0
        BY <3>1 DEF Slots
      <4> QED
        BY <2>6, <4>1
    <3> QED
      BY <2>5, <2>6, <2>7, <3>1, <3>2 DEF PointersOK
  <2>12. PlacesOK(q)
    <3>1. \A k \in Nat : ~ (0 <= k /\ k < 0)
      OBVIOUS
    <3> QED
      BY <2>5, <2>7, <2>8, <3>1 DEF PlacesOK
  <2>13. CellsOK(q)
    <3> SUFFICES ASSUME NEW k \in Nat, k < 2 * Block PROVE CellOK(q, 1, k)
      BY <2>5, <2>7 DEF CellsOK
    <3>1. k - 0 = k /\ k % (2 * Block) \in 0 .. 2 * Block - 1
      <4>1. 2 * Block \in Nat \ {0} /\ k \in Int /\ k - 0 = k
        BY <1>1
      <4>2. \A n \in Nat \ {0} : k % n \in 0 .. n - 1
        BY <4>1, ModRange
      <4> QED
        BY <4>1, <4>2
    <3>2. Sg(q, 1, k) = 0
      <4>1. Sg(q, 1, k) = NewPool(ring)[k % (2 * Block)].m_nWrite
        BY <2>5, <2>7, <3>1 DEF Sg
      <4> QED
        BY <2>2, <3>1, <4>1
    <3>3. Prev(Size(q, 1), k - Res(q, 1)) = 0
      BY <2>7, <3>1 DEF Prev
    <3> QED
      BY <2>8, <3>2, <3>3 DEF CellOK
  <2>14. TurnedOK(q)
    BY <2>5, <2>6 DEF TurnedOK
  <2> QED
    BY <2>5, <2>9, <2>10, <2>11, <2>12, <2>13, <2>14 DEF QueueOK
<1> QED
  BY <1>0, <1>4, <1>5, <1>6, <1>7 DEF Inv

(* and every step of every thread keeps it.                               *)
LEMMA InvNext == Roomy /\ Inv /\ [Next]_vars => Inv'
<1> SUFFICES ASSUME Roomy, Inv, [Next]_vars PROVE Inv'
  OBVIOUS
<1>0. Shape'
  BY ShapeNext DEF Inv
<1>1. CASE UNCHANGED vars
  <2>1. /\ m_nPreWriteIndex' = m_nPreWriteIndex /\ m_nReadIndex' = m_nReadIndex
        /\ m_queue' = m_queue /\ heap' = heap /\ m_pPool' = m_pPool
        /\ pc' = pc /\ loc' = loc /\ delivered' = delivered
    BY <1>1 DEF vars
  <2>2. HeapSame /\ PointersSame
    BY <2>1, HeapFrame, PointersFrame
  <2>3. CellsSame
    BY <2>1, <2>2, CellsFrame
  <2>4. \A t \in Threads : Same(t)
    BY <2>1 DEF Same, Index, Micro, MicroOf, Word, K, PosOf
  <2>5. DoneSame /\ PushedSame
    <3>1. \A t : Index(t)' = Index(t) /\ Micro(t)' = Micro(t) /\ K(t)' = K(t)
      BY <2>1 DEF Index, Micro, MicroOf, Word, K, PosOf
    <3> QED
      BY <2>1, <3>1 DEF DoneSame, PushedSame, Done, Pushed, PopAt, PushAt, At
  <2>6. /\ m_nPreWriteIndex \in Nat /\ m_nReadIndex \in Nat
        /\ \A n : WasDelivered(n) => WasDelivered(n)'
        /\ \A x \in Threads : loc[x].index \in Nat
    BY <2>1, InvTypes DEF WasDelivered, Index
  <2>7. \A p \in Pushers : (PushFits(pc[p], loc[p]))'
    <3> SUFFICES ASSUME NEW p \in Pushers, NEW a, NEW l, a = pc[p], l = loc[p]
                 PROVE  PushFits(a, l)'
      BY <2>1
    <3>1. PushFits(a, l) /\ l.index \in Nat
      BY <2>6, InvTypes DEF Inv
    <3> QED
      BY <2>1, <2>2, <2>3, <2>5, <2>6, <3>1, PushFitsFrame
  <2>8. \A c \in Poppers : (PopFits(pc[c], loc[c]))'
    <3> SUFFICES ASSUME NEW c \in Poppers, NEW a, NEW l, a = pc[c], l = loc[c]
                 PROVE  PopFits(a, l)'
      BY <2>1
    <3>1. PopFits(a, l) /\ l.index \in Nat
      BY <2>6, InvTypes DEF Inv
    <3> QED
      BY <2>1, <2>2, <2>5, <2>6, <3>1, PopFitsFrame
  <2>9. ASSUME NEW q \in Micros PROVE QueueOK(q)'
    <3>1. QueueSame(q)
      BY <2>2, <2>3, <2>5 DEF QueueSame, HeapSame, PointersSame, CellsSame, DoneSame, PushedSame
    <3>2. \A d \in Poppers : \A y : PopAt(d, q, y)' =>
           PopAt(d, q, y) /\ \A i : i < R(q) /\ Passes(d, i) => Passes(d, i)'
      BY <2>1, <2>4, InvTypes DEF PopAt, Same, Passes
    <3>3. \A d \in Poppers : pc[d] = "popTurn" /\ Micro(d) = q =>
           pc'[d] = "popTurn" /\ Micro(d)' = q
      BY <2>4, InvTypes DEF Same
    <3>4. \A i \in Rings(q) : Freed(q, i)' => Freed(q, i) \/ i < R(q)
      BY <2>2 DEF HeapSame
    <3> QED
      BY <2>1, <3>1, <3>2, <3>3, <3>4, QueueFrame
  <2>10. CountersOK' /\ DeliveredInOrder'
    BY <2>1 DEF Inv, CountersOK, DeliveredInOrder
  <2>11. UniqueOK'
    BY <2>4, InvTypes DEF Inv, UniqueOK, Same
  <2> QED
    BY <1>0, <2>7, <2>8, <2>9, <2>10, <2>11 DEF Inv
<1>2. ASSUME NEW p \in Pushers, DrawPush(p) PROVE Inv'
  BY <1>0, <1>2, DrawPushInv
<1>3. ASSUME NEW p \in Pushers, PushStep(p) PROVE Inv'
  <2>1. CASE PushLoadOwn(p)
    BY <1>0, <1>3, <2>1, PushLoadOwnInv
  <2>2. CASE PushLoadThis(p)
    BY <1>0, <1>3, <2>2, PushLoadThisInv
  <2>3. CASE PushLoadBegin(p)
    BY <1>0, <1>3, <2>3, PushLoadBeginInv
  <2>4. CASE PushScan(p)
    BY <1>0, <1>3, <2>4, PushScanInv
  <2>5. CASE PushAdvance(p)
    BY <1>0, <1>3, <2>5, PushAdvanceInv
  <2>6. CASE PushNoWrite(p)
    BY <1>0, <1>3, <2>6, PushNoWriteInv
  <2>7. CASE PushAwait(p)
    BY <1>0, <1>3, <2>7, PushAwaitInv
  <2>8. CASE PushNext(p)
    BY <1>0, <1>3, <2>8, PushNextInv
  <2>9. CASE PushGrow(p)
    BY <1>0, <1>3, <2>9, PushGrowInv
  <2>10. CASE PushStore(p)
    BY <1>0, <1>3, <2>10, PushStoreInv
  <2>11. CASE PushLink(p)
    BY <1>0, <1>3, <2>11, PushLinkInv
  <2>12. CASE PushCount(p)
    BY <1>0, <1>3, <2>12, PushCountInv
  <2>13. CASE PushData(p)
    BY <1>0, <1>3, <2>13, PushDataInv
  <2>14. CASE PushSign(p)
    BY <1>0, <1>3, <2>14, PushSignInv
  <2> QED
    BY <1>3, <2>1, <2>2, <2>3, <2>4, <2>5, <2>6, <2>7, <2>8, <2>9, <2>10,
       <2>11, <2>12, <2>13, <2>14 DEF PushStep
<1>4. ASSUME NEW c \in Poppers, DrawPop(c) PROVE Inv'
  BY <1>0, <1>4, DrawPopInv
<1>5. ASSUME NEW c \in Poppers, PopStep(c) PROVE Inv'
  <2>1. CASE PopLoadOwn(c)
    BY <1>0, <1>5, <2>1, PopLoadOwnInv
  <2>2. CASE PopLoadBegin(c)
    BY <1>0, <1>5, <2>2, PopLoadBeginInv
  <2>3. CASE PopAsk(c)
    BY <1>0, <1>5, <2>3, PopAskInv
  <2>4. CASE PopAwait(c)
    BY <1>0, <1>5, <2>4, PopAwaitInv
  <2>5. CASE PopNext(c)
    BY <1>0, <1>5, <2>5, PopNextInv
  <2>6. CASE PopBump(c)
    BY <1>0, <1>5, <2>6, PopBumpInv
  <2>7. CASE PopTurn(c)
    BY <1>0, <1>5, <2>7, PopTurnInv
  <2>8. CASE PopRelease(c)
    BY <1>0, <1>5, <2>8, PopReleaseInv
  <2>9. CASE PopSpin(c)
    BY <1>0, <1>5, <2>9, PopSpinInv
  <2>10. CASE PopData(c)
    BY <1>0, <1>5, <2>10, PopDataInv
  <2>11. CASE PopClear(c)
    BY <1>0, <1>5, <2>11, PopClearInv
  <2> QED
    BY <1>5, <2>1, <2>2, <2>3, <2>4, <2>5, <2>6, <2>7, <2>8, <2>9, <2>10,
       <2>11 DEF PopStep
<1> QED
  BY <1>1, <1>2, <1>3, <1>4, <1>5 DEF Next

(* The inductive invariant of the micro queues: whatever interleaving of  *)
(* lines 56-106, 108-147, 187-213 and 217-245, every thread and every     *)
(* ring is where Inv says.                                                *)
THEOREM MicroInvariant == Roomy => (Spec => []Inv)
<1>1. Roomy /\ Inv /\ [Next]_vars => Inv'
  BY InvNext
<1>2. Roomy /\ Init => Inv
  BY InvInit
<1>3. ASSUME Roomy PROVE Spec => []Inv
  <2>1. Inv /\ [Next]_vars => Inv'
    BY <1>1, <1>3
  <2>2. Init => Inv
    BY <1>2, <1>3
  <2> QED
    BY <2>1, <2>2, PTL DEF Spec
<1> QED
  BY <1>3

(* FIFO: the pop that drew index n returns the payload of the push that   *)
(* drew index n, however often the cell was reused and the chain grew     *)
(* (lines 100-105 and 137-146).                                           *)
THEOREM MicroDeliversInOrder == Roomy => (Spec => []DeliveredInOrder)
<1>1. ASSUME Roomy PROVE Spec => []DeliveredInOrder
  <2>1. Spec => []Inv
    BY <1>1, MicroInvariant
  <2>2. Inv => DeliveredInOrder
    BY DEF Inv
  <2> QED
    BY <2>1, <2>2, PTL
<1> QED
  BY <1>1

---------------------------------------------------------------------------

(***************************************************************************)
(* What the invariant says of the chain and its slots.                     *)
(***************************************************************************)

(* A ring has slid only over places that are read. *)
LEMMA InvSlid == Roomy /\ Inv => SlidOverRead
<1> SUFFICES ASSUME Roomy, Inv, NEW q \in Micros, NEW i \in DOMAIN heap[q],
                    NEW n \in Below(q, heap[q][i], heap[q][i].m_nBeginIndex)
             PROVE  WasDelivered(n)
  BY DEF SlidOverRead
<1>1. Shape /\ QueueOK(q) /\ CountersOK /\ m_nPreWriteIndex \in Nat /\ m_nReadIndex \in Nat
  BY InvTypes DEF Inv
<1>2. i \in Rings(q)
  <2>1. heap[q] \in Seq(Ring)
    BY <1>1 DEF Shape, TypeOK
  <2> QED
    BY <2>1 DEF Rings
<1>3. /\ RingOK(q, i) /\ Res(q, i) \in Nat /\ Beg(q, i) \in Nat
      /\ Res(q, i) <= Beg(q, i)
  BY <1>1, <1>2, QueueIs
<1> SUFFICES ASSUME NEW r, r = Res(q, i), NEW b, b = Beg(q, i),
                    NEW k, k = PosOf(n)
             PROVE  WasDelivered(n)
  OBVIOUS
<1>4. /\ n \in Nat /\ Start <= n /\ n < m_nPreWriteIndex /\ MicroOf(n) = q
      /\ Minus(Word(n), heap[q][i].m_nResBeginIndex)
           < Minus(heap[q][i].m_nBeginIndex, heap[q][i].m_nResBeginIndex)
  <2>1. Start \in Nat
    BY Sizes
  <2> QED
    BY <1>1, <2>1 DEF Below, Drawn, Start
<1>5. k \in Nat /\ n = At(q, k)
  BY <1>4, IndexPlace
<1>6. k \in Places
  BY <1>1, <1>4, <1>5, DrawnPlace
<1>7. r \in Places /\ b \in Places
  <2>1. Spans(heap[q][i], q, r, b, Size(q, i))
    BY <1>1, <1>2, <1>3, RingSpans
  <2> QED
    BY <2>1, SpanFacts
<1>8. /\ heap[q][i].m_nResBeginIndex = Word(At(q, r))
      /\ heap[q][i].m_nBeginIndex = Word(At(q, b))
  BY <1>3 DEF RingOK
<1>9. Minus(Word(At(q, b)), Word(At(q, r))) = Mode * (b - r)
  BY <1>3, <1>7, PlaceWord
<1>10. Minus(Word(At(q, k)), Word(At(q, r))) < Mode * (b - r)
  BY <1>4, <1>5, <1>8, <1>9
<1>11. /\ Mode \in Nat \ {0} /\ k \in Nat /\ r \in Nat /\ b \in Nat /\ Far \in Nat
       /\ WordSize \in Nat
  BY <1>3, <1>5, Sizes
<1>12. CASE k >= r
  <2>1. Minus(Word(At(q, k)), Word(At(q, r))) = Mode * (k - r)
    BY <1>6, <1>7, <1>12, PlaceWord
  <2>2. Mode * (k - r) < Mode * (b - r)
    BY <1>10, <2>1
  <2>3. k - r \in Int /\ b - r \in Int
    BY <1>11
  <2>4. k - r < b - r
    BY <1>11, <2>2, <2>3, Times
  <2>5. r <= k /\ k < b
    BY <1>11, <1>12, <2>4
  <2>6. Done(q, k)
    BY <1>1, <1>2, <1>5, <2>5 DEF QueueOK, PlacesOK
  <2> QED
    BY <1>1, <1>5, <2>6 DEF QueueOK, PlacesOK
<1>13. CASE k < r
  <2>1. Minus(Word(At(q, k)), Word(At(q, r))) = WordSize - Mode * (r - k)
    BY <1>6, <1>7, <1>13, PlaceWord
  <2>2. /\ Mode * (r - k) <= Mode * Far /\ Mode * (b - r) <= Mode * Far
        /\ 2 * (Mode * Far) + 2 * Mode <= WordSize
    BY <1>6, <1>7, PlaceWord
  <2> SUFFICES ASSUME NEW x, x = Mode * (r - k), NEW y, y = Mode * (b - r),
                      NEW z, z = Mode * Far
               PROVE  FALSE
    OBVIOUS
  <2>3. x \in Int /\ y \in Int /\ z \in Int
    <3>1. r - k \in Int /\ b - r \in Int /\ Far \in Int
      BY <1>11
    <3> QED
      BY <1>11, <3>1, Times
  <2>4. WordSize - x < y /\ x <= z /\ y <= z /\ 2 * z + 2 * Mode <= WordSize
    BY <1>10, <2>1, <2>2
  <2> QED
    BY <1>11, <2>3, <2>4
<1> QED
  BY <1>11, <1>12, <1>13

(* A set all of whose members are equal has at most one.                  *)
LEMMA AtMostOne ==
  ASSUME NEW S, \A x, y \in S : x = y
  PROVE  Cardinality(S) <= 1
<1>1. CASE S = {}
  BY <1>1, FS_EmptySet
<1>2. CASE S # {}
  <2>1. PICK x : x \in S
    BY <1>2
  <2>2. S = {x}
    BY <2>1
  <2>3. Cardinality({x}) = 1
    BY FS_Singleton
  <2> QED
    BY <2>2, <2>3
<1> QED
  BY <1>1, <1>2

(* The pushes that decide about a ring, and those that grow the chain, all *)
(* hold the index that comes right after the window. *)
LEMMA InvOneCloser == Inv => OneCloser
<1> SUFFICES ASSUME Inv, NEW q \in Micros
             PROVE  /\ Cardinality(PushesAt(q, {"pushScan", "pushAdvance", "pushNoWrite",
                                "pushAwait", "pushNext", "pushGrow",
                                "pushStore", "pushLink"})) <= 1
                    /\ Cardinality(PushesAt(q, {"pushNext", "pushGrow", "pushStore",
                                "pushLink", "pushCount"})) <= 1
  BY DEF OneCloser
<1>1. ASSUME NEW p \in Pushers, Micro(p) = q, pc[p] # "pushDone"
      PROVE  /\ pc[p] \in {"pushScan", "pushAdvance", "pushNoWrite", "pushAwait",
                           "pushNext", "pushGrow", "pushStore", "pushLink"} =>
                  K(p) = Fin(q, W(q))
             /\ pc[p] \in {"pushNext", "pushGrow", "pushStore", "pushLink"} =>
                  WC(q) = W(q) - 1
             /\ pc[p] = "pushCount" => K(p) = Res(q, W(q)) /\ WC(q) = W(q) - 2
  <2>1. PICK a, l, x, i, k : Pushing(p, a, l, x, i, k)
    BY <1>1, PushIs
  <2>2. /\ CloserOK(a, l, q, i, k) /\ GrowerOK(a, l, q, k) /\ a = pc[p] /\ k = K(p)
    BY <1>1, <2>1 DEF Pushing
  <2> QED
    BY <2>2 DEF CloserOK, GrowerOK
<1>2. \A p, r \in Pushers : pc[p] # "pushDone" /\ pc[r] # "pushDone"
        /\ Micro(p) = q /\ Micro(r) = q /\ K(p) = K(r) => p = r
  BY DEF Inv, UniqueOK
<1>3. WC(q) \in Nat /\ W(q) \in Nat
  BY QueueTypes DEF Inv
<1>4. WC(q) = W(q) - 1 => WC(q) # W(q) - 2
  BY <1>3
<1>5. \A p, r \in PushesAt(q, {"pushScan", "pushAdvance", "pushNoWrite",
                               "pushAwait", "pushNext", "pushGrow",
                               "pushStore", "pushLink"}) : p = r
  BY <1>1, <1>2 DEF PushesAt
<1>6. \A p, r \in PushesAt(q, {"pushNext", "pushGrow", "pushStore",
                               "pushLink", "pushCount"}) : p = r
  <2> SUFFICES ASSUME NEW p \in Pushers, NEW r \in Pushers, Micro(p) = q, Micro(r) = q,
                      pc[p] \in {"pushNext", "pushGrow", "pushStore", "pushLink", "pushCount"},
                      pc[r] \in {"pushNext", "pushGrow", "pushStore", "pushLink", "pushCount"}
               PROVE  p = r
    BY DEF PushesAt
  <2>1. K(p) = K(r)
    BY <1>1, <1>4
  <2> QED
    BY <1>2, <2>1
<1> QED
  BY <1>5, <1>6, AtMostOne

(* A ring starts where the one before ends.                               *)
LEMMA InvChained == Roomy /\ Inv => Chained
<1> SUFFICES ASSUME Roomy, Inv, NEW q \in Micros, NEW i \in 1 .. Len(heap[q]) - 1
             PROVE  heap[q][i + 1].m_nResBeginIndex = WindowEnd(heap[q][i])
  BY DEF Chained
<1> SUFFICES ASSUME NEW j, j = i + 1
             PROVE  heap[q][j].m_nResBeginIndex = WindowEnd(heap[q][i])
  OBVIOUS
<1>1. Shape /\ QueueOK(q)
  BY DEF Inv
<1>2. i \in Rings(q) /\ j \in Rings(q)
  <2>1. Rings(q) = 1 .. Len(heap[q]) /\ Len(heap[q]) \in Nat
    BY <1>1, QueueTypes
  <2> QED
    BY <2>1
<1>3. RingOK(q, i) /\ RingOK(q, j) /\ Res(q, j) = Fin(q, i)
  BY <1>1, <1>2 DEF QueueOK, ChainOK
<1>4. Spans(heap[q][i], q, Res(q, i), Beg(q, i), Size(q, i))
  BY <1>1, <1>2, <1>3, RingSpans
<1>5. WindowEnd(heap[q][i]) = Word(At(q, Fin(q, i)))
  BY <1>4, SpanFacts DEF Fin
<1> QED
  BY <1>3, <1>5 DEF RingOK

(* The push that grew the chain has the first place of the new ring.      *)
LEMMA InvGrowerStores == Roomy /\ Inv => GrowerStores
<1> SUFFICES ASSUME Roomy, Inv, NEW p \in Pushers, pc[p] = "pushBegin", loc[p].nested
             PROVE  Distance(p) < CheckTotalSize(This(p))
  BY DEF GrowerStores
<1>1. PICK a, l, q, i, k : Pushing(p, a, l, q, i, k)
  BY PushIs
<1>2. /\ Shape /\ QueueOK(q) /\ q \in Micros /\ i \in Rings(q) /\ k \in Places
      /\ loc[p].this = i /\ Index(p) = At(q, k) /\ Micro(p) = q /\ p \in Threads
      /\ ~ Pushed(q, k) /\ k = Res(q, i)
  BY <1>1 DEF Pushing, EntryOK, Index
<1>3. /\ RingOK(q, i) /\ Res(q, i) \in Nat /\ Size(q, i) \in Nat \ {0}
      /\ Fin(q, i) = Beg(q, i) + Size(q, i)
  BY <1>2, QueueIs
<1>4. Beg(q, i) = Res(q, i)
  BY <1>2, FirstOpen
<1>5. Beg(q, i) <= k /\ k < Fin(q, i)
  BY <1>2, <1>3, <1>4
<1> QED
  BY <1>2, <1>3, <1>5, Window

(* Line 94 never slides a window over a payload nobody has read: the      *)
(* signs tell it.                                                         *)
THEOREM MicroSlidOverRead == Roomy => (Spec => []SlidOverRead)
<1>1. ASSUME Roomy PROVE Spec => []SlidOverRead
  <2>1. Spec => []Inv
    BY <1>1, MicroInvariant
  <2>2. Inv => SlidOverRead
    BY <1>1, InvSlid
  <2> QED
    BY <2>1, <2>2, PTL
<1> QED
  BY <1>1

(* At most one push of a micro queue decides about the last ring, and at  *)
(* most one is between lines 196 and 201: the equality test of line 66    *)
(* is a lock.                                                             *)
THEOREM MicroOneCloser == Roomy => (Spec => []OneCloser)
<1>1. ASSUME Roomy PROVE Spec => []OneCloser
  <2>1. Spec => []Inv
    BY <1>1, MicroInvariant
  <2> QED
    BY <2>1, InvOneCloser, PTL
<1> QED
  BY <1>1

(* The rings of a micro queue tile its indices: none belongs to two       *)
(* rings and none to no ring (lines 44 and 197).                          *)
THEOREM MicroChained == Roomy => (Spec => []Chained)
<1>1. ASSUME Roomy PROVE Spec => []Chained
  <2>1. Spec => []Inv
    BY <1>1, MicroInvariant
  <2>2. Inv => Chained
    BY <1>1, InvChained
  <2> QED
    BY <2>1, <2>2, PTL
<1> QED
  BY <1>1

(* The push that grew the chain stores in the new ring: the result that   *)
(* line 202 ignores is never 1 or 2.                                      *)
THEOREM MicroGrowerStores == Roomy => (Spec => []GrowerStores)
<1>1. ASSUME Roomy PROVE Spec => []GrowerStores
  <2>1. Spec => []Inv
    BY <1>1, MicroInvariant
  <2>2. Inv => GrowerStores
    BY <1>1, InvGrowerStores
  <2> QED
    BY <2>1, <2>2, PTL
<1> QED
  BY <1>1

---------------------------------------------------------------------------

(***************************************************************************)
(* The slots of the chain.                                                 *)
(***************************************************************************)

(* What a step leaves of a ring. *)
Stays(q, i) ==
  /\ i \in Rings(q)'
  /\ Res(q, i)' = Res(q, i) /\ Size(q, i)' = Size(q, i)
  /\ heap[q][i].m_nResBeginIndex' = heap[q][i].m_nResBeginIndex
  /\ Closed(q, i) =>
       /\ Closed(q, i)' /\ Fin(q, i)' = Fin(q, i)
       /\ heap[q][i].m_nBeginIndex' = heap[q][i].m_nBeginIndex

(* A step that leaves the rings alone, apart from what happens to one. *)
LEMMA FieldStays ==
  ASSUME Shape, NEW q \in Micros, NEW i \in Rings(q), NEW f,
         heap' = [heap EXCEPT ![q] = [heap[q] EXCEPT ![i] = f]],
         f.m_nResBeginIndex = heap[q][i].m_nResBeginIndex,
         f.m_nTotalSize = heap[q][i].m_nTotalSize,
         Closed(q, i) => /\ f.m_bNoWrite
                         /\ f.m_nBeginIndex = heap[q][i].m_nBeginIndex,
         NEW x \in Micros
  PROVE  Rings(x)' = Rings(x) /\ \A j \in Rings(x) : Stays(x, j)
<1>1. /\ \A y \in Micros : y # q => heap'[y] = heap[y]
      /\ Rings(q)' = Rings(q) /\ Len(heap[q])' = Len(heap[q])
      /\ heap'[q][i] = f
      /\ \A j \in Rings(q) : j # i =>
              /\ heap'[q][j] = heap[q][j]
              /\ Res(q, j)' = Res(q, j) /\ Beg(q, j)' = Beg(q, j)
              /\ Size(q, j)' = Size(q, j) /\ Half(q, j)' = Half(q, j)
              /\ Fin(q, j)' = Fin(q, j) /\ Closed(q, j)' = Closed(q, j)
              /\ Freed(q, j)' = Freed(q, j)
  <2>1. heap' = [heap EXCEPT ![q] = [heap[q] EXCEPT ![i] = f]]
    OBVIOUS
  <2>2. Shape /\ q \in Micros /\ i \in Rings(q)
    OBVIOUS
  <2>3. OnlyRing(q, i, f)
    BY <2>1, <2>2, RingChange
  <2> QED
    BY <2>3 DEF OnlyRing
<1>2. CASE x # q
  <2>1. heap'[x] = heap[x]
    BY <1>1, <1>2
  <2> QED
    BY <2>1 DEF Stays, Rings, Res, Size, Closed, Fin, Beg
<1>3. CASE x = q
  <2>1. ASSUME NEW j \in Rings(q), j # i PROVE Stays(q, j)
    <3>1. heap'[q][j] = heap[q][j] /\ j \in Rings(q)'
      BY <1>1, <2>1
    <3> QED
      BY <3>1 DEF Stays, Res, Size, Closed, Fin, Beg
  <2>2. Stays(q, i)
    BY <1>1 DEF Stays, Res, Size, Closed, Fin, Beg
  <2> QED
    BY <1>1, <1>3, <2>1, <2>2
<1> QED
  BY <1>2, <1>3

(* What any step leaves of the rings: their places, and closed rings      *)
(* altogether; only line 197 adds one.                                    *)
LEMMA RingsStay ==
  ASSUME Inv, Shape', [Next]_vars, NEW x \in Micros
  PROVE  /\ \A j \in Rings(x) : Stays(x, j)
         /\ Rings(x)' = Rings(x)
            \/ \E p \in Pushers : /\ pc[p] = "pushGrow" /\ Micro(p) = x
                                  /\ Rings(x)' = 1 .. Len(heap[x]) + 1
<1> DEFINE G == /\ \A j \in Rings(x) : Stays(x, j)
                /\ Rings(x)' = Rings(x)
                   \/ \E p \in Pushers : /\ pc[p] = "pushGrow" /\ Micro(p) = x
                                         /\ Rings(x)' = 1 .. Len(heap[x]) + 1
<1>0. Shape
  BY DEF Inv
<1>1. CASE heap' = heap
  BY <1>1 DEF Stays, Rings, Res, Size, Closed, Fin, Beg
<1>2. ASSUME NEW p \in Pushers, PushAdvance(p) PROVE G
  <2>0. pc[p] = "pushAdvance"
    BY <1>2 DEF PushAdvance
  <2>1. PICK a, l, q, i, k : Pushing(p, a, l, q, i, k)
    BY <2>0, PushIs
  <2>2. /\ q \in Micros /\ i \in Rings(q) /\ Micro(p) = q /\ loc[p].this = i
        /\ ~ Closed(q, i)
    BY <2>0, <2>1 DEF Pushing, CloserOK
  <2>3. PICK v : heap' = [heap EXCEPT ![q][i].m_nBeginIndex = v]
    BY <1>2, <2>2 DEF PushAdvance
  <2> DEFINE f == [heap[q][i] EXCEPT !.m_nBeginIndex = v]
  <2>4. heap' = [heap EXCEPT ![q] = [heap[q] EXCEPT ![i] = f]]
    BY <1>0, <2>2, <2>3 DEF Shape, TypeOK
  <2>5. /\ f.m_nResBeginIndex = heap[q][i].m_nResBeginIndex
        /\ f.m_nTotalSize = heap[q][i].m_nTotalSize
    BY <1>0, <2>2, RingTypes DEF Ring
  <2> HIDE DEF f
  <2> QED
    BY <1>0, <2>2, <2>4, <2>5, FieldStays
<1>3. ASSUME NEW p \in Pushers, PushNoWrite(p) PROVE G
  <2>0. pc[p] = "pushNoWrite"
    BY <1>3 DEF PushNoWrite
  <2>1. PICK a, l, q, i, k : Pushing(p, a, l, q, i, k)
    BY <2>0, PushIs
  <2>2. /\ q \in Micros /\ i \in Rings(q) /\ Micro(p) = q /\ loc[p].this = i
    BY <2>0, <2>1 DEF Pushing
  <2>3. heap' = [heap EXCEPT ![q][i].m_bNoWrite = TRUE]
    BY <1>3, <2>2 DEF PushNoWrite
  <2> DEFINE f == [heap[q][i] EXCEPT !.m_bNoWrite = TRUE]
  <2>4. heap' = [heap EXCEPT ![q] = [heap[q] EXCEPT ![i] = f]]
    BY <1>0, <2>2, <2>3 DEF Shape, TypeOK
  <2>5. /\ f.m_nResBeginIndex = heap[q][i].m_nResBeginIndex
        /\ f.m_nTotalSize = heap[q][i].m_nTotalSize
        /\ f.m_nBeginIndex = heap[q][i].m_nBeginIndex /\ f.m_bNoWrite
    BY <1>0, <2>2, RingTypes DEF Ring
  <2> HIDE DEF f
  <2> QED
    BY <1>0, <2>2, <2>4, <2>5, FieldStays
<1>4. ASSUME NEW c \in Poppers, PopRelease(c) PROVE G
  <2>0. pc[c] = "popRelease"
    BY <1>4 DEF PopRelease
  <2>1. PICK a, l, q, i, k : Popping(c, a, l, q, i, k)
    BY <2>0, PopIs
  <2>2. /\ q \in Micros /\ i \in Rings(q) /\ Micro(c) = q /\ loc[c].this = i
    BY <2>0, <2>1 DEF Popping
  <2>3. heap' = [heap EXCEPT ![q][i].m_bReleased = TRUE]
    BY <1>4, <2>2 DEF PopRelease
  <2> DEFINE f == [heap[q][i] EXCEPT !.m_bReleased = TRUE]
  <2>4. heap' = [heap EXCEPT ![q] = [heap[q] EXCEPT ![i] = f]]
    BY <1>0, <2>2, <2>3 DEF Shape, TypeOK
  <2>5. /\ f.m_nResBeginIndex = heap[q][i].m_nResBeginIndex
        /\ f.m_nTotalSize = heap[q][i].m_nTotalSize
        /\ f.m_nBeginIndex = heap[q][i].m_nBeginIndex
        /\ f.m_bNoWrite = heap[q][i].m_bNoWrite
    BY <1>0, <2>2, RingTypes DEF Ring
  <2> HIDE DEF f
  <2> QED
    BY <1>0, <2>2, <2>4, <2>5, FieldStays DEF Closed
<1>5. ASSUME NEW p \in Pushers, PushGrow(p) PROVE G
  <2>0. pc[p] = "pushGrow" /\ p \in Threads
    BY <1>5, InvTypes DEF PushGrow
  <2>1. Micro(p) \in Micros
    BY <2>0, InvTypes
  <2> SUFFICES ASSUME NEW q, q = Micro(p) PROVE G
    OBVIOUS
  <2>2. PICK ring : heap' = [heap EXCEPT ![q] = Append(heap[q], ring)]
    BY <1>5 DEF PushGrow
  <2>3. heap \in [Micros -> Seq(Ring)] /\ q \in Micros /\ heap' \in [Micros -> Seq(Ring)]
    BY <1>0, <2>1 DEF Shape, TypeOK
  <2>4. heap'[q] = Append(heap[q], ring) /\ \A y \in Micros : y # q => heap'[y] = heap[y]
    BY <2>2, <2>3
  <2>5. CASE x # q
    <3>1. heap'[x] = heap[x]
      BY <2>4, <2>5
    <3> QED
      BY <3>1 DEF Stays, Rings, Res, Size, Closed, Fin, Beg
  <2>6. CASE x = q
    <3>1. heap[q] \in Seq(Ring) /\ heap'[q] \in Seq(Ring) /\ Len(heap[q]) \in Nat
      BY <2>3
    <3>2. /\ Len(heap'[q]) = Len(heap[q]) + 1
          /\ \A j \in 1 .. Len(heap[q]) : heap'[q][j] = heap[q][j]
      BY <2>4, <3>1
    <3>3. Rings(q)' = 1 .. Len(heap[q]) + 1 /\ Rings(q) = 1 .. Len(heap[q])
      BY <3>2 DEF Rings
    <3>4. ASSUME NEW j \in Rings(q) PROVE Stays(q, j)
      <4>1. j \in Rings(q)' /\ heap'[q][j] = heap[q][j]
        BY <3>1, <3>2, <3>3
      <4> QED
        BY <4>1 DEF Stays, Res, Size, Closed, Fin, Beg
    <3> QED
      BY <2>0, <2>6, <3>3, <3>4
  <2> QED
    BY <2>5, <2>6
<1>6. CASE UNCHANGED vars
  BY <1>1, <1>6 DEF vars
<1>7. ASSUME NEW p \in Pushers, DrawPush(p) \/ PushStep(p) PROVE G
  <2>1. heap' = heap \/ PushAdvance(p) \/ PushNoWrite(p) \/ PushGrow(p)
    BY <1>7 DEF DrawPush, EnterPush, PushStep, PushLoadOwn, PushLoadThis, PushLoadBegin,
       PushScan, PushAwait, PushNext, PushStore, PushLink, PushCount, PushData, PushSign
  <2> QED
    BY <1>1, <1>2, <1>3, <1>5, <2>1
<1>8. ASSUME NEW c \in Poppers, DrawPop(c) \/ PopStep(c) PROVE G
  <2>1. heap' = heap \/ PopRelease(c)
    BY <1>8 DEF DrawPop, EnterPop, PopStep, PopLoadOwn, PopLoadBegin, PopAsk, PopAwait,
       PopNext, PopBump, PopTurn, PopSpin, PopData, PopClear
  <2> QED
    BY <1>1, <1>4, <2>1
<1> QED
  BY <1>6, <1>7, <1>8 DEF Next

(* The sizes of the rings of a chain that fills every slot. *)
Doubling(f) ==
  /\ f \in [1 .. CirclePointNumber + 1 -> Nat]
  /\ f[1] = 2 * Block
  /\ \A i \in 1 .. CirclePointNumber : f[i + 1] = 2 * f[i]

(* A chain that fills every slot has room for all indices without ever     *)
(* sliding a window. *)
SlotsSuffice ==
  \E f : Doubling(f) /\ MaxPush <= Mode * (f[CirclePointNumber + 1] - f[1])

(* Ring i of a chain has the i-th size and starts no earlier than its     *)
(* predecessors' sizes allow.                                             *)
Tiled(f) ==
  \A q \in Micros : \A i \in Rings(q) :
    Size(q, i) = f[i] /\ Res(q, i) + f[1] >= f[i]

(* The first ring does,                                                   *)
LEMMA TiledInit ==
  ASSUME Roomy, Inv, Init, NEW f, Doubling(f)
  PROVE  Tiled(f)
<1> SUFFICES ASSUME NEW q \in Micros, NEW i \in Rings(q)
             PROVE  Size(q, i) = f[i] /\ Res(q, i) + f[1] >= f[i]
  BY DEF Tiled
<1>1. QueueOK(q)
  BY DEF Inv
<1>2. Len(heap[q]) = 1
  BY DEF Init
<1>3. i = 1
  BY <1>2 DEF Rings
<1>4. Res(q, 1) = 0 /\ Size(q, 1) = 2 * Block /\ Block \in Nat
  BY <1>1, Sizes DEF QueueOK, ChainOK
<1> QED
  BY <1>3, <1>4 DEF Doubling

(* a new one does,                                                        *)
LEMMA TiledNext ==
  ASSUME Inv, Inv', [Next]_vars, NEW f, Doubling(f), Tiled(f)
  PROVE  Tiled(f)'
<1> SUFFICES ASSUME NEW q \in Micros, NEW i \in Rings(q)'
             PROVE  Size(q, i)' = f[i] /\ Res(q, i)' + f[1] >= f[i]
  BY DEF Tiled
<1>0. Shape /\ Shape' /\ QueueOK(q) /\ QueueOK(q)'
  BY DEF Inv
<1>1. /\ \A j \in Rings(q) : Stays(q, j)
      /\ \/ Rings(q)' = Rings(q)
         \/ /\ Rings(q)' = 1 .. Len(heap[q]) + 1
            /\ \E p \in Pushers : pc[p] = "pushGrow" /\ Micro(p) = q
  BY <1>0, RingsStay
<1>2. CASE i \in Rings(q)
  BY <1>1, <1>2 DEF Tiled, Stays
<1>3. CASE i \notin Rings(q)
  <2>1. Rings(q) = 1 .. Len(heap[q]) /\ Len(heap[q]) \in Nat /\ Len(heap[q]) > 0
    BY <1>0, QueueTypes
  <2>2. i = Len(heap[q]) + 1
    BY <1>1, <1>3, <2>1
  <2> SUFFICES ASSUME NEW j, j = Len(heap[q])
               PROVE  Size(q, i)' = f[i] /\ Res(q, i)' + f[1] >= f[i]
    OBVIOUS
  <2>3. /\ j \in Rings(q) /\ j \in Rings(q)' /\ i = j + 1 /\ j \in Nat /\ j > 0
    BY <1>1, <1>3, <2>1, <2>2
  <2>4. /\ Size(q, j)' = f[j] /\ Res(q, j)' + f[1] >= f[j]
    BY <1>1, <2>3 DEF Tiled, Stays
  <2>5. Res(q, i)' = Fin(q, j)' /\ Size(q, i)' = 2 * Size(q, j)'
    BY <1>0, <2>3 DEF QueueOK, ChainOK
  <2>6. /\ Res(q, j)' \in Nat /\ Size(q, j)' \in Nat
        /\ Fin(q, j)' >= Res(q, j)' + Size(q, j)' /\ Fin(q, j)' \in Nat
        /\ j <= CirclePointNumber
    <3>1. PICK p \in Pushers : pc[p] = "pushGrow" /\ Micro(p) = q
      BY <1>0, <1>1, <1>3
    <3>2. PICK a, l, y, x, k : Pushing(p, a, l, y, x, k)
      BY <3>1, PushIs
    <3>3. j = W(q) /\ Closed(q, j)
      BY <3>1, <3>2 DEF Pushing, CloserOK, GrowerOK
    <3>4. Fin(q, j)' = Fin(q, j) /\ Res(q, j)' = Res(q, j) /\ Size(q, j)' = Size(q, j)
      BY <1>1, <2>3, <3>3 DEF Stays
    <3>5. /\ Res(q, j) \in Nat /\ Beg(q, j) \in Nat /\ Size(q, j) \in Nat
          /\ Res(q, j) <= Beg(q, j) /\ Fin(q, j) = Beg(q, j) + Size(q, j)
      BY <1>0, <2>3, QueueIs
    <3>6. j <= CirclePointNumber
      BY <1>0, <3>3 DEF QueueOK, PointersOK
    <3> QED
      BY <3>4, <3>5, <3>6
  <2>8. /\ f[i] = 2 * f[j] /\ f[j] \in Nat /\ f[1] \in Nat
    <3>1. j \in 1 .. CirclePointNumber /\ 1 \in 1 .. CirclePointNumber + 1
          /\ j \in 1 .. CirclePointNumber + 1
      BY <2>3, <2>6, SlotsAssumption
    <3> QED
      BY <2>3, <3>1 DEF Doubling
  <2> QED
    BY <2>4, <2>5, <2>6, <2>8
<1> QED
  BY <1>2, <1>3

(* and then no slot past the array is needed.                             *)
LEMMA TiledSlots ==
  ASSUME Roomy, Inv, NEW f, Doubling(f),
         MaxPush <= Mode * (f[CirclePointNumber + 1] - f[1]), Tiled(f)
  PROVE  SlotsSound
<1>1. ASSUME NEW p \in Pushers, pc[p] = "pushStore" PROVE loc[p].next \in Slots
  <2>1. PICK a, l, q, i, k : Pushing(p, a, l, q, i, k)
    BY <1>1, PushIs
  <2> SUFFICES ASSUME NEW w, w = W(q), NEW n, n = CirclePointNumber + 1
               PROVE  loc[p].next \in Slots
    OBVIOUS
  <2>2. /\ l = loc[p] /\ q \in Micros /\ k \in Nat /\ At(q, k) < m_nPreWriteIndex
        /\ l.next = w /\ k = Fin(q, w) /\ Len(heap[q]) = w + 1
        /\ Shape /\ QueueOK(q) /\ CountersOK
    BY <1>1, <2>1 DEF Pushing, GrowerOK, Inv
  <2>3. /\ w \in Nat /\ w > 0 /\ w <= CirclePointNumber /\ CirclePointNumber \in Nat
    BY <2>2, QueueIs, SlotsAssumption DEF QueueOK, PointersOK
  <2>4. ASSUME w = CirclePointNumber PROVE FALSE
    <3>1. n \in Rings(q) /\ n = w + 1 /\ w \in Rings(q)
      <4>1. Rings(q) = 1 .. w + 1
        BY <2>2, QueueTypes
      <4>2. n = w + 1 /\ n \in 1 .. w + 1 /\ w \in 1 .. w + 1
        BY <2>3, <2>4
      <4> QED
        BY <4>1, <4>2
    <3>2. Res(q, n) = k
      BY <2>2, <3>1 DEF QueueOK, ChainOK
    <3>3. k + f[1] >= f[n]
      BY <2>2, <3>1, <3>2 DEF Tiled
    <3>4. f[n] \in Nat /\ f[1] \in Nat
      <4>1. n \in 1 .. CirclePointNumber + 1 /\ 1 \in 1 .. CirclePointNumber + 1
        BY <2>3
      <4> QED
        BY <4>1 DEF Doubling
    <3> DEFINE d == f[n] - f[1]
    <3>5. d \in Int /\ d <= k
      BY <2>2, <3>3, <3>4
    <3>6. MaxPush <= Mode * d
      OBVIOUS
    <3> HIDE DEF d
    <3>7. Mode * d <= Mode * k /\ Mode * d \in Int /\ Mode * k \in Int
      BY <2>2, <3>5, Sizes, Times
    <3>8. At(q, k) < Start + MaxPush
      BY <2>2, InvTypes, PlaceIndex, Sizes, MaxPushAssumption DEF CountersOK
    <3>9. At(q, k) = Start + q + Mode * k /\ q \in Nat
      BY <2>2 DEF At, Micros
    <3> QED
      BY <3>6, <3>7, <3>8, <3>9, Sizes, MaxPushAssumption
  <2>5. w \in 0 .. CirclePointNumber - 1
    BY <2>3, <2>4
  <2> QED
    BY <2>2, <2>5 DEF Slots
<1>2. ASSUME NEW c \in Poppers, pc[c] = "popTurn"
      PROVE  /\ loc[c].next \in Slots
             /\ m_queue[Micro(c)].m_pCircle[loc[c].next] # 0
  <2>1. PICK a, l, q, i, k : Popping(c, a, l, q, i, k)
    BY <1>2, PopIs
  <2> SUFFICES ASSUME NEW w, w = R(q)
               PROVE  /\ loc[c].next \in Slots
                      /\ m_queue[Micro(c)].m_pCircle[loc[c].next] # 0
    OBVIOUS
  <2>2. /\ l = loc[c] /\ q = Micro(c) /\ q \in Micros /\ l.next = w /\ w <= WC(q)
        /\ Shape /\ QueueOK(q)
    BY <1>2, <2>1 DEF Popping, TurnerOK
  <2>3. /\ w \in Nat /\ WC(q) \in Nat /\ W(q) \in Nat /\ CirclePointNumber \in Nat
    BY <2>2, QueueIs, SlotsAssumption
  <2>4. /\ W(q) <= CirclePointNumber /\ (WC(q) = W(q) - 1 \/ WC(q) = W(q) - 2)
        /\ \A s \in Slots : s < W(q) => Slot(q, s) = s + 1
    BY <2>2 DEF QueueOK, PointersOK
  <2>5. w < W(q) /\ W(q) <= CirclePointNumber
    BY <2>2, <2>3, <2>4 DEF QueueOK, PointersOK
  <2>6. w \in Slots
    BY <2>3, <2>5 DEF Slots
  <2>7. Slot(q, w) = w + 1
    BY <2>2, <2>5, <2>6 DEF QueueOK, PointersOK
  <2> QED
    BY <2>2, <2>3, <2>6, <2>7 DEF Slot
<1> QED
  BY <1>1, <1>2 DEF SlotsSound

(* Lines 198 and 229 stay inside m_pCircle, which nothing checks, as      *)
(* long as no more indices are drawn than a chain that fills every slot   *)
(* holds; a pop follows a slot only after a push has filled it.           *)
THEOREM MicroSlotsSound == Roomy /\ SlotsSuffice => (Spec => []SlotsSound)
<1> SUFFICES ASSUME Roomy, SlotsSuffice PROVE Spec => []SlotsSound
  OBVIOUS
<1>0. PICK f : Doubling(f) /\ MaxPush <= Mode * (f[CirclePointNumber + 1] - f[1])
  BY DEF SlotsSuffice
<1>1. Init => Inv /\ Tiled(f)
  BY <1>0, InvInit, TiledInit
<1>2. Inv /\ Tiled(f) /\ [Next]_vars => (Inv /\ Tiled(f))'
  BY <1>0, InvNext, TiledNext
<1>3. Inv /\ Tiled(f) => SlotsSound
  BY <1>0, TiledSlots
<1> QED
  BY <1>1, <1>2, <1>3, PTL DEF Spec

---------------------------------------------------------------------------

(***************************************************************************)
(* What is pushed or read stays so.                                        *)
(***************************************************************************)

(* What a step of thread t does to the indices held. *)
Holds(t) ==
  /\ \A u \in Threads : u # t => pc'[u] = pc[u] /\ loc'[u] = loc[u]
  /\ pc[t] \notin {"pushDone", "popDone"}
  /\ pc'[t] \notin {"pushDone", "popDone"} => loc'[t].index = loc[t].index
  /\ UNCHANGED indexVars

(* A step of a push that is at work draws nothing and leaves the other    *)
(* threads alone,                                                         *)
LEMMA PushHolds ==
  ASSUME Inv, NEW p \in Pushers, PushStep(p)
  PROVE  Holds(p)
<1>0. /\ pc \in [Threads -> PushLabels \cup PopLabels] /\ loc \in [Threads -> Locals]
      /\ p \in Threads
  BY InvTypes DEF Inv, Shape, TypeOK
<1>1. CASE PushLoadOwn(p)
  BY <1>0, <1>1 DEF PushLoadOwn, Goto, Holds, Locals
<1>2. CASE PushLoadThis(p)
  BY <1>0, <1>2 DEF PushLoadThis, Goto, Holds, Locals
<1>3. CASE PushLoadBegin(p)
  BY <1>0, <1>3 DEF PushLoadBegin, Goto, Holds, Locals
<1>4. CASE PushScan(p)
  BY <1>0, <1>4 DEF PushScan, Goto, Holds, Locals
<1>5. CASE PushAdvance(p)
  BY <1>0, <1>5 DEF PushAdvance, Goto, Holds, Locals
<1>6. CASE PushNoWrite(p)
  BY <1>0, <1>6 DEF PushNoWrite, Goto, Holds, Locals
<1>7. CASE PushAwait(p)
  BY <1>0, <1>7 DEF PushAwait, Goto, Holds, Locals
<1>8. CASE PushNext(p)
  BY <1>0, <1>8 DEF PushNext, Goto, Holds, Locals
<1>9. CASE PushGrow(p)
  BY <1>0, <1>9 DEF PushGrow, Goto, Holds, Locals
<1>10. CASE PushStore(p)
  BY <1>0, <1>10 DEF PushStore, Goto, Holds, Locals
<1>11. CASE PushLink(p)
  BY <1>0, <1>11 DEF PushLink, Goto, Holds, Locals
<1>12. CASE PushCount(p)
  BY <1>0, <1>12 DEF PushCount, Goto, Holds, Locals
<1>13. CASE PushData(p)
  BY <1>0, <1>13 DEF PushData, Goto, Holds, Locals
<1>14. CASE PushSign(p)
  BY <1>0, <1>14 DEF PushSign, Goto, Return, Holds, Locals
<1> QED
  BY <1>1, <1>2, <1>3, <1>4, <1>5, <1>6, <1>7, <1>8, <1>9, <1>10, <1>11, <1>12, <1>13, <1>14 DEF PushStep

(* and so does one of a pop.                                              *)
LEMMA PopHolds ==
  ASSUME Inv, NEW c \in Poppers, PopStep(c)
  PROVE  Holds(c)
<1>0. /\ pc \in [Threads -> PushLabels \cup PopLabels] /\ loc \in [Threads -> Locals]
      /\ c \in Threads
  BY InvTypes DEF Inv, Shape, TypeOK
<1>1. CASE PopLoadOwn(c)
  BY <1>0, <1>1 DEF PopLoadOwn, Goto, Holds, Locals
<1>2. CASE PopLoadBegin(c)
  BY <1>0, <1>2 DEF PopLoadBegin, Goto, Holds, Locals
<1>3. CASE PopAsk(c)
  BY <1>0, <1>3 DEF PopAsk, Goto, Holds, Locals
<1>4. CASE PopAwait(c)
  BY <1>0, <1>4 DEF PopAwait, Goto, Holds, Locals
<1>5. CASE PopNext(c)
  BY <1>0, <1>5 DEF PopNext, Goto, Holds, Locals
<1>6. CASE PopBump(c)
  BY <1>0, <1>6 DEF PopBump, Goto, Holds, Locals
<1>7. CASE PopTurn(c)
  BY <1>0, <1>7 DEF PopTurn, Goto, Holds, Locals
<1>8. CASE PopRelease(c)
  BY <1>0, <1>8 DEF PopRelease, Goto, Holds, Locals
<1>9. CASE PopSpin(c)
  BY <1>0, <1>9 DEF PopSpin, Goto, Holds, Locals
<1>10. CASE PopData(c)
  BY <1>0, <1>10 DEF PopData, Goto, Holds, Locals
<1>11. CASE PopClear(c)
  BY <1>0, <1>11 DEF PopClear, Goto, Return, Holds, Locals
<1> QED
  BY <1>1, <1>2, <1>3, <1>4, <1>5, <1>6, <1>7, <1>8, <1>9, <1>10, <1>11 DEF PopStep

(* A place that is pushed stays pushed, one that is read stays read. *)
LEMMA HoldsMonotone ==
  ASSUME Inv, Shape', NEW t \in Threads, Holds(t), NEW q \in Micros, NEW k \in Nat
  PROVE  /\ Done(q, k) => Done(q, k)'
         /\ Pushed(q, k) => Pushed(q, k)'
<1>1. /\ m_nPreWriteIndex' = m_nPreWriteIndex /\ m_nReadIndex' = m_nReadIndex
      /\ At(q, k)' = At(q, k)
  BY DEF Holds, indexVars, At
<1>2. ASSUME NEW c \in Poppers, PopAt(c, q, k)' PROVE PopAt(c, q, k)
  <2>1. c \in Threads /\ pc'[c] # "popDone"
    BY <1>2, InvTypes DEF PopAt
  <2>2. pc[c] # "popDone" /\ loc'[c].index = loc[c].index
    <3>1. pc'[c] \notin {"pushDone", "popDone"}
      BY <2>1 DEF Shape, TypeOK, PopLabels
    <3> QED
      BY <2>1, <3>1 DEF Holds
  <2>3. Micro(c)' = Micro(c) /\ K(c)' = K(c)
    BY <2>2 DEF Micro, Index, K
  <2> QED
    BY <1>2, <2>2, <2>3 DEF PopAt
<1>3. ASSUME NEW p \in Pushers, PushAt(p, q, k)' PROVE PushAt(p, q, k)
  <2>1. p \in Threads /\ pc'[p] # "pushDone"
    BY <1>3, InvTypes DEF PushAt
  <2>2. pc[p] # "pushDone" /\ loc'[p].index = loc[p].index
    <3>1. pc'[p] \notin {"pushDone", "popDone"}
      BY <2>1 DEF Shape, TypeOK, PushLabels
    <3> QED
      BY <2>1, <3>1 DEF Holds
  <2>3. Micro(p)' = Micro(p) /\ K(p)' = K(p)
    BY <2>2 DEF Micro, Index, K
  <2> QED
    BY <1>3, <2>2, <2>3 DEF PushAt
<1> QED
  BY <1>1, <1>2, <1>3 DEF Done, Pushed

(* A draw takes an index that no place below the counters has. *)
LEMMA DrawMonotone ==
  ASSUME Inv, NEW t \in Threads, NEW n,
         loc' = [loc EXCEPT ![t] = [NoCall EXCEPT !.index = n]],
         \A u \in Threads : u # t => pc'[u] = pc[u],
         m_nPreWriteIndex' >= m_nPreWriteIndex, m_nPreWriteIndex' \in Nat,
         m_nReadIndex' >= m_nReadIndex, m_nReadIndex' \in Nat,
         n \in Nat, Start <= n, t \in Pushers => n = m_nPreWriteIndex,
         t \in Poppers => n = m_nReadIndex,
         NEW q \in Micros, NEW k \in Nat
  PROVE  /\ Done(q, k) => Done(q, k)'
         /\ Pushed(q, k) => Pushed(q, k)'
<1>1. /\ \A u \in Threads : u # t => loc'[u] = loc[u]
      /\ loc'[t].index = n
  BY DEF NoCall, Inv, Shape, TypeOK
<1>2. /\ At(q, k)' = At(q, k) /\ At(q, k) \in Nat
      /\ m_nPreWriteIndex \in Nat /\ m_nReadIndex \in Nat
  BY InvTypes, PlaceIndex DEF At
<1>3. ASSUME NEW u \in Threads, u # t
      PROVE  pc'[u] = pc[u] /\ Micro(u)' = Micro(u) /\ K(u)' = K(u)
  BY <1>1, <1>3 DEF Micro, Index, K
<1>4. Micro(t)' = q /\ K(t)' = k => n = At(q, k)
  <2>1. Micro(t)' = MicroOf(n) /\ K(t)' = PosOf(n)
    BY <1>1 DEF Micro, Index, K, MicroOf, PosOf, Word
  <2> QED
    BY <2>1, IndexPlace
<1>5. ASSUME At(q, k) < m_nReadIndex, NEW c \in Poppers, PopAt(c, q, k)'
      PROVE  PopAt(c, q, k)
  <2>1. c \in Threads
    BY InvTypes
  <2>2. CASE c = t
    <3>1. n = At(q, k)
      BY <1>4, <1>5, <2>2 DEF PopAt
    <3> QED
      BY <1>2, <1>5, <2>2, <3>1
  <2>3. CASE c # t
    BY <1>3, <1>5, <2>1, <2>3 DEF PopAt
  <2> QED
    BY <2>2, <2>3
<1>6. ASSUME At(q, k) < m_nPreWriteIndex, NEW p \in Pushers, PushAt(p, q, k)'
      PROVE  PushAt(p, q, k)
  <2>1. p \in Threads
    BY InvTypes
  <2>2. CASE p = t
    <3>1. n = At(q, k)
      BY <1>4, <1>6, <2>2 DEF PushAt
    <3> QED
      BY <1>2, <1>6, <2>2, <3>1
  <2>3. CASE p # t
    BY <1>3, <1>6, <2>1, <2>3 DEF PushAt
  <2> QED
    BY <2>2, <2>3
<1>7. Done(q, k) => Done(q, k)'
  BY <1>2, <1>5 DEF Done
<1>8. Pushed(q, k) => Pushed(q, k)'
  BY <1>2, <1>6 DEF Pushed
<1> QED
  BY <1>7, <1>8

(* No step takes back what is pushed or read.                             *)
LEMMA Monotone ==
  ASSUME Inv, Shape', [Next]_vars, NEW q \in Micros, NEW k \in Nat
  PROVE  /\ Done(q, k) => Done(q, k)'
         /\ Pushed(q, k) => Pushed(q, k)'
<1>0. /\ m_nPreWriteIndex \in Nat /\ m_nReadIndex \in Nat
      /\ Start <= m_nReadIndex /\ m_nReadIndex <= m_nPreWriteIndex /\ Start \in Nat
      /\ pc \in [Threads -> PushLabels \cup PopLabels]
  BY InvTypes, Sizes DEF Inv, CountersOK, Shape, TypeOK
<1>1. CASE UNCHANGED vars
  BY <1>1 DEF vars, Done, Pushed, PopAt, PushAt, Micro, K, Index, At
<1>2. ASSUME NEW p \in Pushers, DrawPush(p)
      PROVE  (Done(q, k) => Done(q, k)') /\ (Pushed(q, k) => Pushed(q, k)')
  <2>1. p \in Threads /\ p \notin Poppers
    BY InvTypes
  <2>2. /\ loc' = [loc EXCEPT ![p] = [NoCall EXCEPT !.index = m_nPreWriteIndex]]
        /\ \A u \in Threads : u # p => pc'[u] = pc[u]
        /\ m_nPreWriteIndex' = m_nPreWriteIndex + 1 /\ m_nReadIndex' = m_nReadIndex
    BY <1>0, <1>2 DEF DrawPush, EnterPush, Goto
  <2>3. /\ m_nPreWriteIndex' >= m_nPreWriteIndex /\ m_nPreWriteIndex' \in Nat
        /\ m_nReadIndex' >= m_nReadIndex /\ m_nReadIndex' \in Nat
        /\ Start <= m_nPreWriteIndex
    BY <1>0, <2>2
  <2> QED
    BY <1>0, <2>1, <2>2, <2>3, DrawMonotone
<1>3. ASSUME NEW c \in Poppers, DrawPop(c)
      PROVE  (Done(q, k) => Done(q, k)') /\ (Pushed(q, k) => Pushed(q, k)')
  <2>1. c \in Threads /\ c \notin Pushers
    BY InvTypes
  <2>2. /\ loc' = [loc EXCEPT ![c] = [NoCall EXCEPT !.index = m_nReadIndex]]
        /\ \A u \in Threads : u # c => pc'[u] = pc[u]
        /\ m_nPreWriteIndex' = m_nPreWriteIndex /\ m_nReadIndex' = m_nReadIndex + 1
    BY <1>0, <1>3 DEF DrawPop, EnterPop, Goto
  <2>3. /\ m_nPreWriteIndex' >= m_nPreWriteIndex /\ m_nPreWriteIndex' \in Nat
        /\ m_nReadIndex' >= m_nReadIndex /\ m_nReadIndex' \in Nat
    BY <1>0, <2>2
  <2> QED
    BY <1>0, <2>1, <2>2, <2>3, DrawMonotone
<1>4. ASSUME NEW p \in Pushers, PushStep(p)
      PROVE  (Done(q, k) => Done(q, k)') /\ (Pushed(q, k) => Pushed(q, k)')
  BY <1>4, InvTypes, PushHolds, HoldsMonotone
<1>5. ASSUME NEW c \in Poppers, PopStep(c)
      PROVE  (Done(q, k) => Done(q, k)') /\ (Pushed(q, k) => Pushed(q, k)')
  BY <1>5, InvTypes, PopHolds, HoldsMonotone
<1> QED
  BY <1>1, <1>2, <1>3, <1>4, <1>5 DEF Next

---------------------------------------------------------------------------

(***************************************************************************)
(* Nothing is left behind.                                                 *)
(***************************************************************************)

(* m_pRead moves on only by line 229. *)
LEMMA ReadMoves ==
  ASSUME Inv, [Next]_vars, NEW q \in Micros
  PROVE  R(q)' = R(q) \/ \E c \in Poppers : PopTurn(c) /\ Micro(c) = q
<1> DEFINE G == R(q)' = R(q) \/ \E c \in Poppers : PopTurn(c) /\ Micro(c) = q
<1>0. m_queue \in [Micros -> MicroQueues]
  BY DEF Inv, Shape, TypeOK
<1>1. CASE m_queue' = m_queue
  BY <1>1 DEF R
<1>2. ASSUME NEW p \in Pushers, DrawPush(p) \/ PushStep(p) PROVE G
  <2>1. m_queue' = m_queue \/ PushStore(p) \/ PushLink(p) \/ PushCount(p)
    BY <1>2 DEF DrawPush, EnterPush, PushStep, PushLoadOwn, PushLoadThis, PushLoadBegin,
       PushScan, PushAdvance, PushNoWrite, PushAwait, PushNext, PushGrow, PushData, PushSign
  <2>2. CASE PushStore(p)
    BY <1>0, <2>2 DEF PushStore, R, MicroQueues
  <2>3. CASE PushLink(p)
    BY <1>0, <2>3 DEF PushLink, R, MicroQueues
  <2>4. CASE PushCount(p)
    BY <1>0, <2>4 DEF PushCount, R, MicroQueues
  <2> QED
    BY <1>1, <2>1, <2>2, <2>3, <2>4
<1>3. ASSUME NEW c \in Poppers, DrawPop(c) \/ PopStep(c) PROVE G
  <2>1. m_queue' = m_queue \/ PopBump(c) \/ PopTurn(c)
    BY <1>3 DEF DrawPop, EnterPop, PopStep, PopLoadOwn, PopLoadBegin, PopAsk, PopAwait,
       PopNext, PopRelease, PopSpin, PopData, PopClear
  <2>2. CASE PopBump(c)
    BY <1>0, <2>2 DEF PopBump, R, MicroQueues
  <2>3. CASE PopTurn(c)
    <3>1. CASE Micro(c) = q
      BY <2>3, <3>1
    <3>2. CASE Micro(c) # q
      <4>1. m_queue'[q] = m_queue[q]
        BY <1>0, <2>3, <3>2 DEF PopTurn
      <4> QED
        BY <4>1 DEF R
    <3> QED
      BY <3>1, <3>2
  <2> QED
    BY <1>1, <2>1, <2>2, <2>3
<1>4. CASE UNCHANGED vars
  BY <1>1, <1>4 DEF vars
<1> QED
  BY <1>2, <1>3, <1>4 DEF Next

(* Everything before the ring m_pRead points to is read, and everything    *)
(* before a ring is pushed: moving on has left nothing behind. *)
Settled(q) ==
  /\ \A k \in Nat : k < Res(q, R(q)) => Done(q, k)
  /\ \A i \in Rings(q) : \A k \in Nat : k < Res(q, i) => Pushed(q, k)

(* At the start nothing is behind,                                        *)
LEMMA SettledInit ==
  ASSUME Roomy, Inv, Init, NEW q \in Micros
  PROVE  Settled(q)
<1>1. Len(heap[q]) = 1 /\ R(q) = 1
  BY DEF Init, R
<1>2. Rings(q) = {1}
  BY <1>1 DEF Rings
<1>3. Res(q, 1) = 0
  BY DEF Inv, QueueOK, ChainOK
<1> QED
  BY <1>1, <1>2, <1>3 DEF Settled

(* and no step leaves anything behind, if the pop that turns comes right  *)
(* after the window and the push that grows has all of the window         *)
(* pushed.                                                                *)
LEMMA SettledNext ==
  ASSUME Inv, Inv', [Next]_vars, NEW q \in Micros, Settled(q),
         \A c \in Poppers : pc[c] = "popTurn" /\ Micro(c) = q =>
           K(c) = Fin(q, R(q)),
         \A p \in Pushers : pc[p] = "pushGrow" /\ Micro(p) = q =>
           \A k \in Nat : k < Fin(q, W(q)) => Pushed(q, k)
  PROVE  Settled(q)'
<1>0. /\ Shape /\ Shape' /\ QueueOK(q) /\ QueueOK(q)' /\ R(q) \in Rings(q)
      /\ W(q) \in Rings(q) /\ Rings(q) = 1 .. Len(heap[q]) /\ Len(heap[q]) \in Nat
  BY QueueTypes DEF Inv
<1>1. /\ \A j \in Rings(q) : Stays(q, j)
      /\ \/ Rings(q)' = Rings(q)
         \/ /\ Rings(q)' = 1 .. Len(heap[q]) + 1
            /\ \E p \in Pushers : pc[p] = "pushGrow" /\ Micro(p) = q
  BY <1>0, RingsStay
<1>2. \A k \in Nat : (Done(q, k) => Done(q, k)') /\ (Pushed(q, k) => Pushed(q, k)')
  BY <1>0, Monotone
<1>3. \A k \in Nat : k < Res(q, R(q))' => Done(q, k)'
  <2>1. CASE R(q)' = R(q)
    <3>1. Res(q, R(q))' = Res(q, R(q))
      <4> SUFFICES ASSUME NEW i, i = R(q) PROVE Res(q, i)' = Res(q, i)
        BY <2>1
      <4> QED
        BY <1>0, <1>1 DEF Stays
    <3> QED
      BY <1>2, <3>1 DEF Settled
  <2>2. CASE \E c \in Poppers : PopTurn(c) /\ Micro(c) = q
    <3>1. PICK c \in Poppers : PopTurn(c) /\ Micro(c) = q
      BY <2>2
    <3>2. pc[c] = "popTurn"
      BY <3>1 DEF PopTurn
    <3>3. PICK a, l, x, i, k : Popping(c, a, l, x, i, k)
      BY <3>2, PopIs
    <3>4. /\ x = q /\ i = R(q) /\ l.next = i /\ k = Fin(q, i) /\ i <= WC(q)
          /\ l = loc[c] /\ \A j \in Nat : Res(q, i) <= j /\ j < k => Done(q, j)
      BY <3>1, <3>2, <3>3 DEF Popping, TurnerOK
    <3> SUFFICES ASSUME NEW n, n = i + 1
                 PROVE  \A j \in Nat : j < Res(q, R(q))' => Done(q, j)'
      OBVIOUS
    <3>5. /\ i \in Nat /\ WC(q) \in Nat /\ W(q) \in Nat /\ Res(q, i) \in Nat
          /\ i \in Rings(q)
      BY <1>0, <3>4, QueueIs
    <3>6. i < W(q) /\ n \in Rings(q)
      <4>1. WC(q) = W(q) - 1 \/ WC(q) = W(q) - 2
        BY <1>0 DEF QueueOK, PointersOK
      <4> QED
        BY <1>0, <3>4, <3>5, <4>1
    <3>7. R(q)' = n
      <4>1. i \in Slots /\ R(q)' = Slot(q, i)
        <5>1. /\ loc[c].next = i /\ loc[c].next \in Slots
              /\ m_queue \in [Micros -> MicroQueues]
              /\ m_queue' = [m_queue EXCEPT ![q].m_pRead =
                               m_queue[q].m_pCircle[loc[c].next]]
          BY <1>0, <3>1, <3>4 DEF PopTurn, Shape, TypeOK
        <5> QED
          BY <5>1 DEF R, Slot, MicroQueues
      <4> QED
        BY <1>0, <3>6, <4>1 DEF QueueOK, PointersOK
    <3>8. Res(q, n)' = Fin(q, i)
      <4>1. Res(q, n)' = Res(q, n)
        BY <1>1, <3>6 DEF Stays
      <4> QED
        BY <1>0, <3>5, <3>6, <4>1 DEF QueueOK, ChainOK
    <3>9. \A j \in Nat : j < k => Done(q, j)
      BY <3>4, <3>5 DEF Settled
    <3> QED
      BY <1>2, <3>4, <3>7, <3>8, <3>9
  <2> QED
    BY <2>1, <2>2, ReadMoves
<1>4. ASSUME NEW i \in Rings(q)', NEW k \in Nat, k < Res(q, i)'
      PROVE  Pushed(q, k)'
  <2>1. CASE i \in Rings(q)
    BY <1>1, <1>2, <1>4, <2>1 DEF Settled, Stays
  <2>2. CASE i \notin Rings(q)
    <3>1. PICK p \in Pushers : pc[p] = "pushGrow" /\ Micro(p) = q
      BY <1>1, <2>2
    <3>2. PICK a, l, y, x, z : Pushing(p, a, l, y, x, z)
      BY <3>1, PushIs
    <3> SUFFICES ASSUME NEW w, w = W(q) PROVE Pushed(q, k)'
      OBVIOUS
    <3>3. w = Len(heap[q]) /\ Closed(q, w)
      BY <3>1, <3>2 DEF Pushing, CloserOK, GrowerOK
    <3>4. i = w + 1 /\ w \in Rings(q)' /\ w \in Rings(q)
      BY <1>0, <1>1, <2>2, <3>3
    <3>5. Res(q, i)' = Fin(q, w)'
      BY <1>0, <3>4 DEF QueueOK, ChainOK
    <3>6. Fin(q, w)' = Fin(q, w)
      BY <1>1, <3>3, <3>4 DEF Stays
    <3> QED
      BY <1>2, <1>4, <3>1, <3>5, <3>6
  <2> QED
    BY <2>1, <2>2
<1> QED
  BY <1>3, <1>4 DEF Settled

(* The indices of a ring before place e. *)
LEMMA BelowPlaces ==
  ASSUME Roomy, Inv, NEW q \in Micros, NEW i \in Rings(q),
         NEW e \in Places, Res(q, i) <= e,
         NEW n \in Below(q, heap[q][i], Word(At(q, e)))
  PROVE  \E k \in Nat : Res(q, i) <= k /\ k < e /\ n = At(q, k)
<1>1. Shape /\ QueueOK(q) /\ CountersOK /\ m_nPreWriteIndex \in Nat /\ m_nReadIndex \in Nat
  BY InvTypes DEF Inv
<1>2. RingOK(q, i) /\ Res(q, i) \in Nat /\ Beg(q, i) \in Nat
  BY <1>1, QueueIs
<1> SUFFICES ASSUME NEW r, r = Res(q, i), NEW k, k = PosOf(n)
             PROVE  \E x \in Nat : r <= x /\ x < e /\ n = At(q, x)
  OBVIOUS
<1>3. /\ n \in Nat /\ Start <= n /\ n < m_nPreWriteIndex /\ MicroOf(n) = q
      /\ Minus(Word(n), heap[q][i].m_nResBeginIndex)
           < Minus(Word(At(q, e)), heap[q][i].m_nResBeginIndex)
  <2>1. Start \in Nat
    BY Sizes
  <2> QED
    BY <1>1, <2>1 DEF Below, Drawn, Start
<1>4. k \in Nat /\ n = At(q, k)
  BY <1>3, IndexPlace
<1>5. k \in Places
  BY <1>1, <1>3, <1>4, DrawnPlace
<1>6. r \in Places
  <2>1. Spans(heap[q][i], q, r, Beg(q, i), Size(q, i))
    BY <1>1, <1>2, RingSpans
  <2> QED
    BY <2>1, SpanFacts
<1>7. heap[q][i].m_nResBeginIndex = Word(At(q, r))
  BY <1>2 DEF RingOK
<1>8. /\ Mode \in Nat \ {0} /\ r \in Nat /\ e \in Nat /\ Far \in Nat /\ WordSize \in Nat
      /\ r <= e
  BY <1>2, Sizes DEF Places
<1>9. Minus(Word(At(q, e)), Word(At(q, r))) = Mode * (e - r)
  BY <1>6, <1>8, PlaceWord
<1>10. Minus(Word(At(q, k)), Word(At(q, r))) < Mode * (e - r)
  BY <1>3, <1>4, <1>7, <1>9
<1>11. CASE k >= r
  <2>1. Minus(Word(At(q, k)), Word(At(q, r))) = Mode * (k - r)
    BY <1>5, <1>6, <1>11, PlaceWord
  <2>2. Mode * (k - r) < Mode * (e - r)
    BY <1>10, <2>1
  <2>3. k - r \in Int /\ e - r \in Int
    BY <1>4, <1>8
  <2>4. k - r < e - r
    BY <1>8, <2>2, <2>3, Times
  <2>5. r <= k /\ k < e
    BY <1>4, <1>8, <1>11, <2>4
  <2> QED
    BY <1>4, <2>5
<1>12. CASE k < r
  <2>1. Minus(Word(At(q, k)), Word(At(q, r))) = WordSize - Mode * (r - k)
    BY <1>5, <1>6, <1>12, PlaceWord
  <2>2. /\ Mode * (r - k) <= Mode * Far /\ Mode * (e - r) <= Mode * Far
        /\ 2 * (Mode * Far) + 2 * Mode <= WordSize
    BY <1>5, <1>6, PlaceWord
  <2> SUFFICES ASSUME NEW x, x = Mode * (r - k), NEW y, y = Mode * (e - r),
                      NEW z, z = Mode * Far
               PROVE  FALSE
    OBVIOUS
  <2>3. x \in Int /\ y \in Int /\ z \in Int
    <3>1. r - k \in Int /\ e - r \in Int /\ Far \in Int
      BY <1>4, <1>8
    <3> QED
      BY <1>8, <3>1, Times
  <2>4. WordSize - x < y /\ x <= z /\ y <= z /\ 2 * z + 2 * Mode <= WordSize
    BY <1>10, <2>1, <2>2
  <2> QED
    BY <1>8, <2>3, <2>4
<1> QED
  BY <1>4, <1>8, <1>11, <1>12

(* A ring left behind is read to the end. *)
LEMMA BehindDone ==
  ASSUME Inv, NEW q \in Micros, Settled(q), NEW i \in Rings(q), i < R(q)
  PROVE  \A k \in Nat : k < Fin(q, i) => Done(q, k) /\ Pushed(q, k)
<1>1. Shape /\ QueueOK(q)
  BY DEF Inv
<1>2. R(q) \in Rings(q) /\ Fin(q, i) \in Nat
  BY <1>1, QueueIs
<1>3. Fin(q, i) <= Res(q, R(q))
  BY <1>1, <1>2 DEF QueueOK, ChainOK
<1>4. Res(q, R(q)) \in Nat
  BY <1>1, <1>2, QueueIs
<1>5. \A k \in Nat : k < Fin(q, i) => k < Res(q, R(q))
  BY <1>2, <1>3, <1>4
<1> QED
  BY <1>1, <1>5 DEF Settled, QueueOK, PlacesOK

(* Then a freed pool is drained,                                          *)
LEMMA SettledDrained ==
  ASSUME Roomy, Inv, \A q \in Micros : Settled(q)
  PROVE  ReleasedDrained
<1> SUFFICES ASSUME NEW q \in Micros, NEW i \in DOMAIN heap[q],
                    heap[q][i].m_bReleased,
                    NEW n \in Below(q, heap[q][i], WindowEnd(heap[q][i]))
             PROVE  WasDelivered(n)
  BY DEF ReleasedDrained
<1>1. Shape /\ QueueOK(q)
  BY DEF Inv
<1>2. i \in Rings(q)
  <2>1. heap[q] \in Seq(Ring)
    BY <1>1 DEF Shape, TypeOK
  <2> QED
    BY <2>1 DEF Rings
<1>3. /\ RingOK(q, i) /\ Res(q, i) \in Nat /\ Beg(q, i) \in Nat /\ Size(q, i) \in Nat
      /\ Res(q, i) <= Beg(q, i) /\ Fin(q, i) = Beg(q, i) + Size(q, i)
  BY <1>1, <1>2, QueueIs
<1>4. i < R(q)
  BY <1>3 DEF RingOK, Freed
<1>5. /\ Spans(heap[q][i], q, Res(q, i), Beg(q, i), Size(q, i))
      /\ Fin(q, i) \in Places
  BY <1>1, <1>2, <1>3, RingSpans
<1>6. WindowEnd(heap[q][i]) = Word(At(q, Fin(q, i)))
  BY <1>5, SpanFacts DEF Fin
<1> SUFFICES ASSUME NEW e, e = Fin(q, i) PROVE WasDelivered(n)
  OBVIOUS
<1>7. e \in Places /\ Res(q, i) <= e /\ n \in Below(q, heap[q][i], Word(At(q, e)))
  BY <1>3, <1>5, <1>6
<1>8. PICK k \in Nat : k < e /\ n = At(q, k)
  BY <1>2, <1>7, BelowPlaces
<1>9. Done(q, k)
  BY <1>2, <1>4, <1>8, BehindDone
<1> QED
  BY <1>1, <1>8, <1>9 DEF QueueOK, PlacesOK

(* nobody uses it,                                                        *)
LEMMA SettledUse ==
  ASSUME Inv, \A q \in Micros : Settled(q)
  PROVE  NoUseAfterRelease
<1>1. ASSUME NEW p \in Pushers, TouchesPool(p), This(p).m_bReleased PROVE FALSE
  <2>0. pc[p] \in {"pushScan", "pushAwait", "pushData", "pushSign"}
    <3>1. pc[p] \in PushLabels
      BY DEF Inv, Shape, TypeOK
    <3> QED
      BY <1>1, <3>1 DEF TouchesPool, PushLabels
  <2>1. PICK a, l, q, i, k : Pushing(p, a, l, q, i, k)
    BY <2>0, PushIs
  <2>2. /\ a = pc[p] /\ l = loc[p] /\ q = Micro(p) /\ i = loc[p].this /\ q \in Micros
        /\ i \in Rings(q) /\ k \in Nat /\ ~ Pushed(q, k) /\ Shape /\ QueueOK(q)
        /\ EntryOK(a, l, q, i, k) /\ CloserOK(a, l, q, i, k)
    BY <2>1 DEF Pushing
  <2>3. Freed(q, i)
    BY <1>1, <2>2 DEF This, Freed
  <2>4. i < R(q)
    BY <2>2, <2>3 DEF QueueOK, RingOK
  <2>5. CASE pc[p] \in {"pushScan", "pushAwait"}
    <3>1. i = W(q)
      BY <2>2, <2>5 DEF CloserOK
    <3>2. R(q) <= W(q)
      BY <2>2 DEF QueueOK, PointersOK
    <3>3. R(q) \in Nat /\ W(q) \in Nat
      BY <2>2, QueueIs
    <3> QED
      BY <2>4, <3>1, <3>2, <3>3
  <2>6. CASE pc[p] \in {"pushData", "pushSign"}
    <3>1. k < Fin(q, i)
      BY <2>2, <2>6 DEF EntryOK
    <3> QED
      BY <2>2, <2>4, <3>1, BehindDone
  <2> QED
    BY <2>0, <2>5, <2>6
<1>2. ASSUME NEW c \in Poppers, TouchesPool(c), This(c).m_bReleased PROVE FALSE
  <2>0. pc[c] \in {"popAwait", "popSpin", "popData", "popClear"}
    <3>1. pc[c] \in PopLabels
      BY DEF Inv, Shape, TypeOK
    <3> QED
      BY <1>2, <3>1 DEF TouchesPool, PopLabels
  <2>1. PICK a, l, q, i, k : Popping(c, a, l, q, i, k)
    BY <2>0, PopIs
  <2>2. /\ a = pc[c] /\ l = loc[c] /\ q = Micro(c) /\ i = loc[c].this /\ q \in Micros
        /\ i \in Rings(q) /\ k \in Nat /\ ~ Done(q, k) /\ Shape /\ QueueOK(q)
        /\ k = K(c) /\ ReaderOK(a, l, q, i, k) /\ TurnerOK(a, l, q, i, k)
    BY <2>1 DEF Popping
  <2>3. Freed(q, i)
    BY <1>2, <2>2 DEF This, Freed
  <2>4. i < R(q)
    BY <2>2, <2>3 DEF QueueOK, RingOK
  <2>5. CASE pc[c] \in {"popSpin", "popData", "popClear"}
    <3>1. k < Fin(q, i)
      BY <2>2, <2>5 DEF ReaderOK
    <3> QED
      BY <2>2, <2>4, <3>1, BehindDone
  <2>6. CASE pc[c] = "popAwait"
    <3>1. PICK y \in Nat : TurnedAt(q, i, y)
      BY <2>2, <2>4 DEF QueueOK, TurnedOK
    <3>2. Fin(q, i) \in Nat /\ i \in Nat
      BY <2>2, QueueIs
    <3>3. k <= Fin(q, i) /\ ~ (k < Fin(q, i))
      BY <2>2, <2>4, <2>6, BehindDone DEF TurnerOK
    <3>4. y <= Fin(q, i) /\ ~ (y < Fin(q, i))
      BY <2>2, <2>4, <3>1, BehindDone DEF TurnedAt
    <3>5. k = y
      BY <2>2, <3>2, <3>3, <3>4
    <3>6. PopAt(c, q, y)
      BY <2>2, <2>6, <3>5 DEF PopAt
    <3>7. i > i
      BY <2>2, <2>6, <3>1, <3>6 DEF TurnedAt
    <3> QED
      BY <3>2, <3>7
  <2> QED
    BY <2>0, <2>5, <2>6
<1> QED
  BY <1>1, <1>2 DEF NoUseAfterRelease, Threads

(* An index that is not before a ring is not taken to be behind it. *)
LEMMA NotBehind ==
  ASSUME Roomy, Inv, NEW q \in Micros, NEW i \in Rings(q), NEW k \in Places,
         k >= Res(q, i)
  PROVE  ~ Behind(At(q, k), heap[q][i])
<1>1. Shape /\ QueueOK(q)
  BY DEF Inv
<1>2. RingOK(q, i) /\ Res(q, i) \in Nat
  BY <1>1, QueueIs
<1> SUFFICES ASSUME NEW r, r = Res(q, i) PROVE ~ Behind(At(q, k), heap[q][i])
  OBVIOUS
<1>3. r \in Places /\ heap[q][i].m_nResBeginIndex = Word(At(q, r))
  <2>1. Spans(heap[q][i], q, r, Beg(q, i), Size(q, i))
    BY <1>1, <1>2, RingSpans
  <2> QED
    BY <2>1, SpanFacts DEF Spans
<1>4. /\ Minus(Word(At(q, k)), Word(At(q, r))) = Mode * (k - r)
      /\ Mode * (k - r) <= Mode * Far
      /\ 2 * (Mode * Far) + 2 * Mode <= WordSize
  BY <1>3, PlaceWord
<1>5. /\ Mode \in Nat \ {0} /\ WordSize \in Nat /\ k - r \in Int /\ Far \in Int
  BY <1>2, Sizes DEF Places
<1>6. Mode * (k - r) \in Int /\ Mode * Far \in Int
  BY <1>5, Times
<1> SUFFICES ASSUME NEW x \in Int, x = Mode * (k - r), NEW z \in Int, z = Mode * Far
             PROVE  ~ Behind(At(q, k), heap[q][i])
  BY <1>6
<1>7. x <= z /\ 2 * z + 2 * Mode <= WordSize
  BY <1>4
<1>8. x < WordSize \div 2
  BY <1>5, <1>7
<1> QED
  BY <1>3, <1>4, <1>5, <1>8 DEF Behind

(* and nobody is left behind by m_pWrite or m_pRead.                      *)
LEMMA SettledNear ==
  ASSUME Roomy, Inv, \A q \in Micros : Settled(q)
  PROVE  NobodyStranded
<1>1. ASSUME NEW p \in Pushers, pc[p] \in {"pushEnter", "pushLoad", "pushRetry"}
      PROVE  ~ Behind(Index(p), heap[Micro(p)][m_queue[Micro(p)].m_pWrite])
  <2>1. PICK a, l, q, i, k : Pushing(p, a, l, q, i, k)
    BY <1>1, PushIs
  <2> SUFFICES ASSUME NEW w, w = W(q)
               PROVE  ~ Behind(Index(p), heap[Micro(p)][m_queue[Micro(p)].m_pWrite])
    OBVIOUS
  <2>2. /\ q \in Micros /\ w \in Rings(q) /\ k \in Nat /\ k \in Places
        /\ ~ Pushed(q, k) /\ Res(q, w) \in Nat
        /\ Index(p) = At(q, k) /\ q = Micro(p) /\ w = m_queue[q].m_pWrite
    BY <2>1, QueueIs DEF Pushing, Index, W
  <2>3. k >= Res(q, w)
    BY <2>2 DEF Settled
  <2>4. ~ Behind(At(q, k), heap[q][w])
    BY <2>2, <2>3, NotBehind
  <2> QED
    BY <2>2, <2>4
<1>2. ASSUME NEW c \in Poppers, pc[c] \in {"popEnter", "popRetry"}
      PROVE  ~ Behind(Index(c), heap[Micro(c)][m_queue[Micro(c)].m_pRead])
  <2>1. PICK a, l, q, i, k : Popping(c, a, l, q, i, k)
    BY <1>2, PopIs
  <2> SUFFICES ASSUME NEW w, w = R(q)
               PROVE  ~ Behind(Index(c), heap[Micro(c)][m_queue[Micro(c)].m_pRead])
    OBVIOUS
  <2>2. /\ q \in Micros /\ w \in Rings(q) /\ k \in Nat /\ k \in Places
        /\ ~ Done(q, k) /\ Res(q, w) \in Nat
        /\ Index(c) = At(q, k) /\ q = Micro(c) /\ w = m_queue[q].m_pRead
    BY <2>1, QueueIs DEF Popping, Index, R
  <2>3. k >= Res(q, w)
    BY <2>2 DEF Settled
  <2>4. ~ Behind(At(q, k), heap[q][w])
    BY <2>2, <2>3, NotBehind
  <2> QED
    BY <2>2, <2>4
<1> QED
  BY <1>1, <1>2 DEF NobodyStranded

---------------------------------------------------------------------------

(***************************************************************************)
(* Rings closed in their first lap.                                        *)
(***************************************************************************)

(* Nothing is behind while every closed ring was closed in its first      *)
(* lap.                                                                   *)
FreshSettled == ClosedFresh => \A q \in Micros : Settled(q)

(* A ring closed in its first lap starts where its window does.           *)
LEMMA FreshRing ==
  ASSUME Inv, ClosedFresh, NEW q \in Micros, NEW i \in Rings(q), Closed(q, i)
  PROVE  Beg(q, i) = Res(q, i)
<1>1. i \in DOMAIN heap[q]
  <2>1. heap[q] \in Seq(Ring)
    BY DEF Inv, Shape, TypeOK
  <2> QED
    BY <2>1 DEF Rings
<1> QED
  BY <1>1 DEF ClosedFresh, Closed, Beg, Res

(* A pop that moves m_pRead on holds the index right after the window. *)
LEMMA FreshTurn ==
  ASSUME Inv, ClosedFresh, NEW c \in Poppers, pc[c] = "popTurn"
  PROVE  K(c) = Fin(Micro(c), R(Micro(c)))
<1>1. PICK a, l, q, i, k : Popping(c, a, l, q, i, k)
  BY PopIs
<1>2. /\ q = Micro(c) /\ q \in Micros /\ i \in Rings(q) /\ k \in Nat /\ k = K(c)
      /\ i = R(q) /\ Closed(q, i) /\ k <= Fin(q, i) /\ k - Res(q, i) >= Size(q, i)
      /\ Shape /\ QueueOK(q)
  BY <1>1 DEF Popping, TurnerOK
<1>3. /\ Fin(q, i) = Beg(q, i) + Size(q, i) /\ Res(q, i) \in Nat /\ Size(q, i) \in Nat
  BY <1>2, QueueIs
<1>4. Beg(q, i) = Res(q, i)
  BY <1>2, FreshRing
<1>5. k = Fin(q, i)
  BY <1>2, <1>3, <1>4
<1> QED
  BY <1>2, <1>5

(* The cells a closing push has seen non-zero in a first lap are pushed. *)
LEMMA FreshGrow ==
  ASSUME Inv, ClosedFresh, NEW p \in Pushers, pc[p] = "pushGrow",
         Settled(Micro(p)), NEW k \in Nat, k < Fin(Micro(p), W(Micro(p)))
  PROVE  Pushed(Micro(p), k)
<1>1. PICK a, l, q, i, x : Pushing(p, a, l, q, i, x)
  BY PushIs
<1>2. /\ q = Micro(p) /\ q \in Micros /\ i \in Rings(q) /\ i = W(q) /\ Closed(q, i)
      /\ l.scan = Size(q, i) /\ Shape /\ QueueOK(q)
      /\ \A j \in Nat : Beg(q, i) <= j /\ j < Beg(q, i) + l.scan => Sg(q, i, j) # 0
  BY <1>1 DEF Pushing, CloserOK, GrowerOK
<1>3. /\ Fin(q, i) = Beg(q, i) + Size(q, i) /\ Res(q, i) \in Nat /\ Size(q, i) \in Nat
  BY <1>2, QueueIs
<1>4. Beg(q, i) = Res(q, i)
  BY <1>2, FreshRing
<1>5. CASE k < Res(q, i)
  BY <1>2, <1>5 DEF Settled
<1>6. CASE ~ (k < Res(q, i))
  <2>1. Beg(q, i) <= k /\ k < Fin(q, i) /\ k - Res(q, i) < Size(q, i)
    BY <1>2, <1>3, <1>4, <1>6
  <2>2. Sg(q, i, k) # 0
    BY <1>2, <1>3, <2>1
  <2>3. CellOK(q, i, k)
    BY <1>2, <2>1 DEF QueueOK, CellsOK
  <2>4. Prev(Size(q, i), k - Res(q, i)) = 0
    BY <2>1 DEF Prev
  <2> QED
    BY <1>2, <2>2, <2>3, <2>4 DEF CellOK
<1> QED
  BY <1>5, <1>6

(* Steps keep it, as closed rings do not change.                          *)
LEMMA FreshNext ==
  ASSUME Inv, Inv', [Next]_vars, FreshSettled
  PROVE  FreshSettled'
<1> SUFFICES ASSUME ClosedFresh', NEW q \in Micros PROVE Settled(q)'
  BY DEF FreshSettled
<1>1. Shape /\ Shape'
  BY DEF Inv
<1>2. ClosedFresh
  <2> SUFFICES ASSUME NEW x \in Micros, NEW i \in DOMAIN heap[x], Closed(x, i)
               PROVE  heap[x][i].m_nBeginIndex = heap[x][i].m_nResBeginIndex
    BY DEF ClosedFresh, Closed
  <2>1. i \in Rings(x)
    <3>1. heap[x] \in Seq(Ring)
      BY <1>1 DEF Shape, TypeOK
    <3> QED
      BY <3>1 DEF Rings
  <2>2. Stays(x, i)
    BY <1>1, <2>1, RingsStay
  <2>3. i \in DOMAIN heap'[x]
    <3>1. heap'[x] \in Seq(Ring)
      BY <1>1 DEF Shape, TypeOK
    <3>2. i \in 1 .. Len(heap'[x])
      BY <2>2 DEF Stays, Rings
    <3> QED
      BY <3>1, <3>2
  <2>4. heap'[x][i].m_bNoWrite
    BY <2>2 DEF Stays, Closed
  <2>5. heap'[x][i].m_nBeginIndex = heap'[x][i].m_nResBeginIndex
    BY <2>3, <2>4 DEF ClosedFresh
  <2> QED
    BY <2>2, <2>5 DEF Stays
<1>3. Settled(q)
  BY <1>2 DEF FreshSettled
<1>4. \A c \in Poppers : pc[c] = "popTurn" /\ Micro(c) = q => K(c) = Fin(q, R(q))
  BY <1>2, FreshTurn
<1>5. \A p \in Pushers : pc[p] = "pushGrow" /\ Micro(p) = q =>
        \A k \in Nat : k < Fin(q, W(q)) => Pushed(q, k)
  BY <1>2, <1>3, FreshGrow
<1> QED
  BY <1>3, <1>4, <1>5, SettledNext

(* While every ring that was closed was closed before its window slid,    *)
(* line 230 frees only drained pools, nobody touches a freed one, and no  *)
(* thread spins for ever behind a ring it missed: the waits of lines      *)
(* 78-90 and 121-130 are sound in a first lap.                            *)
THEOREM MicroFreshCloseSafe == Roomy => (Spec => []FreshCloseSafe)
<1> SUFFICES ASSUME Roomy PROVE Spec => []FreshCloseSafe
  OBVIOUS
<1>1. Init => Inv /\ FreshSettled
  BY InvInit, SettledInit DEF FreshSettled
<1>2. Inv /\ FreshSettled /\ [Next]_vars => (Inv /\ FreshSettled)'
  BY InvNext, FreshNext
<1>3. Inv /\ FreshSettled => FreshCloseSafe
  BY SettledDrained, SettledUse, SettledNear DEF FreshSettled, FreshCloseSafe
<1> QED
  BY <1>1, <1>2, <1>3, PTL DEF Spec

---------------------------------------------------------------------------

(***************************************************************************)
(* One producer.                                                           *)
(***************************************************************************)

(* A ring is closed by line 76 and nowhere else. *)
LEMMA Closing ==
  ASSUME Inv, Shape', [Next]_vars, NEW x \in Micros, NEW j \in Rings(x)', Closed(x, j)'
  PROVE  \/ j \in Rings(x) /\ Closed(x, j)
         \/ \E p \in Pushers : /\ PushNoWrite(p) /\ Micro(p) = x /\ loc[p].this = j
                               /\ j \in Rings(x)
<1> DEFINE G == \/ j \in Rings(x) /\ Closed(x, j)
                \/ \E p \in Pushers : /\ PushNoWrite(p) /\ Micro(p) = x
                                      /\ loc[p].this = j /\ j \in Rings(x)
<1>0. Shape
  BY DEF Inv
<1>1. CASE heap' = heap
  BY <1>1 DEF Rings, Closed
<1>2. ASSUME NEW p \in Pushers, PushAdvance(p) PROVE G
  <2>0. pc[p] = "pushAdvance"
    BY <1>2 DEF PushAdvance
  <2>1. PICK a, l, q, i, k : Pushing(p, a, l, q, i, k)
    BY <2>0, PushIs
  <2>2. /\ q \in Micros /\ i \in Rings(q) /\ Micro(p) = q /\ loc[p].this = i
    BY <2>0, <2>1 DEF Pushing
  <2>3. PICK v : heap' = [heap EXCEPT ![q][i].m_nBeginIndex = v]
    BY <1>2, <2>2 DEF PushAdvance
  <2>4. heap \in [Micros -> Seq(Ring)] /\ heap[x] \in Seq(Ring) /\ heap'[x] \in Seq(Ring)
    BY <1>0 DEF Shape, TypeOK
  <2>5. Rings(x)' = Rings(x)
    BY <2>2, <2>3, <2>4 DEF Rings
  <2>6. heap'[x][j].m_bNoWrite = heap[x][j].m_bNoWrite
    <3>1. j \in DOMAIN heap[x] /\ heap[x][j] \in Ring
      BY <2>4, <2>5 DEF Rings
    <3>2. CASE x = q /\ j = i
      BY <2>2, <2>3, <2>4, <3>1, <3>2 DEF Ring
    <3>3. CASE ~ (x = q /\ j = i)
      BY <2>2, <2>3, <2>4, <3>1, <3>3
    <3> QED
      BY <3>2, <3>3
  <2> QED
    BY <2>5, <2>6 DEF Closed
<1>3. ASSUME NEW p \in Pushers, PushNoWrite(p) PROVE G
  <2>0. pc[p] = "pushNoWrite"
    BY <1>3 DEF PushNoWrite
  <2>1. PICK a, l, q, i, k : Pushing(p, a, l, q, i, k)
    BY <2>0, PushIs
  <2>2. /\ q \in Micros /\ i \in Rings(q) /\ Micro(p) = q /\ loc[p].this = i
    BY <2>0, <2>1 DEF Pushing
  <2>3. heap' = [heap EXCEPT ![q][i].m_bNoWrite = TRUE]
    BY <1>3, <2>2 DEF PushNoWrite
  <2>4. heap \in [Micros -> Seq(Ring)] /\ heap[x] \in Seq(Ring) /\ heap'[x] \in Seq(Ring)
    BY <1>0 DEF Shape, TypeOK
  <2>5. Rings(x)' = Rings(x)
    BY <2>2, <2>3, <2>4 DEF Rings
  <2>6. CASE x = q /\ j = i
    BY <1>3, <2>2, <2>6
  <2>7. CASE ~ (x = q /\ j = i)
    <3>1. j \in DOMAIN heap[x] /\ heap[x][j] \in Ring
      BY <2>4, <2>5 DEF Rings
    <3>2. heap'[x][j] = heap[x][j]
      BY <2>2, <2>3, <2>4, <3>1, <2>7
    <3> QED
      BY <2>5, <3>2 DEF Closed
  <2> QED
    BY <2>6, <2>7
<1>4. ASSUME NEW c \in Poppers, PopRelease(c) PROVE G
  <2>0. pc[c] = "popRelease"
    BY <1>4 DEF PopRelease
  <2>1. PICK a, l, q, i, k : Popping(c, a, l, q, i, k)
    BY <2>0, PopIs
  <2>2. /\ q \in Micros /\ i \in Rings(q) /\ Micro(c) = q /\ loc[c].this = i
    BY <2>0, <2>1 DEF Popping
  <2>3. heap' = [heap EXCEPT ![q][i].m_bReleased = TRUE]
    BY <1>4, <2>2 DEF PopRelease
  <2>4. heap \in [Micros -> Seq(Ring)] /\ heap[x] \in Seq(Ring) /\ heap'[x] \in Seq(Ring)
    BY <1>0 DEF Shape, TypeOK
  <2>5. Rings(x)' = Rings(x)
    BY <2>2, <2>3, <2>4 DEF Rings
  <2>6. heap'[x][j].m_bNoWrite = heap[x][j].m_bNoWrite
    <3>1. j \in DOMAIN heap[x] /\ heap[x][j] \in Ring
      BY <2>4, <2>5 DEF Rings
    <3>2. CASE x = q /\ j = i
      BY <2>2, <2>3, <2>4, <3>1, <3>2 DEF Ring
    <3>3. CASE ~ (x = q /\ j = i)
      BY <2>2, <2>3, <2>4, <3>1, <3>3
    <3> QED
      BY <3>2, <3>3
  <2> QED
    BY <2>5, <2>6 DEF Closed
<1>5. ASSUME NEW p \in Pushers, PushGrow(p) PROVE G
  <2>0. pc[p] = "pushGrow" /\ p \in Threads
    BY <1>5, InvTypes DEF PushGrow
  <2>1. Micro(p) \in Micros
    BY <2>0, InvTypes
  <2> SUFFICES ASSUME NEW q, q = Micro(p) PROVE G
    OBVIOUS
  <2>2. PICK old : heap' = [heap EXCEPT ![q] = Append(heap[q], CreateNextCircle(old))]
    BY <1>5 DEF PushGrow
  <2>3. heap \in [Micros -> Seq(Ring)] /\ q \in Micros
    BY <1>0, <2>1 DEF Shape, TypeOK
  <2>4. /\ heap'[q] = Append(heap[q], CreateNextCircle(old))
        /\ x # q => heap'[x] = heap[x]
    BY <2>2, <2>3
  <2>5. CASE x # q
    BY <2>4, <2>5 DEF Closed, Rings
  <2>6. CASE x = q
    <3>1. heap[q] \in Seq(Ring) /\ Len(heap[q]) \in Nat
      BY <2>3
    <3> SUFFICES ASSUME NEW ring, ring = CreateNextCircle(old) PROVE G
      OBVIOUS
    <3>2. /\ Len(heap'[q]) = Len(heap[q]) + 1
          /\ \A y \in 1 .. Len(heap[q]) : heap'[q][y] = heap[q][y]
          /\ heap'[q][Len(heap[q]) + 1] = ring
      BY <2>4, <3>1
    <3>3. ~ ring.m_bNoWrite
      BY DEF CreateNextCircle, NewCircle
    <3>4. j \in 1 .. Len(heap[q])
      BY <2>6, <3>1, <3>2, <3>3 DEF Rings, Closed
    <3> QED
      BY <2>6, <3>2, <3>4 DEF Rings, Closed
  <2> QED
    BY <2>5, <2>6
<1>6. CASE UNCHANGED vars
  BY <1>1, <1>6 DEF vars
<1>7. ASSUME NEW p \in Pushers, DrawPush(p) \/ PushStep(p) PROVE G
  <2>1. heap' = heap \/ PushAdvance(p) \/ PushNoWrite(p) \/ PushGrow(p)
    BY <1>7 DEF DrawPush, EnterPush, PushStep, PushLoadOwn, PushLoadThis, PushLoadBegin,
       PushScan, PushAwait, PushNext, PushStore, PushLink, PushCount, PushData, PushSign
  <2> QED
    BY <1>1, <1>2, <1>3, <1>5, <2>1
<1>8. ASSUME NEW c \in Poppers, DrawPop(c) \/ PopStep(c) PROVE G
  <2>1. heap' = heap \/ PopRelease(c)
    BY <1>8 DEF DrawPop, EnterPop, PopStep, PopLoadOwn, PopLoadBegin, PopAsk, PopAwait,
       PopNext, PopBump, PopTurn, PopSpin, PopData, PopClear
  <2> QED
    BY <1>1, <1>4, <2>1
<1> QED
  BY <1>6, <1>7, <1>8 DEF Next

(* Only one push is at work. *)
Single ==
  \A p, r \in Pushers : pc[p] # "pushDone" /\ pc[r] # "pushDone" => p = r

(* A closed ring is full: every place up to its end is pushed. *)
FullyClosed(q) ==
  \A i \in Rings(q) : Closed(q, i) =>
    \A k \in Nat : k < Fin(q, i) => Pushed(q, k)

(* No ring is closed at the start.                                        *)
LEMMA FullyClosedInit ==
  ASSUME Roomy, Inv, Init, NEW q \in Micros
  PROVE  FullyClosed(q)
<1>1. Len(heap[q]) = 1 /\ ~ heap[q][1].m_bNoWrite
  BY DEF Init, CreateCircle, NewCircle
<1>2. Rings(q) = {1}
  BY <1>1 DEF Rings
<1> QED
  BY <1>1, <1>2 DEF FullyClosed, Closed

(* The only push holds the place right after the window: what comes before *)
(* is drawn, and nobody else holds it. *)
LEMMA SingleCloses ==
  ASSUME Inv, Single, NEW p \in Pushers, pc[p] = "pushNoWrite"
  PROVE  \A k \in Nat : k < Fin(Micro(p), loc[p].this) => Pushed(Micro(p), k)
<1>1. PICK a, l, q, i, e : Pushing(p, a, l, q, i, e)
  BY PushIs
<1>2. /\ q = Micro(p) /\ i = loc[p].this /\ e = K(p) /\ e \in Nat /\ q \in Micros
      /\ At(q, e) < m_nPreWriteIndex /\ e = Fin(q, W(q)) /\ i = W(q)
  BY <1>1 DEF Pushing, CloserOK
<1> SUFFICES ASSUME NEW k \in Nat, k < e PROVE Pushed(q, k)
  BY <1>2
<1>3. At(q, k) < At(q, e) /\ At(q, k) \in Nat /\ At(q, e) \in Nat
  <2>1. At(q, k) \in Nat /\ At(q, e) \in Nat
    BY <1>2, PlaceIndex
  <2>2. Mode * k < Mode * e /\ Mode * k \in Nat /\ Mode * e \in Nat
    BY <1>2, Sizes
  <2>3. q \in Nat /\ Start \in Nat
    BY <1>2, Sizes DEF Micros
  <2> QED
    BY <2>1, <2>2, <2>3 DEF At
<1>4. m_nPreWriteIndex \in Nat
  BY InvTypes
<1>5. At(q, k) < m_nPreWriteIndex
  BY <1>2, <1>3, <1>4
<1>6. ASSUME NEW r \in Pushers, PushAt(r, q, k) PROVE FALSE
  <2>1. pc[r] # "pushDone" /\ K(r) = k
    BY <1>6 DEF PushAt
  <2>2. r = p
    BY <2>1 DEF Single
  <2>3. k = e
    BY <1>2, <2>1, <2>2
  <2> QED
    BY <1>2, <2>3
<1> QED
  BY <1>5, <1>6 DEF Pushed

(* One push alone closes only rings that are full.                        *)
LEMMA FullyClosedNext ==
  ASSUME Inv, Shape', [Next]_vars, Single, NEW q \in Micros, FullyClosed(q)
  PROVE  FullyClosed(q)'
<1> SUFFICES ASSUME NEW i \in Rings(q)', Closed(q, i)', NEW k \in Nat, k < Fin(q, i)'
             PROVE  Pushed(q, k)'
  BY DEF FullyClosed
<1>1. Pushed(q, k) => Pushed(q, k)'
  BY Monotone
<1>2. CASE i \in Rings(q) /\ Closed(q, i)
  <2>1. Fin(q, i)' = Fin(q, i)
    BY <1>2, RingsStay DEF Stays
  <2> QED
    BY <1>1, <1>2, <2>1 DEF FullyClosed
<1>3. ASSUME NEW p \in Pushers, PushNoWrite(p), Micro(p) = q, loc[p].this = i,
             i \in Rings(q)
      PROVE  Pushed(q, k)'
  <2>1. Shape
    BY DEF Inv
  <2>2. heap' = [heap EXCEPT ![q][i].m_bNoWrite = TRUE] /\ pc[p] = "pushNoWrite"
    BY <1>3 DEF PushNoWrite
  <2>3. heap \in [Micros -> Seq(Ring)] /\ heap[q] \in Seq(Ring) /\ i \in DOMAIN heap[q]
        /\ heap[q][i] \in Ring
    BY <1>3, <2>1 DEF Shape, TypeOK, Rings
  <2>4. /\ heap'[q][i].m_nBeginIndex = heap[q][i].m_nBeginIndex
        /\ heap'[q][i].m_nTotalSize = heap[q][i].m_nTotalSize
    BY <2>2, <2>3 DEF Ring
  <2>5. Fin(q, i)' = Fin(q, i)
    BY <2>4 DEF Fin, Beg, Size
  <2> QED
    BY <1>1, <1>3, <2>2, <2>5, SingleCloses
<1> QED
  BY <1>2, <1>3, Closing

(* What the pop that turns the chain waits for: the place right after the  *)
(* window.  A pop that came with an earlier place never sees its own cell  *)
(* read. *)
Turns(c) ==
  /\ pc[c] \in {"popNext", "popBump", "popTurn"} =>
       K(c) = Fin(Micro(c), loc[c].this)
  /\ pc[c] = "popAwait" =>
       K(c) = Fin(Micro(c), loc[c].this) \/ loc[c].scan = 0

(* The pop that waits for a closed ring to be drained gets past the       *)
(* first cell only with the place right after the window: with an         *)
(* earlier one that cell is its own, which it has not read.               *)
LEMMA Stuck ==
  ASSUME Roomy, Inv, NEW c \in Poppers, PopAwait(c), FullyClosed(Micro(c)), Turns(c)
  PROVE  K(c) = Fin(Micro(c), loc[c].this)
<1>0. pc[c] = "popAwait"
  BY DEF PopAwait
<1>1. PICK a, l, q, i, k : Popping(c, a, l, q, i, k)
  BY <1>0, PopIs
<1>2. /\ Shape /\ q \in Micros /\ QueueOK(q) /\ l \in Locals /\ Micro(c) = q
      /\ l = loc[c] /\ c \in Threads /\ i \in Rings(q) /\ a = pc[c]
      /\ loc[c].this = i /\ k \in Nat /\ k \in Places /\ Index(c) = At(q, k)
      /\ l.scan \in Nat /\ ~ Done(q, k) /\ k = K(c)
  BY <1>1 DEF Popping
<1>3. /\ RingOK(q, i) /\ Beg(q, i) \in Nat /\ Res(q, i) \in Nat
      /\ Res(q, i) <= Beg(q, i) /\ Size(q, i) \in Nat \ {0}
      /\ Fin(q, i) = Beg(q, i) + Size(q, i)
  BY <1>2, QueueIs
<1>4. /\ This(c) = heap[q][i] /\ Pool(c) = m_pPool[q][i]
  BY <1>2, <1>3, Window
<1>5. /\ Beg(q, i) <= k /\ k <= Fin(q, i) /\ k - Res(q, i) >= Size(q, i)
      /\ (k - Res(q, i)) % Half(q, i) = 0 /\ Closed(q, i)
  BY <1>0, <1>1, <1>2 DEF Popping, TurnerOK
<1> SUFFICES ASSUME k # Fin(q, i) PROVE FALSE
  BY <1>2
<1>6. l.scan = 0 /\ k < Fin(q, i)
  BY <1>0, <1>2, <1>3, <1>5 DEF Turns
<1> DEFINE m == k - Size(q, i) + 0
           cell == ScanCell(This(c), Index(c), 0)
           sign == ScanSign(This(c), Index(c), 0)
<1>7. m \in Nat /\ Res(q, i) <= m /\ m < Fin(q, i) /\ m = k - Size(q, i)
  BY <1>2, <1>3, <1>5
<1>8. /\ m_pPool[q][i][cell].m_nWrite = Sg(q, i, m)
      /\ sign = Sign(Lap(Size(q, i), m - Res(q, i)))
  BY <1>2, <1>3, <1>4, <1>5, ScanHere
<1>9. Pool(c)[cell].m_nWrite = sign
  BY <1>2, <1>6 DEF PopAwait
<1> HIDE DEF cell, sign
<1>10. Sg(q, i, m) = Sign(Lap(Size(q, i), m - Res(q, i)))
  BY <1>4, <1>8, <1>9
<1> HIDE DEF m
<1>11. Sg(q, i, m) % 2 = 0
  BY <1>2, <1>7, <1>10, Signs
<1>12. Sg(q, i, m) = Sg(q, i, k)
  <2> DEFINE s == Size(q, i)
             o == k - Res(q, i)
  <2>1. s \in Nat \ {0} /\ o \in Nat /\ m - Res(q, i) = o - s
    BY <1>2, <1>3, <1>5, <1>7
  <2> HIDE DEF s, o
  <2>2. (o - s) % s = o % s
    BY <2>1, LapFacts
  <2>3. (m - Res(q, i)) % s = o % s
    BY <2>1, <2>2
  <2> QED
    BY <2>3 DEF Sg, s, o
<1>13. Pushed(q, k)
  BY <1>2, <1>5, <1>6 DEF FullyClosed
<1>14. CellOK(q, i, k)
  BY <1>2, <1>5, <1>6 DEF QueueOK, CellsOK
<1> DEFINE e == Sign(Lap(Size(q, i), k - Res(q, i)))
<1>15. Sg(q, i, k) = e + 1
  BY <1>2, <1>13, <1>14 DEF CellOK
<1>16. e \in Nat /\ e % 2 = 0
  BY <1>2, <1>3, <1>5, <1>6, Signs
<1> HIDE DEF e
<1>17. (e + 1) % 2 = 1
  BY <1>16
<1> QED
  BY <1>11, <1>12, <1>15, <1>17

(* Labels of a pop that waits for a closed ring or turns the chain.       *)
Turning == {"popAwait", "popNext", "popBump", "popTurn"}

(* How a pop gets to lines 121-130 and 226-229. *)
LEMMA TurningSteps ==
  ASSUME Inv, Shape', [Next]_vars, NEW c \in Poppers, pc'[c] \in Turning
  PROVE  \/ pc'[c] = pc[c] /\ loc'[c] = loc[c]
         \/ PopAsk(c) \/ PopAwait(c) \/ PopNext(c) \/ PopBump(c)
<1> DEFINE G == \/ pc'[c] = pc[c] /\ loc'[c] = loc[c]
                \/ PopAsk(c) \/ PopAwait(c) \/ PopNext(c) \/ PopBump(c)
<1>0. /\ pc \in [Threads -> PushLabels \cup PopLabels] /\ loc \in [Threads -> Locals]
      /\ c \in Threads /\ c \notin Pushers
  BY InvTypes DEF Inv, Shape, TypeOK
<1>1. ASSUME NEW p \in Pushers, DrawPush(p) PROVE G
  BY <1>0, <1>1 DEF DrawPush, EnterPush, Goto
<1>2. ASSUME NEW p \in Pushers, PushStep(p) PROVE G
  BY <1>0, <1>2, PushHolds DEF Holds
<1>3. ASSUME NEW d \in Poppers, DrawPop(d) PROVE G
  <2>1. CASE d = c
    <3>1. pc'[c] = "popEnter"
      BY <1>0, <1>3, <2>1 DEF DrawPop, EnterPop, Goto
    <3> QED
      BY <3>1 DEF Turning
  <2>2. CASE d # c
    BY <1>0, <1>3, <2>2 DEF DrawPop, EnterPop, Goto
  <2> QED
    BY <2>1, <2>2
<1>4. ASSUME NEW d \in Poppers, PopStep(d) PROVE G
  <2>1. CASE d # c
    BY <1>0, <1>4, <2>1, PopHolds DEF Holds
  <2>2. CASE d = c
    <3>1. CASE PopLoadOwn(c)
      BY <1>0, <3>1 DEF PopLoadOwn, Goto, Turning
    <3>2. CASE PopLoadBegin(c)
      BY <1>0, <3>2 DEF PopLoadBegin, Goto, Turning
    <3>3. CASE PopTurn(c)
      BY <1>0, <3>3 DEF PopTurn, Goto, Turning
    <3>4. CASE PopRelease(c)
      BY <1>0, <3>4 DEF PopRelease, Goto, Turning
    <3>5. CASE PopSpin(c)
      BY <1>0, <3>5 DEF PopSpin, Goto, Turning
    <3>6. CASE PopData(c)
      BY <1>0, <3>6 DEF PopData, Goto, Turning
    <3>7. CASE PopClear(c)
      BY <1>0, <3>7 DEF PopClear, Return, Goto, Turning
    <3> QED
      BY <1>4, <2>2, <3>1, <3>2, <3>3, <3>4, <3>5, <3>6, <3>7 DEF PopStep
  <2> QED
    BY <2>1, <2>2
<1>5. CASE UNCHANGED vars
  BY <1>5 DEF vars
<1> QED
  BY <1>1, <1>2, <1>3, <1>4, <1>5 DEF Next

(* Every step keeps what a turning pop has waited for.                    *)
LEMMA TurnsNext ==
  ASSUME Roomy, Inv, Shape', [Next]_vars, NEW c \in Poppers,
         FullyClosed(Micro(c)), Turns(c)
  PROVE  Turns(c)'
<1>0. /\ pc \in [Threads -> PushLabels \cup PopLabels] /\ loc \in [Threads -> Locals]
      /\ c \in Threads
  BY InvTypes DEF Inv, Shape, TypeOK
<1> SUFFICES ASSUME pc'[c] \in Turning PROVE Turns(c)'
  BY DEF Turns, Turning
<1>1. CASE PopAsk(c)
  <2>1. pc[c] = "popAsk"
    BY <1>1 DEF PopAsk
  <2>2. PICK a, l, q, i, k : Popping(c, a, l, q, i, k)
    BY <2>1, PopIs
  <2>3. loc[c].scan = 0
    BY <2>1, <2>2 DEF Popping, TurnerOK
  <2>4. loc'[c].scan = 0 /\ pc'[c] \in {"popAwait", "popRetry"}
    BY <1>0, <1>1, <2>3 DEF PopAsk, Goto
  <2> QED
    BY <2>4 DEF Turns
<1>2. ASSUME pc[c] \in Turning, loc'[c].index = loc[c].index, loc'[c].this = loc[c].this,
             K(c) = Fin(Micro(c), loc[c].this)
      PROVE  K(c)' = Fin(Micro(c), loc[c].this)'
  <2>1. pc[c] # "popDone"
    BY <1>2 DEF Turning
  <2>2. PICK a, l, q, i, k : Popping(c, a, l, q, i, k)
    BY <2>1, PopIs
  <2>3. q \in Micros /\ i \in Rings(q) /\ Closed(q, i) /\ q = Micro(c) /\ i = loc[c].this
    BY <1>2, <2>2 DEF Popping, TurnerOK, Turning
  <2>4. Fin(q, i)' = Fin(q, i)
    BY <2>3, RingsStay DEF Stays
  <2>5. K(c)' = K(c) /\ Micro(c)' = q /\ loc'[c].this = i
    BY <1>2, <2>3 DEF K, Micro, Index
  <2> QED
    BY <1>2, <2>3, <2>4, <2>5
<1>3. CASE pc'[c] = pc[c] /\ loc'[c] = loc[c]
  BY <1>2, <1>3 DEF Turns, Turning
<1>4. CASE PopAwait(c)
  <2>1. K(c) = Fin(Micro(c), loc[c].this)
    BY <1>4, Stuck
  <2>2. pc[c] = "popAwait" /\ loc'[c].index = loc[c].index /\ loc'[c].this = loc[c].this
    BY <1>0, <1>4 DEF PopAwait, Locals
  <2> QED
    BY <1>2, <2>1, <2>2 DEF Turns, Turning
<1>5. CASE PopNext(c)
  <2>1. pc[c] = "popNext" /\ loc'[c] = loc[c] /\ pc'[c] = "popBump"
    BY <1>0, <1>5 DEF PopNext, Goto
  <2> QED
    BY <1>2, <2>1 DEF Turns, Turning
<1>6. CASE PopBump(c)
  <2>1. /\ pc[c] = "popBump" /\ loc'[c].index = loc[c].index
        /\ loc'[c].this = loc[c].this /\ pc'[c] = "popTurn"
    BY <1>0, <1>6 DEF PopBump, Goto, Locals
  <2> QED
    BY <1>2, <2>1 DEF Turns, Turning
<1> QED
  BY <1>1, <1>3, <1>4, <1>5, <1>6, TurningSteps

(* Pushers outside the team rest. *)
TeamOK ==
  /\ team \subseteq Pushers
  /\ \A p \in Pushers : p \notin team => pc[p] = "pushDone"

(* What only holds while one push is at work. *)
LoneOK ==
  /\ \A q \in Micros : Settled(q) /\ FullyClosed(q)
  /\ \A c \in Poppers : Turns(c)

(* A team starts with nobody at work.                                     *)
LEMMA TeamInitOK ==
  ASSUME TeamInit
  PROVE  TeamOK
BY ThreadsAssumption DEF TeamInit, Init, TeamOK, Threads

(* A team's step is a step of the micro queues.                           *)
LEMMA TeamSteps ==
  ASSUME TeamOK, [TeamNext]_<<vars, team>>
  PROVE  [Next]_vars /\ team' = team
BY DEF TeamOK, TeamNext, Next

(* Outsiders stay at rest.                                                *)
LEMMA TeamNextOK ==
  ASSUME Inv, TeamOK, [TeamNext]_<<vars, team>>
  PROVE  TeamOK'
<1> SUFFICES ASSUME NEW r \in Pushers, r \notin team PROVE pc'[r] = "pushDone"
  BY TeamSteps DEF TeamOK
<1>0. pc[r] = "pushDone" /\ r \in Threads /\ pc \in [Threads -> PushLabels \cup PopLabels]
  BY InvTypes DEF TeamOK, Inv, Shape, TypeOK
<1>1. ASSUME NEW p \in team, PushStep(p) PROVE pc'[r] = "pushDone"
  BY <1>0, <1>1, PushHolds DEF Holds, TeamOK
<1>2. ASSUME NEW p \in team, DrawPush(p) PROVE pc'[r] = "pushDone"
  BY <1>0, <1>2 DEF DrawPush, EnterPush, Goto
<1>3. ASSUME NEW c \in Poppers, PopStep(c) PROVE pc'[r] = "pushDone"
  BY <1>0, <1>3, PopHolds, ThreadsAssumption DEF Holds
<1>4. ASSUME NEW c \in Poppers, DrawPop(c) PROVE pc'[r] = "pushDone"
  BY <1>0, <1>4, ThreadsAssumption DEF DrawPop, EnterPop, Goto
<1>5. CASE UNCHANGED <<vars, team>>
  BY <1>0, <1>5 DEF vars
<1> QED
  BY <1>1, <1>2, <1>3, <1>4, <1>5 DEF TeamNext

(* In a team of one, one push at most is at work.                         *)
LEMMA AloneIsSingle ==
  ASSUME Roomy, TeamOK, Alone
  PROVE  Single
<1>1. IsFiniteSet(team)
  BY FS_Subset DEF Roomy, TeamOK
<1>2. PICK x : team = {x}
  BY <1>1, FS_Singleton DEF Alone
<1> QED
  BY <1>2 DEF TeamOK, Single

(* With one producer nothing is behind at the start,                      *)
LEMMA LoneInitOK ==
  ASSUME Roomy, Inv, Init
  PROVE  LoneOK
<1>1. \A c \in Poppers : pc[c] = "popDone"
  BY ThreadsAssumption DEF Init, Threads
<1> QED
  BY <1>1, SettledInit, FullyClosedInit DEF LoneOK, Turns

(* nor after any step.                                                    *)
LEMMA LoneNextOK ==
  ASSUME Roomy, Inv, Inv', [Next]_vars, Single, LoneOK
  PROVE  LoneOK'
<1>1. Shape' /\ \A c \in Poppers : Micro(c) \in Micros
  BY InvTypes DEF Inv
<1>2. ASSUME NEW q \in Micros PROVE Settled(q)'
  <2>1. \A c \in Poppers : pc[c] = "popTurn" /\ Micro(c) = q => K(c) = Fin(q, R(q))
    <3> SUFFICES ASSUME NEW c \in Poppers, pc[c] = "popTurn", Micro(c) = q
                 PROVE  K(c) = Fin(q, R(q))
      OBVIOUS
    <3>1. PICK a, l, x, i, k : Popping(c, a, l, x, i, k)
      BY PopIs
    <3>2. loc[c].this = R(q)
      BY <3>1 DEF Popping, TurnerOK
    <3> QED
      BY <3>2 DEF LoneOK, Turns
  <2>2. \A p \in Pushers : pc[p] = "pushGrow" /\ Micro(p) = q =>
          \A k \in Nat : k < Fin(q, W(q)) => Pushed(q, k)
    <3> SUFFICES ASSUME NEW p \in Pushers, pc[p] = "pushGrow", Micro(p) = q
                 PROVE  \A k \in Nat : k < Fin(q, W(q)) => Pushed(q, k)
      OBVIOUS
    <3>1. PICK a, l, x, i, k : Pushing(p, a, l, x, i, k)
      BY PushIs
    <3>2. W(q) \in Rings(q) /\ Closed(q, W(q))
      BY <3>1 DEF Pushing, GrowerOK, CloserOK
    <3> QED
      BY <3>2 DEF LoneOK, FullyClosed
  <2>3. Settled(q)
    BY DEF LoneOK
  <2> QED
    BY <2>1, <2>2, <2>3, SettledNext
<1>3. ASSUME NEW q \in Micros PROVE FullyClosed(q)'
  BY <1>1, FullyClosedNext DEF LoneOK
<1>4. ASSUME NEW c \in Poppers PROVE Turns(c)'
  BY <1>1, TurnsNext DEF LoneOK
<1> QED
  BY <1>2, <1>3, <1>4 DEF LoneOK

(* With one producer, reclaiming is safe in every ring, slid or not:      *)
(* line 230 frees only drained pools, nobody touches a freed one and      *)
(* nobody is left behind, whatever the poppers do.                        *)
THEOREM MicroLoneProducerSafe == Roomy => (TeamSpec => []LoneProducerSafe)
<1> DEFINE J == Inv /\ TeamOK /\ (Alone => LoneOK)
<1> SUFFICES ASSUME Roomy PROVE TeamSpec => []LoneProducerSafe
  OBVIOUS
<1>1. TeamInit => J
  BY InvInit, TeamInitOK, LoneInitOK DEF TeamInit
<1>2. J /\ [TeamNext]_<<vars, team>> => J'
  <2> SUFFICES ASSUME J, [TeamNext]_<<vars, team>> PROVE J'
    OBVIOUS
  <2>1. [Next]_vars /\ team' = team
    BY TeamSteps
  <2>2. Inv'
    BY <2>1, InvNext
  <2>3. TeamOK'
    BY TeamNextOK
  <2>4. Alone' => LoneOK'
    <3>1. Alone' => Alone
      BY <2>1 DEF Alone
    <3> QED
      BY <2>1, <2>2, <3>1, AloneIsSingle, LoneNextOK
  <2> QED
    BY <2>2, <2>3, <2>4
<1>3. J => LoneProducerSafe
  BY SettledDrained, SettledUse, SettledNear DEF LoneOK, LoneProducerSafe
<1> QED
  BY <1>1, <1>2, <1>3, PTL DEF TeamSpec
===========================================================================
