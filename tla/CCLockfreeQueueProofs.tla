----------------------- MODULE CCLockfreeQueueProofs -----------------------
(***************************************************************************)
(* The index layer of CCLockfreeQueue for any number of threads, any       *)
(* number of micro queues and any word size: no pop draws an index before  *)
(* a push has, and Push and Pop therefore use the micro queues the way     *)
(* MicroQueue assumes; GetSize never wraps; and a lone consumer is never   *)
(* told of an empty queue that was not.  The hypothesis IndicesFit keeps   *)
(* the indices below the point where the signed subtraction of             *)
(* uint32_t_after overflows.                                               *)
(***************************************************************************)
EXTENDS HonestEmpty, MicroQueueProofs

(* No index and no announcement number goes beyond this one. *)
Limit == CCLockfreeQueueStartIndex + MaxPush + Cardinality(Poppers)

LEMMA LimitType ==
  ASSUME IndicesFit
  PROVE  /\ Limit \in Nat
         /\ Limit < WordSize \div 2
         /\ Cardinality(Poppers) \in Nat
         /\ CCLockfreeQueueStartIndex + MaxPush + Cardinality(Poppers) = Limit
BY FS_CardinalityType, StartAssumption, MaxPushAssumption DEF IndicesFit, Limit

(* Word is the identity below WordSize, and adds WordSize to the negative  *)
(* numbers above -WordSize. *)
LEMMA WordIsSmall ==
  /\ \A n \in Nat : n < WordSize => Word(n) = n
  /\ \A n \in Int : n < 0 /\ - WordSize <= n => Word(n) = n + WordSize
BY WordAssumption DEF Word

(* Among indices up to Limit uint32_t_after decides the order exactly. *)
LEMMA AfterExact ==
  ASSUME IndicesFit, NEW a \in Nat, NEW b \in Nat, a <= Limit, b <= Limit
  PROVE  uint32_t_after(Word(a), Word(b)) = {b < a}
<1> DEFINE half == WordSize \div 2
<1>1. half \in Nat /\ 2 * half <= WordSize /\ Limit \in Nat /\ Limit < half
  BY WordAssumption, LimitType
<1>2. Word(a) = a /\ Word(b) = b
  BY <1>1, WordAssumption, WordIsSmall
<1>3. Signed(Word(a)) = a /\ Signed(Word(b)) = b
  BY <1>1, <1>2 DEF Signed
<1>4. Signed(Word(b - a)) = b - a
  <2>1. CASE b >= a
    <3>1. Word(b - a) = b - a
      BY <1>1, <2>1, WordAssumption, WordIsSmall
    <3> QED
      BY <1>1, <2>1, <3>1 DEF Signed
  <2>2. CASE b < a
    <3>1. Word(b - a) = b - a + WordSize
      BY <1>1, <2>2, WordAssumption, WordIsSmall
    <3> QED
      BY <1>1, <2>2, <3>1, WordAssumption DEF Signed
  <2> QED
    BY <2>1, <2>2
<1>5. uint32_t_after(Word(a), Word(b)) = {b - a < 0, b - a < 0}
  BY <1>3, <1>4 DEF uint32_t_after
<1> QED
  BY <1>5

---------------------------------------------------------------------------

(* The inductive invariant. *)
IndexInv ==
  /\ QueueTypeOK
  /\ m_nPreWriteIndex <= CCLockfreeQueueStartIndex + MaxPush
  /\ PreReadAccounts
  /\ CommitBound
  /\ \A c \in Poppers : call[c] = "check" => pre[c] <= Limit

LEMMA CountsFinite ==
  ASSUME IndicesFit
  PROVE  /\ IsFiniteSet(Committed)
         /\ IsFiniteSet(Announced)
         /\ \A w : IsFiniteSet(Hopeful(w))
BY FS_Subset DEF IndicesFit, Committed, Announced, Hopeful

(* At most all poppers are announced, and a popper is not both committed   *)
(* and still hoping. *)
LEMMA CountsFit ==
  ASSUME IndicesFit, NEW w
  PROVE  /\ Cardinality(Committed) \in Nat
         /\ Cardinality(Announced) \in Nat
         /\ Cardinality(Hopeful(w)) \in Nat
         /\ Cardinality(Announced) <= Cardinality(Poppers)
         /\ Cardinality(Committed) + Cardinality(Hopeful(w))
              <= Cardinality(Announced)
<1>1. /\ IsFiniteSet(Committed) /\ IsFiniteSet(Announced)
      /\ IsFiniteSet(Hopeful(w))
  BY CountsFinite
<1>2. /\ Cardinality(Committed) \in Nat /\ Cardinality(Announced) \in Nat
      /\ Cardinality(Hopeful(w)) \in Nat
  BY <1>1, FS_CardinalityType
<1>3. Cardinality(Announced) <= Cardinality(Poppers)
  BY FS_Subset DEF IndicesFit, Announced
<1>4. Committed \cap Hopeful(w) = {}
  BY DEF Committed, Hopeful
<1>5. Cardinality(Committed \cup Hopeful(w))
        = Cardinality(Committed) + Cardinality(Hopeful(w))
  <2>1. Cardinality(Committed \cap Hopeful(w)) = 0
    BY <1>4, FS_EmptySet
  <2>2. Cardinality(Committed \cup Hopeful(w))
          = Cardinality(Committed) + Cardinality(Hopeful(w))
              - Cardinality(Committed \cap Hopeful(w))
    BY <1>1, FS_Union
  <2> QED
    BY <1>2, <2>1, <2>2
<1>6. Cardinality(Committed \cup Hopeful(w)) <= Cardinality(Announced)
  <2>1. Committed \cup Hopeful(w) \subseteq Announced
    BY DEF Committed, Hopeful, Announced
  <2> QED
    BY <1>1, <2>1, FS_Subset
<1> QED
  BY <1>2, <1>3, <1>5, <1>6

(* What CommitBound says of the present write index. *)
LEMMA ReadBehind ==
  ASSUME IndicesFit, IndexInv
  PROVE  m_nReadIndex + Cardinality(Committed) <= m_nPreWriteIndex
<1>1. m_nPreWriteIndex \in m_nPreWriteIndex .. Limit
  BY LimitType, StartAssumption, MaxPushAssumption DEF IndexInv, QueueTypeOK
<1>2. m_nReadIndex + Cardinality(Committed)
        + Cardinality(Hopeful(m_nPreWriteIndex)) <= m_nPreWriteIndex
  BY <1>1 DEF IndexInv, CommitBound, Limit
<1> QED
  BY <1>2, CountsFit DEF IndexInv, QueueTypeOK

---------------------------------------------------------------------------

(* When only popper c moves, each count changes by c's joining or leaving. *)
LEMMA OneMoves ==
  ASSUME IndicesFit, NEW c \in Poppers, NEW w,
         \A d \in Poppers \ {c} : call'[d] = call[d] /\ pre'[d] = pre[d]
  PROVE  /\ Cardinality(Committed)' = Cardinality(Committed)
               + Has(c, Committed') - Has(c, Committed)
         /\ Cardinality(Announced)' = Cardinality(Announced)
               + Has(c, Announced') - Has(c, Announced)
         /\ Cardinality(Hopeful(w))' = Cardinality(Hopeful(w))
               + Has(c, Hopeful(w)') - Has(c, Hopeful(w))
<1>1. /\ Committed \ {c} = Committed' \ {c}
      /\ Announced \ {c} = Announced' \ {c}
      /\ Hopeful(w) \ {c} = Hopeful(w)' \ {c}
  BY DEF Committed, Announced, Hopeful
<1>2. /\ IsFiniteSet(Committed)
      /\ IsFiniteSet(Announced)
      /\ IsFiniteSet(Hopeful(w))
  BY CountsFinite
<1>3. Cardinality(Committed') = Cardinality(Committed)
        + Has(c, Committed') - Has(c, Committed)
  BY <1>1, <1>2, CountStep
<1>4. Cardinality(Announced') = Cardinality(Announced)
        + Has(c, Announced') - Has(c, Announced)
  BY <1>1, <1>2, CountStep
<1>5. Cardinality(Hopeful(w)') = Cardinality(Hopeful(w))
        + Has(c, Hopeful(w)') - Has(c, Hopeful(w))
  BY <1>1, <1>2, CountStep
<1> QED
  BY <1>3, <1>4, <1>5

(* The constructor establishes the invariant. *)
LEMMA IndexInit ==
  ASSUME IndicesFit, QueueInit
  PROVE  IndexInv
<1>1. Committed = {} /\ Announced = {} /\ \A w : Hopeful(w) = {}
  BY DEF QueueInit, Committed, Announced, Hopeful
<1>2. /\ Cardinality(Committed) = 0 /\ Cardinality(Announced) = 0
      /\ \A w : Cardinality(Hopeful(w)) = 0
  BY <1>1, FS_EmptySet
<1>3. QueueTypeOK
  BY StartAssumption DEF QueueInit, Init, QueueTypeOK
<1>4. PreReadAccounts
  BY <1>2, StartAssumption DEF QueueInit, Init, PreReadAccounts
<1>5. CommitBound
  BY <1>2, StartAssumption, MaxPushAssumption, LimitType
     DEF QueueInit, Init, CommitBound, Limit
<1>6. \A c \in Poppers : call[c] # "check"
  BY DEF QueueInit
<1> QED
  BY <1>3, <1>4, <1>5, <1>6, StartAssumption, MaxPushAssumption
     DEF IndexInv, QueueInit, Init

(* Push raises the write index: fewer values of w to account for. *)
LEMMA IndexPush ==
  ASSUME IndicesFit, IndexInv, NEW p \in Pushers, Push(p)
  PROVE  IndexInv'
<1>1. /\ m_nPreWriteIndex' = m_nPreWriteIndex + 1
      /\ m_nPreWriteIndex < CCLockfreeQueueStartIndex + MaxPush
      /\ UNCHANGED <<m_nReadIndex, m_nPreReadIndex, call, pre>>
  BY DEF Push, DrawPush, popVars
<1>2. CommitBound'
  <2> SUFFICES ASSUME NEW w \in m_nPreWriteIndex' .. Limit
               PROVE  m_nReadIndex + Cardinality(Committed)
                        + Cardinality(Hopeful(w)) <= w
    BY <1>1 DEF CommitBound, Committed, Hopeful, Limit
  <2>1. w \in m_nPreWriteIndex .. Limit
    BY <1>1, LimitType DEF IndexInv, QueueTypeOK
  <2> QED
    BY <2>1 DEF IndexInv, CommitBound, Limit
<1>3. QueueTypeOK' /\ PreReadAccounts'
  BY <1>1 DEF IndexInv, QueueTypeOK, PreReadAccounts, Announced
<1>4. m_nPreWriteIndex' <= CCLockfreeQueueStartIndex + MaxPush
  BY <1>1, StartAssumption, MaxPushAssumption DEF IndexInv, QueueTypeOK
<1> QED
  BY <1>1, <1>2, <1>3, <1>4 DEF IndexInv

(* An announcement gets a number no smaller than the number of indices     *)
(* that read, committed and hopeful pops account for. *)
LEMMA IndexAnnounce ==
  ASSUME IndicesFit, IndexInv, NEW c \in Poppers, PopAnnounce(c)
  PROVE  IndexInv'
<1>1. /\ call[c] = "idle"
      /\ pre' = [pre EXCEPT ![c] = m_nPreReadIndex]
      /\ m_nPreReadIndex' = m_nPreReadIndex + 1
      /\ call' = [call EXCEPT ![c] = "check"]
      /\ UNCHANGED <<m_nPreWriteIndex, m_nReadIndex>>
  BY DEF PopAnnounce, vars
<1>2. QueueTypeOK'
  BY <1>1 DEF IndexInv, QueueTypeOK
<1>3. \A d \in Poppers \ {c} : call'[d] = call[d] /\ pre'[d] = pre[d]
  BY <1>1 DEF IndexInv, QueueTypeOK
<1>4. call'[c] = "check" /\ pre'[c] = m_nPreReadIndex
  BY <1>1 DEF IndexInv, QueueTypeOK
<1>5. /\ c \notin Committed /\ c \notin Committed'
      /\ c \notin Announced /\ c \in Announced'
      /\ \A w : c \notin Hopeful(w) /\ (c \in Hopeful(w)' <=> m_nPreReadIndex < w)
  BY <1>1, <1>4 DEF Committed, Announced, Hopeful
<1>6. PreReadAccounts'
  <2>1. Cardinality(Announced)' = Cardinality(Announced) + 1
    BY <1>3, <1>5, OneMoves, CountsFit DEF Has
  <2> QED
    BY <1>1, <2>1, CountsFit DEF IndexInv, QueueTypeOK, PreReadAccounts
<1>7. CommitBound'
  <2> SUFFICES ASSUME NEW w \in m_nPreWriteIndex .. Limit
               PROVE  m_nReadIndex + Cardinality(Committed)'
                        + Cardinality(Hopeful(w))' <= w
    BY <1>1 DEF CommitBound, Limit
  <2>1. Cardinality(Committed)' = Cardinality(Committed)
    BY <1>3, <1>5, OneMoves, CountsFit DEF Has
  <2>2. Cardinality(Hopeful(w))' = Cardinality(Hopeful(w))
          + IF m_nPreReadIndex < w THEN 1 ELSE 0
    BY <1>3, <1>5, OneMoves, CountsFit DEF Has
  <2>3. m_nReadIndex + Cardinality(Committed) + Cardinality(Hopeful(w)) <= w
    BY DEF IndexInv, CommitBound, Limit
  <2>4. m_nReadIndex + Cardinality(Committed) + Cardinality(Hopeful(w))
          <= m_nPreReadIndex
    BY CountsFit DEF IndexInv, QueueTypeOK, PreReadAccounts
  <2> QED
    BY <2>1, <2>2, <2>3, <2>4, CountsFit, LimitType DEF IndexInv, QueueTypeOK
<1>8. m_nPreReadIndex <= Limit
  <2>1. /\ m_nReadIndex \in Nat /\ m_nPreWriteIndex \in Nat
        /\ CCLockfreeQueueStartIndex \in Nat /\ MaxPush \in Nat
        /\ m_nPreWriteIndex <= CCLockfreeQueueStartIndex + MaxPush
    BY StartAssumption, MaxPushAssumption DEF IndexInv, QueueTypeOK
  <2>2. /\ Cardinality(Committed) \in Nat /\ Cardinality(Announced) \in Nat
        /\ Cardinality(Announced) <= Cardinality(Poppers)
        /\ Cardinality(Poppers) \in Nat
    BY CountsFit, FS_CardinalityType DEF IndicesFit
  <2>3. m_nReadIndex + Cardinality(Committed) <= m_nPreWriteIndex
    BY ReadBehind
  <2>4. m_nReadIndex <= CCLockfreeQueueStartIndex + MaxPush
    BY <2>1, <2>2, <2>3
  <2>5. m_nPreReadIndex = m_nReadIndex + Cardinality(Announced)
    BY DEF IndexInv, PreReadAccounts
  <2> QED
    BY <2>1, <2>2, <2>4, <2>5 DEF Limit
<1>9. \A d \in Poppers : call'[d] = "check" => pre'[d] <= Limit
  BY <1>3, <1>4, <1>8 DEF IndexInv
<1> QED
  BY <1>1, <1>2, <1>6, <1>7, <1>9 DEF IndexInv

(* The test of line 283 turns a hopeful pop into a committed one, or makes *)
(* it give up. *)
LEMMA IndexCheck ==
  ASSUME IndicesFit, IndexInv, NEW c \in Poppers, PopCheck(c)
  PROVE  IndexInv'
<1>1. /\ call[c] = "check"
      /\ UNCHANGED <<m_nPreWriteIndex, m_nReadIndex, m_nPreReadIndex, pre>>
  BY DEF PopCheck, vars
<1>2. uint32_t_after(Word(m_nPreWriteIndex), Word(pre[c]))
        = {pre[c] < m_nPreWriteIndex}
  <2>1. m_nPreWriteIndex \in Nat /\ pre[c] \in Nat /\ pre[c] <= Limit
    BY <1>1 DEF IndexInv, QueueTypeOK
  <2>2. m_nPreWriteIndex <= Limit
    BY LimitType, StartAssumption, MaxPushAssumption
       DEF IndexInv, QueueTypeOK, Limit
  <2> QED
    BY <2>1, <2>2, AfterExact
<1>3. call' = [call EXCEPT ![c] = IF pre[c] < m_nPreWriteIndex
                                    THEN "index" ELSE "undo"]
  BY <1>2 DEF PopCheck
<1>4. QueueTypeOK'
  BY <1>1, <1>3 DEF IndexInv, QueueTypeOK
<1>5. \A d \in Poppers \ {c} : call'[d] = call[d] /\ pre'[d] = pre[d]
  BY <1>1, <1>3 DEF IndexInv, QueueTypeOK
<1>6. call'[c] = IF pre[c] < m_nPreWriteIndex THEN "index" ELSE "undo"
  BY <1>3 DEF IndexInv, QueueTypeOK
<1>7. /\ c \notin Committed
      /\ c \in Committed' <=> pre[c] < m_nPreWriteIndex
      /\ c \in Announced /\ c \in Announced'
      /\ \A w : (c \in Hopeful(w) <=> pre[c] < w) /\ c \notin Hopeful(w)'
  BY <1>1, <1>6 DEF Committed, Announced, Hopeful
<1>8. PreReadAccounts'
  <2>1. Cardinality(Announced)' = Cardinality(Announced)
    BY <1>5, <1>7, OneMoves, CountsFit DEF Has
  <2> QED
    BY <1>1, <2>1 DEF IndexInv, PreReadAccounts
<1>9. CommitBound'
  <2> SUFFICES ASSUME NEW w \in m_nPreWriteIndex .. Limit
               PROVE  m_nReadIndex + Cardinality(Committed)'
                        + Cardinality(Hopeful(w))' <= w
    BY <1>1 DEF CommitBound, Limit
  <2>1. Cardinality(Committed)' = Cardinality(Committed)
          + IF pre[c] < m_nPreWriteIndex THEN 1 ELSE 0
    BY <1>5, <1>7, OneMoves, CountsFit DEF Has
  <2>2. Cardinality(Hopeful(w))' = Cardinality(Hopeful(w))
          - IF pre[c] < w THEN 1 ELSE 0
    BY <1>5, <1>7, OneMoves, CountsFit DEF Has
  <2>3. m_nReadIndex + Cardinality(Committed) + Cardinality(Hopeful(w)) <= w
    BY DEF IndexInv, CommitBound, Limit
  <2>4. pre[c] \in Nat /\ m_nPreWriteIndex \in Nat /\ m_nReadIndex \in Nat
    BY DEF IndexInv, QueueTypeOK
  <2> QED
    BY <2>1, <2>2, <2>3, <2>4, CountsFit, LimitType
<1>10. \A d \in Poppers : call'[d] = "check" => pre'[d] <= Limit
  BY <1>1, <1>5, <1>6 DEF IndexInv
<1> QED
  BY <1>1, <1>4, <1>8, <1>9, <1>10 DEF IndexInv

(* A committed pop exchanges its commitment for a read index. *)
LEMMA IndexDraw ==
  ASSUME IndicesFit, IndexInv, NEW c \in Poppers, PopIndex(c)
  PROVE  IndexInv'
<1>1. /\ call[c] = "index"
      /\ m_nReadIndex' = m_nReadIndex + 1
      /\ call' = [call EXCEPT ![c] = "idle"]
      /\ pre' = [pre EXCEPT ![c] = 0]
      /\ UNCHANGED <<m_nPreWriteIndex, m_nPreReadIndex>>
  BY DEF PopIndex
<1>2. QueueTypeOK'
  BY <1>1 DEF IndexInv, QueueTypeOK
<1>3. \A d \in Poppers \ {c} : call'[d] = call[d] /\ pre'[d] = pre[d]
  BY <1>1 DEF IndexInv, QueueTypeOK
<1>4. call'[c] = "idle"
  BY <1>1 DEF IndexInv, QueueTypeOK
<1>5. /\ c \in Committed /\ c \notin Committed'
      /\ c \in Announced /\ c \notin Announced'
      /\ \A w : c \notin Hopeful(w) /\ c \notin Hopeful(w)'
  BY <1>1, <1>4 DEF Committed, Announced, Hopeful
<1>6. PreReadAccounts'
  <2>1. Cardinality(Announced)' = Cardinality(Announced) - 1
    BY <1>3, <1>5, OneMoves, CountsFit DEF Has
  <2> QED
    BY <1>1, <2>1, CountsFit DEF IndexInv, QueueTypeOK, PreReadAccounts
<1>7. CommitBound'
  <2> SUFFICES ASSUME NEW w \in m_nPreWriteIndex .. Limit
               PROVE  m_nReadIndex + 1 + Cardinality(Committed)'
                        + Cardinality(Hopeful(w))' <= w
    BY <1>1 DEF CommitBound, Limit
  <2>1. /\ Cardinality(Committed)' = Cardinality(Committed) - 1
        /\ Cardinality(Hopeful(w))' = Cardinality(Hopeful(w))
    BY <1>3, <1>5, OneMoves, CountsFit DEF Has
  <2>2. m_nReadIndex + Cardinality(Committed) + Cardinality(Hopeful(w)) <= w
    BY DEF IndexInv, CommitBound, Limit
  <2> QED
    BY <2>1, <2>2, CountsFit, LimitType DEF IndexInv, QueueTypeOK
<1>8. \A d \in Poppers : call'[d] = "check" => pre'[d] <= Limit
  BY <1>3, <1>4 DEF IndexInv
<1> QED
  BY <1>1, <1>2, <1>6, <1>7, <1>8 DEF IndexInv

(* A pop that gave up takes its announcement back. *)
LEMMA IndexUndo ==
  ASSUME IndicesFit, IndexInv, NEW c \in Poppers, PopUndo(c)
  PROVE  IndexInv'
<1>1. /\ call[c] = "undo"
      /\ m_nPreReadIndex' = m_nPreReadIndex - 1
      /\ call' = [call EXCEPT ![c] = "idle"]
      /\ pre' = [pre EXCEPT ![c] = 0]
      /\ UNCHANGED <<m_nPreWriteIndex, m_nReadIndex>>
  BY DEF PopUndo, vars
<1>2. \A d \in Poppers \ {c} : call'[d] = call[d] /\ pre'[d] = pre[d]
  BY <1>1 DEF IndexInv, QueueTypeOK
<1>3. call'[c] = "idle"
  BY <1>1 DEF IndexInv, QueueTypeOK
<1>4. /\ c \notin Committed /\ c \notin Committed'
      /\ c \in Announced /\ c \notin Announced'
      /\ \A w : c \notin Hopeful(w) /\ c \notin Hopeful(w)'
  BY <1>1, <1>3 DEF Committed, Announced, Hopeful
<1>5. /\ Cardinality(Announced)' = Cardinality(Announced) - 1
      /\ Cardinality(Announced)' \in Nat
  <2>1. Cardinality(Announced)' = Cardinality(Announced) - 1
    BY <1>2, <1>4, OneMoves, CountsFit DEF Has
  <2>2. Cardinality(Announced) # 0
    BY <1>4, CountsFinite, FS_EmptySet
  <2> QED
    BY <2>1, <2>2, CountsFit
<1>6. PreReadAccounts'
  BY <1>1, <1>5, CountsFit DEF IndexInv, QueueTypeOK, PreReadAccounts
<1>7. QueueTypeOK'
  <2>1. m_nPreReadIndex' \in Nat
    BY <1>1, <1>5, <1>6 DEF IndexInv, QueueTypeOK, PreReadAccounts
  <2> QED
    BY <1>1, <2>1 DEF IndexInv, QueueTypeOK
<1>8. CommitBound'
  <2> SUFFICES ASSUME NEW w \in m_nPreWriteIndex .. Limit
               PROVE  m_nReadIndex + Cardinality(Committed)'
                        + Cardinality(Hopeful(w))' <= w
    BY <1>1 DEF CommitBound, Limit
  <2>1. /\ Cardinality(Committed)' = Cardinality(Committed)
        /\ Cardinality(Hopeful(w))' = Cardinality(Hopeful(w))
    BY <1>2, <1>4, OneMoves, CountsFit DEF Has
  <2> QED
    BY <2>1 DEF IndexInv, CommitBound, Limit
<1>9. \A d \in Poppers : call'[d] = "check" => pre'[d] <= Limit
  BY <1>2, <1>3 DEF IndexInv
<1> QED
  BY <1>1, <1>6, <1>7, <1>8, <1>9 DEF IndexInv

(* A step inside a micro queue draws no index. *)
LEMMA InsideKeepsIndices ==
  /\ \A p \in Pushers : PushStep(p) => UNCHANGED indexVars
  /\ \A c \in Poppers : PopStep(c) => UNCHANGED indexVars
<1>1. ASSUME NEW p \in Pushers, PushStep(p)
      PROVE  UNCHANGED indexVars
  BY <1>1 DEF PushStep, PushLoadOwn, PushLoadThis, PushLoadBegin, PushScan,
              PushAdvance, PushNoWrite, PushAwait, PushNext, PushGrow,
              PushStore, PushLink, PushCount, PushData, PushSign
<1>2. ASSUME NEW c \in Poppers, PopStep(c)
      PROVE  UNCHANGED indexVars
  BY <1>2 DEF PopStep, PopLoadOwn, PopLoadBegin, PopAsk, PopAwait, PopNext,
              PopBump, PopTurn, PopRelease, PopSpin, PopData, PopClear
<1> QED
  BY <1>1, <1>2

(* All other steps leave the index layer alone. *)
LEMMA IndexUnchanged ==
  ASSUME IndexInv, UNCHANGED <<indexVars, popVars>>
  PROVE  IndexInv'
BY DEF IndexInv, QueueTypeOK, PreReadAccounts, CommitBound, Committed,
       Announced, Hopeful, indexVars, popVars

LEMMA IndexStep ==
  ASSUME IndicesFit, IndexInv, [QueueNext]_queueVars
  PROVE  IndexInv'
<1>1. ASSUME NEW p \in Pushers, Push(p) \/ PushInside(p)
      PROVE  IndexInv'
  BY <1>1, IndexPush, IndexUnchanged, InsideKeepsIndices
     DEF PushInside
<1>2. ASSUME NEW c \in Poppers, PopAnnounce(c) \/ PopCall(c) \/ PopInside(c)
      PROVE  IndexInv'
  <2>1. CASE PopAnnounce(c)  BY <2>1, IndexAnnounce
  <2>2. CASE PopCheck(c)  BY <2>2, IndexCheck
  <2>3. CASE PopIndex(c)  BY <2>3, IndexDraw
  <2>4. CASE PopUndo(c)  BY <2>4, IndexUndo
  <2>5. CASE PopInside(c)
    BY <2>5, IndexUnchanged, InsideKeepsIndices DEF PopInside
  <2> QED
    BY <1>2, <2>1, <2>2, <2>3, <2>4, <2>5 DEF PopCall
<1>3. CASE SizeRead \/ SizeWrite
  BY <1>3, IndexUnchanged DEF SizeRead, SizeWrite, vars, indexVars
<1>4. CASE UNCHANGED queueVars
  BY <1>4, IndexUnchanged DEF queueVars, indexVars, popVars
<1> QED
  BY <1>1, <1>2, <1>3, <1>4 DEF QueueNext

(* However announcements, undos and pushes interleave, there is an index   *)
(* for every pop that passed the emptiness test, and none draws an index   *)
(* before a push has: the quick Pop of lines 279-291 is sound. *)
THEOREM PopsNeverOvertake ==
  ASSUME IndicesFit
  PROVE  QueueSpec => [](PreReadAccounts /\ CommitBound /\ NeverOvertake)
<1>1. QueueInit => IndexInv
  BY IndexInit
<1>2. IndexInv /\ [QueueNext]_queueVars => IndexInv'
  BY IndexStep
<1>3. IndexInv => PreReadAccounts /\ CommitBound /\ NeverOvertake
  BY ReadBehind DEF IndexInv, NeverOvertake
<1> QED
  BY <1>1, <1>2, <1>3, PTL DEF QueueSpec

(* A pop that draws an index finds one that a push has drawn. *)
LEMMA DrawIsAllowed ==
  ASSUME IndicesFit, IndexInv, NEW c \in Poppers, PopIndex(c)
  PROVE  DrawPop(c)
<1>1. c \in Committed
  BY DEF PopIndex, Committed
<1>2. Cardinality(Committed) \in Nat /\ Cardinality(Committed) # 0
  BY <1>1, CountsFit, CountsFinite, FS_EmptySet
<1>3. m_nReadIndex < m_nPreWriteIndex
  BY <1>2, ReadBehind DEF IndexInv, QueueTypeOK
<1> QED
  BY <1>3 DEF PopIndex, DrawPop

(* CCLockfreeQueue implements MicroQueue: every step of Push, Pop and      *)
(* GetSize is a step of MicroQueue, in which a pop draws only indices that *)
(* a push has drawn, or leaves its variables unchanged. *)
THEOREM QueueRefinesMicroQueue ==
  ASSUME IndicesFit
  PROVE  QueueSpec => ImplementsMicroQueue
<1>1. QueueInit => IndexInv
  BY IndexInit
<1>2. IndexInv /\ [QueueNext]_queueVars => IndexInv'
  BY IndexStep
<1>3. QueueInit => Init
  BY DEF QueueInit
<1>4. IndexInv /\ [QueueNext]_queueVars => [Next]_vars
  <2> SUFFICES ASSUME IndexInv, [QueueNext]_queueVars PROVE [Next]_vars
    OBVIOUS
  <2>1. ASSUME NEW p \in Pushers, Push(p) \/ PushInside(p)
        PROVE  Next
    BY <2>1 DEF Push, PushInside, Next
  <2>2. ASSUME NEW c \in Poppers,
               PopAnnounce(c) \/ PopCall(c) \/ PopInside(c)
        PROVE  [Next]_vars
    <3>1. CASE PopAnnounce(c) \/ PopCheck(c) \/ PopUndo(c)
      BY <3>1 DEF PopAnnounce, PopCheck, PopUndo
    <3>2. CASE PopIndex(c)
      BY <3>2, DrawIsAllowed DEF Next
    <3>3. CASE PopInside(c)
      BY <3>3 DEF PopInside, Next
    <3> QED
      BY <2>2, <3>1, <3>2, <3>3 DEF PopCall
  <2>3. CASE SizeRead \/ SizeWrite
    BY <2>3 DEF SizeRead, SizeWrite
  <2>4. CASE UNCHANGED queueVars
    BY <2>4 DEF queueVars, vars
  <2> QED
    BY <2>1, <2>2, <2>3, <2>4 DEF QueueNext
<1> QED
  BY <1>1, <1>2, <1>3, <1>4, PTL DEF QueueSpec, ImplementsMicroQueue, Spec


---------------------------------------------------------------------------

(* What GetSize holds between its loads is an index pops have reached, and *)
(* what it returned was an amount pushed. *)
SizeInv ==
  /\ sizing => /\ nRead \in Nat
               /\ CCLockfreeQueueStartIndex <= nRead /\ nRead <= m_nReadIndex
  /\ size \in Nat
  /\ SizeSane
  /\ CCLockfreeQueueStartIndex <= m_nReadIndex

(* The indices only grow. *)
LEMMA IndicesGrow ==
  ASSUME IndicesFit, IndexInv, [QueueNext]_queueVars
  PROVE  m_nPreWriteIndex' >= m_nPreWriteIndex /\ m_nReadIndex' >= m_nReadIndex
<1>0. m_nPreWriteIndex \in Nat /\ m_nReadIndex \in Nat
  BY DEF IndexInv, QueueTypeOK
<1>1. ASSUME NEW p \in Pushers, Push(p) \/ PushInside(p)
      PROVE  (UNCHANGED m_nReadIndex)
             /\ m_nPreWriteIndex' \in {m_nPreWriteIndex, m_nPreWriteIndex + 1}
  BY <1>1, InsideKeepsIndices DEF Push, DrawPush, PushInside, indexVars
<1>2. ASSUME NEW c \in Poppers, PopAnnounce(c) \/ PopCall(c) \/ PopInside(c)
      PROVE  UNCHANGED m_nPreWriteIndex /\ m_nReadIndex' \in {m_nReadIndex, m_nReadIndex + 1}
  BY <1>2, InsideKeepsIndices
     DEF PopAnnounce, PopCall, PopCheck, PopIndex, PopUndo, PopInside, indexVars, vars
<1>3. CASE SizeRead \/ SizeWrite \/ UNCHANGED queueVars
  BY <1>0, <1>3 DEF SizeRead, SizeWrite, vars, queueVars
<1> QED
  BY <1>0, <1>1, <1>2, <1>3 DEF QueueNext

LEMMA SizeStep ==
  ASSUME IndicesFit, IndexInv, SizeInv, [QueueNext]_queueVars
  PROVE  SizeInv'
<1>1. /\ m_nPreWriteIndex' >= m_nPreWriteIndex /\ m_nReadIndex' >= m_nReadIndex
      /\ IndexInv'
  BY IndicesGrow, IndexStep
<1>2. /\ m_nPreWriteIndex \in Nat /\ m_nReadIndex \in Nat
      /\ m_nPreWriteIndex' \in Nat /\ m_nReadIndex' \in Nat
      /\ CCLockfreeQueueStartIndex \in Nat
      /\ m_nReadIndex <= m_nPreWriteIndex
  <2>1. /\ m_nPreWriteIndex \in Nat /\ m_nReadIndex \in Nat
        /\ m_nPreWriteIndex' \in Nat /\ m_nReadIndex' \in Nat
    BY <1>1 DEF IndexInv, QueueTypeOK
  <2>2. m_nReadIndex + Cardinality(Committed) <= m_nPreWriteIndex /\ Cardinality(Committed) \in Nat
    BY ReadBehind, CountsFit
  <2> QED
    BY <2>1, <2>2, StartAssumption
<1>3. m_nPreWriteIndex < WordSize /\ WordSize \in Nat
  BY <1>2, LimitType, WordAssumption, StartAssumption, MaxPushAssumption DEF IndexInv
<1>4. CASE SizeRead
  <2>1. Word(m_nReadIndex) = m_nReadIndex
    BY <1>2, <1>3, WordIsSmall
  <2> QED
    BY <1>1, <1>2, <1>4, <2>1 DEF SizeRead, SizeInv, SizeSane, vars
<1>5. CASE SizeWrite
  <2>1. /\ nRead \in Nat /\ CCLockfreeQueueStartIndex <= nRead /\ nRead <= m_nReadIndex
        /\ m_nPreWriteIndex' = m_nPreWriteIndex /\ m_nReadIndex' = m_nReadIndex
        /\ size' = Minus(Word(m_nPreWriteIndex), nRead) /\ sizing' = FALSE
    BY <1>5 DEF SizeWrite, SizeInv, vars
  <2>2. m_nPreWriteIndex - nRead \in Nat /\ m_nPreWriteIndex - nRead < WordSize
    BY <1>2, <1>3, <2>1
  <2>3. Word(m_nPreWriteIndex) = m_nPreWriteIndex
    BY <1>2, <1>3, WordIsSmall
  <2>4. size' = m_nPreWriteIndex - nRead
    <3>1. Minus(m_nPreWriteIndex, nRead) = Word(m_nPreWriteIndex - nRead)
      BY DEF Minus, Word
    <3> QED
      BY <2>1, <2>2, <2>3, <3>1, WordIsSmall
  <2> QED
    BY <1>2, <2>1, <2>2, <2>4 DEF SizeInv, SizeSane
<1>6. CASE ~ (SizeRead \/ SizeWrite)
  <2>1. UNCHANGED sizeVars
    BY <1>6 DEF QueueNext, Push, PushInside, PopAnnounce, PopCall, PopCheck, PopIndex, PopUndo,
                PopInside, queueVars, sizeVars
  <2> QED
    <3>0. sizing' = sizing /\ nRead' = nRead
      BY <2>1 DEF sizeVars
    <3>1. size' = size
      BY <2>1 DEF sizeVars
    <3>2. size' \in Nat /\ SizeSane' /\ CCLockfreeQueueStartIndex <= m_nReadIndex'
      <4>1. size \in Nat /\ size <= m_nPreWriteIndex - CCLockfreeQueueStartIndex
            /\ CCLockfreeQueueStartIndex <= m_nReadIndex
        BY DEF SizeInv, SizeSane
      <4>2. size' <= m_nPreWriteIndex' - CCLockfreeQueueStartIndex
        <5>1. ASSUME NEW s \in Nat, NEW w \in Nat, NEW v \in Nat, NEW b \in Nat, s <= w - b, v >= w
              PROVE  s <= v - b
          BY <5>1
        <5>2. size <= m_nPreWriteIndex' - CCLockfreeQueueStartIndex
          BY <1>1, <1>2, <4>1, <5>1
        <5> QED
          BY <3>1, <5>2
      <4>3. CCLockfreeQueueStartIndex <= m_nReadIndex'
        BY <1>1, <1>2, <4>1
      <4> QED
        BY <3>1, <4>1, <4>2, <4>3 DEF SizeSane
    <3>3. ASSUME sizing PROVE nRead \in Nat /\ CCLockfreeQueueStartIndex <= nRead /\ nRead <= m_nReadIndex'
      BY <1>1, <1>2, <3>3 DEF SizeInv
    <3> QED
      BY <3>0, <3>1, <3>2, <3>3 DEF SizeInv
<1> QED
  BY <1>4, <1>5, <1>6

(* GetSize never reports more than was pushed, however its two loads       *)
(* interleave with pushes and pops. *)
THEOREM SizeNeverWraps ==
  ASSUME IndicesFit
  PROVE  QueueSpec => []SizeSane
<1>1. QueueInit => IndexInv /\ SizeInv
  <2> SUFFICES ASSUME QueueInit PROVE SizeInv
    BY IndexInit
  <2> QED
    BY StartAssumption DEF QueueInit, Init, SizeInv, SizeSane
<1>2. IndexInv /\ SizeInv /\ [QueueNext]_queueVars => IndexInv' /\ SizeInv'
  BY IndexStep, SizeStep
<1>3. SizeInv => SizeSane
  BY DEF SizeInv
<1> QED
  BY <1>1, <1>2, <1>3, PTL DEF QueueSpec

---------------------------------------------------------------------------

(* A lone consumer that has announced itself got the number of the index   *)
(* it would draw. *)
LoneInv ==
  /\ \A c \in Poppers : call[c] = "check" => pre[c] = m_nReadIndex
  /\ mayBeEmpty \in [Poppers -> BOOLEAN]
  /\ EmptyIsHonest

LEMMA LoneAnnounced ==
  ASSUME IndicesFit, \A c, d \in Poppers : c = d, IndexInv, NEW c \in Poppers
  PROVE  call[c] = "idle" => m_nPreReadIndex = m_nReadIndex
<1>1. call[c] = "idle" => Announced = {}
  BY DEF Announced
<1> QED
  BY <1>1, FS_EmptySet DEF IndexInv, PreReadAccounts, QueueTypeOK

(* A lone consumer that is refused is refused at a moment when every index *)
(* that was drawn by a push had been read. *)
LEMMA LoneRefused ==
  ASSUME IndicesFit, \A c, d \in Poppers : c = d, IsFiniteSet(Pushers), IndexInv, LoneInv,
         NEW c \in Poppers, PopCheck(c), call'[c] = "undo"
  PROVE  PossiblyEmpty(c)'
<1>1. /\ call[c] = "check" /\ UNCHANGED <<vars, m_nPreReadIndex, pre>>
      /\ \E after \in uint32_t_after(Word(m_nPreWriteIndex), Word(pre[c])) :
           call' = [call EXCEPT ![c] = IF after THEN "index" ELSE "undo"]
  BY DEF PopCheck
<1>2. /\ m_nPreWriteIndex \in Nat /\ pre[c] \in Nat /\ pre[c] = m_nReadIndex
      /\ m_nPreWriteIndex <= Limit /\ pre[c] <= Limit
  BY <1>1, LimitType, StartAssumption, MaxPushAssumption DEF IndexInv, QueueTypeOK, LoneInv
<1>3. uint32_t_after(Word(m_nPreWriteIndex), Word(pre[c])) = {pre[c] < m_nPreWriteIndex}
  BY <1>2, AfterExact
<1>4. m_nPreWriteIndex <= m_nReadIndex
  <2>1. call' = [call EXCEPT ![c] = IF pre[c] < m_nPreWriteIndex THEN "index" ELSE "undo"]
    BY <1>1, <1>3
  <2>2. ~(pre[c] < m_nPreWriteIndex)
    BY <2>1 DEF IndexInv, QueueTypeOK
  <2> QED
    BY <1>2, <2>2
<1>5. {d \in Poppers \ {c} : call'[d] \in {"check", "index"}} = {}
  OBVIOUS
<1>6. m_nPreWriteIndex' = m_nPreWriteIndex /\ m_nReadIndex' = m_nReadIndex /\ pc' = pc
  BY <1>1 DEF vars
<1>7. Cardinality({p \in Pushers : pc[p] # "pushDone"}) \in Nat
  BY FS_Subset, FS_CardinalityType
<1>8. Completed' <= m_nPreWriteIndex - CCLockfreeQueueStartIndex
  BY <1>2, <1>6, <1>7, StartAssumption DEF Completed
<1>9. Taken(c)' = m_nReadIndex - CCLockfreeQueueStartIndex
  <2>1. Cardinality({d \in Poppers \ {c} : call'[d] \in {"check", "index"}}) = 0
    BY <1>5, FS_EmptySet
  <2>2. Taken(c)' = m_nReadIndex' - CCLockfreeQueueStartIndex
                      + Cardinality({d \in Poppers \ {c} : call'[d] \in {"check", "index"}})
    BY DEF Taken
  <2> QED
    BY <1>2, <1>6, <2>1, <2>2, StartAssumption
<1>10. Completed' \in Int
  BY <1>2, <1>6, <1>7, StartAssumption DEF Completed
<1> QED
  BY <1>2, <1>4, <1>8, <1>9, <1>10, StartAssumption DEF PossiblyEmpty


LEMMA LoneStep ==
  ASSUME IndicesFit, \A c, d \in Poppers : c = d, IsFiniteSet(Pushers), IndexInv, LoneInv,
         [EmptyNext]_emptyVars
  PROVE  LoneInv'
<1>1. CASE EmptyNext
  <2>1. /\ QueueNext
        /\ mayBeEmpty' = [c \in Poppers |->
             /\ call'[c] # "idle"
             /\ mayBeEmpty[c] \/ PossiblyEmpty(c)']
    BY <1>1 DEF EmptyNext
  <2>2. mayBeEmpty' \in [Poppers -> BOOLEAN]
    BY <2>1
  <2> SUFFICES ASSUME NEW c \in Poppers
               PROVE  /\ call'[c] = "check" => pre'[c] = m_nReadIndex'
                      /\ call'[c] = "undo" => mayBeEmpty'[c]
    BY <2>2 DEF LoneInv, EmptyIsHonest
  <2>3. call'[c] = "undo" /\ (mayBeEmpty[c] \/ PossiblyEmpty(c)') => mayBeEmpty'[c]
    BY <2>1
  <2>4. call \in [Poppers -> {"idle", "check", "index", "undo"}] /\ pre \in [Poppers -> Nat]
    BY DEF IndexInv, QueueTypeOK
  <2>5. CASE PopAnnounce(c)
    <3>1. m_nPreReadIndex = m_nReadIndex /\ m_nReadIndex' = m_nReadIndex
      BY <2>5, LoneAnnounced DEF PopAnnounce, vars
    <3> QED
      BY <2>4, <2>5, <3>1 DEF PopAnnounce
  <2>6. CASE PopCheck(c)
    <3>1. call'[c] # "check" /\ (call'[c] = "undo" => PossiblyEmpty(c)')
      <4>1. call'[c] # "check"
        BY <2>4, <2>6 DEF PopCheck
      <4> QED
        BY <2>6, <4>1, LoneRefused
    <3> QED
      BY <2>3, <3>1
  <2>7. CASE PopIndex(c) \/ PopUndo(c)
    <3>1. call'[c] = "idle"
      BY <2>4, <2>7 DEF PopIndex, PopUndo
    <3> QED
      BY <3>1
  <2>8. CASE ~ (PopAnnounce(c) \/ PopCheck(c) \/ PopIndex(c) \/ PopUndo(c))
    <3>1. UNCHANGED <<call, pre, m_nReadIndex>>
      <4>1. ASSUME NEW p \in Pushers, Push(p) \/ PushInside(p) PROVE UNCHANGED <<call, pre, m_nReadIndex>>
        BY <4>1, InsideKeepsIndices DEF Push, DrawPush, PushInside, popVars, indexVars
      <4>2. ASSUME NEW d \in Poppers, PopInside(d) PROVE UNCHANGED <<call, pre, m_nReadIndex>>
        BY <4>2, InsideKeepsIndices DEF PopInside, popVars, indexVars
      <4>3. CASE SizeRead \/ SizeWrite
        BY <4>3 DEF SizeRead, SizeWrite, popVars, vars
      <4>4. ASSUME NEW d \in Poppers, PopAnnounce(d) \/ PopCall(d) PROVE FALSE
        BY <2>8, <4>4 DEF PopCall
      <4> QED
        BY <2>1, <4>1, <4>2, <4>3, <4>4 DEF QueueNext
    <3>2. call[c] = "undo" => mayBeEmpty[c]
      BY DEF LoneInv, EmptyIsHonest
    <3>3. call[c] = "check" => pre[c] = m_nReadIndex
      BY DEF LoneInv
    <3> QED
      BY <2>3, <3>1, <3>2, <3>3
  <2> QED
    BY <2>5, <2>6, <2>7, <2>8
<1>2. CASE UNCHANGED emptyVars
  BY <1>2 DEF emptyVars, queueVars, LoneInv, EmptyIsHonest
<1> QED
  BY <1>1, <1>2

(* With one consumer and any number of producers a Pop that returns false  *)
(* (lines 288-290) saw the queue empty at some moment of its call. *)
THEOREM LoneEmptyIsHonest ==
  ASSUME IndicesFit, IsFiniteSet(Pushers), \A c, d \in Poppers : c = d
  PROVE  EmptySpec => []EmptyIsHonest
<1>1. EmptyInit => IndexInv /\ LoneInv
  <2> SUFFICES ASSUME EmptyInit PROVE IndexInv /\ LoneInv
    OBVIOUS
  <2>1. QueueInit /\ IndexInv
    BY IndexInit DEF EmptyInit
  <2>2. \A c \in Poppers : call[c] = "idle"
    BY <2>1 DEF QueueInit
  <2>3. mayBeEmpty \in [Poppers -> BOOLEAN]
    BY DEF EmptyInit
  <2> QED
    BY <2>1, <2>2, <2>3 DEF LoneInv, EmptyIsHonest
<1>2. IndexInv /\ LoneInv /\ [EmptyNext]_emptyVars => IndexInv' /\ LoneInv'
  <2> SUFFICES ASSUME IndexInv, LoneInv, [EmptyNext]_emptyVars PROVE IndexInv' /\ LoneInv'
    OBVIOUS
  <2>1. [QueueNext]_queueVars
    BY DEF EmptyNext, emptyVars
  <2> QED
    BY <2>1, IndexStep, LoneStep
<1>3. LoneInv => EmptyIsHonest
  BY DEF LoneInv
<1> QED
  BY <1>1, <1>2, <1>3, PTL DEF EmptySpec

---------------------------------------------------------------------------

(* CCLockfreeQueue as its users see it: with any number of poppers and up  *)
(* to Roomy's number of pushers, the pop that draws an index returns the   *)
(* payload of the push that drew it, no payload is left behind in a window *)
(* that slid, and a ring is closed by one thread.  Push, the quick Pop and *)
(* GetSize use the micro queues as MicroQueue assumes, so that what is     *)
(* proved of MicroQueue holds of the queue. *)
THEOREM QueueDeliversInOrder ==
  ASSUME IndicesFit, Roomy
  PROVE  QueueSpec => [](DeliveredInOrder /\ SlidOverRead /\ OneCloser)
<1>1. QueueSpec => Spec
  BY QueueRefinesMicroQueue DEF ImplementsMicroQueue
<1>2. Spec => []DeliveredInOrder
  BY MicroDeliversInOrder
<1>3. Spec => []SlidOverRead
  BY MicroSlidOverRead
<1>4. Spec => []OneCloser
  BY MicroOneCloser
<1> HIDE DEF Spec, QueueSpec
<1> QED
  BY <1>1, <1>2, <1>3, <1>4, PTL

=============================================================================
