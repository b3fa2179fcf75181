-------------------------- MODULE BlockPoolProofs --------------------------
(***************************************************************************)
(* The free list of concurrentqueue.h and the pools behind it, for any     *)
(* number of threads and blocks and any growth of the table: a block has   *)
(* one owner although the list's head carries no tag, its reference count  *)
(* is exact, none is lost, and no slot of the table is filled twice.       *)
(***************************************************************************)
EXTENDS BlockPool, Counting

Bit == SHOULD_BE_ON_FREELIST
Pointers == Blocks \cup {nullptr}

LinkEarly == {"link", "linkNext", "linkRefs"}
LinkLate == {"linkHead", "relink"}
Owners(b) == {t \in Threads : b \in held[t]}

(***************************************************************************)
(* What a block b can be when the blocks of list are on the free list:     *)
(* never drawn, owned, on the list, being linked before or after its count *)
(* was stored, or waiting for the last reference to it to be dropped.      *)
(***************************************************************************)
Fresh(b, list) ==
  /\ b \notin Drawn /\ b \notin list
  /\ Owners(b) = {} /\ Linking(b) = {} /\ Taking(b) = {} /\ Refer(b) = {}
  /\ freeListRefs[b] = 0
Owned(b, list) ==
  /\ b \in Drawn /\ b \notin list
  /\ \E t \in Threads : Owners(b) = {t} /\ Taking(b) \subseteq {t}
  /\ Linking(b) = {}
  /\ freeListRefs[b] = Cardinality(Refer(b)) + (IF Taking(b) = {} THEN 0 ELSE 2)
Listed(b, list) ==
  /\ b \in Drawn /\ b \in list
  /\ Owners(b) = {} /\ Linking(b) = {} /\ Taking(b) = {}
  /\ freeListRefs[b] = 1 + Cardinality(Refer(b))
Early(b, list) ==
  /\ b \in Drawn /\ b \notin list
  /\ Owners(b) = {} /\ Taking(b) = {} /\ Refer(b) = {}
  /\ \E t \in Threads : Linking(b) = {t} /\ pc[t] \in LinkEarly
  /\ freeListRefs[b] = Bit
Late(b, list) ==
  /\ b \in Drawn /\ b \notin list
  /\ Owners(b) = {} /\ Taking(b) = {}
  /\ \E t \in Threads : Linking(b) = {t} /\ pc[t] \in LinkLate
  /\ freeListRefs[b] = 1 + Cardinality(Refer(b))
Waiting(b, list) ==
  /\ b \in Drawn /\ b \notin list
  /\ Owners(b) = {} /\ Linking(b) = {} /\ Taking(b) = {} /\ Refer(b) # {}
  /\ freeListRefs[b] = Bit + Cardinality(Refer(b))

BlockSound(b, list) ==
  \/ Fresh(b, list) \/ Owned(b, list) \/ Listed(b, list)
  \/ Early(b, list) \/ Late(b, list) \/ Waiting(b, list)

(* What a thread's locals r hold at label l.  freeListNext of a block it   *)
(* refers to is still what it loaded. *)
LocalFields == {"head", "prevHead", "refs", "next", "node", "top", "getting"}
LocalSound(l, r) ==
  /\ LocalFields \subseteq DOMAIN r
  /\ r.head \in Pointers
  /\ l \in {"refs", "ref", "next", "swing", "unref2"} => r.head \in Blocks
  /\ l = "ref" => r.refs \notin {0, Bit}
  /\ l = "swing" => r.next = freeListNext[r.head]
  /\ l = "unref" => r.prevHead \in Blocks
  /\ l \in LinkEarly \cup LinkLate => r.node \in Blocks
  /\ l \in {"linkNext", "linkRefs"} \cup LinkLate => r.top \in Pointers
  /\ l \in {"linkRefs", "linkHead"} => freeListNext[r.node] = r.top

(* The list is a chain from its head. *)
Chain(n, s) ==
  /\ s \in [1 .. n -> Blocks]
  /\ \A i, j \in 1 .. n : s[i] = s[j] => i = j
  /\ freeListHead = IF n = 0 THEN nullptr ELSE s[1]
  /\ \A i \in 1 .. n : freeListNext[s[i]] = IF i = n THEN nullptr ELSE s[i + 1]
Chained(list) == \E n \in Nat : \E s \in [1 .. n -> Blocks] : Chain(n, s) /\ list = {s[i] : i \in 1 .. n}

ListSound(list) ==
  /\ Chained(list)
  /\ \A b \in Blocks : BlockSound(b, list)

ListType ==
  /\ freeListHead \in Pointers
  /\ freeListRefs \in [Blocks -> Nat]
  /\ freeListNext \in [Blocks -> Pointers]
  /\ held \in [Threads -> SUBSET Blocks]
  /\ pc = [t \in Threads |-> pc[t]] /\ loc = [t \in Threads |-> loc[t]]
  /\ \A t \in Threads : LocalSound(pc[t], loc[t])

(* The table: the thread with the lock is alone; the slots up to           *)
(* m_nAllocateIndex are filled, but for the one being added; a pool that   *)
(* is not there has given out nothing. *)
Holding == {"locked", "storeIndex", "storeIndexLast", "storePointer", "storePointerLast", "unlock"}
Holders == {t \in Threads : pc[t] \in Holding}

TableSound(t) ==
  /\ pc[t] = "draw" => nAllocateIndex[t] \in m_pMaxAllocTimes
  /\ pc[t] \in Holding => m_lock
  /\ pc[t] = "locked" => nAllocateIndex[t] + 1 \in Slots
  /\ pc[t] \in {"storeIndex", "storePointer", "storeIndexLast"} => m_nAllocateIndex + 1 \in Slots
  /\ pc[t] = "storePointerLast" => m_pMaxAllocTimes = 0 .. m_nAllocateIndex - 1
  /\ pc[t] = "storeIndexLast" => m_pMaxAllocTimes = 0 .. m_nAllocateIndex + 1

TableInv ==
  /\ initialBlockPoolIndex \in [0 .. Allocator -> Nat]
  /\ m_nAllocateIndex \in Slots
  /\ nAllocateIndex \in [Threads -> Slots]
  /\ m_pMaxAllocTimes \subseteq Slots
  /\ \A t, u \in Holders : t = u
  /\ (\A t \in Threads : pc[t] \notin {"storePointerLast", "storeIndexLast"})
       => m_pMaxAllocTimes = 0 .. m_nAllocateIndex
  /\ \A k \in Slots \ m_pMaxAllocTimes : initialBlockPoolIndex[k + 1] = 0
  /\ \A t \in Threads : TableSound(t)

PoolInv == ListType /\ TableInv /\ \E list \in SUBSET Blocks : ListSound(list)

---------------------------------------------------------------------------
(* The list *)

(* OnList is the set of the chain's blocks. *)
LEMMA ChainReached ==
  ASSUME NEW n \in Nat, NEW s \in [1 .. n -> Blocks], Chain(n, s)
  PROVE  OnList = {s[i] : i \in 1 .. n}
<1> DEFINE N == Cardinality(Blocks)
           next(r) == r \cup ({freeListNext[b] : b \in r} \ {nullptr})
           R(f) == f = [k \in 0 .. N |-> IF k = 0 THEN {freeListHead} \ {nullptr} ELSE next(f[k - 1])]
           F == [k \in 0 .. N |-> {s[i] : i \in {j \in 1 .. n : j <= k + 1}}]
           f == CHOOSE g : R(g)
<1>1. OnList = f[N]
  BY DEF OnList
<1>2. N \in Nat /\ n <= N
  <2>1. s \in Injection(1 .. n, Blocks)
    BY DEF Chain, Injection, IsInjective
  <2>2. Cardinality(1 .. n) <= N
    BY <2>1, FS_Injection, BitAssumption
  <2>3. Cardinality(1 .. n) = n
    BY FS_Interval
  <2>4. N \in Nat
    BY FS_CardinalityType, BitAssumption
  <2> QED
    BY <2>2, <2>3, <2>4
<1> HIDE DEF N
<1>3. F[0] = {freeListHead} \ {nullptr}
  <2>1. 0 \in 0 .. N /\ nullptr \notin Blocks
    BY <1>2, BitAssumption
  <2>2. F[0] = {s[i] : i \in {j \in 1 .. n : j <= 1}}
    BY <2>1
  <2> QED
    BY <2>1, <2>2 DEF Chain
<1>4. ASSUME NEW k \in 1 .. N PROVE F[k] = next(F[k - 1])
  <2>1. k \in 0 .. N /\ k - 1 \in 0 .. N /\ nullptr \notin Blocks
    BY <1>2, BitAssumption
  <2>2. /\ F[k] = {s[i] : i \in {j \in 1 .. n : j <= k + 1}}
        /\ F[k - 1] = {s[i] : i \in {j \in 1 .. n : j <= k}}
    BY <2>1
  <2>3. ASSUME NEW b \in F[k] PROVE b \in next(F[k - 1])
    <3>1. PICK i \in 1 .. n : i <= k + 1 /\ b = s[i]
      BY <2>2
    <3>2. CASE i <= k
      BY <2>2, <3>1, <3>2
    <3>3. CASE i = k + 1
      <4>1. k \in 1 .. n /\ freeListNext[s[k]] = s[i] /\ s[i] \in Blocks
        BY <3>1, <3>3 DEF Chain
      <4>2. s[k] \in F[k - 1] /\ s[i] # nullptr
        BY <2>1, <2>2, <4>1
      <4> QED
        BY <3>1, <4>1, <4>2
    <3>4. i <= k \/ i = k + 1
      BY <1>2, <3>1
    <3> QED
      BY <3>2, <3>3, <3>4
  <2>4. ASSUME NEW b \in next(F[k - 1]) PROVE b \in F[k]
    <3>1. CASE b \in F[k - 1]
      <4>1. PICK i \in 1 .. n : i <= k /\ b = s[i]
        BY <2>2, <3>1
      <4>2. i <= k + 1
        BY <4>1
      <4> QED
        BY <2>2, <4>1, <4>2
    <3>2. CASE b \in {freeListNext[c] : c \in F[k - 1]} \ {nullptr}
      <4>1. PICK c \in F[k - 1] : b = freeListNext[c] /\ b # nullptr
        BY <3>2
      <4>2. PICK i \in 1 .. n : i <= k /\ c = s[i]
        BY <2>2
      <4>3. i # n /\ b = s[i + 1]
        BY <4>1, <4>2 DEF Chain
      <4>4. i + 1 \in 1 .. n /\ i + 1 <= k + 1
        BY <4>2, <4>3
      <4> QED
        BY <2>2, <4>3, <4>4
    <3> QED
      BY <2>4, <3>1, <3>2
  <2> QED
    BY <2>3, <2>4
<1>5. R(F)
  <2> HIDE DEF next
  <2>1. \A k \in 0 .. N : k # 0 => k \in 1 .. N
    BY <1>2
  <2>2. \A k \in 0 .. N : F[k] = IF k = 0 THEN {freeListHead} \ {nullptr} ELSE next(F[k - 1])
    BY <1>3, <1>4, <2>1
  <2> QED
    BY <2>2
<1>6. R(f)
  <2> HIDE DEF F, R
  <2> QED
    BY <1>5
<1> HIDE DEF f
<1>7. Nat \subseteq {k \in Nat : k <= N => f[k] = F[k]}
  <2> DEFINE S == {k \in Nat : k <= N => f[k] = F[k]}
  <2>1. 0 \in S
    <3>1. 0 \in 0 .. N
      BY <1>2
    <3>2. f[0] = {freeListHead} \ {nullptr}
      BY <1>6, <3>1
    <3> HIDE DEF F
    <3> QED
      BY <1>3, <3>2
  <2>2. ASSUME NEW k \in Nat, k \in S PROVE k + 1 \in S
    <3> SUFFICES ASSUME k + 1 <= N PROVE f[k + 1] = F[k + 1]
      OBVIOUS
    <3>1. k + 1 \in 1 .. N /\ k + 1 \in 0 .. N /\ k + 1 # 0 /\ (k + 1) - 1 = k /\ k <= N
      BY <1>2
    <3>2. f[k] = F[k]
      BY <2>2, <3>1
    <3> HIDE DEF F
    <3>3. f[k + 1] = next(f[(k + 1) - 1])
      <4> HIDE DEF next
      <4> QED
        BY <1>6, <3>1
    <3>4. F[k + 1] = next(F[(k + 1) - 1])
      BY <1>4, <3>1
    <3> HIDE DEF next
    <3> QED
      BY <3>1, <3>2, <3>3, <3>4
  <2> HIDE DEF S
  <2>3. Nat \subseteq S
    BY <2>1, <2>2, SetInduction
  <2> QED
    BY <2>3 DEF S
<1>8. f[N] = F[N]
  <2> HIDE DEF F
  <2>1. N \in {k \in Nat : k <= N => f[k] = F[k]} /\ N <= N
    BY <1>2, <1>7
  <2> QED
    BY <2>1
<1>9. F[N] = {s[i] : i \in 1 .. n}
  <2>1. N \in 0 .. N /\ {j \in 1 .. n : j <= N + 1} = 1 .. n
    BY <1>2
  <2> QED
    BY <2>1
<1> QED
  BY <1>1, <1>8, <1>9

LEMMA ChainIsList ==
  ASSUME NEW list, Chained(list)
  PROVE  OnList = list
<1>0. PICK n \in Nat : \E s \in [1 .. n -> Blocks] : Chain(n, s) /\ list = {s[i] : i \in 1 .. n}
  BY DEF Chained
<1>1. PICK s \in [1 .. n -> Blocks] : Chain(n, s) /\ list = {s[i] : i \in 1 .. n}
  BY <1>0
<1> QED
  BY <1>1, ChainReached

(* Storing freeListNext of a block that is not on the list, linking one,   *)
(* and taking the first one off. *)
LEMMA ChainKeep ==
  ASSUME NEW list, Chained(list), freeListHead' = freeListHead,
         \A b \in list : freeListNext'[b] = freeListNext[b]
  PROVE  Chained(list)'
<1>0. PICK n \in Nat : \E s \in [1 .. n -> Blocks] : Chain(n, s) /\ list = {s[i] : i \in 1 .. n}
  BY DEF Chained
<1>1. PICK s \in [1 .. n -> Blocks] : Chain(n, s) /\ list = {s[i] : i \in 1 .. n}
  BY <1>0
<1>2. \A i \in 1 .. n : s[i] \in list
  BY <1>1
<1>3. Chain(n, s)'
  BY <1>1, <1>2 DEF Chain
<1> QED
  BY <1>1, <1>3 DEF Chained

LEMMA ChainPush ==
  ASSUME NEW list, Chained(list), NEW b \in Blocks, b \notin list,
         freeListNext[b] = freeListHead, freeListHead' = b, UNCHANGED freeListNext
  PROVE  Chained(list \cup {b})'
<1>0. PICK n \in Nat : \E s \in [1 .. n -> Blocks] : Chain(n, s) /\ list = {s[i] : i \in 1 .. n}
  BY DEF Chained
<1>1. PICK s \in [1 .. n -> Blocks] : Chain(n, s) /\ list = {s[i] : i \in 1 .. n}
  BY <1>0
<1> DEFINE r == [i \in 1 .. n + 1 |-> IF i = 1 THEN b ELSE s[i - 1]]
<1>2. \A i \in 1 .. n + 1 : i # 1 => i - 1 \in 1 .. n
  OBVIOUS
<1>3. r \in [1 .. n + 1 -> Blocks] /\ r[1] = b /\ \A i \in 1 .. n + 1 : i # 1 => r[i] = s[i - 1]
  BY <1>2
<1> HIDE DEF r
<1>4. \A i, j \in 1 .. n + 1 : r[i] = r[j] => i = j
  <2> SUFFICES ASSUME NEW i \in 1 .. n + 1, NEW j \in 1 .. n + 1, r[i] = r[j] PROVE i = j
    OBVIOUS
  <2>1. ASSUME NEW k \in 1 .. n + 1, k # 1 PROVE r[k] # b
    BY <1>1, <1>2, <1>3, <2>1
  <2>2. CASE i = 1 \/ j = 1
    BY <1>3, <2>1, <2>2
  <2>3. CASE i # 1 /\ j # 1
    <3>1. s[i - 1] = s[j - 1] /\ i - 1 \in 1 .. n /\ j - 1 \in 1 .. n
      BY <1>2, <1>3, <2>3
    <3>2. i - 1 = j - 1
      BY <1>1, <3>1 DEF Chain
    <3> QED
      BY <3>2
  <2> QED
    BY <2>2, <2>3
<1>5. \A i \in 1 .. n + 1 : freeListNext[r[i]] = IF i = n + 1 THEN nullptr ELSE r[i + 1]
  <2> SUFFICES ASSUME NEW i \in 1 .. n + 1
               PROVE  freeListNext[r[i]] = IF i = n + 1 THEN nullptr ELSE r[i + 1]
    OBVIOUS
  <2>1. CASE i = 1
    <3>1. freeListNext[r[i]] = IF n = 0 THEN nullptr ELSE s[1]
      BY <1>1, <1>3, <2>1 DEF Chain
    <3>2. n # 0 => i + 1 \in 1 .. n + 1 /\ i + 1 # 1 /\ (i + 1) - 1 = 1
      BY <2>1
    <3>3. n # 0 => r[i + 1] = s[1]
      BY <1>3, <3>2
    <3>4. i = n + 1 <=> n = 0
      BY <2>1
    <3> QED
      BY <3>1, <3>3, <3>4
  <2>2. CASE i # 1
    <3>1. i - 1 \in 1 .. n /\ r[i] = s[i - 1]
      BY <1>2, <1>3, <2>2
    <3>2. freeListNext[s[i - 1]] = IF i - 1 = n THEN nullptr ELSE s[(i - 1) + 1]
      BY <1>1, <3>1 DEF Chain
    <3>3. (i - 1) + 1 = i /\ (i - 1 = n <=> i = n + 1)
      OBVIOUS
    <3>4. i # n + 1 => i + 1 \in 1 .. n + 1 /\ i + 1 # 1 /\ (i + 1) - 1 = i
      OBVIOUS
    <3>5. i # n + 1 => r[i + 1] = s[i]
      BY <1>3, <3>4
    <3> QED
      BY <3>1, <3>2, <3>3, <3>5
  <2> QED
    BY <2>1, <2>2
<1>6. Chain(n + 1, r)'
  <2>1. n + 1 # 0 /\ r[1] = b
    BY <1>3
  <2> QED
    BY <1>3, <1>4, <1>5, <2>1 DEF Chain
<1>7. list \cup {b} = {r[i] : i \in 1 .. n + 1}
  <2>1. \A i \in 1 .. n : i + 1 \in 1 .. n + 1 /\ i + 1 # 1 /\ (i + 1) - 1 = i
    OBVIOUS
  <2>2. \A i \in 1 .. n : r[i + 1] = s[i]
    BY <1>3, <2>1
  <2>3. 1 \in 1 .. n + 1
    OBVIOUS
  <2>4. ASSUME NEW x \in list \cup {b} PROVE x \in {r[i] : i \in 1 .. n + 1}
    BY <1>1, <1>3, <2>1, <2>2, <2>3
  <2>5. ASSUME NEW i \in 1 .. n + 1 PROVE r[i] \in list \cup {b}
    BY <1>1, <1>2, <1>3
  <2> QED
    BY <2>4, <2>5
<1>8. n + 1 \in Nat
  OBVIOUS
<1> QED
  BY <1>3, <1>6, <1>7, <1>8 DEF Chained

LEMMA ChainPop ==
  ASSUME NEW list, Chained(list), NEW b \in Blocks, freeListHead = b,
         freeListHead' = freeListNext[b], UNCHANGED freeListNext
  PROVE  b \in list /\ Chained(list \ {b})'
<1>0. PICK n \in Nat : \E s \in [1 .. n -> Blocks] : Chain(n, s) /\ list = {s[i] : i \in 1 .. n}
  BY DEF Chained
<1>1. PICK s \in [1 .. n -> Blocks] : Chain(n, s) /\ list = {s[i] : i \in 1 .. n}
  BY <1>0
<1>2. n # 0 /\ s[1] = b /\ 1 \in 1 .. n /\ n - 1 \in Nat
  <2>1. n # 0 /\ s[1] = b
    BY <1>1, BitAssumption DEF Chain
  <2> QED
    BY <2>1
<1> DEFINE r == [i \in 1 .. n - 1 |-> s[i + 1]]
<1>3. \A i \in 1 .. n - 1 : i + 1 \in 1 .. n
  OBVIOUS
<1>4. r \in [1 .. n - 1 -> Blocks] /\ \A i \in 1 .. n - 1 : r[i] = s[i + 1]
  BY <1>3
<1> HIDE DEF r
<1>5. \A i, j \in 1 .. n - 1 : r[i] = r[j] => i = j
  <2> SUFFICES ASSUME NEW i \in 1 .. n - 1, NEW j \in 1 .. n - 1, r[i] = r[j] PROVE i = j
    OBVIOUS
  <2>1. i + 1 = j + 1
    BY <1>1, <1>3, <1>4 DEF Chain
  <2> QED
    BY <2>1
<1>6. \A i \in 1 .. n - 1 : freeListNext[r[i]] = IF i = n - 1 THEN nullptr ELSE r[i + 1]
  <2> SUFFICES ASSUME NEW i \in 1 .. n - 1
               PROVE  freeListNext[r[i]] = IF i = n - 1 THEN nullptr ELSE r[i + 1]
    OBVIOUS
  <2>1. freeListNext[s[i + 1]] = IF i + 1 = n THEN nullptr ELSE s[(i + 1) + 1]
    BY <1>1, <1>3 DEF Chain
  <2>2. (i + 1 = n <=> i = n - 1) /\ (i # n - 1 => i + 1 \in 1 .. n - 1)
    OBVIOUS
  <2> QED
    BY <1>4, <2>1, <2>2
<1>7. freeListHead' = IF n - 1 = 0 THEN nullptr ELSE r[1]
  <2>1. freeListNext[s[1]] = IF 1 = n THEN nullptr ELSE s[1 + 1]
    BY <1>1, <1>2 DEF Chain
  <2>2. (1 = n <=> n - 1 = 0) /\ (n # 1 => 1 \in 1 .. n - 1)
    BY <1>2
  <2> QED
    BY <1>2, <1>4, <2>1, <2>2
<1>8. Chain(n - 1, r)'
  BY <1>4, <1>5, <1>6, <1>7 DEF Chain
<1>9. list \ {b} = {r[i] : i \in 1 .. n - 1}
  <2>1. ASSUME NEW x \in list, x # b PROVE x \in {r[i] : i \in 1 .. n - 1}
    <3>1. PICK i \in 1 .. n : x = s[i]
      BY <1>1
    <3>2. i # 1
      BY <1>2, <2>1, <3>1
    <3>3. i - 1 \in 1 .. n - 1 /\ (i - 1) + 1 = i
      BY <3>2
    <3>4. r[i - 1] = x
      BY <1>4, <3>1, <3>3
    <3> QED
      BY <3>3, <3>4
  <2>2. ASSUME NEW i \in 1 .. n - 1 PROVE r[i] \in list \ {b}
    <3>1. s[i + 1] # s[1]
      <4>1. i + 1 # 1
        OBVIOUS
      <4> QED
        BY <1>1, <1>2, <1>3, <4>1 DEF Chain
    <3> QED
      BY <1>1, <1>2, <1>3, <1>4, <3>1
  <2> QED
    BY <2>1, <2>2
<1>10. b \in list
  BY <1>1, <1>2
<1> QED
  BY <1>2, <1>4, <1>8, <1>9, <1>10 DEF Chained

LEMMA ChainEmpty ==
  ASSUME freeListHead = nullptr
  PROVE  Chained({})
<1> DEFINE s == [i \in 1 .. 0 |-> nullptr]
<1>1. s \in [1 .. 0 -> Blocks] /\ Chain(0, s)
  BY DEF Chain
<1>2. {} = {s[i] : i \in 1 .. 0} /\ 0 \in Nat
  OBVIOUS
<1> QED
  BY <1>1, <1>2 DEF Chained

---------------------------------------------------------------------------
(* One thread moves *)

(* What a thread with locals r at label l does to b. *)
LinksAt(l, r, b) == l \in LinkEarly \cup LinkLate /\ r.node = b
RefersAt(l, r, b) == (l \in {"next", "swing"} /\ r.head = b) \/ (l = "unref" /\ r.prevHead = b)
TakesAt(l, r, b) == l = "unref2" /\ r.head = b
Leaves(l, r, b) == ~LinksAt(l, r, b) /\ ~RefersAt(l, r, b) /\ ~TakesAt(l, r, b)

Move(t, l, r) == pc' = [pc EXCEPT ![t] = l] /\ loc' = [loc EXCEPT ![t] = r]

LEMMA Views ==
  ASSUME ListType, NEW t \in Threads, NEW l, NEW r, Move(t, l, r), NEW b
  PROVE  /\ Linking(b)' = IF LinksAt(l, r, b) THEN Linking(b) \cup {t} ELSE Linking(b) \ {t}
         /\ Refer(b)' = IF RefersAt(l, r, b) THEN Refer(b) \cup {t} ELSE Refer(b) \ {t}
         /\ Taking(b)' = IF TakesAt(l, r, b) THEN Taking(b) \cup {t} ELSE Taking(b) \ {t}
         /\ t \in Linking(b) <=> LinksAt(pc[t], loc[t], b)
         /\ t \in Refer(b) <=> RefersAt(pc[t], loc[t], b)
         /\ t \in Taking(b) <=> TakesAt(pc[t], loc[t], b)
         /\ pc'[t] = l /\ \A u \in Threads \ {t} : pc'[u] = pc[u] /\ loc'[u] = loc[u]
<1>1. DOMAIN pc = Threads /\ DOMAIN loc = Threads
  BY DEF ListType
<1>2. /\ pc'[t] = l /\ loc'[t] = r
      /\ \A u \in Threads \ {t} : pc'[u] = pc[u] /\ loc'[u] = loc[u]
  BY <1>1 DEF Move
<1>3. \A u \in Threads : u \in Linking(b)' <=> LinksAt(pc'[u], loc'[u], b)
  BY DEF Linking, LinksAt, LinkEarly, LinkLate
<1>4. \A u \in Threads : u \in Linking(b) <=> LinksAt(pc[u], loc[u], b)
  BY DEF Linking, LinksAt, LinkEarly, LinkLate
<1>5. Linking(b) \subseteq Threads /\ Linking(b)' \subseteq Threads
  BY DEF Linking
<1>6. Linking(b)' = IF LinksAt(l, r, b) THEN Linking(b) \cup {t} ELSE Linking(b) \ {t}
  BY <1>2, <1>3, <1>4, <1>5
<1>7. \A u \in Threads : u \in Refer(b)' <=> RefersAt(pc'[u], loc'[u], b)
  BY DEF Refer, RefersAt
<1>8. \A u \in Threads : u \in Refer(b) <=> RefersAt(pc[u], loc[u], b)
  BY DEF Refer, RefersAt
<1>9. Refer(b) \subseteq Threads /\ Refer(b)' \subseteq Threads
  BY DEF Refer
<1>10. Refer(b)' = IF RefersAt(l, r, b) THEN Refer(b) \cup {t} ELSE Refer(b) \ {t}
  BY <1>2, <1>7, <1>8, <1>9
<1>11. \A u \in Threads : u \in Taking(b)' <=> TakesAt(pc'[u], loc'[u], b)
  BY DEF Taking, TakesAt
<1>12. \A u \in Threads : u \in Taking(b) <=> TakesAt(pc[u], loc[u], b)
  BY DEF Taking, TakesAt
<1>13. Taking(b) \subseteq Threads /\ Taking(b)' \subseteq Threads
  BY DEF Taking
<1>14. Taking(b)' = IF TakesAt(l, r, b) THEN Taking(b) \cup {t} ELSE Taking(b) \ {t}
  BY <1>2, <1>11, <1>12, <1>13
<1> QED
  BY <1>2, <1>4, <1>6, <1>8, <1>10, <1>12, <1>14

(* How many refer to a block. *)
LEMMA ReferCount ==
  ASSUME NEW b
  PROVE  /\ IsFiniteSet(Refer(b)) /\ Cardinality(Refer(b)) \in Nat
         /\ Cardinality(Refer(b)) <= Cardinality(Threads)
         /\ Cardinality(Refer(b)) = 0 <=> Refer(b) = {}
         /\ Bit \in Nat /\ Cardinality(Threads) \in Nat /\ Cardinality(Threads) + 2 < Bit
<1>1. IsFiniteSet(Threads) /\ Refer(b) \in SUBSET Threads
  BY BitAssumption DEF Refer
<1>2. /\ IsFiniteSet(Refer(b)) /\ Cardinality(Refer(b)) <= Cardinality(Threads)
  BY <1>1, FS_Subset
<1>3. Cardinality(Threads) \in Nat /\ Cardinality(Refer(b)) \in Nat
  BY <1>1, <1>2, FS_CardinalityType
<1>4. Cardinality(Refer(b)) = 0 <=> Refer(b) = {}
  BY <1>2, FS_EmptySet
<1>5. Bit \in Nat /\ Cardinality(Threads) + 2 < Bit
  BY <1>3, BitAssumption DEF Bit
<1> QED
  BY <1>2, <1>3, <1>4, <1>5

(* A block the thread does nothing new to stays what it is. *)
Alike(t, l, r, b) ==
  /\ LinksAt(l, r, b) <=> LinksAt(pc[t], loc[t], b)
  /\ LinksAt(l, r, b) => (l \in LinkEarly <=> pc[t] \in LinkEarly)
  /\ RefersAt(l, r, b) <=> RefersAt(pc[t], loc[t], b)
  /\ TakesAt(l, r, b) <=> TakesAt(pc[t], loc[t], b)

LEMMA BlockKeeps ==
  ASSUME ListType, NEW t \in Threads, NEW l, NEW r, Move(t, l, r), NEW b, Alike(t, l, r, b),
         NEW list, NEW after, BlockSound(b, list), b \in after <=> b \in list,
         freeListRefs'[b] = freeListRefs[b], Owners(b)' = Owners(b), b \in Drawn' <=> b \in Drawn
  PROVE  BlockSound(b, after)'
<1>1. Linking(b)' = Linking(b) /\ Refer(b)' = Refer(b) /\ Taking(b)' = Taking(b)
  <2>1. /\ Linking(b)' = IF LinksAt(l, r, b) THEN Linking(b) \cup {t} ELSE Linking(b) \ {t}
        /\ Refer(b)' = IF RefersAt(l, r, b) THEN Refer(b) \cup {t} ELSE Refer(b) \ {t}
        /\ Taking(b)' = IF TakesAt(l, r, b) THEN Taking(b) \cup {t} ELSE Taking(b) \ {t}
        /\ t \in Linking(b) <=> LinksAt(pc[t], loc[t], b)
        /\ t \in Refer(b) <=> RefersAt(pc[t], loc[t], b)
        /\ t \in Taking(b) <=> TakesAt(pc[t], loc[t], b)
    BY Views
  <2>2. /\ LinksAt(l, r, b) <=> t \in Linking(b)
        /\ RefersAt(l, r, b) <=> t \in Refer(b)
        /\ TakesAt(l, r, b) <=> t \in Taking(b)
    BY <2>1 DEF Alike
  <2> QED
    BY <2>1, <2>2
<1>2. ASSUME NEW u \in Threads, Linking(b) = {u}
      PROVE  /\ pc[u] \in LinkEarly => pc'[u] \in LinkEarly
             /\ pc[u] \in LinkLate => pc'[u] \in LinkLate
  <2>1. CASE u # t
    BY <2>1, Views
  <2>2. CASE u = t
    <3>1. LinksAt(l, r, b) /\ pc'[t] = l /\ LinksAt(pc[t], loc[t], b)
      BY <1>1, <1>2, <2>2, Views
    <3> QED
      BY <2>2, <3>1 DEF Alike, LinksAt, LinkEarly, LinkLate
  <2> QED
    BY <2>1, <2>2
<1>3. CASE Fresh(b, list)
  BY <1>1, <1>3 DEF Fresh, BlockSound
<1>4. CASE Owned(b, list)
  BY <1>1, <1>4 DEF Owned, BlockSound
<1>5. CASE Listed(b, list)
  BY <1>1, <1>5 DEF Listed, BlockSound
<1>6. CASE Early(b, list)
  BY <1>1, <1>2, <1>6 DEF Early, BlockSound
<1>7. CASE Late(b, list)
  BY <1>1, <1>2, <1>7 DEF Late, BlockSound
<1>8. CASE Waiting(b, list)
  BY <1>1, <1>8 DEF Waiting, BlockSound
<1> QED
  BY <1>3, <1>4, <1>5, <1>6, <1>7, <1>8 DEF BlockSound

(* How a step changes the number of references. *)
LEMMA ReferMoves ==
  ASSUME ListType, NEW t \in Threads, NEW l, NEW r, Move(t, l, r), NEW b
  PROVE  /\ Cardinality(Refer(b))' \in Nat
         /\ Cardinality(Refer(b))' = Cardinality(Refer(b)) + (IF RefersAt(l, r, b) THEN 1 ELSE 0)
                                       - (IF RefersAt(pc[t], loc[t], b) THEN 1 ELSE 0)
<1>1. Refer(b) \ {t} = Refer(b)' \ {t} /\ (t \in Refer(b)' <=> RefersAt(l, r, b))
  BY Views
<1>2. IsFiniteSet(Refer(b)) /\ Cardinality(Refer(b)) \in Nat
  BY ReferCount
<1>3. /\ Cardinality(Refer(b)') \in Nat
      /\ Cardinality(Refer(b)') = Cardinality(Refer(b)) + Has(t, Refer(b)') - Has(t, Refer(b))
  BY <1>1, <1>2, CountStep
<1>4. t \in Refer(b) <=> RefersAt(pc[t], loc[t], b)
  BY Views
<1> QED
  BY <1>1, <1>2, <1>3, <1>4 DEF Has

(* A step that stores no freeListNext keeps the types. *)
LEMMA TypeKeeps ==
  ASSUME ListType, NEW t \in Threads, NEW l, NEW r, Move(t, l, r), LocalSound(l, r),
         UNCHANGED freeListNext, freeListHead' \in Pointers,
         freeListRefs' \in [Blocks -> Nat], held' \in [Threads -> SUBSET Blocks]
  PROVE  ListType'
<1>1. /\ pc' = [u \in Threads |-> pc'[u]] /\ loc' = [u \in Threads |-> loc'[u]]
      /\ pc'[t] = l /\ loc'[t] = r /\ \A u \in Threads \ {t} : pc'[u] = pc[u] /\ loc'[u] = loc[u]
  BY DEF ListType, Move
<1>2. ASSUME NEW u \in Threads PROVE LocalSound(pc[u], loc[u])'
  <2>1. CASE u = t
    BY <1>1, <2>1 DEF LocalSound
  <2>2. CASE u # t
    <3>1. LocalSound(pc[u], loc[u])
      BY DEF ListType
    <3> QED
      BY <1>1, <2>2, <3>1 DEF LocalSound
  <2> QED
    BY <2>1, <2>2
<1>3. freeListNext' \in [Blocks -> Pointers]
  BY DEF ListType
<1>4. \A u \in Threads : LocalSound(pc[u], loc[u])'
  BY <1>2
<1> QED
  BY <1>1, <1>3, <1>4 DEF ListType, Pointers

(* A step that touches only b. *)
Only(l, r, b) == \A c : c # b => Leaves(l, r, c)

LEMMA OthersKeep ==
  ASSUME ListType, NEW t \in Threads, NEW l, NEW r, Move(t, l, r), NEW b \in Blocks,
         NEW list \in SUBSET Blocks, NEW after \in SUBSET Blocks, ListSound(list),
         UNCHANGED initialBlockPoolIndex,
         Only(l, r, b), Only(pc[t], loc[t], b),
         \A c \in Blocks \ {b} : /\ freeListRefs'[c] = freeListRefs[c]
                                 /\ Owners(c)' = Owners(c)
                                 /\ c \in after <=> c \in list,
         BlockSound(b, after)', Chained(after)'
  PROVE  ListSound(after)'
<1>1. Drawn' = Drawn
  BY DEF Drawn
<1>2. ASSUME NEW c \in Blocks \ {b} PROVE BlockSound(c, after)'
  <2>1. Alike(t, l, r, c)
    BY <1>2 DEF Only, Leaves, Alike
  <2>2. BlockSound(c, list)
    BY DEF ListSound
  <2> QED
    BY <1>1, <2>1, <2>2, BlockKeeps
<1> QED
  BY <1>2 DEF ListSound

(* A step that touches no block at all. *)
LEMMA NothingTouched ==
  ASSUME ListType, NEW t \in Threads, NEW l, NEW r, Move(t, l, r), LocalSound(l, r),
         NEW list \in SUBSET Blocks, ListSound(list),
         UNCHANGED <<listVars, held, initialBlockPoolIndex>>,
         \A b \in Blocks : Alike(t, l, r, b)
  PROVE  ListType' /\ ListSound(list)'
<1>1. ListType'
  BY TypeKeeps DEF ListType, listVars
<1>2. Drawn' = Drawn /\ \A b : Owners(b)' = Owners(b)
  BY DEF Drawn, Owners
<1>3. ASSUME NEW b \in Blocks PROVE BlockSound(b, list)'
  <2>1. BlockSound(b, list)
    BY DEF ListSound
  <2>2. freeListRefs'[b] = freeListRefs[b]
    BY DEF listVars
  <2> QED
    BY <1>2, <2>1, <2>2, BlockKeeps
<1>4. Chained(list)'
  BY ChainKeep DEF ListSound, listVars
<1> QED
  BY <1>1, <1>3, <1>4 DEF ListSound

(* Steps of the free list that change nothing about any block. *)
LEMMA AddHeadStep ==
  ASSUME ListType, NEW t \in Threads, NEW list \in SUBSET Blocks, ListSound(list), AddHead(t),
         UNCHANGED initialBlockPoolIndex
  PROVE  ListType' /\ ListSound(list)'
<1> DEFINE r == [loc[t] EXCEPT !.top = freeListHead]
<1>1. LocalSound(pc[t], loc[t]) /\ LocalFields \subseteq DOMAIN loc[t] /\ freeListHead \in Pointers
  BY DEF ListType, LocalSound
<1>2. Move(t, "linkNext", r) /\ UNCHANGED <<listVars, held>> /\ pc[t] = "link"
  BY DEF AddHead, Goto, Move, listVars
<1>3. LocalFields \subseteq DOMAIN r /\ r.top = freeListHead /\ r.node = loc[t].node /\ r.head = loc[t].head
  BY <1>1 DEF LocalFields
<1> HIDE DEF r
<1>4. LocalSound("linkNext", r)
  BY <1>1, <1>2, <1>3 DEF LocalSound, LinkEarly, LinkLate, Pointers
<1>5. \A b : Alike(t, "linkNext", r, b)
  BY <1>2, <1>3 DEF Alike, LinksAt, RefersAt, TakesAt, LinkEarly, LinkLate
<1> QED
  BY <1>2, <1>4, <1>5, NothingTouched

LEMMA GetHeadStep ==
  ASSUME ListType, NEW t \in Threads, NEW list \in SUBSET Blocks, ListSound(list), GetHead(t),
         UNCHANGED initialBlockPoolIndex
  PROVE  ListType' /\ ListSound(list)'
<1>1. LocalSound(pc[t], loc[t]) /\ LocalFields \subseteq DOMAIN loc[t] /\ freeListHead \in Pointers
  BY DEF ListType, LocalSound
<1>2. CASE freeListHead = nullptr
  <2> DEFINE r == [NoLocals EXCEPT !.head = freeListHead, !.getting = TRUE]
  <2>1. Move(t, "none", r) /\ UNCHANGED <<listVars, held>> /\ pc[t] = "get"
    BY <1>2 DEF GetHead, Goto, Move, listVars, Loop
  <2>2. LocalFields \subseteq DOMAIN r /\ r.head = freeListHead
    BY <1>1 DEF LocalFields, NoLocals
  <2> HIDE DEF r
  <2>3. LocalSound("none", r)
    BY <1>1, <1>2, <2>1, <2>2 DEF LocalSound, LinkEarly, LinkLate, Pointers
  <2>4. \A b : Alike(t, "none", r, b)
    BY <2>1, <2>2 DEF Alike, LinksAt, RefersAt, TakesAt, LinkEarly, LinkLate
  <2> QED
    BY <2>1, <2>3, <2>4, NothingTouched
<1>3. CASE freeListHead # nullptr
  <2> DEFINE r == [NoLocals EXCEPT !.head = freeListHead, !.getting = TRUE]
  <2>1. Move(t, "refs", r) /\ UNCHANGED <<listVars, held>> /\ pc[t] = "get"
    BY <1>3 DEF GetHead, Goto, Move, listVars, Loop
  <2>2. LocalFields \subseteq DOMAIN r /\ r.head = freeListHead
    BY <1>1 DEF LocalFields, NoLocals
  <2> HIDE DEF r
  <2>3. LocalSound("refs", r)
    BY <1>1, <1>3, <2>1, <2>2 DEF LocalSound, LinkEarly, LinkLate, Pointers
  <2>4. \A b : Alike(t, "refs", r, b)
    BY <2>1, <2>2 DEF Alike, LinksAt, RefersAt, TakesAt, LinkEarly, LinkLate
  <2> QED
    BY <2>1, <2>3, <2>4, NothingTouched
<1> QED
  BY <1>2, <1>3

(* A count that is zero but for the bit. *)
LEMMA Remainder == 0 % SHOULD_BE_ON_FREELIST = 0 /\ SHOULD_BE_ON_FREELIST % SHOULD_BE_ON_FREELIST = 0
<1>1. ASSUME NEW n \in Nat, n > 0 PROVE 0 % n = 0 /\ n % n = 0
  BY <1>1
<1>2. Cardinality(Threads) \in Nat
  BY FS_CardinalityType, BitAssumption
<1>3. SHOULD_BE_ON_FREELIST \in Nat /\ SHOULD_BE_ON_FREELIST > 0
  BY <1>2, BitAssumption
<1> QED
  BY <1>1, <1>3

LEMMA GetRefsStep ==
  ASSUME ListType, NEW t \in Threads, NEW list \in SUBSET Blocks, ListSound(list), GetRefs(t),
         UNCHANGED initialBlockPoolIndex
  PROVE  ListType' /\ ListSound(list)'
<1>1. LocalSound(pc[t], loc[t]) /\ LocalFields \subseteq DOMAIN loc[t] /\ freeListHead \in Pointers
  BY DEF ListType, LocalSound
<1>2. CASE freeListRefs[loc[t].head] % SHOULD_BE_ON_FREELIST = 0
  <2> DEFINE r == NoLocals
  <2>1. Move(t, "get", r) /\ UNCHANGED <<listVars, held>> /\ pc[t] = "refs"
    BY <1>2 DEF GetRefs, Goto, Move, listVars, GetAgain
  <2>2. LocalFields \subseteq DOMAIN r /\ r.head = nullptr
    BY <1>1 DEF LocalFields, NoLocals
  <2> HIDE DEF r
  <2>3. LocalSound("get", r)
    BY <1>1, <1>2, <2>1, <2>2 DEF LocalSound, LinkEarly, LinkLate, Pointers
  <2>4. \A b : Alike(t, "get", r, b)
    BY <2>1, <2>2 DEF Alike, LinksAt, RefersAt, TakesAt, LinkEarly, LinkLate
  <2> QED
    BY <2>1, <2>3, <2>4, NothingTouched
<1>3. CASE freeListRefs[loc[t].head] % SHOULD_BE_ON_FREELIST # 0
  <2> DEFINE r == [loc[t] EXCEPT !.refs = freeListRefs[loc[t].head]]
  <2>1. Move(t, "ref", r) /\ UNCHANGED <<listVars, held>> /\ pc[t] = "refs"
    BY <1>3 DEF GetRefs, Goto, Move, listVars, GetAgain
  <2>2. LocalFields \subseteq DOMAIN r /\ r.refs = freeListRefs[loc[t].head] /\ r.head = loc[t].head
    BY <1>1 DEF LocalFields, NoLocals
  <2> HIDE DEF r
  <2>3. LocalSound("ref", r)
    <3>1. r.refs \notin {0, Bit}
      BY <1>3, <2>2, Remainder DEF Bit
    <3> QED
      BY <1>1, <2>1, <2>2, <3>1 DEF LocalSound, LinkEarly, LinkLate, Pointers
  <2>4. \A b : Alike(t, "ref", r, b)
    BY <2>1, <2>2 DEF Alike, LinksAt, RefersAt, TakesAt, LinkEarly, LinkLate
  <2> QED
    BY <2>1, <2>3, <2>4, NothingTouched
<1> QED
  BY <1>2, <1>3

LEMMA GetNextStep ==
  ASSUME ListType, NEW t \in Threads, NEW list \in SUBSET Blocks, ListSound(list), GetNext(t),
         UNCHANGED initialBlockPoolIndex
  PROVE  ListType' /\ ListSound(list)'
<1> DEFINE r == [loc[t] EXCEPT !.next = freeListNext[loc[t].head]]
<1>1. LocalSound(pc[t], loc[t]) /\ LocalFields \subseteq DOMAIN loc[t] /\ freeListHead \in Pointers
  BY DEF ListType, LocalSound
<1>2. Move(t, "swing", r) /\ UNCHANGED <<listVars, held>> /\ pc[t] = "next"
  BY DEF GetNext, Goto, Move, listVars
<1>3. LocalFields \subseteq DOMAIN r /\ r.next = freeListNext[loc[t].head] /\ r.head = loc[t].head
  BY <1>1 DEF LocalFields
<1> HIDE DEF r
<1>4. LocalSound("swing", r)
  BY <1>1, <1>2, <1>3 DEF LocalSound, LinkEarly, LinkLate, Pointers
<1>5. \A b : Alike(t, "swing", r, b)
  BY <1>2, <1>3 DEF Alike, LinksAt, RefersAt, TakesAt, LinkEarly, LinkLate
<1> QED
  BY <1>2, <1>4, <1>5, NothingTouched

(* add_knowing_refcount_is_zero returns. *)
LEMMA ReturnMoves ==
  ASSUME ListType, NEW t \in Threads, AddReturn(t)
  PROVE  \E l, r : Move(t, l, r) /\ LocalSound(l, r) /\ \A b : Leaves(l, r, b)
<1> DEFINE r == [NoLocals EXCEPT !.head = loc[t].head, !.getting = loc[t].getting]
           l == IF loc[t].getting THEN Loop(loc[t].head) ELSE "idle"
<1>1. Move(t, l, r)
  BY DEF AddReturn, Goto, Move
<1>2. LocalFields \subseteq DOMAIN r /\ r.head = loc[t].head
  BY DEF LocalFields, NoLocals
<1>3. loc[t].head \in Pointers
  BY DEF ListType, LocalSound
<1>4. l \in {"none", "refs", "idle"} /\ (l = "refs" => loc[t].head # nullptr)
  BY DEF Loop
<1> HIDE DEF r, l
<1>5. LocalSound(l, r)
  BY <1>2, <1>3, <1>4 DEF LocalSound, LinkEarly, LinkLate, Pointers
<1>6. \A b : Leaves(l, r, b)
  BY <1>4 DEF Leaves, LinksAt, RefersAt, TakesAt, LinkEarly, LinkLate
<1> QED
  BY <1>1, <1>5, <1>6

(* A step that sets the count of b and what the thread owns. *)
Touch(t, l, r, b, n, own) ==
  /\ Move(t, l, r)
  /\ freeListRefs' = [freeListRefs EXCEPT ![b] = n]
  /\ held' = [held EXCEPT ![t] = own]
  /\ UNCHANGED <<freeListNext, initialBlockPoolIndex>>

(* How it looks after such a step. *)
LEMMA TouchViews ==
  ASSUME ListType, NEW t \in Threads, NEW l, NEW r, NEW b \in Blocks, NEW n, NEW own,
         Touch(t, l, r, b, n, own)
  PROVE  /\ freeListRefs'[b] = n /\ Drawn' = Drawn
         /\ Owners(b)' = IF b \in own THEN Owners(b) \cup {t} ELSE Owners(b) \ {t}
         /\ Linking(b)' = IF LinksAt(l, r, b) THEN Linking(b) \cup {t} ELSE Linking(b) \ {t}
         /\ Refer(b)' = IF RefersAt(l, r, b) THEN Refer(b) \cup {t} ELSE Refer(b) \ {t}
         /\ Taking(b)' = IF TakesAt(l, r, b) THEN Taking(b) \cup {t} ELSE Taking(b) \ {t}
         /\ pc'[t] = l
<1>1. freeListRefs'[b] = n /\ Drawn' = Drawn
  BY DEF Touch, ListType, Drawn
<1>2. held'[t] = own /\ \A u \in Threads \ {t} : held'[u] = held[u]
  BY DEF Touch, ListType
<1>3. Owners(b)' = IF b \in own THEN Owners(b) \cup {t} ELSE Owners(b) \ {t}
  BY <1>2 DEF Owners
<1>4. Move(t, l, r)
  BY DEF Touch
<1> QED
  BY <1>1, <1>3, <1>4, Views

(* Such a step keeps everything but b. *)
LEMMA TouchStep ==
  ASSUME ListType, NEW t \in Threads, NEW l, NEW r, NEW b \in Blocks, NEW n \in Nat,
         NEW own \in SUBSET Blocks, own \ {b} = held[t] \ {b}, Touch(t, l, r, b, n, own),
         LocalSound(l, r), Only(l, r, b), Only(pc[t], loc[t], b),
         NEW list \in SUBSET Blocks, ListSound(list),
         NEW after \in SUBSET Blocks, after \ {b} = list \ {b},
         freeListHead' \in Pointers, Chained(after)', BlockSound(b, after)'
  PROVE  ListType' /\ ListSound(after)'
<1>1. ListType'
  <2>1. Move(t, l, r) /\ UNCHANGED freeListNext
    BY DEF Touch
  <2>2. freeListRefs' \in [Blocks -> Nat] /\ held' \in [Threads -> SUBSET Blocks]
    BY DEF Touch, ListType
  <2> QED
    BY <2>1, <2>2, TypeKeeps
<1>2. ASSUME NEW c \in Blocks \ {b}
      PROVE  freeListRefs'[c] = freeListRefs[c] /\ Owners(c)' = Owners(c) /\ (c \in after <=> c \in list)
  <2>1. freeListRefs'[c] = freeListRefs[c]
    BY DEF Touch, ListType
  <2>2. \A u \in Threads : c \in held'[u] <=> c \in held[u]
    BY DEF Touch, ListType
  <2>3. Owners(c)' = Owners(c)
    BY <2>2 DEF Owners
  <2>4. c \in after <=> c \in list
    OBVIOUS
  <2> QED
    BY <2>1, <2>3, <2>4
<1>3. Move(t, l, r) /\ UNCHANGED initialBlockPoolIndex
  BY DEF Touch
<1>4. ListSound(after)'
  BY <1>2, <1>3, OthersKeep
<1> QED
  BY <1>1, <1>4

(* Steps that change what one block is. *)
LEMMA AddStep ==
  ASSUME ListType, NEW t \in Threads, NEW list \in SUBSET Blocks, ListSound(list), Add(t),
         UNCHANGED initialBlockPoolIndex
  PROVE  ListType' /\ ListSound(list)'
<1>1. PICK b \in held[t] : Add(t)!2!(b)
  BY DEF Add
<1>2. b \in Blocks /\ pc[t] = "idle" /\ UNCHANGED <<freeListHead, freeListNext>>
  BY DEF ListType, Add
<1> DEFINE n == freeListRefs[b] + Bit
           own == held[t] \ {b}
           l == IF freeListRefs[b] = 0 THEN "link" ELSE "idle"
           r == IF freeListRefs[b] = 0 THEN [loc[t] EXCEPT !.node = b] ELSE loc[t]
<1>3. LocalSound("idle", loc[t]) /\ freeListHead' \in Pointers
  BY <1>2 DEF ListType
<1>4. Touch(t, l, r, b, n, own)
  <2>1. CASE freeListRefs[b] = 0
    BY <1>1, <1>2, <2>1 DEF Touch, Move, Goto, Bit
  <2>2. CASE freeListRefs[b] # 0
    BY <1>1, <1>2, <2>2 DEF Touch, Move, Bit, ListType
  <2> QED
    BY <2>1, <2>2
<1>5. /\ LocalFields \subseteq DOMAIN r /\ r.head = loc[t].head
      /\ l \in {"link", "idle"} /\ (l = "link" => r.node = b /\ freeListRefs[b] = 0)
      /\ l = "idle" => freeListRefs[b] # 0
  BY <1>3 DEF LocalSound, LocalFields
<1> HIDE DEF l, r
<1>6. LocalSound(l, r) /\ Only(l, r, b) /\ Only(pc[t], loc[t], b)
  <2>1. LocalSound(l, r)
    BY <1>2, <1>3, <1>5 DEF LocalSound, LinkEarly, LinkLate
  <2> QED
    BY <1>2, <1>5, <2>1 DEF Only, Leaves, LinksAt, RefersAt, TakesAt, LinkEarly, LinkLate
<1>7. Owned(b, list) /\ Owners(b) = {t} /\ Taking(b) = {}
  <2>1. t \in Owners(b) /\ t \notin Taking(b)
    BY <1>1, <1>2 DEF Owners, Taking
  <2>2. Owned(b, list)
    BY <1>2, <2>1 DEF ListSound, BlockSound, Fresh, Listed, Early, Late, Waiting
  <2> QED
    BY <2>1, <2>2 DEF Owned
<1>8. /\ freeListRefs[b] = Cardinality(Refer(b)) /\ freeListRefs[b] \in Nat /\ n \in Nat
      /\ freeListRefs[b] = 0 <=> Refer(b) = {}
  BY <1>2, <1>7, ReferCount DEF Owned, ListType
<1> HIDE DEF own, n
<1>9. /\ freeListRefs'[b] = n /\ Drawn' = Drawn /\ Owners(b)' = {}
      /\ Refer(b)' = Refer(b) /\ Taking(b)' = {}
      /\ Linking(b)' = IF l = "link" THEN {t} ELSE {}
      /\ pc'[t] = l
  <2>1. LinksAt(l, r, b) <=> l = "link"
    BY <1>5 DEF LinksAt, LinkEarly, LinkLate
  <2>2. ~RefersAt(l, r, b) /\ ~TakesAt(l, r, b)
    BY <1>5 DEF RefersAt, TakesAt
  <2>3. Linking(b) = {} /\ t \notin Refer(b) /\ b \notin own
    BY <1>2, <1>7 DEF Owned, Refer, own
  <2>4. /\ freeListRefs'[b] = n /\ Drawn' = Drawn
        /\ Owners(b)' = IF b \in own THEN Owners(b) \cup {t} ELSE Owners(b) \ {t}
        /\ Linking(b)' = IF LinksAt(l, r, b) THEN Linking(b) \cup {t} ELSE Linking(b) \ {t}
        /\ Refer(b)' = IF RefersAt(l, r, b) THEN Refer(b) \cup {t} ELSE Refer(b) \ {t}
        /\ Taking(b)' = IF TakesAt(l, r, b) THEN Taking(b) \cup {t} ELSE Taking(b) \ {t}
        /\ pc'[t] = l
    BY <1>2, <1>4, TouchViews
  <2> QED
    BY <1>7, <2>1, <2>2, <2>3, <2>4
<1>10. BlockSound(b, list)'
  <2>1. CASE l = "link"
    <3>1. n = Bit
      BY <1>5, <1>8, <2>1, ReferCount DEF n
    <3> QED
      BY <1>5, <1>7, <1>8, <1>9, <2>1, <3>1 DEF BlockSound, Early, Owned, LinkEarly
  <2>2. CASE l = "idle"
    <3>1. n = Bit + Cardinality(Refer(b)) /\ Refer(b) # {}
      BY <1>5, <1>8, <2>2, ReferCount DEF n
    <3> QED
      BY <1>5, <1>7, <1>9, <2>2, <3>1 DEF BlockSound, Waiting, Owned
  <2> QED
    BY <1>5, <2>1, <2>2
<1>11. Chained(list)'
  BY <1>2, ChainKeep DEF ListSound
<1>12. own \in SUBSET Blocks /\ own \ {b} = held[t] \ {b}
  BY DEF ListType, own
<1> QED
  BY <1>2, <1>3, <1>4, <1>6, <1>8, <1>10, <1>11, <1>12, TouchStep

(* What the block is that a thread links. *)
LEMMA Linked ==
  ASSUME ListType, NEW t \in Threads, NEW list \in SUBSET Blocks, ListSound(list),
         pc[t] \in LinkEarly \cup LinkLate, NEW b, b = loc[t].node
  PROVE  /\ b \in Blocks /\ Linking(b) = {t} /\ t \notin Refer(b)
         /\ Only(pc[t], loc[t], b)
         /\ pc[t] \in LinkEarly => Early(b, list)
         /\ pc[t] \in LinkLate => Late(b, list)
<1>1. b \in Blocks
  BY DEF ListType, LocalSound
<1>2. t \in Linking(b) /\ t \notin Refer(b)
  BY DEF Linking, Refer, LinkEarly, LinkLate
<1>3. Early(b, list) \/ Late(b, list)
  BY <1>1, <1>2 DEF ListSound, BlockSound, Fresh, Owned, Listed, Waiting
<1>4. LinkEarly \cap LinkLate = {}
  BY DEF LinkEarly, LinkLate
<1>5. Linking(b) = {t} /\ (Early(b, list) => pc[t] \in LinkEarly) /\ (Late(b, list) => pc[t] \in LinkLate)
  BY <1>2, <1>3 DEF Early, Late
<1>6. Only(pc[t], loc[t], b)
  BY DEF Only, Leaves, LinksAt, RefersAt, TakesAt, LinkEarly, LinkLate
<1> QED
  BY <1>1, <1>2, <1>3, <1>4, <1>5, <1>6

LEMMA AddRefsStep ==
  ASSUME ListType, NEW t \in Threads, NEW list \in SUBSET Blocks, ListSound(list), AddRefs(t),
         UNCHANGED initialBlockPoolIndex
  PROVE  ListType' /\ ListSound(list)'
<1> DEFINE r == loc[t]
           own == held[t]
<1>0. PICK b : b = loc[t].node
  OBVIOUS
<1>1. pc[t] = "linkRefs" /\ pc[t] \in LinkEarly /\ UNCHANGED <<freeListHead, freeListNext>>
  BY DEF AddRefs, LinkEarly
<1>2. Early(b, list) /\ b \in Blocks /\ Only(pc[t], loc[t], b) /\ Linking(b) = {t}
  BY <1>0, <1>1, Linked
<1>3. Touch(t, "linkHead", r, b, 1, own) /\ LocalSound(pc[t], r) /\ r.node = b
  BY <1>0 DEF AddRefs, Touch, Move, Goto, ListType
<1>4. own \in SUBSET Blocks /\ own = held[t] /\ freeListHead' \in Pointers
  BY <1>1 DEF ListType
<1> HIDE DEF r, own
<1>5. LocalSound("linkHead", r) /\ Only("linkHead", r, b)
  <2>1. LocalSound("linkHead", r)
    BY <1>1, <1>3 DEF LocalSound, LinkEarly, LinkLate
  <2> QED
    BY <1>3, <2>1 DEF Only, Leaves, LinksAt, RefersAt, TakesAt, LinkEarly, LinkLate
<1>6. LinksAt("linkHead", r, b) /\ ~RefersAt("linkHead", r, b) /\ ~TakesAt("linkHead", r, b)
  BY <1>3 DEF LinksAt, RefersAt, TakesAt, LinkEarly, LinkLate
<1>7. b \notin own /\ Owners(b) = {} /\ Refer(b) = {} /\ Taking(b) = {}
  BY <1>2, <1>4 DEF Early, Owners
<1>8. /\ freeListRefs'[b] = 1 /\ Drawn' = Drawn /\ Owners(b)' = {} /\ Linking(b)' = {t}
      /\ Refer(b)' = {} /\ Taking(b)' = {} /\ pc'[t] = "linkHead"
  BY <1>2, <1>3, <1>6, <1>7, TouchViews
<1>9. Cardinality({}) = 0
  BY FS_EmptySet
<1>10. Late(b, list)'
  BY <1>2, <1>8, <1>9 DEF Early, Late, LinkLate
<1>11. Chained(list)' /\ BlockSound(b, list)'
  BY <1>1, <1>10, ChainKeep DEF ListSound, BlockSound
<1> QED
  BY <1>2, <1>3, <1>4, <1>5, <1>11, TouchStep

LEMMA AddSwingStep ==
  ASSUME ListType, NEW t \in Threads, NEW list \in SUBSET Blocks, ListSound(list), AddSwing(t),
         UNCHANGED initialBlockPoolIndex
  PROVE  ListType' /\ \E after \in SUBSET Blocks : ListSound(after)'
<1>1. /\ LocalSound(pc[t], loc[t]) /\ LocalFields \subseteq DOMAIN loc[t] /\ freeListHead \in Pointers
      /\ pc[t] = "linkHead" /\ pc[t] \in LinkLate
  BY DEF ListType, LocalSound, AddSwing, LinkLate
<1>2. CASE freeListHead = loc[t].top
  <2>0. PICK b : b = loc[t].node
    OBVIOUS
  <2> DEFINE own == held[t]
             n == freeListRefs[b]
             after == list \cup {b}
  <2>1. Late(b, list) /\ b \in Blocks /\ Only(pc[t], loc[t], b) /\ Linking(b) = {t}
    BY <1>1, <2>0, Linked
  <2>2. freeListNext[b] = freeListHead
    BY <1>1, <1>2, <2>0 DEF LocalSound
  <2>3. freeListHead' = b /\ UNCHANGED <<freeListRefs, freeListNext, held>> /\ AddReturn(t)
    BY <1>2, <2>0 DEF AddSwing
  <2>4. PICK l, r : Move(t, l, r) /\ LocalSound(l, r) /\ \A c : Leaves(l, r, c)
    BY <2>3, ReturnMoves
  <2>5. own \in SUBSET Blocks /\ own = held[t] /\ freeListHead' \in Pointers /\ n \in Nat
    BY <2>1, <2>3 DEF ListType, Pointers
  <2>6. Touch(t, l, r, b, n, own)
    BY <2>1, <2>3, <2>4 DEF Touch, ListType
  <2>7. n = freeListRefs[b] /\ after \in SUBSET Blocks /\ after \ {b} = list \ {b} /\ b \in after
    BY <2>1
  <2>8. Chained(after)'
    <3>1. b \notin list /\ Chained(list)
      BY <2>1 DEF Late, ListSound
    <3> QED
      BY <2>1, <2>2, <2>3, <3>1, ChainPush
  <2> HIDE DEF own, n, after
  <2>9. b \notin own /\ Owners(b) = {} /\ Taking(b) = {} /\ t \notin Refer(b)
    BY <1>1, <2>1, <2>5 DEF Late, Owners, Refer
  <2>10. /\ freeListRefs'[b] = n /\ Drawn' = Drawn /\ Owners(b)' = {} /\ Linking(b)' = {}
         /\ Refer(b)' = Refer(b) /\ Taking(b)' = {}
    <3>1. /\ freeListRefs'[b] = n /\ Drawn' = Drawn
          /\ Owners(b)' = IF b \in own THEN Owners(b) \cup {t} ELSE Owners(b) \ {t}
          /\ Linking(b)' = IF LinksAt(l, r, b) THEN Linking(b) \cup {t} ELSE Linking(b) \ {t}
          /\ Refer(b)' = IF RefersAt(l, r, b) THEN Refer(b) \cup {t} ELSE Refer(b) \ {t}
          /\ Taking(b)' = IF TakesAt(l, r, b) THEN Taking(b) \cup {t} ELSE Taking(b) \ {t}
          /\ pc'[t] = l
      BY <2>1, <2>6, TouchViews
    <3>2. ~LinksAt(l, r, b) /\ ~RefersAt(l, r, b) /\ ~TakesAt(l, r, b)
      BY <2>4 DEF Leaves
    <3> QED
      BY <2>1, <2>9, <3>1, <3>2
  <2>11. Listed(b, after)'
    BY <2>1, <2>7, <2>10 DEF Late, Listed
  <2>12. BlockSound(b, after)' /\ Only(l, r, b)
    BY <2>4, <2>11 DEF BlockSound, Only
  <2>13. ListType' /\ ListSound(after)'
    BY <2>1, <2>4, <2>5, <2>6, <2>7, <2>8, <2>12, TouchStep
  <2> QED
    BY <2>7, <2>13
<1>3. CASE freeListHead # loc[t].top
  <2> DEFINE r == [loc[t] EXCEPT !.top = freeListHead]
  <2>1. Move(t, "relink", r) /\ UNCHANGED <<listVars, held>>
    BY <1>3 DEF AddSwing, Goto, Move, listVars
  <2>2. LocalFields \subseteq DOMAIN r /\ r.top = freeListHead /\ r.node = loc[t].node /\ r.head = loc[t].head
    BY <1>1 DEF LocalFields
  <2> HIDE DEF r
  <2>3. LocalSound("relink", r)
    BY <1>1, <2>2 DEF LocalSound, LinkEarly, LinkLate, Pointers
  <2>4. \A b : Alike(t, "relink", r, b)
    BY <1>1, <2>2 DEF Alike, LinksAt, RefersAt, TakesAt, LinkEarly, LinkLate
  <2> QED
    BY <2>1, <2>3, <2>4, NothingTouched
<1> QED
  BY <1>2, <1>3

LEMMA AddRetryStep ==
  ASSUME ListType, NEW t \in Threads, NEW list \in SUBSET Blocks, ListSound(list), AddRetry(t),
         UNCHANGED initialBlockPoolIndex
  PROVE  ListType' /\ ListSound(list)'
<1>0. PICK b : b = loc[t].node
  OBVIOUS
<1> DEFINE n == freeListRefs[b] + Bit - 1
           own == held[t]
<1>1. pc[t] = "relink" /\ pc[t] \in LinkLate /\ UNCHANGED <<freeListHead, freeListNext, held>>
  BY DEF AddRetry, LinkLate
<1>2. Late(b, list) /\ b \in Blocks /\ Only(pc[t], loc[t], b) /\ Linking(b) = {t} /\ t \notin Refer(b)
  BY <1>0, <1>1, Linked
<1>3. own \in SUBSET Blocks /\ own = held[t] /\ freeListHead' \in Pointers /\ LocalSound(pc[t], loc[t])
  BY <1>1 DEF ListType
<1>4. b \notin own /\ Owners(b) = {} /\ Taking(b) = {}
  BY <1>2, <1>3 DEF Late, Owners
<1>5. /\ n \in Nat /\ n = Bit + Cardinality(Refer(b))
      /\ freeListRefs[b] = 1 <=> Refer(b) = {}
  BY <1>2, ReferCount DEF Late
<1>6. Chained(list)'
  BY <1>1, ChainKeep DEF ListSound
<1>7. CASE freeListRefs[b] = 1
  <2> DEFINE r == loc[t]
  <2>1. Touch(t, "linkNext", r, b, n, own) /\ r.node = b /\ LocalSound(pc[t], r)
    BY <1>0, <1>1, <1>3, <1>7 DEF AddRetry, Touch, Move, Goto, ListType, Bit
  <2> HIDE DEF r, n, own
  <2>2. LocalSound("linkNext", r)
    BY <1>1, <2>1 DEF LocalSound, LinkEarly, LinkLate
  <2>3. LinksAt("linkNext", r, b) /\ ~RefersAt("linkNext", r, b) /\ ~TakesAt("linkNext", r, b)
    BY <2>1 DEF LinksAt, RefersAt, TakesAt, LinkEarly, LinkLate
  <2>4. Only("linkNext", r, b)
    BY <2>1 DEF Only, Leaves, LinksAt, RefersAt, TakesAt, LinkEarly, LinkLate
  <2>5. /\ freeListRefs'[b] = n /\ Drawn' = Drawn /\ Owners(b)' = {} /\ Linking(b)' = {t}
        /\ Refer(b)' = {} /\ Taking(b)' = {} /\ pc'[t] = "linkNext"
    BY <1>2, <1>4, <1>5, <1>7, <2>1, <2>3, TouchViews
  <2>6. n = Bit
    BY <1>5, <1>7, ReferCount
  <2>7. Early(b, list)'
    BY <1>2, <2>5, <2>6 DEF Early, Late, LinkEarly
  <2>8. BlockSound(b, list)'
    BY <2>7 DEF BlockSound
  <2> QED
    BY <1>2, <1>3, <1>5, <1>6, <2>1, <2>2, <2>4, <2>8, TouchStep
<1>8. CASE freeListRefs[b] # 1
  <2>1. PICK l, r : Move(t, l, r) /\ LocalSound(l, r) /\ \A c : Leaves(l, r, c)
    BY <1>0, <1>8, ReturnMoves DEF AddRetry
  <2>2. Touch(t, l, r, b, n, own)
    BY <1>0, <1>1, <1>2, <2>1 DEF AddRetry, Touch, ListType, Bit
  <2> HIDE DEF n, own
  <2>3. ~LinksAt(l, r, b) /\ ~RefersAt(l, r, b) /\ ~TakesAt(l, r, b) /\ Only(l, r, b)
    BY <2>1 DEF Leaves, Only
  <2>4. /\ freeListRefs'[b] = n /\ Drawn' = Drawn /\ Owners(b)' = {} /\ Linking(b)' = {}
        /\ Refer(b)' = Refer(b) /\ Taking(b)' = {}
    <3>1. /\ freeListRefs'[b] = n /\ Drawn' = Drawn
          /\ Owners(b)' = IF b \in own THEN Owners(b) \cup {t} ELSE Owners(b) \ {t}
          /\ Linking(b)' = IF LinksAt(l, r, b) THEN Linking(b) \cup {t} ELSE Linking(b) \ {t}
          /\ Refer(b)' = IF RefersAt(l, r, b) THEN Refer(b) \cup {t} ELSE Refer(b) \ {t}
          /\ Taking(b)' = IF TakesAt(l, r, b) THEN Taking(b) \cup {t} ELSE Taking(b) \ {t}
          /\ pc'[t] = l
      BY <1>2, <2>2, TouchViews
    <3> QED
      BY <1>2, <1>4, <2>3, <3>1
  <2>5. Waiting(b, list)'
    BY <1>2, <1>5, <1>8, <2>4 DEF Late, Waiting
  <2>6. BlockSound(b, list)'
    BY <2>5 DEF BlockSound
  <2> QED
    BY <1>2, <1>3, <1>5, <1>6, <2>1, <2>2, <2>3, <2>6, TouchStep
<1> QED
  BY <1>7, <1>8

(* A reference is taken only of a block that is neither fresh nor being    *)
(* linked with its count not stored yet: its count was not zero. *)
LEMMA GetRefStep ==
  ASSUME ListType, NEW t \in Threads, NEW list \in SUBSET Blocks, ListSound(list), GetRef(t),
         UNCHANGED initialBlockPoolIndex
  PROVE  ListType' /\ ListSound(list)'
<1>0. PICK b : b = loc[t].head
  OBVIOUS
<1>1. /\ pc[t] = "ref" /\ UNCHANGED <<freeListHead, freeListNext, held>>
      /\ LocalSound(pc[t], loc[t]) /\ LocalFields \subseteq DOMAIN loc[t] /\ freeListHead' \in Pointers
  BY DEF GetRef, ListType, LocalSound
<1>2. b \in Blocks /\ loc[t].refs \notin {0, Bit} /\ freeListRefs[b] \in Nat
  BY <1>0, <1>1 DEF LocalSound, ListType
<1>3. CASE freeListRefs[b] = loc[t].refs
  <2> DEFINE n == freeListRefs[b] + 1
             own == held[t]
             r == [loc[t] EXCEPT !.refs = 0]
  <2>1. Touch(t, "next", r, b, n, own)
    BY <1>0, <1>1, <1>3 DEF GetRef, Touch, Move, Goto, ListType
  <2>2. LocalFields \subseteq DOMAIN r /\ r.head = b
    BY <1>0, <1>1 DEF LocalFields
  <2>3. /\ own \in SUBSET Blocks /\ own = held[t] /\ n \in Nat
        /\ n = freeListRefs[b] + 1 /\ t \notin Refer(b) /\ t \notin Linking(b) /\ t \notin Taking(b)
    BY <1>1, <1>2 DEF ListType, Refer, Linking, Taking
  <2> HIDE DEF n, own, r
  <2>4. LocalSound("next", r)
    BY <1>1, <1>2, <2>2 DEF LocalSound, LinkEarly, LinkLate, Pointers
  <2>5. ~LinksAt("next", r, b) /\ RefersAt("next", r, b) /\ ~TakesAt("next", r, b)
    BY <2>2 DEF LinksAt, RefersAt, TakesAt, LinkEarly, LinkLate
  <2>6. Only("next", r, b) /\ Only(pc[t], loc[t], b)
    BY <1>1, <2>2 DEF Only, Leaves, LinksAt, RefersAt, TakesAt, LinkEarly, LinkLate
  <2>7. /\ freeListRefs'[b] = n /\ Drawn' = Drawn
        /\ Owners(b)' = IF b \in own THEN Owners(b) \cup {t} ELSE Owners(b) \ {t}
        /\ Linking(b)' = Linking(b)
        /\ Refer(b)' = Refer(b) \cup {t} /\ Taking(b)' = Taking(b) /\ pc'[t] = "next"
    <3>1. /\ freeListRefs'[b] = n /\ Drawn' = Drawn
          /\ Owners(b)' = IF b \in own THEN Owners(b) \cup {t} ELSE Owners(b) \ {t}
          /\ Linking(b)' = IF LinksAt("next", r, b) THEN Linking(b) \cup {t} ELSE Linking(b) \ {t}
          /\ Refer(b)' = IF RefersAt("next", r, b) THEN Refer(b) \cup {t} ELSE Refer(b) \ {t}
          /\ Taking(b)' = IF TakesAt("next", r, b) THEN Taking(b) \cup {t} ELSE Taking(b) \ {t}
          /\ pc'[t] = "next"
      BY <1>2, <2>1, TouchViews
    <3> QED
      BY <2>3, <2>5, <3>1
  <2>8. Owners(b)' = Owners(b)
    BY <2>3, <2>7 DEF Owners
  <2>9. /\ Cardinality(Refer(b)) \in Nat /\ Cardinality(Refer(b))' \in Nat
        /\ Cardinality(Refer(b))' = Cardinality(Refer(b)) + 1
    <3>1. ~RefersAt(pc[t], loc[t], b) /\ Move(t, "next", r)
      BY <1>1, <2>1 DEF RefersAt, Touch
    <3> QED
      BY <2>5, <3>1, ReferMoves, ReferCount
  <2>10. ASSUME NEW u \in Threads, Linking(b) = {u} PROVE pc'[u] = pc[u]
    <3>1. u # t /\ Move(t, "next", r)
      BY <2>1, <2>3, <2>10 DEF Touch
    <3> QED
      BY <3>1, Views
  <2>11. BlockSound(b, list)'
    <3>1. ~Fresh(b, list) /\ ~Early(b, list)
      BY <1>2, <1>3 DEF Fresh, Early
    <3>2. CASE Owned(b, list)
      <4>1. n = Cardinality(Refer(b))' + (IF Taking(b) = {} THEN 0 ELSE 2)
        BY <2>3, <2>9, <3>2 DEF Owned
      <4> QED
        BY <2>7, <2>8, <3>2, <4>1 DEF Owned, BlockSound
    <3>3. CASE Listed(b, list)
      <4>1. n = 1 + Cardinality(Refer(b))'
        BY <2>3, <2>9, <3>3 DEF Listed
      <4> QED
        BY <2>7, <2>8, <3>3, <4>1 DEF Listed, BlockSound
    <3>4. CASE Late(b, list)
      <4>1. n = 1 + Cardinality(Refer(b))'
        BY <2>3, <2>9, <3>4 DEF Late
      <4> QED
        BY <2>7, <2>8, <2>10, <3>4, <4>1 DEF Late, BlockSound
    <3>5. CASE Waiting(b, list)
      <4>1. n = Bit + Cardinality(Refer(b))'
        BY <2>3, <2>9, <3>5, ReferCount DEF Waiting
      <4> QED
        BY <2>7, <2>8, <3>5, <4>1 DEF Waiting, BlockSound
    <3> QED
      BY <1>2, <3>1, <3>2, <3>3, <3>4, <3>5 DEF ListSound, BlockSound
  <2>12. Chained(list)'
    BY <1>1, ChainKeep DEF ListSound
  <2> QED
    BY <1>1, <1>2, <2>1, <2>3, <2>4, <2>6, <2>11, <2>12, TouchStep
<1>4. CASE freeListRefs[b] # loc[t].refs
  <2>1. Move(t, "get", NoLocals) /\ UNCHANGED <<listVars, held>>
    BY <1>0, <1>1, <1>4 DEF GetRef, GetAgain, Goto, Move, listVars
  <2>2. LocalFields \subseteq DOMAIN NoLocals /\ NoLocals.head = nullptr
    BY DEF LocalFields, NoLocals
  <2>3. LocalSound("get", NoLocals)
    BY <2>2 DEF LocalSound, LinkEarly, LinkLate, Pointers
  <2>4. \A c : Alike(t, "get", NoLocals, c)
    BY <1>1, <2>2 DEF Alike, LinksAt, RefersAt, TakesAt, LinkEarly, LinkLate
  <2> QED
    BY <2>1, <2>3, <2>4, NothingTouched
<1> QED
  BY <1>3, <1>4

LEMMA GetSwingStep ==
  ASSUME ListType, NEW t \in Threads, NEW list \in SUBSET Blocks, ListSound(list), GetSwing(t),
         UNCHANGED initialBlockPoolIndex
  PROVE  ListType' /\ \E after \in SUBSET Blocks : ListSound(after)'
<1>0. PICK b : b = loc[t].head
  OBVIOUS
<1>1. /\ pc[t] = "swing" /\ LocalSound(pc[t], loc[t]) /\ LocalFields \subseteq DOMAIN loc[t]
      /\ b \in Blocks /\ loc[t].next = freeListNext[b] /\ freeListNext[b] \in Pointers
  BY <1>0 DEF GetSwing, ListType, LocalSound
<1>2. CASE freeListHead = b
  <2> DEFINE r == [loc[t] EXCEPT !.next = nullptr]
             own == held[t] \cup {b}
             n == freeListRefs[b]
             after == list \ {b}
  <2>1. freeListHead' = freeListNext[b] /\ UNCHANGED <<freeListRefs, freeListNext>>
    BY <1>0, <1>1, <1>2 DEF GetSwing
  <2>2. Touch(t, "unref2", r, b, n, own)
    BY <1>0, <1>1, <1>2 DEF GetSwing, Touch, Move, Goto, ListType
  <2>3. LocalFields \subseteq DOMAIN r /\ r.head = b
    BY <1>0, <1>1 DEF LocalFields
  <2>4. b \in list /\ Chained(after)'
    <3>1. Chained(list)
      BY DEF ListSound
    <3> QED
      BY <1>1, <1>2, <2>1, <3>1, ChainPop
  <2>5. /\ own \in SUBSET Blocks /\ own \ {b} = held[t] \ {b} /\ b \in own
        /\ n \in Nat /\ n = freeListRefs[b] /\ freeListHead' \in Pointers
        /\ after \in SUBSET Blocks /\ after \ {b} = list \ {b} /\ b \notin after
    BY <1>1, <2>1 DEF ListType
  <2> HIDE DEF r, own, n, after
  <2>6. Listed(b, list) /\ t \in Refer(b)
    <3>1. Listed(b, list)
      BY <1>1, <2>4 DEF ListSound, BlockSound, Fresh, Owned, Early, Late, Waiting
    <3> QED
      BY <1>0, <1>1, <3>1 DEF Refer
  <2>7. LocalSound("unref2", r)
    BY <1>1, <2>3 DEF LocalSound, LinkEarly, LinkLate, Pointers
  <2>8. ~LinksAt("unref2", r, b) /\ ~RefersAt("unref2", r, b) /\ TakesAt("unref2", r, b)
    BY <2>3 DEF LinksAt, RefersAt, TakesAt, LinkEarly, LinkLate
  <2>9. Only("unref2", r, b) /\ Only(pc[t], loc[t], b)
    BY <1>0, <1>1, <2>3 DEF Only, Leaves, LinksAt, RefersAt, TakesAt, LinkEarly, LinkLate
  <2>10. /\ freeListRefs'[b] = n /\ Drawn' = Drawn /\ Owners(b)' = {t} /\ Linking(b)' = {} /\ Taking(b)' = {t}
    <3>1. /\ freeListRefs'[b] = n /\ Drawn' = Drawn
          /\ Owners(b)' = IF b \in own THEN Owners(b) \cup {t} ELSE Owners(b) \ {t}
          /\ Linking(b)' = IF LinksAt("unref2", r, b) THEN Linking(b) \cup {t} ELSE Linking(b) \ {t}
          /\ Refer(b)' = IF RefersAt("unref2", r, b) THEN Refer(b) \cup {t} ELSE Refer(b) \ {t}
          /\ Taking(b)' = IF TakesAt("unref2", r, b) THEN Taking(b) \cup {t} ELSE Taking(b) \ {t}
          /\ pc'[t] = "unref2"
      BY <1>1, <2>2, TouchViews
    <3>2. Owners(b) = {} /\ Linking(b) = {} /\ Taking(b) = {}
      BY <2>6 DEF Listed
    <3> QED
      BY <2>5, <2>8, <3>1, <3>2
  <2>11. /\ Cardinality(Refer(b)) \in Nat /\ Cardinality(Refer(b))' \in Nat
         /\ Cardinality(Refer(b))' = Cardinality(Refer(b)) - 1
    <3>1. RefersAt(pc[t], loc[t], b) /\ Move(t, "unref2", r)
      BY <1>0, <1>1, <2>2 DEF RefersAt, Touch
    <3> QED
      BY <2>8, <3>1, ReferMoves, ReferCount
  <2>12. n = Cardinality(Refer(b))' + 2
    BY <2>5, <2>6, <2>11 DEF Listed
  <2>13. Owned(b, after)'
    BY <2>5, <2>6, <2>10, <2>12 DEF Listed, Owned
  <2>14. BlockSound(b, after)'
    BY <2>13 DEF BlockSound
  <2>15. ListType' /\ ListSound(after)'
    BY <1>1, <2>2, <2>4, <2>5, <2>7, <2>9, <2>14, TouchStep
  <2> QED
    BY <2>5, <2>15
<1>3. CASE freeListHead # b
  <2> DEFINE r == [loc[t] EXCEPT !.prevHead = loc[t].head, !.head = freeListHead, !.next = nullptr]
  <2>1. Move(t, "unref", r) /\ UNCHANGED <<listVars, held>>
    BY <1>0, <1>1, <1>3 DEF GetSwing, Goto, Move, listVars, ListType
  <2>2. LocalFields \subseteq DOMAIN r /\ r.prevHead = b /\ r.head = freeListHead
    BY <1>0, <1>1 DEF LocalFields
  <2> HIDE DEF r
  <2>3. LocalSound("unref", r)
    BY <1>1, <2>2 DEF LocalSound, LinkEarly, LinkLate, Pointers, ListType
  <2>4. \A c : Alike(t, "unref", r, c)
    BY <1>0, <1>1, <2>2 DEF Alike, LinksAt, RefersAt, TakesAt, LinkEarly, LinkLate
  <2> QED
    BY <2>1, <2>3, <2>4, NothingTouched
<1> QED
  BY <1>2, <1>3

LEMMA GetTakeStep ==
  ASSUME ListType, NEW t \in Threads, NEW list \in SUBSET Blocks, ListSound(list), GetTake(t),
         UNCHANGED initialBlockPoolIndex
  PROVE  ListType' /\ ListSound(list)'
<1>0. PICK b : b = loc[t].head
  OBVIOUS
<1> DEFINE r == NoLocals
           n == freeListRefs[b] - 2
           own == held[t]
<1>1. /\ pc[t] = "unref2" /\ UNCHANGED <<freeListHead, freeListNext, held>>
      /\ b \in Blocks /\ freeListHead' \in Pointers
  BY <1>0 DEF GetTake, ListType, LocalSound
<1>2. Touch(t, "idle", r, b, n, own)
  BY <1>0, <1>1 DEF GetTake, Touch, Move, Goto, ListType
<1>3. LocalFields \subseteq DOMAIN r /\ r.head = nullptr
  BY DEF LocalFields, NoLocals
<1>4. t \in Taking(b) /\ t \notin Refer(b) /\ t \notin Linking(b)
  BY <1>0, <1>1 DEF Taking, Refer, Linking
<1>5. Owned(b, list) /\ Owners(b) = {t} /\ Taking(b) = {t} /\ Linking(b) = {}
  <2>1. Owned(b, list)
    BY <1>1, <1>4 DEF ListSound, BlockSound, Fresh, Listed, Early, Late, Waiting
  <2> QED
    BY <1>4, <2>1 DEF Owned
<1>6. n = Cardinality(Refer(b)) /\ n \in Nat
  BY <1>5, ReferCount DEF Owned
<1>7. own \in SUBSET Blocks /\ own = held[t] /\ b \in own
  BY <1>5 DEF ListType, Owners
<1> HIDE DEF r, n, own
<1>8. LocalSound("idle", r)
  BY <1>3 DEF LocalSound, LinkEarly, LinkLate, Pointers
<1>9. ~LinksAt("idle", r, b) /\ ~RefersAt("idle", r, b) /\ ~TakesAt("idle", r, b)
  BY DEF LinksAt, RefersAt, TakesAt, LinkEarly, LinkLate
<1>10. Only("idle", r, b) /\ Only(pc[t], loc[t], b)
  BY <1>0, <1>1 DEF Only, Leaves, LinksAt, RefersAt, TakesAt, LinkEarly, LinkLate
<1>11. /\ freeListRefs'[b] = n /\ Drawn' = Drawn /\ Owners(b)' = {t} /\ Linking(b)' = {}
       /\ Refer(b)' = Refer(b) /\ Taking(b)' = {}
  <2>1. /\ freeListRefs'[b] = n /\ Drawn' = Drawn
        /\ Owners(b)' = IF b \in own THEN Owners(b) \cup {t} ELSE Owners(b) \ {t}
        /\ Linking(b)' = IF LinksAt("idle", r, b) THEN Linking(b) \cup {t} ELSE Linking(b) \ {t}
        /\ Refer(b)' = IF RefersAt("idle", r, b) THEN Refer(b) \cup {t} ELSE Refer(b) \ {t}
        /\ Taking(b)' = IF TakesAt("idle", r, b) THEN Taking(b) \cup {t} ELSE Taking(b) \ {t}
        /\ pc'[t] = "idle"
    BY <1>1, <1>2, TouchViews
  <2> QED
    BY <1>4, <1>5, <1>7, <1>9, <2>1
<1>12. Owned(b, list)'
  BY <1>5, <1>6, <1>11 DEF Owned
<1>13. BlockSound(b, list)' /\ Chained(list)'
  BY <1>1, <1>12, ChainKeep DEF BlockSound, ListSound
<1> QED
  BY <1>1, <1>2, <1>6, <1>7, <1>8, <1>10, <1>13, TouchStep

LEMMA GetDropStep ==
  ASSUME ListType, NEW t \in Threads, NEW list \in SUBSET Blocks, ListSound(list), GetDrop(t),
         UNCHANGED initialBlockPoolIndex
  PROVE  ListType' /\ ListSound(list)'
<1>0. PICK b : b = loc[t].prevHead
  OBVIOUS
<1> DEFINE n == freeListRefs[b] - 1
           own == held[t]
<1>1. /\ pc[t] = "unref" /\ UNCHANGED <<freeListHead, freeListNext, held>>
      /\ b \in Blocks /\ freeListHead' \in Pointers /\ loc[t].head \in Pointers
      /\ LocalFields \subseteq DOMAIN loc[t]
  BY <1>0 DEF GetDrop, ListType, LocalSound
<1>2. t \in Refer(b) /\ t \notin Taking(b) /\ t \notin Linking(b) /\ Only(pc[t], loc[t], b)
  BY <1>0, <1>1 DEF Taking, Refer, Linking, Only, Leaves, LinksAt, RefersAt, TakesAt, LinkEarly, LinkLate
<1>3. own \in SUBSET Blocks /\ own = held[t]
  BY DEF ListType
<1>4. /\ Cardinality(Refer(b)) \in Nat /\ Cardinality(Refer(b)) # 0
      /\ Cardinality(Refer(b)) + 2 < Bit /\ Bit \in Nat
  BY <1>2, ReferCount
<1>5. Owned(b, list) \/ Listed(b, list) \/ Late(b, list) \/ Waiting(b, list)
  BY <1>1, <1>2 DEF ListSound, BlockSound, Fresh, Early
<1>6. n \in Nat /\ n = freeListRefs[b] - 1 /\ freeListRefs[b] \in Nat
  BY <1>1, <1>4, <1>5 DEF Owned, Listed, Late, Waiting, ListType
<1>7. Chained(list)'
  BY <1>1, ChainKeep DEF ListSound
<1>8. CASE freeListRefs[b] = Bit + 1
  <2> DEFINE r == [loc[t] EXCEPT !.node = b, !.prevHead = nullptr]
  <2>1. Touch(t, "link", r, b, n, own)
    BY <1>0, <1>1, <1>8 DEF GetDrop, Touch, Move, Goto, ListType, Bit
  <2>2. LocalFields \subseteq DOMAIN r /\ r.node = b /\ r.head = loc[t].head
    BY <1>1 DEF LocalFields
  <2> HIDE DEF r, n, own
  <2>3. LocalSound("link", r)
    BY <1>1, <2>2 DEF LocalSound, LinkEarly, LinkLate
  <2>4. LinksAt("link", r, b) /\ ~RefersAt("link", r, b) /\ ~TakesAt("link", r, b)
    BY <2>2 DEF LinksAt, RefersAt, TakesAt, LinkEarly, LinkLate
  <2>5. Only("link", r, b)
    BY <2>2 DEF Only, Leaves, LinksAt, RefersAt, TakesAt, LinkEarly, LinkLate
  <2>6. Waiting(b, list) /\ Cardinality(Refer(b)) = 1
    <3>1. ~Owned(b, list)
      BY <1>4, <1>8 DEF Owned
    <3>2. ~Listed(b, list) /\ ~Late(b, list)
      BY <1>4, <1>8 DEF Listed, Late
    <3>3. Waiting(b, list)
      BY <1>5, <3>1, <3>2
    <3> QED
      BY <1>4, <1>8, <3>3 DEF Waiting
  <2>7. Refer(b)' = {}
    <3>1. Cardinality(Refer(b))' = 0
      <4>1. RefersAt(pc[t], loc[t], b) /\ Move(t, "link", r)
        BY <1>0, <1>1, <2>1 DEF RefersAt, Touch
      <4> QED
        BY <2>4, <2>6, <4>1, ReferMoves
    <3>2. IsFiniteSet(Refer(b)')
      <4>1. /\ freeListRefs'[b] = n /\ Drawn' = Drawn
            /\ Owners(b)' = IF b \in own THEN Owners(b) \cup {t} ELSE Owners(b) \ {t}
            /\ Linking(b)' = IF LinksAt("link", r, b) THEN Linking(b) \cup {t} ELSE Linking(b) \ {t}
            /\ Refer(b)' = IF RefersAt("link", r, b) THEN Refer(b) \cup {t} ELSE Refer(b) \ {t}
            /\ Taking(b)' = IF TakesAt("link", r, b) THEN Taking(b) \cup {t} ELSE Taking(b) \ {t}
            /\ pc'[t] = "link"
        BY <1>1, <2>1, TouchViews
      <4>2. Refer(b)' \subseteq Refer(b)
        BY <2>4, <4>1
      <4> QED
        BY <4>2, ReferCount, FS_Subset
    <3> QED
      BY <3>1, <3>2, FS_EmptySet
  <2>8. /\ freeListRefs'[b] = n /\ Drawn' = Drawn /\ Owners(b)' = {} /\ Linking(b)' = {t} /\ Taking(b)' = {}
        /\ pc'[t] = "link"
    <3>1. /\ freeListRefs'[b] = n /\ Drawn' = Drawn
          /\ Owners(b)' = IF b \in own THEN Owners(b) \cup {t} ELSE Owners(b) \ {t}
          /\ Linking(b)' = IF LinksAt("link", r, b) THEN Linking(b) \cup {t} ELSE Linking(b) \ {t}
          /\ Refer(b)' = IF RefersAt("link", r, b) THEN Refer(b) \cup {t} ELSE Refer(b) \ {t}
          /\ Taking(b)' = IF TakesAt("link", r, b) THEN Taking(b) \cup {t} ELSE Taking(b) \ {t}
          /\ pc'[t] = "link"
      BY <1>1, <2>1, TouchViews
    <3>2. Owners(b) = {} /\ Linking(b) = {} /\ Taking(b) = {} /\ b \notin own
      BY <1>3, <2>6 DEF Waiting, Owners
    <3> QED
      BY <2>4, <3>1, <3>2
  <2>9. n = Bit
    BY <1>4, <1>6, <1>8
  <2>10. Early(b, list)'
    BY <2>6, <2>7, <2>8, <2>9 DEF Waiting, Early, LinkEarly
  <2>11. BlockSound(b, list)'
    BY <2>10 DEF BlockSound
  <2> QED
    BY <1>1, <1>2, <1>3, <1>6, <1>7, <2>1, <2>3, <2>5, <2>11, TouchStep
<1>9. CASE freeListRefs[b] # Bit + 1
  <2> DEFINE r == [NoLocals EXCEPT !.head = loc[t].head, !.getting = TRUE]
             l == Loop(loc[t].head)
  <2>1. Touch(t, l, r, b, n, own)
    BY <1>0, <1>1, <1>9 DEF GetDrop, Touch, Move, Goto, ListType, Bit
  <2>2. LocalFields \subseteq DOMAIN r /\ r.head = loc[t].head
    BY DEF LocalFields, NoLocals
  <2>3. l \in {"none", "refs"} /\ (l = "refs" => loc[t].head # nullptr)
    BY DEF Loop
  <2> HIDE DEF l, r, n, own
  <2>4. LocalSound(l, r)
    BY <1>1, <2>2, <2>3 DEF LocalSound, LinkEarly, LinkLate, Pointers
  <2>5. ~LinksAt(l, r, b) /\ ~RefersAt(l, r, b) /\ ~TakesAt(l, r, b) /\ Only(l, r, b)
    BY <2>3 DEF LinksAt, RefersAt, TakesAt, LinkEarly, LinkLate, Only, Leaves
  <2>6. /\ freeListRefs'[b] = n /\ Drawn' = Drawn
        /\ Owners(b)' = (IF b \in own THEN Owners(b) \cup {t} ELSE Owners(b) \ {t})
        /\ Linking(b)' = Linking(b)
        /\ Refer(b)' = Refer(b) \ {t} /\ Taking(b)' = Taking(b)
    <3>1. /\ freeListRefs'[b] = n /\ Drawn' = Drawn
          /\ Owners(b)' = IF b \in own THEN Owners(b) \cup {t} ELSE Owners(b) \ {t}
          /\ Linking(b)' = IF LinksAt(l, r, b) THEN Linking(b) \cup {t} ELSE Linking(b) \ {t}
          /\ Refer(b)' = IF RefersAt(l, r, b) THEN Refer(b) \cup {t} ELSE Refer(b) \ {t}
          /\ Taking(b)' = IF TakesAt(l, r, b) THEN Taking(b) \cup {t} ELSE Taking(b) \ {t}
          /\ pc'[t] = l
      BY <1>1, <2>1, TouchViews
    <3> QED
      BY <1>2, <2>5, <3>1
  <2>7. Owners(b)' = Owners(b)
    BY <1>3, <2>6 DEF Owners
  <2>8. /\ Cardinality(Refer(b))' \in Nat
        /\ Cardinality(Refer(b))' = Cardinality(Refer(b)) - 1
    <3>1. RefersAt(pc[t], loc[t], b) /\ Move(t, l, r)
      BY <1>0, <1>1, <2>1 DEF RefersAt, Touch
    <3> QED
      BY <1>4, <2>5, <3>1, ReferMoves
  <2>9. ASSUME NEW u \in Threads, Linking(b) = {u} PROVE pc'[u] = pc[u]
    <3>1. u # t /\ Move(t, l, r)
      BY <1>2, <2>1, <2>9 DEF Touch
    <3> QED
      BY <3>1, Views
  <2>10. BlockSound(b, list)'
    <3>2. CASE Owned(b, list)
      <4>1. n = Cardinality(Refer(b))' + (IF Taking(b) = {} THEN 0 ELSE 2)
        BY <1>4, <1>6, <2>8, <3>2 DEF Owned
      <4> QED
        BY <2>6, <2>7, <3>2, <4>1 DEF Owned, BlockSound
    <3>3. CASE Listed(b, list)
      <4>1. n = 1 + Cardinality(Refer(b))'
        BY <1>4, <1>6, <2>8, <3>3 DEF Listed
      <4> QED
        BY <2>6, <2>7, <3>3, <4>1 DEF Listed, BlockSound
    <3>4. CASE Late(b, list)
      <4>1. n = 1 + Cardinality(Refer(b))'
        BY <1>4, <1>6, <2>8, <3>4 DEF Late
      <4> QED
        BY <2>6, <2>7, <2>9, <3>4, <4>1 DEF Late, BlockSound
    <3>5. CASE Waiting(b, list)
      <4>1. n = Bit + Cardinality(Refer(b))' /\ Cardinality(Refer(b))' # 0
        BY <1>4, <1>6, <1>9, <2>8, <3>5 DEF Waiting
      <4>2. Refer(b)' # {}
        <5>1. Cardinality({}) = 0
          BY FS_EmptySet
        <5> QED
          BY <4>1, <5>1
      <4> QED
        BY <2>6, <2>7, <3>5, <4>1, <4>2 DEF Waiting, BlockSound
    <3> QED
      BY <1>5, <3>2, <3>3, <3>4, <3>5
  <2> QED
    BY <1>1, <1>2, <1>3, <1>6, <1>7, <2>1, <2>4, <2>5, <2>10, TouchStep
<1> QED
  BY <1>8, <1>9

(* freeListNext is stored while nobody else refers to the block or links   *)
(* it. *)
LEMMA AddNextStep ==
  ASSUME ListType, NEW t \in Threads, NEW list \in SUBSET Blocks, ListSound(list), AddNext(t),
         UNCHANGED initialBlockPoolIndex
  PROVE  ListType' /\ ListSound(list)'
<1>0. PICK b : b = loc[t].node
  OBVIOUS
<1>1. /\ pc[t] = "linkNext" /\ pc[t] \in LinkEarly
      /\ UNCHANGED <<freeListHead, freeListRefs, held, loc>>
      /\ freeListNext' = [freeListNext EXCEPT ![b] = loc[t].top]
  BY <1>0 DEF AddNext, LinkEarly
<1>2. Early(b, list) /\ b \in Blocks /\ Linking(b) = {t} /\ Refer(b) = {} /\ b \notin list
  <2>1. Early(b, list) /\ b \in Blocks /\ Linking(b) = {t}
    BY <1>0, <1>1, Linked
  <2> QED
    BY <2>1 DEF Early
<1>3. LocalSound("linkNext", loc[t]) /\ loc[t].top \in Pointers
  BY <1>1 DEF ListType, LocalSound
<1>4. /\ freeListNext' \in [Blocks -> Pointers] /\ freeListNext'[b] = loc[t].top
      /\ \A c \in Blocks : c # b => freeListNext'[c] = freeListNext[c]
  BY <1>1, <1>2, <1>3 DEF ListType
<1>5. Move(t, "linkRefs", loc[t])
  BY <1>1 DEF AddNext, Goto, Move, ListType
<1>6. /\ pc'[t] = "linkRefs" /\ pc' = [u \in Threads |-> pc'[u]] /\ loc' = [u \in Threads |-> loc'[u]]
      /\ \A u \in Threads \ {t} : pc'[u] = pc[u]
  BY <1>1, <1>5 DEF ListType, Move
<1>7. ASSUME NEW u \in Threads PROVE LocalSound(pc[u], loc[u])'
  <2>1. CASE u = t
    BY <1>0, <1>1, <1>3, <1>4, <1>6, <2>1 DEF LocalSound, LinkEarly, LinkLate
  <2>2. CASE u # t
    <3>1. LocalSound(pc[u], loc[u])
      BY DEF ListType
    <3>2. pc[u] = "swing" => loc[u].head # b
      BY <1>2 DEF Refer
    <3>3. pc[u] \in {"linkRefs", "linkHead"} => loc[u].node # b
      BY <1>2, <2>2 DEF Linking
    <3> QED
      BY <1>1, <1>4, <1>6, <2>2, <3>1, <3>2, <3>3 DEF LocalSound, LinkEarly, LinkLate
  <2> QED
    BY <2>1, <2>2
<1>8. ListType'
  <2>1. \A u \in Threads : LocalSound(pc[u], loc[u])'
    BY <1>7
  <2> QED
    BY <1>1, <1>4, <1>6, <2>1 DEF ListType, Pointers
<1>9. ASSUME NEW c \in Blocks PROVE BlockSound(c, list)'
  <2>1. Alike(t, "linkRefs", loc[t], c)
    BY <1>1 DEF Alike, LinksAt, RefersAt, TakesAt, LinkEarly, LinkLate
  <2>2. BlockSound(c, list)
    BY DEF ListSound
  <2>3. freeListRefs'[c] = freeListRefs[c] /\ Owners(c)' = Owners(c) /\ Drawn' = Drawn
    BY <1>1 DEF Owners, Drawn
  <2> QED
    BY <1>5, <2>1, <2>2, <2>3, BlockKeeps
<1>10. Chained(list)'
  <2>1. \A c \in list : freeListNext'[c] = freeListNext[c]
    BY <1>2, <1>4
  <2>2. Chained(list)
    BY DEF ListSound
  <2> QED
    BY <1>1, <2>1, <2>2, ChainKeep
<1> QED
  BY <1>8, <1>9, <1>10 DEF ListSound

---------------------------------------------------------------------------
(* The pools *)

(* What a thread is doing while no block depends on it. *)
PoolLabels == {"idle", "initial", "initialDraw", "get", "none", "data", "draw", "grow",
               "create", "crashed"} \cup Holding

LEMMA PoolMoves ==
  ASSUME ListType, NEW t \in Threads, NEW l \in PoolLabels, NEW r, r = loc[t] \/ r = NoLocals,
         pc[t] \in PoolLabels
  PROVE  LocalSound(l, r) /\ \A b : Leaves(l, r, b) /\ Leaves(pc[t], loc[t], b)
<1>1. LocalFields \subseteq DOMAIN NoLocals /\ NoLocals.head = nullptr
  BY DEF LocalFields, NoLocals
<1>2. LocalFields \subseteq DOMAIN loc[t] /\ loc[t].head \in Pointers
  BY DEF ListType, LocalSound
<1>3. LocalFields \subseteq DOMAIN r /\ r.head \in Pointers
  BY <1>1, <1>2 DEF Pointers
<1>4. l \notin {"refs", "ref", "next", "swing", "unref2", "unref"} \cup LinkEarly \cup LinkLate
  BY DEF PoolLabels, Holding, LinkEarly, LinkLate
<1>5. pc[t] \notin {"refs", "ref", "next", "swing", "unref2", "unref"} \cup LinkEarly \cup LinkLate
  BY DEF PoolLabels, Holding, LinkEarly, LinkLate
<1>6. LocalSound(l, r)
  BY <1>3, <1>4 DEF LocalSound, LinkEarly, LinkLate
<1>7. \A b : Leaves(l, r, b) /\ Leaves(pc[t], loc[t], b)
  BY <1>4, <1>5 DEF Leaves, LinksAt, RefersAt, TakesAt
<1> QED
  BY <1>6, <1>7

(* Such a step keeps every block as it is. *)
LEMMA PoolQuiet ==
  ASSUME ListType, NEW t \in Threads, NEW l \in PoolLabels, NEW r, r = loc[t] \/ r = NoLocals,
         pc[t] \in PoolLabels, Move(t, l, r),
         NEW list \in SUBSET Blocks, ListSound(list), UNCHANGED <<listVars, held>>, Drawn' = Drawn
  PROVE  ListType' /\ ListSound(list)'
<1>1. LocalSound(l, r) /\ \A b : Leaves(l, r, b) /\ Leaves(pc[t], loc[t], b)
  BY PoolMoves
<1>2. ListType'
  BY <1>1, TypeKeeps DEF ListType, listVars
<1>3. \A b : Owners(b)' = Owners(b) /\ freeListRefs'[b] = freeListRefs[b]
  BY DEF Owners, listVars
<1>4. ASSUME NEW b \in Blocks PROVE BlockSound(b, list)'
  <2>1. BlockSound(b, list)
    BY DEF ListSound
  <2>2. Alike(t, l, r, b)
    BY <1>1 DEF Alike, Leaves
  <2> QED
    BY <1>3, <2>1, <2>2, BlockKeeps
<1>5. Chained(list)'
  BY ChainKeep DEF ListSound, listVars
<1> QED
  BY <1>2, <1>4, <1>5 DEF ListSound

(* Drawing a block makes it the drawing thread's. *)
LEMMA PoolTake ==
  ASSUME ListType, NEW t \in Threads, NEW l \in PoolLabels, pc[t] \in PoolLabels, Goto(t, l),
         NEW list \in SUBSET Blocks, ListSound(list), UNCHANGED <<listVars, loc>>,
         NEW b \in Blocks, b \notin Drawn, held' = [held EXCEPT ![t] = @ \cup {b}],
         Drawn' = Drawn \cup {b}
  PROVE  ListType' /\ ListSound(list)' /\ Owners(b) = {}
<1>0. PICK r : r = loc[t]
  OBVIOUS
<1>1. LocalSound(l, r) /\ \A c : Leaves(l, r, c) /\ Leaves(pc[t], loc[t], c)
  BY <1>0, PoolMoves
<1>2. Move(t, l, r)
  BY <1>0 DEF Goto, Move, ListType
<1>3. held' \in [Threads -> SUBSET Blocks] /\ held'[t] = held[t] \cup {b} /\ \A u \in Threads \ {t} : held'[u] = held[u]
  BY DEF ListType
<1>4. ListType'
  <2>1. UNCHANGED freeListNext /\ freeListHead' \in Pointers /\ freeListRefs' \in [Blocks -> Nat]
    BY DEF ListType, listVars
  <2> QED
    BY <1>1, <1>2, <1>3, <2>1, TypeKeeps
<1>5. Fresh(b, list)
  BY DEF ListSound, BlockSound, Owned, Listed, Early, Late, Waiting
<1>6. ASSUME NEW c \in Blocks PROVE BlockSound(c, list)'
  <2>1. freeListRefs'[c] = freeListRefs[c]
    BY DEF listVars
  <2>2. CASE c # b
    <3>1. Owners(c)' = Owners(c)
      BY <1>3, <2>2 DEF Owners
    <3>2. BlockSound(c, list) /\ Alike(t, l, r, c) /\ (c \in Drawn' <=> c \in Drawn)
      BY <1>1, <2>2 DEF ListSound, Alike, Leaves
    <3> QED
      BY <1>2, <2>1, <3>1, <3>2, BlockKeeps
  <2>3. CASE c = b
    <3>1. Owners(b)' = {t}
      BY <1>3, <1>5 DEF Owners, Fresh
    <3>2. /\ Linking(b)' = IF LinksAt(l, r, b) THEN Linking(b) \cup {t} ELSE Linking(b) \ {t}
          /\ Refer(b)' = IF RefersAt(l, r, b) THEN Refer(b) \cup {t} ELSE Refer(b) \ {t}
          /\ Taking(b)' = IF TakesAt(l, r, b) THEN Taking(b) \cup {t} ELSE Taking(b) \ {t}
      BY <1>2, Views
    <3>3. ~LinksAt(l, r, b) /\ ~RefersAt(l, r, b) /\ ~TakesAt(l, r, b)
      BY <1>1 DEF Leaves
    <3>4. Linking(b)' = {} /\ Refer(b)' = {} /\ Taking(b)' = {}
      BY <1>5, <3>2, <3>3 DEF Fresh
    <3>5. freeListRefs'[b] = 0 /\ b \notin list /\ Cardinality({}) = 0
      BY <1>5, <2>1, <2>3, FS_EmptySet DEF Fresh
    <3>6. freeListRefs'[b] = Cardinality(Refer(b))' + (IF Taking(b)' = {} THEN 0 ELSE 2)
      BY <3>4, <3>5
    <3> QED
      BY <2>3, <3>1, <3>4, <3>5, <3>6 DEF Owned, BlockSound
  <2> QED
    BY <2>2, <2>3
<1>7. Chained(list)'
  BY ChainKeep DEF ListSound, listVars
<1>8. Owners(b) = {}
  BY <1>5 DEF Fresh
<1> QED
  BY <1>4, <1>6, <1>7, <1>8 DEF ListSound

(* The fetch_add on a pool: the next block is drawn, if there is one. *)
LEMMA DrawNext ==
  ASSUME TableInv, NEW k \in 0 .. Allocator, NEW index, index = initialBlockPoolIndex[k],
         initialBlockPoolIndex' = [initialBlockPoolIndex EXCEPT ![k] = index + 1]
  PROVE  /\ index < PoolSize(k) => /\ <<k, index>> \in Blocks /\ <<k, index>> \notin Drawn
                                   /\ Drawn' = Drawn \cup {<<k, index>>}
         /\ ~(index < PoolSize(k)) => Drawn' = Drawn
         /\ initialBlockPoolIndex' \in [0 .. Allocator -> Nat]
         /\ \A j \in 0 .. Allocator : initialBlockPoolIndex'[j] >= initialBlockPoolIndex[j]
<1>1. initialBlockPoolIndex \in [0 .. Allocator -> Nat] /\ index \in Nat /\ index + 1 \in Nat
  BY DEF TableInv
<1>2. /\ initialBlockPoolIndex'[k] = index + 1 /\ initialBlockPoolIndex' \in [0 .. Allocator -> Nat]
      /\ \A j \in 0 .. Allocator : j # k => initialBlockPoolIndex'[j] = initialBlockPoolIndex[j]
  BY <1>1
<1>3. \A b \in Blocks : \E j \in 0 .. Allocator : \E i \in 0 .. PoolSize(j) - 1 : b = <<j, i>>
  BY BlocksAssumption DEF PoolBlocks
<1>4. \A j \in 0 .. Allocator : PoolSize(j) \in Nat
  BY PoolAssumption
<1>5. \A j \in 0 .. Allocator : \A i \in 0 .. PoolSize(j) - 1 : <<j, i>> \in Blocks
  BY BlocksAssumption DEF PoolBlocks
<1> HIDE DEF PoolSize, Allocator
<1>6. ASSUME NEW j \in 0 .. Allocator, NEW i \in 0 .. PoolSize(j) - 1
      PROVE  /\ <<j, i>> \in Drawn <=> i < initialBlockPoolIndex[j]
             /\ <<j, i>> \in Drawn' <=> i < initialBlockPoolIndex'[j]
             /\ <<j, i>> = <<k, index>> <=> j = k /\ i = index
  BY <1>5 DEF Drawn
<1>7. CASE index < PoolSize(k)
  <2>1. index \in 0 .. PoolSize(k) - 1
    BY <1>1, <1>4, <1>7
  <2>2. <<k, index>> \in Blocks /\ <<k, index>> \notin Drawn
    <3>1. ~(index < initialBlockPoolIndex[k])
      BY <1>1
    <3> QED
      BY <1>5, <1>6, <2>1, <3>1
  <2>3. ASSUME NEW b \in Blocks PROVE b \in Drawn' <=> b \in Drawn \cup {<<k, index>>}
    <3>1. PICK j \in 0 .. Allocator : \E i \in 0 .. PoolSize(j) - 1 : b = <<j, i>>
      BY <1>3
    <3>2. PICK i \in 0 .. PoolSize(j) - 1 : b = <<j, i>>
      BY <3>1
    <3>3. i \in Nat /\ initialBlockPoolIndex[j] \in Nat
      BY <1>1, <1>4
    <3>4. CASE j # k
      BY <1>2, <1>6, <3>2, <3>4
    <3>5. CASE j = k
      <4>1. i < index + 1 <=> i < index \/ i = index
        BY <1>1, <3>3
      <4> QED
        BY <1>2, <1>6, <3>2, <3>5, <4>1
    <3> QED
      BY <3>4, <3>5
  <2>4. Drawn \subseteq Blocks /\ Drawn' \subseteq Blocks
    BY DEF Drawn
  <2>5. Drawn' = Drawn \cup {<<k, index>>}
    BY <2>2, <2>3, <2>4
  <2> QED
    BY <1>1, <1>2, <1>7, <2>2, <2>5
<1>8. CASE ~(index < PoolSize(k))
  <2>1. ASSUME NEW b \in Blocks PROVE b \in Drawn' <=> b \in Drawn
    <3>1. PICK j \in 0 .. Allocator : \E i \in 0 .. PoolSize(j) - 1 : b = <<j, i>>
      BY <1>3
    <3>2. PICK i \in 0 .. PoolSize(j) - 1 : b = <<j, i>>
      BY <3>1
    <3>3. i \in Nat /\ i < PoolSize(j) /\ PoolSize(j) \in Nat
      BY <1>4
    <3>4. CASE j # k
      BY <1>2, <1>6, <3>2, <3>4
    <3>5. CASE j = k
      <4>1. i < index /\ i < index + 1
        BY <1>1, <1>8, <3>3, <3>5
      <4> QED
        BY <1>2, <1>6, <3>2, <3>5, <4>1
    <3> QED
      BY <3>4, <3>5
  <2>2. Drawn \subseteq Blocks /\ Drawn' \subseteq Blocks
    BY DEF Drawn
  <2>3. Drawn' = Drawn
    BY <2>1, <2>2
  <2> QED
    BY <1>1, <1>2, <1>8, <2>3
<1> QED
  BY <1>7, <1>8

(* A step that neither takes nor holds the lock. *)
LEMMA TableMove ==
  ASSUME ListType, TableInv, NEW t \in Threads, NEW l, Goto(t, l), pc[t] \notin Holding, l \notin Holding,
         NEW i \in Slots, nAllocateIndex' = [nAllocateIndex EXCEPT ![t] = i], UNCHANGED tableVars,
         l = "draw" => i \in m_pMaxAllocTimes,
         initialBlockPoolIndex' \in [0 .. Allocator -> Nat],
         \A k \in Slots \ m_pMaxAllocTimes : initialBlockPoolIndex'[k + 1] = 0
  PROVE  TableInv'
<1>1. /\ pc'[t] = l /\ nAllocateIndex'[t] = i /\ nAllocateIndex' \in [Threads -> Slots]
      /\ \A u \in Threads \ {t} : pc'[u] = pc[u] /\ nAllocateIndex'[u] = nAllocateIndex[u]
  BY DEF Goto, ListType, TableInv
<1>2. Holders' = Holders
  BY <1>1 DEF Holders
<1>3. {"locked", "storeIndex", "storeIndexLast", "storePointer", "storePointerLast", "unlock"} = Holding
  BY DEF Holding
<1>4. ASSUME NEW u \in Threads PROVE TableSound(u)'
  <2>1. CASE u = t
    BY <1>1, <1>3, <2>1 DEF TableSound, tableVars
  <2>2. CASE u # t
    <3>1. TableSound(u)
      BY DEF TableInv
    <3> QED
      BY <1>1, <2>2, <3>1 DEF TableSound, tableVars
  <2> QED
    BY <2>1, <2>2
<1>5. ASSUME \A u \in Threads : pc'[u] \notin {"storePointerLast", "storeIndexLast"}
      PROVE  m_pMaxAllocTimes = 0 .. m_nAllocateIndex
  <2>1. \A u \in Threads : pc[u] \notin {"storePointerLast", "storeIndexLast"}
    BY <1>1, <1>3, <1>5
  <2> QED
    BY <2>1 DEF TableInv
<1>6. m_nAllocateIndex' = m_nAllocateIndex /\ m_pMaxAllocTimes' = m_pMaxAllocTimes
  BY DEF tableVars
<1>7. /\ m_nAllocateIndex \in Slots /\ m_pMaxAllocTimes \subseteq Slots
      /\ \A u, v \in Holders : u = v
  BY DEF TableInv
<1>8. \A u \in Threads : TableSound(u)'
  BY <1>4
<1> QED
  BY <1>1, <1>2, <1>5, <1>6, <1>7, <1>8 DEF TableInv

(* Taking the lock, and the steps of the thread that holds it. *)
LEMMA TableAlone ==
  ASSUME TableInv, NEW t \in Threads, pc[t] \in Holding
  PROVE  \A u \in Threads \ {t} : pc[u] \notin Holding
BY DEF TableInv, Holders

LEMMA LockTaken ==
  ASSUME ListType, TableInv, NEW t \in Threads, ~m_lock, m_lock' = TRUE, Goto(t, "locked"),
         nAllocateIndex[t] + 1 \in Slots,
         UNCHANGED <<m_pMaxAllocTimes, m_nAllocateIndex, nAllocateIndex, initialBlockPoolIndex>>
  PROVE  TableInv'
<1>1. pc'[t] = "locked" /\ \A u \in Threads \ {t} : pc'[u] = pc[u]
  BY DEF Goto, ListType
<1>2. \A u \in Threads : pc[u] \notin Holding
  BY DEF TableInv, TableSound
<1>3. Holders' \subseteq {t}
  BY <1>1, <1>2 DEF Holders
<1>4. ASSUME NEW u \in Threads PROVE TableSound(u)'
  <2>1. CASE u = t
    BY <1>1, <2>1 DEF TableSound
  <2>2. CASE u # t
    <3>1. TableSound(u)
      BY DEF TableInv
    <3> QED
      BY <1>1, <2>2, <3>1 DEF TableSound
  <2> QED
    BY <2>1, <2>2
<1>5. m_pMaxAllocTimes = 0 .. m_nAllocateIndex
  <2>1. \A u \in Threads : pc[u] \notin {"storePointerLast", "storeIndexLast"}
    BY <1>2 DEF Holding
  <2> QED
    BY <2>1 DEF TableInv
<1>6. \A u, v \in Holders' : u = v
  BY <1>3
<1>7. \A u \in Threads : TableSound(u)'
  BY <1>4
<1> QED
  BY <1>5, <1>6, <1>7 DEF TableInv

LEMMA LockedSteps ==
  ASSUME ListType, TableInv, NEW t \in Threads, pc[t] \in Holding, NEW l, Goto(t, l),
         UNCHANGED <<nAllocateIndex, initialBlockPoolIndex>>,
         l \in Holding => UNCHANGED m_lock,
         l # "draw" /\ l # "locked", m_nAllocateIndex' \in Slots,
         m_pMaxAllocTimes \subseteq m_pMaxAllocTimes', m_pMaxAllocTimes' \subseteq Slots,
         l \in {"storeIndex", "storePointer", "storeIndexLast"} => m_nAllocateIndex' + 1 \in Slots,
         l = "storePointerLast" => m_pMaxAllocTimes' = 0 .. m_nAllocateIndex' - 1,
         l = "storeIndexLast" => m_pMaxAllocTimes' = 0 .. m_nAllocateIndex' + 1,
         l \notin {"storePointerLast", "storeIndexLast"} => m_pMaxAllocTimes' = 0 .. m_nAllocateIndex'
  PROVE  TableInv'
<1>1. pc'[t] = l /\ \A u \in Threads \ {t} : pc'[u] = pc[u]
  BY DEF Goto, ListType
<1>2. \A u \in Threads \ {t} : pc'[u] \notin Holding
  BY <1>1, TableAlone
<1>3. Holders' \subseteq {t}
  BY <1>1, <1>2 DEF Holders
<1>4. ASSUME NEW u \in Threads PROVE TableSound(u)'
  <2>1. CASE u = t
    <3>1. m_lock
      BY DEF TableInv, TableSound
    <3>2. l \in Holding => m_lock'
      BY <3>1
    <3> QED
      BY <1>1, <2>1, <3>2 DEF TableSound
  <2>2. CASE u # t
    <3>1. TableSound(u)
      BY DEF TableInv
    <3>2. pc'[u] = pc[u] /\ pc'[u] \notin Holding
      BY <1>1, <1>2, <2>2
    <3> QED
      BY <3>1, <3>2 DEF TableSound, Holding
  <2> QED
    BY <2>1, <2>2
<1>5. \A u \in Threads : TableSound(u)'
  BY <1>4
<1>6. (\A u \in Threads : pc'[u] \notin {"storePointerLast", "storeIndexLast"})
        => m_pMaxAllocTimes' = 0 .. m_nAllocateIndex'
  BY <1>1
<1>7. \A u, v \in Holders' : u = v
  BY <1>3
<1>8. /\ initialBlockPoolIndex' \in [0 .. Allocator -> Nat] /\ nAllocateIndex' \in [Threads -> Slots]
      /\ \A k \in Slots \ m_pMaxAllocTimes' : initialBlockPoolIndex'[k + 1] = 0
  BY DEF TableInv
<1> QED
  BY <1>5, <1>6, <1>7, <1>8 DEF TableInv

---------------------------------------------------------------------------
(* Every step *)

(* What a step may do to the owners, and that it keeps the invariant and   *)
(* takes no draw back. *)
Handed == UNCHANGED held \/ \E t \in Threads, b \in Blocks : Free!Take(t, b) \/ Free!Give(t, b)
StepKeeps ==
  /\ PoolInv' /\ Handed
  /\ \A k \in 0 .. Allocator : initialBlockPoolIndex'[k] >= initialBlockPoolIndex[k]

LEMMA FreeToTake ==
  ASSUME NEW b, Owners(b) = {}
  PROVE  b \notin Free!Taken
BY DEF Owners, Free!Taken

(* The free list's steps take no lock, and hand over blocks as the         *)
(* abstract pool does. *)
LEMMA ListLabels ==
  ASSUME NEW t \in Threads, ListType, ListStep(t) \/ Add(t)
  PROVE  pc[t] \notin Holding /\ \E l : Goto(t, l) /\ l \notin Holding /\ l # "draw"
<1> DEFINE Fine(l) == l \notin Holding /\ l # "draw"
<1>1. /\ Fine("idle") /\ Fine("link") /\ Fine("linkNext") /\ Fine("linkRefs") /\ Fine("linkHead") /\ Fine("relink")
      /\ Fine("get") /\ Fine("refs") /\ Fine("ref") /\ Fine("next") /\ Fine("swing") /\ Fine("unref")
      /\ Fine("unref2") /\ Fine("none")
  BY DEF Holding
<1>2. \A head : Fine(Loop(head))
  BY <1>1 DEF Loop
<1>3. AddReturn(t) => \E l : Goto(t, l) /\ Fine(l)
  BY <1>1, <1>2 DEF AddReturn
<1> DEFINE Ok == pc[t] \notin Holding /\ \E l : Goto(t, l) /\ Fine(l)
<1>4. CASE Add(t)
  <2>1. UNCHANGED pc /\ pc[t] = "idle" => Goto(t, "idle")
    BY DEF Goto, ListType
  <2>2. pc[t] = "idle" /\ (Goto(t, "link") \/ UNCHANGED pc)
    BY <1>4 DEF Add
  <2> HIDE DEF Fine
  <2>3. Goto(t, "link") \/ Goto(t, "idle")
    BY <2>1, <2>2
  <2>4. "idle" \notin Holding
    BY DEF Holding
  <2> QED
    BY <1>1, <2>2, <2>3, <2>4 DEF Fine
<1>5. CASE AddHead(t)
  BY <1>1, <1>5 DEF AddHead
<1>6. CASE AddNext(t)
  BY <1>1, <1>6 DEF AddNext
<1>7. CASE AddRefs(t)
  BY <1>1, <1>7 DEF AddRefs
<1>8. CASE AddSwing(t)
  BY <1>1, <1>3, <1>8 DEF AddSwing
<1>9. CASE AddRetry(t)
  BY <1>1, <1>3, <1>9 DEF AddRetry
<1>10. CASE GetHead(t)
  BY <1>1, <1>2, <1>10 DEF GetHead
<1>11. CASE GetRefs(t)
  BY <1>1, <1>11 DEF GetRefs, GetAgain
<1>12. CASE GetRef(t)
  BY <1>1, <1>12 DEF GetRef, GetAgain
<1>13. CASE GetNext(t)
  BY <1>1, <1>13 DEF GetNext
<1>14. CASE GetSwing(t)
  BY <1>1, <1>14 DEF GetSwing
<1>15. CASE GetTake(t)
  BY <1>1, <1>15 DEF GetTake
<1>16. CASE GetDrop(t)
  BY <1>1, <1>2, <1>16 DEF GetDrop
<1> QED
  BY <1>4, <1>5, <1>6, <1>7, <1>8, <1>9, <1>10, <1>11, <1>12, <1>13, <1>14, <1>15, <1>16 DEF ListStep

LEMMA ListHands ==
  ASSUME ListType, NEW list \in SUBSET Blocks, ListSound(list), NEW t \in Threads, ListStep(t) \/ Add(t)
  PROVE  Handed
<1>1. CASE Add(t)
  <2>1. PICK b \in held[t] : held' = [held EXCEPT ![t] = @ \ {b}]
    BY <1>1 DEF Add
  <2>2. b \in Blocks /\ Free!Give(t, b)
    BY <2>1 DEF ListType, Free!Give
  <2> QED
    BY <2>2 DEF Handed
<1>2. CASE GetSwing(t) /\ freeListHead = loc[t].head
  <2>1. PICK b : b = loc[t].head
    OBVIOUS
  <2>2. /\ b \in Blocks /\ freeListHead' = freeListNext[b] /\ UNCHANGED freeListNext
        /\ held' = [held EXCEPT ![t] = @ \cup {b}]
    BY <1>2, <2>1 DEF GetSwing, ListType, LocalSound
  <2>3. b \in list
    <3>1. Chained(list) /\ freeListHead = b
      BY <1>2, <2>1 DEF ListSound
    <3> QED
      BY <2>2, <3>1, ChainPop
  <2>4. Owners(b) = {}
    BY <2>2, <2>3 DEF ListSound, BlockSound, Fresh, Owned, Listed, Early, Late, Waiting
  <2>5. Free!Take(t, b)
    BY <2>2, <2>4, FreeToTake DEF Free!Take
  <2> QED
    BY <2>2, <2>5 DEF Handed
<1>3. CASE ListStep(t) /\ ~(GetSwing(t) /\ freeListHead = loc[t].head)
  <2>1. UNCHANGED held
    BY <1>3 DEF ListStep, AddHead, AddNext, AddRefs, AddSwing, AddRetry, GetHead, GetRefs, GetRef,
                GetNext, GetSwing, GetTake, GetDrop
  <2> QED
    BY <2>1 DEF Handed
<1> QED
  BY <1>1, <1>2, <1>3

LEMMA ListKeeps ==
  ASSUME PoolInv, NEW t \in Threads, ListStep(t) \/ Add(t),
         UNCHANGED <<initialBlockPoolIndex, tableVars, nAllocateIndex>>
  PROVE  StepKeeps
<1>1. ListType /\ TableInv /\ UNCHANGED initialBlockPoolIndex
  BY DEF PoolInv
<1>2. PICK list \in SUBSET Blocks : ListSound(list)
  BY DEF PoolInv
<1>3. ListType' /\ \E after \in SUBSET Blocks : ListSound(after)'
  <2>1. CASE Add(t)
    BY <1>1, <1>2, <2>1, AddStep
  <2>2. CASE AddHead(t)
    BY <1>1, <1>2, <2>2, AddHeadStep
  <2>3. CASE AddNext(t)
    BY <1>1, <1>2, <2>3, AddNextStep
  <2>4. CASE AddRefs(t)
    BY <1>1, <1>2, <2>4, AddRefsStep
  <2>5. CASE AddSwing(t)
    BY <1>1, <1>2, <2>5, AddSwingStep
  <2>6. CASE AddRetry(t)
    BY <1>1, <1>2, <2>6, AddRetryStep
  <2>7. CASE GetHead(t)
    BY <1>1, <1>2, <2>7, GetHeadStep
  <2>8. CASE GetRefs(t)
    BY <1>1, <1>2, <2>8, GetRefsStep
  <2>9. CASE GetRef(t)
    BY <1>1, <1>2, <2>9, GetRefStep
  <2>10. CASE GetNext(t)
    BY <1>1, <1>2, <2>10, GetNextStep
  <2>11. CASE GetSwing(t)
    BY <1>1, <1>2, <2>11, GetSwingStep
  <2>12. CASE GetTake(t)
    BY <1>1, <1>2, <2>12, GetTakeStep
  <2>13. CASE GetDrop(t)
    BY <1>1, <1>2, <2>13, GetDropStep
  <2> QED
    BY <2>1, <2>2, <2>3, <2>4, <2>5, <2>6, <2>7, <2>8, <2>9, <2>10, <2>11, <2>12, <2>13 DEF ListStep
<1>4. TableInv'
  <2>1. PICK l : Goto(t, l) /\ l \notin Holding /\ l # "draw"
    BY <1>1, ListLabels
  <2>2. pc[t] \notin Holding
    BY <1>1, ListLabels
  <2>3. PICK i \in Slots : i = nAllocateIndex[t]
    BY <1>1 DEF TableInv
  <2>4. nAllocateIndex' = [nAllocateIndex EXCEPT ![t] = i]
    BY <1>1, <2>3 DEF TableInv
  <2>5. /\ initialBlockPoolIndex' \in [0 .. Allocator -> Nat]
        /\ \A k \in Slots \ m_pMaxAllocTimes : initialBlockPoolIndex'[k + 1] = 0
    BY <1>1 DEF TableInv
  <2> QED
    BY <1>1, <2>1, <2>2, <2>4, <2>5, TableMove
<1>5. Handed
  BY <1>1, <1>2, ListHands
<1>6. \A k \in 0 .. Allocator : initialBlockPoolIndex'[k] >= initialBlockPoolIndex[k]
  BY <1>1 DEF TableInv
<1> QED
  BY <1>3, <1>4, <1>5, <1>6 DEF StepKeeps, PoolInv

(* Steps that hand out nothing. *)
LEMMA QuietKeeps ==
  ASSUME PoolInv, NEW t \in Threads, NEW l \in PoolLabels \ Holding, pc[t] \in PoolLabels \ Holding,
         NEW r, r = loc[t] \/ r = NoLocals, Move(t, l, r), UNCHANGED <<listVars, held, tableVars>>,
         NEW i \in Slots, nAllocateIndex' = [nAllocateIndex EXCEPT ![t] = i],
         l = "draw" => i \in m_pMaxAllocTimes, Drawn' = Drawn,
         initialBlockPoolIndex' \in [0 .. Allocator -> Nat],
         \A k \in Slots \ m_pMaxAllocTimes : initialBlockPoolIndex'[k + 1] = 0,
         \A k \in 0 .. Allocator : initialBlockPoolIndex'[k] >= initialBlockPoolIndex[k]
  PROVE  StepKeeps
<1>1. ListType /\ TableInv
  BY DEF PoolInv
<1>2. PICK list \in SUBSET Blocks : ListSound(list)
  BY DEF PoolInv
<1>3. UNCHANGED <<listVars, held>> /\ UNCHANGED tableVars /\ Goto(t, l) /\ UNCHANGED held
  BY DEF Move, Goto
<1>4. ListType' /\ ListSound(list)'
  BY <1>1, <1>2, <1>3, PoolQuiet
<1>5. TableInv'
  BY <1>1, <1>3, TableMove
<1> QED
  BY <1>2, <1>3, <1>4, <1>5 DEF StepKeeps, PoolInv, Handed

LEMMA StillKeeps ==
  ASSUME PoolInv, NEW t \in Threads, NEW l \in PoolLabels \ Holding, pc[t] \in PoolLabels \ Holding,
         NEW r, r = loc[t] \/ r = NoLocals, Move(t, l, r),
         UNCHANGED <<listVars, held, tableVars, initialBlockPoolIndex>>,
         NEW i \in Slots, nAllocateIndex' = [nAllocateIndex EXCEPT ![t] = i],
         l = "draw" => i \in m_pMaxAllocTimes
  PROVE  StepKeeps
<1>1. Drawn' = Drawn /\ UNCHANGED <<listVars, held, tableVars>>
  BY DEF Drawn
<1>2. /\ initialBlockPoolIndex' \in [0 .. Allocator -> Nat]
      /\ \A k \in Slots \ m_pMaxAllocTimes : initialBlockPoolIndex'[k + 1] = 0
  BY DEF PoolInv, TableInv
<1>3. \A k \in 0 .. Allocator : initialBlockPoolIndex'[k] >= initialBlockPoolIndex[k]
  BY DEF PoolInv, TableInv
<1> QED
  BY <1>1, <1>2, <1>3, QuietKeeps

(* Drawing from a pool that exists. *)
LEMMA ThePool ==
  ASSUME TableInv, NEW k \in 0 .. Allocator, k = 0 \/ k = Allocator \/ k - 1 \in m_pMaxAllocTimes,
         initialBlockPoolIndex' = [initialBlockPoolIndex EXCEPT ![k] = initialBlockPoolIndex[k] + 1]
  PROVE  \A j \in Slots \ m_pMaxAllocTimes : initialBlockPoolIndex'[j + 1] = 0
<1> SUFFICES ASSUME NEW j \in Slots \ m_pMaxAllocTimes PROVE initialBlockPoolIndex'[j + 1] = 0
  OBVIOUS
<1>1. BASICQUEUE_MAX_ALLOCTIMES \in Nat
  BY PoolAssumption
<1>2. j + 1 \in 0 .. Allocator /\ j + 1 # 0 /\ j + 1 # Allocator /\ (k - 1 = j <=> k = j + 1)
  BY <1>1 DEF Slots, Allocator
<1>3. k # j + 1
  BY <1>2
<1>4. initialBlockPoolIndex'[j + 1] = initialBlockPoolIndex[j + 1]
  BY <1>2, <1>3 DEF TableInv
<1> QED
  BY <1>4 DEF TableInv

LEMMA TakeKeeps ==
  ASSUME PoolInv, NEW t \in Threads, pc[t] \in PoolLabels \ Holding, NEW k \in 0 .. Allocator,
         k = 0 \/ k = Allocator \/ k - 1 \in m_pMaxAllocTimes,
         NEW index, index = initialBlockPoolIndex[k], index < PoolSize(k),
         initialBlockPoolIndex' = [initialBlockPoolIndex EXCEPT ![k] = index + 1],
         held' = [held EXCEPT ![t] = @ \cup {<<k, index>>}], Return(t),
         UNCHANGED <<listVars, loc, tableVars>>
  PROVE  StepKeeps
<1>1. ListType /\ TableInv
  BY DEF PoolInv
<1>2. PICK list \in SUBSET Blocks : ListSound(list)
  BY DEF PoolInv
<1>3. PICK b : b = <<k, index>>
  OBVIOUS
<1>4. /\ b \in Blocks /\ b \notin Drawn /\ Drawn' = Drawn \cup {b}
      /\ initialBlockPoolIndex' \in [0 .. Allocator -> Nat]
      /\ \A j \in 0 .. Allocator : initialBlockPoolIndex'[j] >= initialBlockPoolIndex[j]
  BY <1>1, <1>3, DrawNext
<1>5. /\ Goto(t, "idle") /\ "idle" \in PoolLabels /\ "idle" \notin Holding /\ UNCHANGED <<listVars, loc>>
      /\ nAllocateIndex' = [nAllocateIndex EXCEPT ![t] = 0] /\ UNCHANGED tableVars
      /\ held' = [held EXCEPT ![t] = @ \cup {b}] /\ pc[t] \in PoolLabels
  BY <1>3 DEF Return, PoolLabels, Holding
<1>6. ListType' /\ ListSound(list)' /\ Owners(b) = {}
  BY <1>1, <1>2, <1>4, <1>5, PoolTake
<1>7. TableInv'
  <2>1. \A j \in Slots \ m_pMaxAllocTimes : initialBlockPoolIndex'[j + 1] = 0
    BY <1>1, ThePool
  <2>2. 0 \in Slots
    BY PoolAssumption DEF Slots
  <2>3. PICK i \in Slots : i = 0
    BY <2>2
  <2>4. PICK l : l = "idle"
    OBVIOUS
  <2>5. /\ Goto(t, l) /\ l \notin Holding /\ pc[t] \notin Holding /\ l # "draw"
        /\ nAllocateIndex' = [nAllocateIndex EXCEPT ![t] = i]
    BY <1>5, <2>3, <2>4
  <2> QED
    BY <1>1, <1>4, <1>5, <2>1, <2>5, TableMove
<1>8. Free!Take(t, b)
  BY <1>5, <1>6, FreeToTake DEF Free!Take
<1> QED
  BY <1>2, <1>4, <1>6, <1>7, <1>8 DEF StepKeeps, PoolInv, Handed

LEMMA DrawKeeps ==
  ASSUME PoolInv, NEW t \in Threads, pc[t] \in PoolLabels \ Holding, NEW k \in 0 .. Allocator,
         k = 0 \/ k = Allocator \/ k - 1 \in m_pMaxAllocTimes,
         NEW empty \in {"get", "grow"}, Draw(t, k, empty)
  PROVE  StepKeeps
<1>1. PICK index : index = initialBlockPoolIndex[k]
  OBVIOUS
<1>2. /\ initialBlockPoolIndex' = [initialBlockPoolIndex EXCEPT ![k] = index + 1]
      /\ UNCHANGED <<listVars, loc, tableVars>> /\ UNCHANGED loc
  BY <1>1 DEF Draw
<1>3. CASE index < PoolSize(k)
  <2>1. held' = [held EXCEPT ![t] = @ \cup {<<k, index>>}] /\ Return(t)
    BY <1>1, <1>3 DEF Draw
  <2> QED
    BY <1>1, <1>2, <1>3, <2>1, TakeKeeps
<1>4. CASE ~(index < PoolSize(k))
  <2>1. Goto(t, empty) /\ UNCHANGED <<held, nAllocateIndex>>
    BY <1>1, <1>4 DEF Draw
  <2>2. ListType /\ TableInv
    BY DEF PoolInv
  <2>3. /\ Drawn' = Drawn /\ initialBlockPoolIndex' \in [0 .. Allocator -> Nat]
        /\ \A j \in 0 .. Allocator : initialBlockPoolIndex'[j] >= initialBlockPoolIndex[j]
    BY <1>1, <1>2, <1>4, <2>2, DrawNext
  <2>4. \A j \in Slots \ m_pMaxAllocTimes : initialBlockPoolIndex'[j + 1] = 0
    BY <1>1, <1>2, <2>2, ThePool
  <2>5. empty \in PoolLabels \ Holding /\ empty # "draw"
    BY DEF PoolLabels, Holding
  <2>6. Move(t, empty, loc[t]) /\ UNCHANGED <<listVars, held, tableVars>>
    BY <1>2, <2>1, <2>2 DEF Move, Goto, ListType
  <2>7. nAllocateIndex[t] \in Slots /\ nAllocateIndex' = [nAllocateIndex EXCEPT ![t] = nAllocateIndex[t]]
    BY <2>1, <2>2 DEF TableInv
  <2> QED
    BY <2>3, <2>4, <2>5, <2>6, <2>7, QuietKeeps
<1> QED
  BY <1>3, <1>4

(* The steps of requisition_block and ChildCreateBlock without the lock. *)
LEMMA UnlockedKeeps ==
  ASSUME PoolInv, NEW t \in Threads,
         \/ RequisitionBlock(t) \/ InitialAsk(t) \/ InitialDraw(t) \/ ChildIndex(t) \/ ChildData(t)
         \/ ChildDraw(t) \/ Create(t)
  PROVE  StepKeeps
<1>1. ListType /\ TableInv
  BY DEF PoolInv
<1>2. PICK i \in Slots : i = nAllocateIndex[t] /\ nAllocateIndex = [nAllocateIndex EXCEPT ![t] = i]
  BY <1>1 DEF TableInv
<1>3. \A l : Goto(t, l) /\ UNCHANGED loc => Move(t, l, loc[t])
  BY <1>1 DEF Goto, Move, ListType
<1>4. /\ 0 \in 0 .. Allocator /\ Allocator \in 0 .. Allocator /\ 0 \in Slots /\ i + 1 \in 0 .. Allocator
      /\ (i + 1) - 1 = i
  <2>1. BASICQUEUE_MAX_ALLOCTIMES \in Nat \ {0}
    BY PoolAssumption
  <2> QED
    BY <2>1 DEF Slots, Allocator
<1> DEFINE Open == PoolLabels \ Holding
<1>5. /\ "idle" \in Open /\ "initial" \in Open /\ "initialDraw" \in Open /\ "get" \in Open /\ "none" \in Open
      /\ "data" \in Open /\ "draw" \in Open /\ "grow" \in Open /\ "create" \in Open /\ "crashed" \in Open
  BY DEF PoolLabels, Holding
<1>6. ASSUME NEW l \in Open, pc[t] \in Open, Goto(t, l), l = "draw" => i \in m_pMaxAllocTimes,
             UNCHANGED <<listVars, held, loc, initialBlockPoolIndex, tableVars, nAllocateIndex>>
      PROVE  StepKeeps
  <2>1. Move(t, l, loc[t]) /\ UNCHANGED <<listVars, held, tableVars, initialBlockPoolIndex>>
    BY <1>3, <1>6
  <2>2. nAllocateIndex' = [nAllocateIndex EXCEPT ![t] = i]
    BY <1>2, <1>6
  <2> QED
    BY <1>6, <2>1, <2>2, StillKeeps
<1> HIDE DEF Open
<1>7. CASE RequisitionBlock(t)
  BY <1>5, <1>6, <1>7 DEF RequisitionBlock
<1>8. CASE InitialAsk(t)
  <2>1. PICK l \in {"initialDraw", "get"} : Goto(t, l)
    BY <1>8 DEF InitialAsk, Ask
  <2> QED
    BY <1>5, <1>6, <1>8, <2>1 DEF InitialAsk, Ask
<1>9. CASE InitialDraw(t)
  <2>1. pc[t] \in PoolLabels \ Holding /\ Draw(t, 0, "get")
    BY <1>5, <1>9 DEF InitialDraw, Open
  <2> QED
    BY <1>4, <2>1, DrawKeeps
<1>10. CASE ChildIndex(t)
  <2>1. PICK l \in {"create", "data"} : Goto(t, l)
    BY <1>10 DEF ChildIndex
  <2>2. PICK j \in Slots : j = m_nAllocateIndex
    BY <1>1 DEF TableInv
  <2>3. Move(t, l, NoLocals)
    BY <1>10, <2>1 DEF ChildIndex, Goto, Move
  <2>4. /\ l \in PoolLabels \ Holding /\ pc[t] \in PoolLabels \ Holding /\ l # "draw"
        /\ UNCHANGED <<listVars, held, tableVars, initialBlockPoolIndex>>
        /\ nAllocateIndex' = [nAllocateIndex EXCEPT ![t] = j]
    BY <1>5, <1>10, <2>1, <2>2 DEF ChildIndex, Open
  <2> QED
    BY <2>3, <2>4, StillKeeps
<1>11. CASE ChildData(t)
  <2>1. PICK l \in {"draw", "grow", "crashed"} : Goto(t, l) /\ (l = "draw" => i \in m_pMaxAllocTimes)
    BY <1>2, <1>11 DEF ChildData, Ask
  <2>2. /\ pc[t] = "data"
        /\ UNCHANGED <<listVars, held, loc, initialBlockPoolIndex, tableVars, nAllocateIndex>>
    BY <1>11 DEF ChildData, Ask
  <2> QED
    BY <1>5, <1>6, <2>1, <2>2
<1>12. CASE ChildDraw(t)
  <2>1. PICK k \in 0 .. Allocator : k = i + 1
    BY <1>4
  <2>2. i \in m_pMaxAllocTimes
    <3>1. TableSound(t)
      BY <1>1 DEF TableInv
    <3> QED
      BY <1>2, <1>12, <3>1 DEF ChildDraw, TableSound
  <2>3. pc[t] \in PoolLabels \ Holding /\ Draw(t, k, "grow") /\ k - 1 \in m_pMaxAllocTimes
    BY <1>2, <1>4, <1>5, <1>12, <2>1, <2>2 DEF ChildDraw, Open
  <2> QED
    BY <2>3, DrawKeeps
<1>13. CASE Create(t)
  <2>1. /\ pc[t] \in PoolLabels \ Holding /\ Return(t) /\ UNCHANGED <<listVars, loc, tableVars>>
        /\ UNCHANGED loc
    BY <1>5, <1>13 DEF Create, Open
  <2>2. PICK index : index = initialBlockPoolIndex[Allocator]
    OBVIOUS
  <2>3. CASE /\ index < MaxCreate
             /\ initialBlockPoolIndex' = [initialBlockPoolIndex EXCEPT ![Allocator] = index + 1]
             /\ held' = [held EXCEPT ![t] = @ \cup {<<Allocator, index>>}]
    <3>1. PoolSize(Allocator) = MaxCreate
      <4>1. Allocator # 0
        BY PoolAssumption DEF Allocator
      <4> QED
        BY <4>1 DEF PoolSize
    <3>2. PICK k \in 0 .. Allocator : k = Allocator
      BY <1>4
    <3>3. /\ index = initialBlockPoolIndex[k] /\ index < PoolSize(k)
          /\ initialBlockPoolIndex' = [initialBlockPoolIndex EXCEPT ![k] = index + 1]
          /\ held' = [held EXCEPT ![t] = @ \cup {<<k, index>>}]
      BY <2>2, <2>3, <3>1, <3>2
    <3> QED
      BY <2>1, <3>2, <3>3, TakeKeeps
  <2>4. CASE UNCHANGED <<initialBlockPoolIndex, held>>
    <3>1. PICK l : l = "idle"
      OBVIOUS
    <3>2. PICK j \in Slots : j = 0
      BY <1>4
    <3>3. /\ Move(t, l, loc[t]) /\ nAllocateIndex' = [nAllocateIndex EXCEPT ![t] = j]
          /\ l \in PoolLabels \ Holding /\ l # "draw"
          /\ UNCHANGED <<listVars, held, tableVars, initialBlockPoolIndex>>
      BY <1>3, <1>5, <2>1, <2>4, <3>1, <3>2 DEF Return, Open
    <3> QED
      BY <2>1, <3>3, StillKeeps
  <2> QED
    BY <1>13, <2>2, <2>3, <2>4 DEF Create
<1> QED
  BY <1>7, <1>8, <1>9, <1>10, <1>11, <1>12, <1>13

(* Growing the table, under the lock. *)
LEMMA GrowKeeps ==
  ASSUME PoolInv, NEW t \in Threads,
         ChildLock(t) \/ ChildCheck(t) \/ StoreIndex(t) \/ StorePointer(t) \/ ChildUnlock(t)
  PROVE  StepKeeps
<1>1. ListType /\ TableInv
  BY DEF PoolInv
<1>2. PICK list \in SUBSET Blocks : ListSound(list)
  BY DEF PoolInv
<1>3. PICK i \in Slots : i = nAllocateIndex[t]
  BY <1>1 DEF TableInv
<1>4. /\ UNCHANGED <<listVars, held>> /\ UNCHANGED loc /\ UNCHANGED nAllocateIndex /\ UNCHANGED held
      /\ pc[t] \in {"grow"} \cup Holding
  BY DEF ChildLock, ChildCheck, StoreIndex, StorePointer, ChildUnlock, Holding
<1>5. /\ BASICQUEUE_MAX_ALLOCTIMES \in Nat /\ m_nAllocateIndex \in Slots
      /\ m_nAllocateIndex \in Nat /\ nAllocateIndex[t] \in Nat
      /\ m_pMaxAllocTimes \subseteq Slots
  BY <1>1, PoolAssumption DEF TableInv, Slots
<1>6. TableSound(t) /\ pc[t] \in PoolLabels /\ "unlock" \in PoolLabels /\ "none" \in PoolLabels
  BY <1>1, <1>4 DEF TableInv, PoolLabels, Holding
<1>7. ASSUME NEW l \in PoolLabels, Goto(t, l), TableInv', UNCHANGED initialBlockPoolIndex
      PROVE  StepKeeps
  <2>1. Move(t, l, loc[t]) /\ Drawn' = Drawn
    BY <1>1, <1>4, <1>7 DEF Goto, Move, ListType, Drawn
  <2>2. ListType' /\ ListSound(list)'
    BY <1>1, <1>2, <1>4, <1>6, <1>7, <2>1, PoolQuiet
  <2>3. \A k \in 0 .. Allocator : initialBlockPoolIndex'[k] >= initialBlockPoolIndex[k]
    BY <1>1, <1>7 DEF TableInv
  <2> QED
    BY <1>2, <1>4, <1>7, <2>2, <2>3 DEF StepKeeps, PoolInv, Handed
<1>8. CASE ChildLock(t)
  <2>1. CASE Goto(t, "create") /\ UNCHANGED m_lock
    <3>1. PICK l : l = "create"
      OBVIOUS
    <3>2. /\ Goto(t, l) /\ l \in PoolLabels /\ l \notin Holding /\ l # "draw" /\ pc[t] \notin Holding
          /\ UNCHANGED tableVars /\ nAllocateIndex' = [nAllocateIndex EXCEPT ![t] = i]
          /\ UNCHANGED initialBlockPoolIndex
      BY <1>1, <1>3, <1>8, <2>1, <3>1 DEF ChildLock, tableVars, TableInv, PoolLabels, Holding
    <3>3. /\ initialBlockPoolIndex' \in [0 .. Allocator -> Nat]
          /\ \A k \in Slots \ m_pMaxAllocTimes : initialBlockPoolIndex'[k + 1] = 0
      BY <1>1, <3>2 DEF TableInv
    <3>4. TableInv'
      BY <1>1, <3>2, <3>3, TableMove
    <3> QED
      BY <1>7, <3>2, <3>4
  <2>2. CASE /\ nAllocateIndex[t] + 1 < BASICQUEUE_MAX_ALLOCTIMES
             /\ ~m_lock
             /\ m_lock' = TRUE
             /\ Goto(t, "locked")
    <3>1. nAllocateIndex[t] + 1 \in Slots
      <4>1. ASSUME NEW n \in Nat, NEW m \in Nat, n + 1 < m PROVE n + 1 \in 0 .. m - 1
        BY <4>1
      <4>2. nAllocateIndex[t] + 1 < BASICQUEUE_MAX_ALLOCTIMES
        BY <2>2
      <4> QED
        BY <1>5, <4>1, <4>2 DEF Slots
    <3>2. /\ UNCHANGED <<m_pMaxAllocTimes, m_nAllocateIndex, nAllocateIndex, initialBlockPoolIndex>>
          /\ UNCHANGED initialBlockPoolIndex /\ "locked" \in PoolLabels
      BY <1>8 DEF ChildLock, PoolLabels, Holding
    <3>3. TableInv'
      BY <1>1, <2>2, <3>1, <3>2, LockTaken
    <3> QED
      BY <1>7, <2>2, <3>2, <3>3
  <2> QED
    BY <1>8, <2>1, <2>2 DEF ChildLock
<1>9. ASSUME pc[t] \in Holding \ {"storePointerLast", "storeIndexLast"}
      PROVE  m_pMaxAllocTimes = 0 .. m_nAllocateIndex
  <2>1. \A u \in Threads : pc[u] \notin {"storePointerLast", "storeIndexLast"}
    BY <1>1, <1>9, TableAlone DEF Holding
  <2> QED
    BY <1>1, <2>1 DEF TableInv
<1>10. CASE ChildCheck(t)
  <2>1. PICK l \in {"unlock", "storeIndex", "storePointer"} :
          Goto(t, l) /\ (l # "unlock" => nAllocateIndex[t] = m_nAllocateIndex)
    BY <1>10 DEF ChildCheck
  <2>2. /\ UNCHANGED <<nAllocateIndex, initialBlockPoolIndex>> /\ UNCHANGED m_lock
        /\ UNCHANGED <<m_nAllocateIndex, m_pMaxAllocTimes, initialBlockPoolIndex>>
        /\ pc[t] = "locked" /\ pc[t] \in Holding /\ l \in PoolLabels
    BY <1>10, <2>1 DEF ChildCheck, tableVars, Holding, PoolLabels
  <2>3. m_pMaxAllocTimes = 0 .. m_nAllocateIndex
    BY <1>9, <2>2
  <2>4. l # "unlock" => m_nAllocateIndex + 1 \in Slots
    BY <1>6, <2>1, <2>2 DEF TableSound
  <2>5. TableInv'
    BY <1>1, <1>5, <2>1, <2>2, <2>3, <2>4, LockedSteps
  <2> QED
    BY <1>7, <2>1, <2>2, <2>5
<1>11. CASE StoreIndex(t)
  <2>1. PICK l : l = IF pc[t] = "storeIndex" THEN "storePointerLast" ELSE "unlock"
    OBVIOUS
  <2>2. /\ UNCHANGED <<nAllocateIndex, initialBlockPoolIndex>> /\ UNCHANGED m_lock
        /\ UNCHANGED <<m_pMaxAllocTimes, initialBlockPoolIndex>>
        /\ pc[t] \in {"storeIndex", "storeIndexLast"} /\ pc[t] \in Holding
        /\ l \in PoolLabels /\ l \in {"storePointerLast", "unlock"} /\ Goto(t, l)
        /\ m_nAllocateIndex' = m_nAllocateIndex + 1
    BY <1>11, <2>1 DEF StoreIndex, Holding, PoolLabels
  <2>3. m_nAllocateIndex' \in Slots /\ m_nAllocateIndex' - 1 = m_nAllocateIndex
    <3>1. m_nAllocateIndex + 1 \in Slots
      BY <1>6, <2>2 DEF TableSound
    <3> QED
      BY <1>5, <2>2, <3>1
  <2>4. /\ l = "storePointerLast" => m_pMaxAllocTimes' = 0 .. m_nAllocateIndex' - 1
        /\ l = "unlock" => m_pMaxAllocTimes' = 0 .. m_nAllocateIndex'
    <3>1. CASE pc[t] = "storeIndex"
      BY <1>9, <2>1, <2>2, <2>3, <3>1
    <3>2. CASE pc[t] = "storeIndexLast"
      BY <1>6, <2>1, <2>2, <3>2 DEF TableSound
    <3> QED
      BY <2>2, <3>1, <3>2
  <2>5. TableInv'
    BY <1>1, <1>5, <2>2, <2>3, <2>4, LockedSteps
  <2> QED
    BY <1>7, <2>2, <2>5
<1>12. CASE StorePointer(t)
  <2>1. PICK slot : slot = IF pc[t] = "storePointer" THEN m_nAllocateIndex + 1 ELSE m_nAllocateIndex
    OBVIOUS
  <2>2. PICK l : l = IF pc[t] = "storePointer" THEN "storeIndexLast" ELSE "unlock"
    OBVIOUS
  <2>3. /\ UNCHANGED nAllocateIndex /\ UNCHANGED m_lock /\ UNCHANGED m_nAllocateIndex
        /\ pc[t] \in {"storePointer", "storePointerLast"} /\ pc[t] \in Holding
        /\ l \in PoolLabels /\ l \in {"storeIndexLast", "unlock"} /\ Goto(t, l)
        /\ m_pMaxAllocTimes' = m_pMaxAllocTimes \cup {slot}
        /\ initialBlockPoolIndex' = [initialBlockPoolIndex EXCEPT ![slot + 1] = 0]
    BY <1>12, <2>1, <2>2 DEF StorePointer, Holding, PoolLabels
  <2>4. slot \in Slots \ m_pMaxAllocTimes /\ slot \in Nat
    <3>1. CASE pc[t] = "storePointer"
      <4>1. slot \in Slots /\ m_pMaxAllocTimes = 0 .. m_nAllocateIndex /\ slot = m_nAllocateIndex + 1
        BY <1>6, <1>9, <2>1, <2>3, <3>1 DEF TableSound
      <4> QED
        BY <1>5, <4>1
    <3>2. CASE pc[t] = "storePointerLast"
      <4>1. slot \in Slots /\ m_pMaxAllocTimes = 0 .. m_nAllocateIndex - 1 /\ slot = m_nAllocateIndex
        BY <1>5, <1>6, <2>1, <3>2 DEF TableSound
      <4> QED
        BY <1>5, <4>1
    <3> QED
      BY <2>3, <3>1, <3>2
  <2>5. UNCHANGED initialBlockPoolIndex
    <3>1. initialBlockPoolIndex[slot + 1] = 0 /\ initialBlockPoolIndex \in [0 .. Allocator -> Nat]
      BY <1>1, <2>4 DEF TableInv
    <3> QED
      BY <2>3, <3>1
  <2>6. /\ l = "storeIndexLast" => m_pMaxAllocTimes' = 0 .. m_nAllocateIndex' + 1 /\ m_nAllocateIndex' + 1 \in Slots
        /\ l = "unlock" => m_pMaxAllocTimes' = 0 .. m_nAllocateIndex'
    <3>1. CASE pc[t] = "storePointer"
      <4>1. /\ m_pMaxAllocTimes = 0 .. m_nAllocateIndex /\ slot = m_nAllocateIndex + 1 /\ l = "storeIndexLast"
            /\ m_nAllocateIndex + 1 \in Slots
        BY <1>6, <1>9, <2>1, <2>2, <2>3, <3>1 DEF TableSound
      <4>2. (0 .. m_nAllocateIndex) \cup {m_nAllocateIndex + 1} = 0 .. m_nAllocateIndex + 1
        BY <1>5
      <4> QED
        BY <2>3, <4>1, <4>2
    <3>2. CASE pc[t] = "storePointerLast"
      <4>1. m_pMaxAllocTimes = 0 .. m_nAllocateIndex - 1 /\ slot = m_nAllocateIndex /\ l = "unlock"
        BY <1>6, <2>1, <2>2, <3>2 DEF TableSound
      <4>2. (0 .. m_nAllocateIndex - 1) \cup {m_nAllocateIndex} = 0 .. m_nAllocateIndex
        BY <1>5
      <4> QED
        BY <2>3, <4>1, <4>2
    <3> QED
      BY <2>3, <3>1, <3>2
  <2>7. m_pMaxAllocTimes \subseteq m_pMaxAllocTimes' /\ m_pMaxAllocTimes' \subseteq Slots
    BY <1>5, <2>3, <2>4
  <2>8. TableInv'
    <3>1. UNCHANGED <<nAllocateIndex, initialBlockPoolIndex>> /\ m_nAllocateIndex' \in Slots
      BY <1>5, <2>3, <2>5
    <3> QED
      BY <1>1, <2>3, <2>6, <2>7, <3>1, LockedSteps
  <2> QED
    BY <1>7, <2>3, <2>5, <2>8
<1>13. CASE ChildUnlock(t)
  <2>1. PICK l : l = "none"
    OBVIOUS
  <2>2. /\ UNCHANGED <<nAllocateIndex, initialBlockPoolIndex>>
        /\ UNCHANGED <<m_nAllocateIndex, m_pMaxAllocTimes, initialBlockPoolIndex>>
        /\ pc[t] = "unlock" /\ pc[t] \in Holding /\ l \in PoolLabels /\ Goto(t, l) /\ l \notin Holding
    BY <1>13, <2>1 DEF ChildUnlock, Holding, PoolLabels
  <2>3. m_pMaxAllocTimes = 0 .. m_nAllocateIndex
    BY <1>9, <2>2
  <2>4. TableInv'
    BY <1>1, <1>5, <2>1, <2>2, <2>3, LockedSteps
  <2> QED
    BY <1>7, <2>2, <2>4
<1> QED
  BY <1>8, <1>10, <1>11, <1>12, <1>13

(* One step, the initial states, and the invariant. *)
LEMMA NextKeeps == PoolInv /\ [Next]_vars => StepKeeps
<1> SUFFICES ASSUME PoolInv, [Next]_vars PROVE StepKeeps
  OBVIOUS
<1>1. ASSUME NEW t \in Threads, PoolStep(t) PROVE StepKeeps
  BY <1>1, UnlockedKeeps, GrowKeeps DEF PoolStep
<1>2. ASSUME NEW t \in Threads, ListStep(t) \/ Add(t),
             UNCHANGED <<initialBlockPoolIndex, tableVars, nAllocateIndex>>
      PROVE  StepKeeps
  BY <1>2, ListKeeps
<1>3. CASE UNCHANGED vars
  <2>1. /\ UNCHANGED <<freeListHead, freeListRefs, freeListNext, held, pc, loc>>
        /\ UNCHANGED <<initialBlockPoolIndex, m_pMaxAllocTimes, m_nAllocateIndex, m_lock, nAllocateIndex>>
    BY <1>3 DEF vars
  <2>2. ListType'
    BY <2>1 DEF PoolInv, ListType, LocalSound
  <2>3. TableInv'
    BY <2>1 DEF PoolInv, TableInv, TableSound, Holders
  <2>4. PICK list \in SUBSET Blocks : ListSound(list)
    BY DEF PoolInv
  <2>5. Drawn' = Drawn /\ \A b : /\ Owners(b)' = Owners(b) /\ Linking(b)' = Linking(b)
                                 /\ Refer(b)' = Refer(b) /\ Taking(b)' = Taking(b)
    BY <2>1 DEF Drawn, Owners, Linking, Refer, Taking
  <2>6. ASSUME NEW b \in Blocks PROVE BlockSound(b, list)'
    <3>1. BlockSound(b, list)
      BY <2>4 DEF ListSound
    <3> QED
      BY <2>1, <2>5, <3>1 DEF BlockSound, Fresh, Owned, Listed, Early, Late, Waiting
  <2>7. Chained(list)'
    BY <2>1, <2>4, ChainKeep DEF ListSound
  <2>8. \A k \in 0 .. Allocator : initialBlockPoolIndex'[k] >= initialBlockPoolIndex[k]
    BY <2>1 DEF PoolInv, TableInv
  <2>9. ListSound(list)'
    BY <2>6, <2>7 DEF ListSound
  <2> QED
    BY <2>1, <2>2, <2>3, <2>4, <2>8, <2>9 DEF StepKeeps, PoolInv, Handed
<1> QED
  BY <1>1, <1>2, <1>3 DEF Next

LEMMA InitSound == Init => PoolInv
<1> SUFFICES ASSUME Init PROVE PoolInv
  OBVIOUS
<1>1. LocalFields \subseteq DOMAIN NoLocals /\ NoLocals.head = nullptr
  BY DEF LocalFields, NoLocals
<1>2. ListType
  <2>1. LocalSound("idle", NoLocals)
    BY <1>1 DEF LocalSound, LinkEarly, LinkLate, Pointers
  <2>2. \A t \in Threads : LocalSound(pc[t], loc[t])
    BY <2>1 DEF Init
  <2> QED
    BY <2>2 DEF Init, ListInit, ListType, Pointers
<1>3. TableInv
  <2>1. BASICQUEUE_MAX_ALLOCTIMES \in Nat \ {0}
    BY PoolAssumption
  <2>2. 0 \in Slots /\ \A k \in Slots : k + 1 \in 0 .. Allocator
    BY <2>1 DEF Slots, Allocator
  <2>3. 0 .. 0 = {0}
    OBVIOUS
  <2>4. \A t \in Threads : pc[t] = "idle"
    BY DEF Init
  <2>5. Holders = {} /\ \A t \in Threads : TableSound(t)
    BY <2>4 DEF Holders, Holding, TableSound
  <2>6. /\ initialBlockPoolIndex = [k \in 0 .. Allocator |-> 0] /\ m_pMaxAllocTimes = {0}
        /\ m_nAllocateIndex = 0 /\ nAllocateIndex = [t \in Threads |-> 0]
    BY DEF Init
  <2>7. \A k \in Slots : initialBlockPoolIndex[k + 1] = 0
    BY <2>2, <2>6
  <2> QED
    BY <2>2, <2>3, <2>5, <2>6, <2>7 DEF TableInv
<1>4. ListSound({})
  <2>1. Chained({})
    BY ChainEmpty DEF Init, ListInit
  <2>2. ASSUME NEW b \in Blocks PROVE Fresh(b, {})
    <3>1. PICK j \in 0 .. Allocator : \E i \in 0 .. PoolSize(j) - 1 : b = <<j, i>>
      BY BlocksAssumption DEF PoolBlocks
    <3>2. PICK i \in 0 .. PoolSize(j) - 1 : b = <<j, i>>
      BY <3>1
    <3>3. b \notin Drawn
      <4>1. b[1] = j /\ b[2] = i /\ initialBlockPoolIndex[j] = 0 /\ ~(i < 0)
        BY <3>2 DEF Init
      <4> QED
        BY <4>1 DEF Drawn
    <3>4. freeListRefs[b] = 0 /\ Owners(b) = {}
      BY DEF Init, ListInit, Owners
    <3>5. Linking(b) = {} /\ Taking(b) = {} /\ Refer(b) = {}
      BY DEF Init, Linking, Taking, Refer
    <3> QED
      BY <3>3, <3>4, <3>5 DEF Fresh
  <2> QED
    BY <2>1, <2>2 DEF ListSound, BlockSound
<1> QED
  BY <1>2, <1>3, <1>4 DEF PoolInv

LEMMA InvariantHolds == Spec => []PoolInv
<1>1. PoolInv /\ [Next]_vars => PoolInv'
  BY NextKeeps DEF StepKeeps
<1> QED
  BY <1>1, InitSound, PTL DEF Spec

---------------------------------------------------------------------------
(* The theorems *)

(* A slot of the table of pools is filled once: no pool of                 *)
(* CLockFreeMessageQueue that gives out blocks is replaced by a fresh one, *)
(* although the table is read without the lock it grows under. *)
THEOREM SlotsFilledOnce == Spec => GrownOnce
<1>1. PoolInv /\ [Next]_vars =>
        [\A k \in 1 .. Allocator : initialBlockPoolIndex'[k] >= initialBlockPoolIndex[k]]_vars
  <2> SUFFICES ASSUME PoolInv, [Next]_vars
               PROVE  \A k \in 1 .. Allocator : initialBlockPoolIndex'[k] >= initialBlockPoolIndex[k]
    OBVIOUS
  <2>1. \A k \in 1 .. Allocator : k \in 0 .. Allocator
    BY PoolAssumption DEF Allocator
  <2> QED
    BY <2>1, NextKeeps DEF StepKeeps
<1> QED
  BY <1>1, InvariantHolds, PTL DEF Spec, GrownOnce

(* The pools and the free list implement the abstract pool: a block that   *)
(* requisition_block hands out belongs to nobody, and only its owner       *)
(* returns it, although the head of the list carries no tag. *)
THEOREM PoolImplemented == Spec => ImplementsFreeBlocks
<1>1. Init => Free!FreeInit
  BY DEF Init, Free!FreeInit
<1>2. PoolInv /\ [Next]_vars => [Free!FreeNext]_held
  <2> SUFFICES ASSUME PoolInv, [Next]_vars PROVE [Free!FreeNext]_held
    OBVIOUS
  <2> QED
    BY NextKeeps DEF StepKeeps, Handed, Free!FreeNext
<1> QED
  BY <1>1, <1>2, InvariantHolds, PTL DEF Spec, ImplementsFreeBlocks, Free!FreeSpec

(* The count of a block is exact: one for the list or the thread about to  *)
(* put it there, one for each reference and two for the thread that took   *)
(* it off, in every state of add, add_knowing_refcount_is_zero and         *)
(* try_get.  It is why freeListNext is stable between load and exchange. *)
THEOREM RefsExact == Spec => []RefsAccount
<1>1. PoolInv => RefsAccount
  <2> SUFFICES ASSUME PoolInv PROVE RefsAccount
    OBVIOUS
  <2>1. PICK list \in SUBSET Blocks : ListSound(list)
    BY DEF PoolInv
  <2>2. OnList = list
    BY <2>1, ChainIsList DEF ListSound
  <2>3. ASSUME NEW b \in Blocks
        PROVE  freeListRefs[b] % SHOULD_BE_ON_FREELIST =
                 (IF b \in list \/ Counted(b) # {} THEN 1 ELSE 0)
                 + Cardinality(Refer(b)) + 2 * Cardinality(Taking(b))
    <3> DEFINE c == Cardinality(Refer(b))
    <3>1. c \in Nat /\ c + 2 < Bit /\ Bit \in Nat /\ (c = 0 <=> Refer(b) = {})
      BY ReferCount
    <3>2. ASSUME NEW n \in Nat, NEW m \in Nat, n < m PROVE n % m = n /\ (m + n) % m = n
      BY <3>2
    <3>3. Cardinality({}) = 0 /\ \A x : Cardinality({x}) = 1
      BY FS_EmptySet, FS_Singleton
    <3>4. Counted(b) \subseteq Linking(b)
      BY DEF Counted
    <3>5. BlockSound(b, list)
      BY <2>1 DEF ListSound
    <3> HIDE DEF c
    <3>6. \A n \in Nat : n < Bit => n % Bit = n /\ (Bit + n) % Bit = n
      BY <3>1, <3>2
    <3>7. CASE Fresh(b, list)
      <4>1. freeListRefs[b] % Bit = 0
        BY <3>1, <3>6, <3>7 DEF Fresh
      <4> QED
        BY <3>3, <3>4, <3>7, <4>1 DEF Fresh, Bit
    <3>8. CASE Owned(b, list)
      <4>1. Taking(b) = {} \/ \E t \in Threads : Taking(b) = {t}
        BY <3>8 DEF Owned
      <4>2. Cardinality(Taking(b)) = IF Taking(b) = {} THEN 0 ELSE 1
        BY <3>3, <4>1
      <4>3. freeListRefs[b] = c + 2 * Cardinality(Taking(b)) /\ freeListRefs[b] \in Nat /\ freeListRefs[b] < Bit
        BY <3>1, <3>8, <4>2 DEF Owned, c
      <4>4. freeListRefs[b] % Bit = c + 2 * Cardinality(Taking(b))
        BY <3>6, <4>3
      <4>5. b \notin list /\ Counted(b) = {}
        BY <3>4, <3>8 DEF Owned
      <4>6. 0 + c + 2 * Cardinality(Taking(b)) = c + 2 * Cardinality(Taking(b))
        BY <3>1, <4>2
      <4> QED
        BY <4>4, <4>5, <4>6 DEF Bit, c
    <3>9. CASE Listed(b, list) \/ Late(b, list)
      <4>1. freeListRefs[b] = 1 + c /\ Taking(b) = {}
        BY <3>9 DEF Listed, Late, c
      <4>2. 1 + c \in Nat /\ 1 + c < Bit /\ 1 + c + 2 * 0 = 1 + c
        BY <3>1
      <4>3. freeListRefs[b] % Bit = 1 + c
        BY <3>6, <4>1, <4>2
      <4>4. b \in list \/ Counted(b) # {}
        BY <3>9 DEF Listed, Late, Counted, LinkLate
      <4> QED
        BY <3>3, <4>1, <4>2, <4>3, <4>4 DEF Bit, c
    <3>10. CASE Early(b, list)
      <4>1. freeListRefs[b] = Bit /\ Taking(b) = {} /\ c = 0 /\ b \notin list
        BY <3>1, <3>10 DEF Early
      <4>2. freeListRefs[b] % Bit = 0
        <5>1. Bit + 0 = Bit /\ 0 < Bit
          BY <3>1
        <5> QED
          BY <3>6, <4>1, <5>1
      <4>3. Counted(b) = {}
        BY <3>4, <3>10 DEF Early, Counted, LinkEarly
      <4> QED
        BY <3>3, <4>1, <4>2, <4>3 DEF Bit, c
    <3>11. CASE Waiting(b, list)
      <4>1. freeListRefs[b] = Bit + c /\ Taking(b) = {} /\ b \notin list /\ Counted(b) = {}
        BY <3>4, <3>11 DEF Waiting, c
      <4>2. freeListRefs[b] % Bit = c /\ 0 + c + 2 * 0 = c
        <5>1. c < Bit
          BY <3>1
        <5> QED
          BY <3>1, <3>6, <4>1, <5>1
      <4> QED
        BY <3>3, <4>1, <4>2 DEF Bit, c
    <3> QED
      BY <3>5, <3>7, <3>8, <3>9, <3>10, <3>11 DEF BlockSound
  <2> QED
    BY <2>2, <2>3 DEF RefsAccount
<1> QED
  BY <1>1, InvariantHolds, PTL

(* No block is lost: a block that was drawn and that nobody owns is on the *)
(* free list, or one thread is linking it, or it carries the bit and a     *)
(* thread that will link it when it lets go still refers to it. *)
THEOREM NothingLost == Spec => []NoBlockLost
<1>1. PoolInv => NoBlockLost
  <2> SUFFICES ASSUME PoolInv PROVE NoBlockLost
    OBVIOUS
  <2>1. PICK list \in SUBSET Blocks : ListSound(list)
    BY DEF PoolInv
  <2>2. OnList = list
    BY <2>1, ChainIsList DEF ListSound
  <2>3. ASSUME NEW b \in Drawn \ UNION {held[t] : t \in Threads}
        PROVE  \/ b \in list
               \/ Cardinality(Linking(b)) = 1
               \/ freeListRefs[b] >= SHOULD_BE_ON_FREELIST /\ Refer(b) # {}
    <3>1. b \in Blocks /\ Owners(b) = {} /\ BlockSound(b, list)
      BY <2>1 DEF Drawn, Owners, ListSound
    <3>2. Listed(b, list) \/ Early(b, list) \/ Late(b, list) \/ Waiting(b, list)
      BY <3>1 DEF BlockSound, Fresh, Owned
    <3>3. CASE Listed(b, list)
      BY <3>3 DEF Listed
    <3>4. CASE Early(b, list) \/ Late(b, list)
      <4>1. \E t \in Threads : Linking(b) = {t}
        BY <3>4 DEF Early, Late
      <4> QED
        BY <4>1, FS_Singleton
    <3>5. CASE Waiting(b, list)
      <4>1. freeListRefs[b] = Bit + Cardinality(Refer(b)) /\ Refer(b) # {}
        BY <3>5 DEF Waiting
      <4>2. Bit + Cardinality(Refer(b)) >= Bit
        BY ReferCount
      <4> QED
        BY <4>1, <4>2 DEF Bit
    <3> QED
      BY <3>2, <3>3, <3>4, <3>5
  <2> QED
    BY <2>2, <2>3 DEF NoBlockLost
<1> QED
  BY <1>1, InvariantHolds, PTL

=============================================================================
