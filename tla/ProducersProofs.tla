-------------------------- MODULE ProducersProofs --------------------------
(***************************************************************************)
(* The claims of dequeue and dequeue_bulk, for any number of consumers,    *)
(* any block size and any size of a bulk call: whatever overcommitments    *)
(* are in flight, a consumer raises headIndex only over elements that are  *)
(* there, and one producer's queue implements SubQueue.                    *)
(***************************************************************************)
EXTENDS Producers, Counting

---------------------------------------------------------------------------

(* A call of the enqueuing thread has between one and MaxBulk elements. *)
ProdSound ==
  /\ {"pc", "count"} \subseteq DOMAIN prod
  /\ prod.pc \notin {"idle", "gone"} => prod.count \in 1 .. MaxBulk

(* What a consumer's locals r hold where it uses them.  It loaded          *)
(* dequeueOvercommit, which only grows, before it raises                   *)
(* dequeueOptimisticCount. *)
Fields == {"pc", "max", "tail", "over", "my", "count", "index", "header", "pos", "block"}

LocSound(r, overcommit) ==
  /\ Fields \subseteq DOMAIN r
  /\ r.pc = "over" => r.max \in 1 .. MaxBulk /\ r.tail \in Nat
  /\ r.pc = "count" => r.max \in 1 .. MaxBulk /\ r.tail \in Nat
  /\ r.pc \in {"count", "claim", "check"} => r.over \in Nat /\ r.over <= overcommit
  /\ r.pc \in {"claim", "check", "head"} => r.count \in 1 .. MaxBulk
  /\ r.pc = "check" => r.my \in Nat
  /\ r.pc = "undo" => r.count \in 0 .. MaxBulk /\ r.over \in Nat

(* What a consumer that is about to look at tailIndex again would take if  *)
(* it found w there. *)
Take(r, w) ==
  LET actual == w - (r.my - r.over)
  IN IF actual <= 0 THEN 0 ELSE IF r.count < actual THEN r.count ELSE actual

(* What a consumer with locals r has been granted, or would be at w. *)
Share(r, w) ==
  IF r.pc \in {"undo", "head"} THEN r.count
  ELSE IF r.pc = "check" THEN Take(r, w) ELSE 0

(* InFlight, of the locals. *)
Raised(r) ==
  IF r.pc \in {"check", "head"} THEN r.count
  ELSE IF r.pc = "undo" THEN r.count + r.over ELSE 0

InFlights == [c \in Consumers |-> Raised(loc[c])]
Shares(w) == [c \in Consumers |-> Share(loc[c], w)]

(* However far the producer gets, there are elements for every consumer    *)
(* that was granted some and for every one that still can be. *)
GrantBound == \A w \in Nat : w >= tailIndex => headIndex + Total(Shares(w)) <= w

Counters ==
  /\ tailIndex \in Nat /\ headIndex \in Nat
  /\ dequeueOptimisticCount \in Nat /\ dequeueOvercommit \in Nat
  /\ dequeueOptimisticCount = headIndex + dequeueOvercommit + Total(InFlights)

ClaimInv ==
  /\ ProdSound
  /\ DOMAIN loc = Consumers
  /\ \A c \in Consumers : LocSound(loc[c], dequeueOvercommit)
  /\ Counters
  /\ GrantBound


---------------------------------------------------------------------------

LEMMA ShareType ==
  ASSUME NEW r, NEW n \in Nat, LocSound(r, n), NEW w \in Nat
  PROVE  /\ Raised(r) \in Nat /\ Share(r, w) \in Nat /\ Share(r, w) <= Raised(r)
         /\ r.pc \notin {"check", "undo", "head"} => Raised(r) = 0 /\ Share(r, w) = 0
<1>1. MaxBulk \in Nat
  BY BlockAssumption
<1>2. CASE r.pc = "check"
  <2>1. r.count \in Nat /\ r.my \in Nat /\ r.over \in Nat
    BY <1>1, <1>2 DEF LocSound
  <2>2. Take(r, w) \in Nat /\ Take(r, w) <= r.count
    BY <2>1 DEF Take
  <2> QED
    BY <1>2, <2>1, <2>2 DEF Raised, Share
<1>3. CASE r.pc \in {"undo", "head"}
  BY <1>1, <1>3 DEF LocSound, Raised, Share
<1>4. CASE r.pc \notin {"check", "undo", "head"}
  BY <1>4 DEF Raised, Share
<1> QED
  BY <1>2, <1>3, <1>4

(* What a consumer would take never shrinks as the producer goes on. *)
LEMMA TakeGrows ==
  ASSUME NEW r, NEW n \in Nat, LocSound(r, n), r.pc = "check", NEW v \in Nat, NEW w \in Nat, v <= w
  PROVE  Take(r, v) \in Nat /\ Take(r, w) \in Nat /\ Take(r, v) <= Take(r, w) /\ Take(r, v) <= r.count
<1>1. r.count \in Nat /\ r.my \in Nat /\ r.over \in Nat
  BY BlockAssumption DEF LocSound
<1> QED
  BY <1>1 DEF Take

(* The sums over the consumers, and that all are granted no more than they *)
(* have raised the count by. *)
LEMMA Sums ==
  ASSUME ClaimInv, NEW w \in Nat
  PROVE  /\ InFlights \in [Consumers -> Nat] /\ IsFiniteSet(Units(InFlights))
         /\ Shares(w) \in [Consumers -> Nat] /\ IsFiniteSet(Units(Shares(w)))
         /\ Total(InFlights) \in Nat /\ Total(Shares(w)) \in Nat
         /\ Total(Shares(w)) <= Total(InFlights)
<1>1. ASSUME NEW c \in Consumers
      PROVE  Raised(loc[c]) \in Nat /\ Share(loc[c], w) \in Nat /\ Share(loc[c], w) <= Raised(loc[c])
  BY ShareType DEF ClaimInv, Counters
<1>2. InFlights \in [Consumers -> Nat] /\ Shares(w) \in [Consumers -> Nat]
  BY <1>1 DEF InFlights, Shares
<1>3. IsFiniteSet(Units(InFlights)) /\ IsFiniteSet(Units(Shares(w)))
  BY <1>2, FiniteUnits, ConsumersAssumption
<1>4. \A c \in Consumers : Shares(w)[c] <= InFlights[c]
  BY <1>1 DEF InFlights, Shares
<1> QED
  BY <1>2, <1>3, <1>4, TotalMonotone

(* When one consumer moves, the sums change by what it raises and is       *)
(* granted. *)
LEMMA OneMoves ==
  ASSUME ClaimInv, NEW c \in Consumers, NEW r, Step(c, r),
         dequeueOvercommit' \in Nat, dequeueOvercommit' >= dequeueOvercommit,
         LocSound(r, dequeueOvercommit')
  PROVE  /\ DOMAIN loc' = Consumers
         /\ \A d \in Consumers : LocSound(loc'[d], dequeueOvercommit')
         /\ Total(InFlights)' \in Nat
         /\ Total(InFlights)' = Total(InFlights) + Raised(r) - Raised(loc[c])
         /\ \A w \in Nat : /\ Total(Shares(w))' \in Nat
                           /\ Total(Shares(w))' = Total(Shares(w)) + Share(r, w) - Share(loc[c], w)
<1>0. dequeueOvercommit \in Nat /\ DOMAIN loc = Consumers
  BY DEF ClaimInv, Counters
<1>1. DOMAIN loc' = Consumers /\ loc'[c] = r /\ \A d \in Consumers \ {c} : loc'[d] = loc[d]
  BY <1>0 DEF Step
<1>2. ASSUME NEW d \in Consumers PROVE LocSound(loc'[d], dequeueOvercommit')
  <2>1. CASE d = c
    BY <1>1, <2>1
  <2>2. CASE d # c
    <3>1. LocSound(loc[d], dequeueOvercommit)
      BY DEF ClaimInv
    <3> QED
      BY <1>0, <1>1, <2>2, <3>1 DEF LocSound
  <2> QED
    BY <2>1, <2>2
<1>3. /\ InFlights' \in [Consumers -> Nat] /\ InFlights'[c] = Raised(r)
      /\ \A d \in Consumers \ {c} : InFlights'[d] = InFlights[d]
      /\ InFlights[c] = Raised(loc[c])
  <2>1. \A d \in Consumers : Raised(loc'[d]) \in Nat
    BY <1>2, ShareType
  <2> QED
    BY <1>1, <2>1 DEF InFlights
<1>4. Total(InFlights') \in Nat /\ Total(InFlights') = Total(InFlights) + Raised(r) - Raised(loc[c])
  <2>1. InFlights \in [Consumers -> Nat] /\ IsFiniteSet(Units(InFlights))
    <3>1. 0 \in Nat
      OBVIOUS
    <3> QED
      BY <3>1, Sums
  <2>2. /\ Total(InFlights') \in Nat
        /\ Total(InFlights') = Total(InFlights) + InFlights'[c] - InFlights[c]
    <3>1. ChangesAt(Consumers, InFlights, InFlights', c)
      BY <1>3, <2>1 DEF ChangesAt
    <3> QED
      BY <3>1, TotalStep
  <2> QED
    BY <1>3, <2>2
<1>5. ASSUME NEW w \in Nat
      PROVE  /\ Total(Shares(w)') \in Nat
             /\ Total(Shares(w)') = Total(Shares(w)) + Share(r, w) - Share(loc[c], w)
  <2>1. /\ Shares(w)' \in [Consumers -> Nat] /\ Shares(w)'[c] = Share(r, w)
        /\ \A d \in Consumers \ {c} : Shares(w)'[d] = Shares(w)[d]
        /\ Shares(w)[c] = Share(loc[c], w)
    <3>1. \A d \in Consumers : Share(loc'[d], w) \in Nat
      BY <1>2, ShareType
    <3> QED
      BY <1>1, <3>1 DEF Shares
  <2> QED
    <3>1. Shares(w) \in [Consumers -> Nat] /\ IsFiniteSet(Units(Shares(w)))
      BY Sums
    <3>2. /\ Total(Shares(w)') \in Nat
          /\ Total(Shares(w)') = Total(Shares(w)) + Shares(w)'[c] - Shares(w)[c]
      <4>1. ChangesAt(Consumers, Shares(w), Shares(w)', c)
        BY <2>1, <3>1 DEF ChangesAt
      <4> QED
        BY <4>1, TotalStep
    <3> QED
      BY <2>1, <3>2
<1> QED
  BY <1>1, <1>2, <1>4, <1>5


(* A step that leaves the sums alone, or lowers what consumers are granted *)
(* at every w, and raises no counter. *)
LEMMA LocalMove ==
  ASSUME ClaimInv, NEW c \in Consumers, NEW r, Step(c, r), LocSound(r, dequeueOvercommit),
         UNCHANGED <<tailIndex, headIndex, dequeueOptimisticCount, dequeueOvercommit, prod>>,
         Raised(r) = Raised(loc[c]),
         \A w \in Nat : w >= tailIndex => Share(r, w) <= Share(loc[c], w)
  PROVE  ClaimInv'
<1>1. /\ tailIndex \in Nat /\ headIndex \in Nat /\ dequeueOptimisticCount \in Nat
      /\ dequeueOvercommit \in Nat /\ LocSound(loc[c], dequeueOvercommit)
      /\ dequeueOptimisticCount = headIndex + dequeueOvercommit + Total(InFlights)
  BY DEF ClaimInv, Counters
<1>2. /\ DOMAIN loc' = Consumers
      /\ \A d \in Consumers : LocSound(loc'[d], dequeueOvercommit)
      /\ Total(InFlights)' \in Nat
      /\ Total(InFlights)' = Total(InFlights) + Raised(r) - Raised(loc[c])
      /\ \A w \in Nat : /\ Total(Shares(w))' \in Nat
                        /\ Total(Shares(w))' = Total(Shares(w)) + Share(r, w) - Share(loc[c], w)
  <2>1. dequeueOvercommit' = dequeueOvercommit /\ dequeueOvercommit >= dequeueOvercommit
    BY <1>1
  <2> QED
    BY <1>1, <2>1, OneMoves
<1>3. Total(InFlights) \in Nat /\ Raised(r) \in Nat
  <2>1. 0 \in Nat
    OBVIOUS
  <2> QED
    BY <1>1, <2>1, Sums, ShareType
<1>4. Counters'
  BY <1>1, <1>2, <1>3 DEF Counters
<1>5. GrantBound'
  <2> SUFFICES ASSUME NEW w \in Nat, w >= tailIndex
               PROVE  headIndex + Total(Shares(w))' <= w
    BY DEF GrantBound
  <2>1. headIndex + Total(Shares(w)) <= w /\ Total(Shares(w)) \in Nat
    BY Sums DEF ClaimInv, GrantBound
  <2>2. /\ Share(r, w) \in Nat /\ Share(loc[c], w) \in Nat /\ Share(r, w) <= Share(loc[c], w)
        /\ Total(Shares(w))' \in Nat
        /\ Total(Shares(w))' = Total(Shares(w)) + Share(r, w) - Share(loc[c], w)
    BY <1>1, <1>2, ShareType
  <2> QED
    BY <1>1, <2>1, <2>2
<1>6. ProdSound'
  BY DEF ClaimInv, ProdSound
<1> QED
  BY <1>2, <1>4, <1>5, <1>6 DEF ClaimInv

(* The steps before the claim. *)
LEMMA BeforeClaim ==
  ASSUME ClaimInv, NEW c \in Consumers, DequeueTail(c) \/ DequeueOvercommit(c) \/ DequeueCount(c)
  PROVE  ClaimInv'
<1>1. /\ UNCHANGED <<tailIndex, headIndex, dequeueOptimisticCount, dequeueOvercommit, prod>>
      /\ tailIndex \in Nat /\ dequeueOptimisticCount \in Nat /\ dequeueOvercommit \in Nat
      /\ LocSound(loc[c], dequeueOvercommit) /\ MaxBulk \in Nat /\ MaxBulk > 0
  BY BlockAssumption DEF DequeueTail, DequeueOvercommit, DequeueCount, Shared, countVars, ClaimInv, Counters
<1>2. ASSUME NEW r, Step(c, r), LocSound(r, dequeueOvercommit),
             r.pc \notin {"check", "undo", "head"}, loc[c].pc \notin {"check", "undo", "head"}
      PROVE  ClaimInv'
  <2>1. 0 \in Nat
    OBVIOUS
  <2>2. Raised(r) = 0 /\ Raised(loc[c]) = 0
    BY <1>1, <1>2, <2>1, ShareType
  <2>3. \A w \in Nat : Share(r, w) = 0 /\ Share(loc[c], w) = 0
    BY <1>1, <1>2, ShareType
  <2> QED
    BY <1>1, <1>2, <2>2, <2>3, LocalMove
<1>3. CASE DequeueTail(c)
  <2>1. PICK max \in {1, MaxBulk} : Step(c, [NoLoc EXCEPT !.pc = "over", !.max = max, !.tail = tailIndex])
    BY <1>3 DEF DequeueTail
  <2> DEFINE r == [NoLoc EXCEPT !.pc = "over", !.max = max, !.tail = tailIndex]
  <2>2. r.pc = "over" /\ r.max = max /\ r.tail = tailIndex /\ Fields \subseteq DOMAIN r
    BY DEF NoLoc, Fields
  <2> HIDE DEF r
  <2>3. max \in 1 .. MaxBulk
    BY <1>1, <2>1
  <2>4. LocSound(r, dequeueOvercommit)
    BY <1>1, <2>2, <2>3 DEF LocSound
  <2>5. loc[c].pc = "idle" /\ Step(c, r)
    BY <1>3, <2>1 DEF DequeueTail, r
  <2> QED
    BY <1>2, <2>2, <2>4, <2>5
<1>4. CASE DequeueOvercommit(c)
  <2> DEFINE r == [loc[c] EXCEPT !.pc = "count", !.over = dequeueOvercommit]
  <2>1. loc[c].pc = "over" /\ Step(c, r)
    BY <1>4 DEF DequeueOvercommit
  <2>2. Fields \subseteq DOMAIN loc[c]
    BY <1>1 DEF LocSound
  <2>3. /\ r.pc = "count" /\ r.over = dequeueOvercommit /\ r.max = loc[c].max /\ r.tail = loc[c].tail
        /\ Fields \subseteq DOMAIN r
    BY <2>2 DEF Fields
  <2> HIDE DEF r
  <2>4. LocSound(r, dequeueOvercommit)
    BY <1>1, <2>1, <2>3 DEF LocSound
  <2> QED
    BY <1>2, <2>1, <2>3, <2>4
<1>5. CASE DequeueCount(c)
  <2> DEFINE desired == loc[c].tail - (dequeueOptimisticCount - loc[c].over)
             n == IF desired < loc[c].max THEN desired ELSE loc[c].max
             r == [loc[c] EXCEPT !.pc = "claim", !.tail = 0, !.max = 0, !.count = n]
  <2>1. loc[c].pc = "count" /\ Step(c, IF desired <= 0 THEN NoLoc ELSE r)
    BY <1>5 DEF DequeueCount
  <2>2. /\ Fields \subseteq DOMAIN loc[c]
        /\ loc[c].max \in 1 .. MaxBulk /\ loc[c].tail \in Nat /\ loc[c].over \in Nat
        /\ loc[c].over <= dequeueOvercommit
    BY <1>1, <2>1 DEF LocSound
  <2>3. CASE desired <= 0
    <3>1. NoLoc.pc = "idle" /\ Fields \subseteq DOMAIN NoLoc
      BY DEF NoLoc, Fields
    <3>2. LocSound(NoLoc, dequeueOvercommit)
      BY <3>1 DEF LocSound
    <3>3. Step(c, NoLoc)
      BY <2>1, <2>3
    <3> QED
      BY <1>2, <2>1, <3>1, <3>2, <3>3
  <2>4. CASE ~(desired <= 0)
    <3>1. n \in 1 .. MaxBulk
      BY <1>1, <2>2, <2>4
    <3>2. Step(c, r)
      BY <2>1, <2>4
    <3> HIDE DEF n
    <3>3. r.pc = "claim" /\ r.count = n /\ r.over = loc[c].over /\ Fields \subseteq DOMAIN r
      BY <2>2 DEF Fields
    <3> HIDE DEF r
    <3>4. LocSound(r, dequeueOvercommit)
      BY <1>1, <2>2, <3>1, <3>3 DEF LocSound
    <3> QED
      BY <1>2, <2>1, <3>2, <3>3, <3>4
  <2> QED
    BY <2>3, <2>4
<1> QED
  BY <1>3, <1>4, <1>5


(* A step of one consumer that moves the counters: they stay balanced, and *)
(* nobody is granted too much at any w. *)
Balances(c, r) ==
  /\ headIndex' \in Nat /\ dequeueOptimisticCount' \in Nat /\ dequeueOvercommit' \in Nat
  /\ dequeueOvercommit' >= dequeueOvercommit
  /\ dequeueOptimisticCount' = dequeueOptimisticCount + (headIndex' - headIndex)
       + (dequeueOvercommit' - dequeueOvercommit) + Raised(r) - Raised(loc[c])
Covers(c, r) ==
  \A w \in Nat : w >= tailIndex => headIndex' + Total(Shares(w)) + Share(r, w) - Share(loc[c], w) <= w

LEMMA CounterMove ==
  ASSUME ClaimInv, NEW c \in Consumers, NEW r, Step(c, r), UNCHANGED <<tailIndex, prod>>,
         Balances(c, r), Covers(c, r), LocSound(r, dequeueOvercommit')
  PROVE  ClaimInv'
<1>1. /\ tailIndex \in Nat /\ headIndex \in Nat /\ dequeueOptimisticCount \in Nat
      /\ dequeueOvercommit \in Nat /\ LocSound(loc[c], dequeueOvercommit)
      /\ dequeueOptimisticCount = headIndex + dequeueOvercommit + Total(InFlights)
  BY DEF ClaimInv, Counters
<1>2. /\ headIndex' \in Nat /\ dequeueOptimisticCount' \in Nat /\ dequeueOvercommit' \in Nat
      /\ dequeueOvercommit' >= dequeueOvercommit
      /\ dequeueOptimisticCount' = dequeueOptimisticCount + (headIndex' - headIndex)
           + (dequeueOvercommit' - dequeueOvercommit) + Raised(r) - Raised(loc[c])
  BY DEF Balances
<1>3. /\ DOMAIN loc' = Consumers
      /\ \A d \in Consumers : LocSound(loc'[d], dequeueOvercommit')
      /\ Total(InFlights)' \in Nat
      /\ Total(InFlights)' = Total(InFlights) + Raised(r) - Raised(loc[c])
      /\ \A w \in Nat : /\ Total(Shares(w))' \in Nat
                        /\ Total(Shares(w))' = Total(Shares(w)) + Share(r, w) - Share(loc[c], w)
  BY <1>2, OneMoves
<1>4. Total(InFlights) \in Nat /\ Raised(r) \in Nat /\ Raised(loc[c]) \in Nat
  <2>1. 0 \in Nat
    OBVIOUS
  <2> QED
    BY <1>1, <1>2, <2>1, Sums, ShareType
<1>5. Counters'
  <2>1. tailIndex' \in Nat
    BY <1>1
  <2>2. dequeueOptimisticCount' = headIndex' + dequeueOvercommit' + Total(InFlights)'
    BY <1>1, <1>2, <1>3, <1>4
  <2> QED
    BY <1>2, <2>1, <2>2 DEF Counters
<1>6. GrantBound'
  <2> SUFFICES ASSUME NEW w \in Nat, w >= tailIndex
               PROVE  headIndex' + Total(Shares(w))' <= w
    BY DEF GrantBound
  <2>1. headIndex' + Total(Shares(w)) + Share(r, w) - Share(loc[c], w) <= w
    BY DEF Covers
  <2>2. /\ Share(r, w) \in Nat /\ Share(loc[c], w) \in Nat /\ Total(Shares(w)) \in Nat
        /\ Total(Shares(w))' = Total(Shares(w)) + Share(r, w) - Share(loc[c], w)
    BY <1>1, <1>2, <1>3, ShareType, Sums
  <2> QED
    BY <1>2, <2>1, <2>2
<1>7. ProdSound'
  BY DEF ClaimInv, ProdSound
<1> QED
  BY <1>3, <1>5, <1>6, <1>7 DEF ClaimInv

(* The claim: whatever tailIndex is found next, what is taken then was     *)
(* not granted to anybody else. *)
LEMMA ClaimMove ==
  ASSUME ClaimInv, NEW c \in Consumers, DequeueClaim(c)
  PROVE  ClaimInv'
<1> DEFINE r == [loc[c] EXCEPT !.pc = "check", !.my = dequeueOptimisticCount]
<1>1. /\ loc[c].pc = "claim" /\ Step(c, r)
      /\ dequeueOptimisticCount' = dequeueOptimisticCount + loc[c].count
      /\ UNCHANGED <<tailIndex, headIndex, dequeueOvercommit, prod>>
  BY DEF DequeueClaim
<1>2. /\ headIndex \in Nat /\ dequeueOptimisticCount \in Nat
      /\ dequeueOvercommit \in Nat /\ LocSound(loc[c], dequeueOvercommit)
      /\ dequeueOptimisticCount = headIndex + dequeueOvercommit + Total(InFlights)
  BY DEF ClaimInv, Counters
<1>3. /\ Fields \subseteq DOMAIN loc[c] /\ loc[c].count \in 1 .. MaxBulk
      /\ loc[c].over \in Nat /\ loc[c].over <= dequeueOvercommit /\ MaxBulk \in Nat
  BY <1>1, <1>2, BlockAssumption DEF LocSound
<1>4. /\ r.pc = "check" /\ r.my = dequeueOptimisticCount /\ r.count = loc[c].count
      /\ r.over = loc[c].over /\ Fields \subseteq DOMAIN r
  BY <1>3 DEF Fields
<1> HIDE DEF r
<1>5. LocSound(r, dequeueOvercommit)
  BY <1>2, <1>3, <1>4 DEF LocSound
<1>6. Raised(r) = loc[c].count /\ Raised(loc[c]) = 0
  BY <1>1, <1>4 DEF Raised
<1>7. Balances(c, r)
  BY <1>1, <1>2, <1>3, <1>6 DEF Balances
<1>8. Covers(c, r)
  <2> SUFFICES ASSUME NEW w \in Nat, w >= tailIndex
               PROVE  headIndex + Total(Shares(w)) + Share(r, w) - Share(loc[c], w) <= w
    BY <1>1 DEF Covers
  <2>1. Share(r, w) = Take(r, w) /\ Share(loc[c], w) = 0
    BY <1>1, <1>4 DEF Share
  <2>2. /\ Total(Shares(w)) \in Nat /\ Total(InFlights) \in Nat /\ Total(Shares(w)) <= Total(InFlights)
        /\ headIndex + Total(Shares(w)) <= w
    BY Sums DEF ClaimInv, GrantBound
  <2>3. Take(r, w) = 0 \/ Take(r, w) <= w - (dequeueOptimisticCount - loc[c].over)
    BY <1>2, <1>3, <1>4 DEF Take
  <2>4. Take(r, w) \in Nat
    BY <1>2, <1>4, <1>5, TakeGrows
  <2>5. CASE Take(r, w) = 0
    BY <1>2, <2>1, <2>2, <2>5
  <2>6. CASE Take(r, w) <= w - (dequeueOptimisticCount - loc[c].over)
    BY <1>2, <1>3, <2>1, <2>2, <2>4, <2>6
  <2> QED
    BY <2>3, <2>5, <2>6
<1> QED
  BY <1>1, <1>5, <1>7, <1>8, CounterMove

(* The second look at tailIndex. *)
LEMMA CheckMove ==
  ASSUME ClaimInv, NEW c \in Consumers, DequeueCheck(c)
  PROVE  ClaimInv'
<1> DEFINE take == Take(loc[c], tailIndex)
           r == [loc[c] EXCEPT !.pc = IF take = loc[c].count THEN "head" ELSE "undo",
                               !.my = 0, !.over = loc[c].count - take, !.count = take]
<1>1. /\ loc[c].pc = "check" /\ Step(c, r)
      /\ UNCHANGED <<tailIndex, headIndex, dequeueOptimisticCount, dequeueOvercommit, prod>>
  BY DEF DequeueCheck, Take, Shared, countVars
<1>2. tailIndex \in Nat /\ dequeueOvercommit \in Nat /\ LocSound(loc[c], dequeueOvercommit)
  BY DEF ClaimInv, Counters
<1>3. Fields \subseteq DOMAIN loc[c] /\ loc[c].count \in 1 .. MaxBulk /\ MaxBulk \in Nat
  BY <1>1, <1>2, BlockAssumption DEF LocSound
<1>4. take \in Nat /\ take <= loc[c].count
  BY <1>1, <1>2, TakeGrows
<1>5. \A w \in Nat : w >= tailIndex => take <= Take(loc[c], w)
  BY <1>1, <1>2, TakeGrows
<1> HIDE DEF take
<1>6. /\ r.pc = IF take = loc[c].count THEN "head" ELSE "undo"
      /\ r.count = take /\ r.over = loc[c].count - take /\ Fields \subseteq DOMAIN r
  BY <1>3 DEF Fields
<1> HIDE DEF r
<1>7. take \in 0 .. MaxBulk /\ loc[c].count - take \in Nat /\ (take = loc[c].count => take \in 1 .. MaxBulk)
  BY <1>3, <1>4
<1>8. LocSound(r, dequeueOvercommit)
  <2>1. CASE take = loc[c].count
    BY <1>6, <1>7, <2>1 DEF LocSound
  <2>2. CASE take # loc[c].count
    BY <1>6, <1>7, <2>2 DEF LocSound
  <2> QED
    BY <2>1, <2>2
<1>9. Raised(r) = Raised(loc[c])
  BY <1>1, <1>3, <1>4, <1>6 DEF Raised
<1>10. \A w \in Nat : w >= tailIndex => Share(r, w) <= Share(loc[c], w)
  BY <1>1, <1>5, <1>6 DEF Share
<1> QED
  BY <1>1, <1>8, <1>9, <1>10, LocalMove

(* Giving back the overcommitment. *)
LEMMA UndoMove ==
  ASSUME ClaimInv, NEW c \in Consumers, DequeueUndo(c)
  PROVE  ClaimInv'
<1> DEFINE r == IF loc[c].count = 0 THEN NoLoc ELSE [loc[c] EXCEPT !.pc = "head", !.over = 0]
<1>1. /\ loc[c].pc = "undo" /\ Step(c, r)
      /\ dequeueOvercommit' = dequeueOvercommit + loc[c].over
      /\ UNCHANGED <<tailIndex, headIndex, dequeueOptimisticCount, prod>>
  BY DEF DequeueUndo
<1>2. /\ headIndex \in Nat /\ dequeueOptimisticCount \in Nat
      /\ dequeueOvercommit \in Nat /\ LocSound(loc[c], dequeueOvercommit)
  BY DEF ClaimInv, Counters
<1>3. Fields \subseteq DOMAIN loc[c] /\ loc[c].count \in 0 .. MaxBulk /\ MaxBulk \in Nat /\ loc[c].over \in Nat
  BY <1>1, <1>2, BlockAssumption DEF LocSound
<1>4. /\ loc[c].count = 0 => r.pc = "idle"
      /\ loc[c].count # 0 => r.pc = "head" /\ r.count = loc[c].count
      /\ Fields \subseteq DOMAIN r
  <2>1. CASE loc[c].count = 0
    BY <2>1 DEF NoLoc, Fields
  <2>2. CASE loc[c].count # 0
    BY <1>3, <2>2 DEF Fields
  <2> QED
    BY <2>1, <2>2
<1> HIDE DEF r
<1>5. LocSound(r, dequeueOvercommit')
  <2>1. CASE loc[c].count = 0
    BY <1>4, <2>1 DEF LocSound
  <2>2. CASE loc[c].count # 0
    BY <1>3, <1>4, <2>2 DEF LocSound
  <2> QED
    BY <2>1, <2>2
<1>6. Raised(r) = loc[c].count /\ Raised(loc[c]) = loc[c].count + loc[c].over
  BY <1>1, <1>3, <1>4 DEF Raised
<1>7. \A w \in Nat : Share(r, w) = loc[c].count /\ Share(loc[c], w) = loc[c].count
  BY <1>1, <1>3, <1>4 DEF Share
<1>8. Balances(c, r)
  BY <1>1, <1>2, <1>3, <1>6 DEF Balances
<1>9. Covers(c, r)
  <2> SUFFICES ASSUME NEW w \in Nat, w >= tailIndex
               PROVE  headIndex + Total(Shares(w)) + Share(r, w) - Share(loc[c], w) <= w
    BY <1>1 DEF Covers
  <2>1. Total(Shares(w)) \in Nat /\ headIndex + Total(Shares(w)) <= w
    BY Sums DEF ClaimInv, GrantBound
  <2> QED
    BY <1>2, <1>3, <1>7, <2>1
<1> QED
  BY <1>1, <1>5, <1>8, <1>9, CounterMove

(* Raising headIndex: the elements are there. *)
LEMMA HeadMove ==
  ASSUME ClaimInv, NEW c \in Consumers, DequeueHead(c)
  PROVE  ClaimInv' /\ loc[c].count \in 1 .. MaxBulk /\ headIndex + loc[c].count <= tailIndex
<1> DEFINE r == [loc[c] EXCEPT !.pc = "header", !.index = headIndex, !.over = 0]
<1>1. /\ loc[c].pc = "head" /\ Step(c, r) /\ headIndex' = headIndex + loc[c].count
      /\ UNCHANGED <<tailIndex, dequeueOptimisticCount, dequeueOvercommit, prod>>
  BY DEF DequeueHead, countVars
<1>2. /\ headIndex \in Nat /\ dequeueOptimisticCount \in Nat /\ tailIndex \in Nat
      /\ dequeueOvercommit \in Nat /\ LocSound(loc[c], dequeueOvercommit)
  BY DEF ClaimInv, Counters
<1>3. Fields \subseteq DOMAIN loc[c] /\ loc[c].count \in 1 .. MaxBulk /\ MaxBulk \in Nat
  BY <1>1, <1>2, BlockAssumption DEF LocSound
<1>4. r.pc = "header" /\ Fields \subseteq DOMAIN r
  BY <1>3 DEF Fields
<1> HIDE DEF r
<1>5. LocSound(r, dequeueOvercommit)
  BY <1>4 DEF LocSound
<1>6. Raised(r) = 0 /\ Raised(loc[c]) = loc[c].count
  BY <1>1, <1>4 DEF Raised
<1>7. \A w \in Nat : Share(r, w) = 0 /\ Share(loc[c], w) = loc[c].count
  BY <1>1, <1>4 DEF Share
<1>8. Balances(c, r)
  BY <1>1, <1>2, <1>3, <1>6 DEF Balances
<1>9. ASSUME NEW w \in Nat, w >= tailIndex
      PROVE  /\ headIndex + Total(Shares(w)) <= w /\ Total(Shares(w)) \in Nat
             /\ loc[c].count <= Total(Shares(w))
  <2>1. /\ Total(Shares(w)) \in Nat /\ headIndex + Total(Shares(w)) <= w
        /\ Shares(w) \in [Consumers -> Nat] /\ IsFiniteSet(Units(Shares(w)))
    BY <1>9, Sums DEF ClaimInv, GrantBound
  <2>2. Shares(w)[c] <= Total(Shares(w))
    BY <2>1, TotalBound
  <2>3. Shares(w)[c] = loc[c].count
    BY <1>7 DEF Shares
  <2> QED
    BY <2>1, <2>2, <2>3
<1>10. Covers(c, r)
  <2> SUFFICES ASSUME NEW w \in Nat, w >= tailIndex
               PROVE  headIndex' + Total(Shares(w)) + Share(r, w) - Share(loc[c], w) <= w
    BY DEF Covers
  <2> QED
    BY <1>1, <1>2, <1>3, <1>7, <1>9
<1>11. headIndex + loc[c].count <= tailIndex
  <2>1. /\ headIndex + Total(Shares(tailIndex)) <= tailIndex /\ Total(Shares(tailIndex)) \in Nat
        /\ loc[c].count <= Total(Shares(tailIndex))
    BY <1>2, <1>9
  <2> QED
    BY <1>2, <1>3, <2>1
<1> QED
  BY <1>1, <1>3, <1>5, <1>8, <1>10, <1>11, CounterMove


(* The steps after headIndex was raised: the claimed elements are looked   *)
(* up, read and given up, and the counters stay. *)
Later == {"header", "front", "entry", "block", "read", "empty", "unlink", "free"}
Counts == <<tailIndex, headIndex, dequeueOptimisticCount, dequeueOvercommit>>

LEMMA ReadMove ==
  ASSUME ClaimInv, NEW c \in Consumers, NEW r, Step(c, r), UNCHANGED <<Counts, prod>>,
         loc[c].pc \in Later, Fields \subseteq DOMAIN r, r.pc \in Later \cup {"idle"}
  PROVE  ClaimInv'
<1>1. dequeueOvercommit \in Nat /\ LocSound(loc[c], dequeueOvercommit)
  BY DEF ClaimInv, Counters
<1>2. LocSound(r, dequeueOvercommit)
  BY DEF LocSound, Later
<1>3. r.pc \notin {"check", "undo", "head"} /\ loc[c].pc \notin {"check", "undo", "head"}
  BY DEF Later
<1>4. \A w \in Nat : Share(r, w) = 0 /\ Share(loc[c], w) = 0
  BY <1>3 DEF Share
<1>5. Raised(r) = Raised(loc[c])
  BY <1>3 DEF Raised
<1>6. \A w \in Nat : w >= tailIndex => Share(r, w) <= Share(loc[c], w)
  BY <1>4
<1> QED
  BY <1>2, <1>5, <1>6, LocalMove DEF Counts

LEMMA NextBlockLocal ==
  ASSUME NEW c \in Consumers, NEW size, Fields \subseteq DOMAIN loc[c]
  PROVE  Fields \subseteq DOMAIN NextBlock(c, size) /\ NextBlock(c, size).pc \in Later \cup {"idle"}
<1> DEFINE n == EndIndex(c) - loc[c].index
           r == [loc[c] EXCEPT !.pc = "block", !.index = @ + n, !.count = @ - n,
                               !.pos = (@ + 1) % size, !.block = nullptr]
<1>1. Fields \subseteq DOMAIN NoLoc /\ NoLoc.pc = "idle"
  BY DEF Fields, NoLoc
<1>2. DOMAIN r = DOMAIN loc[c] /\ r.pc = "block"
  BY DEF Fields
<1>3. NextBlock(c, size) = IF n = loc[c].count THEN NoLoc ELSE r
  BY DEF NextBlock
<1> HIDE DEF r, n
<1> QED
  BY <1>1, <1>2, <1>3 DEF Later

LEMMA ReadSteps ==
  ASSUME ClaimInv, NEW c \in Consumers,
         DequeueRead(c) \/ ExplicitDequeueStep(c) \/ ImplicitDequeueStep(c)
  PROVE  ClaimInv' /\ UNCHANGED Counts
<1>1. UNCHANGED <<Counts, prod>> /\ loc[c].pc \in Later
  BY DEF DequeueRead, ExplicitDequeueStep, ExplicitHeader, ExplicitLoadFront, ExplicitLoadBase,
         ExplicitLoadBlock, ExplicitEmpty, ImplicitDequeueStep, ImplicitHeader, ImplicitLoadTail,
         ImplicitLoadKey, ImplicitLoadBlock, ImplicitEmpty, ImplicitUnlink, ImplicitFree,
         Shared, countVars, Counts, Later
<1>2. Fields \subseteq DOMAIN loc[c]
  BY DEF ClaimInv, LocSound
<1> DEFINE Fits(r) == Fields \subseteq DOMAIN r /\ r.pc \in Later \cup {"idle"}
<1>3. ASSUME NEW l \in Later, NEW x
      PROVE  /\ Fits([loc[c] EXCEPT !.pc = l])
             /\ Fits([loc[c] EXCEPT !.pc = l, !.header = x])
             /\ Fits([loc[c] EXCEPT !.pc = l, !.pos = x])
             /\ Fits([loc[c] EXCEPT !.pc = l, !.block = x])
  BY <1>2, <1>3 DEF Fields
<1>4. \A size : Fits(NextBlock(c, size))
  BY <1>2, NextBlockLocal
<1> HIDE DEF Fits
<1>5. /\ "front" \in Later /\ "entry" \in Later /\ "block" \in Later /\ "read" \in Later
      /\ "empty" \in Later /\ "unlink" \in Later /\ "free" \in Later
  BY DEF Later
<1>6. \E r : Step(c, r) /\ Fits(r)
  <2>1. CASE DequeueRead(c)
    BY <1>3, <1>4, <1>5, <2>1 DEF DequeueRead
  <2>2. CASE ExplicitHeader(c)
    BY <1>3, <1>4, <1>5, <2>2 DEF ExplicitHeader
  <2>3. CASE ExplicitLoadFront(c)
    BY <1>3, <1>4, <1>5, <2>3 DEF ExplicitLoadFront
  <2>4. CASE ExplicitLoadBase(c)
    BY <1>3, <1>4, <1>5, <2>4 DEF ExplicitLoadBase
  <2>5. CASE ExplicitLoadBlock(c)
    BY <1>3, <1>4, <1>5, <2>5 DEF ExplicitLoadBlock
  <2>6. CASE ExplicitEmpty(c)
    BY <1>3, <1>4, <1>5, <2>6 DEF ExplicitEmpty
  <2>7. CASE ImplicitHeader(c)
    BY <1>3, <1>4, <1>5, <2>7 DEF ImplicitHeader
  <2>8. CASE ImplicitLoadTail(c)
    BY <1>3, <1>4, <1>5, <2>8 DEF ImplicitLoadTail
  <2>9. CASE ImplicitLoadKey(c)
    BY <1>3, <1>4, <1>5, <2>9 DEF ImplicitLoadKey
  <2>10. CASE ImplicitLoadBlock(c)
    BY <1>3, <1>4, <1>5, <2>10 DEF ImplicitLoadBlock
  <2>11. CASE ImplicitEmpty(c)
    <3>1. \/ Step(c, [loc[c] EXCEPT !.pc = "unlink"])
          \/ Step(c, NextBlock(c, indices[loc[c].header].capacity))
      BY <2>11 DEF ImplicitEmpty
    <3> QED
      BY <1>3, <1>4, <1>5, <3>1
  <2>12. CASE ImplicitUnlink(c)
    BY <1>3, <1>4, <1>5, <2>12 DEF ImplicitUnlink
  <2>13. CASE ImplicitFree(c)
    BY <1>3, <1>4, <1>5, <2>13 DEF ImplicitFree
  <2> QED
    BY <2>1, <2>2, <2>3, <2>4, <2>5, <2>6, <2>7, <2>8, <2>9, <2>10, <2>11, <2>12, <2>13
    DEF ExplicitDequeueStep, ImplicitDequeueStep
<1> QED
  BY <1>1, <1>6, ReadMove DEF Fits


(* The enqueuing thread's own steps touch no counter, and its call keeps   *)
(* its number of elements. *)
LEMMA EnqueueKeeps ==
  ASSUME ClaimInv, ExplicitEnqueueStep \/ ImplicitEnqueueStep
  PROVE  UNCHANGED <<Counts, loc>>
  BY DEF ExplicitEnqueueStep, ExplicitEnqueue, ExplicitHead, ExplicitIndex, ExplicitBlock,
         ExplicitThrow, ExplicitEntry, ExplicitFront, ExplicitConstruct, ExplicitBulk,
         BulkAhead, BulkHead, BulkIndex, BulkBlock, BulkFill, BulkThrow, BulkFront,
         ImplicitEnqueueStep, ImplicitEnqueue, ImplicitHead, InsertKey, InsertGrow, InsertTail,
         ImplicitBlock, ImplicitNoBlock, ImplicitUndo, ImplicitConstruct, ImplicitThrow,
         EnqueueVars, PutVars, countVars, Counts

CallSound(p) ==
  /\ {"pc", "count"} \subseteq DOMAIN p
  /\ p.pc \notin {"idle", "gone"} => p.count \in 1 .. MaxBulk

LEMMA CallKeeps ==
  ASSUME ProdSound, ExplicitEnqueueStep \/ ImplicitEnqueueStep
  PROVE  ProdSound'
<1> SUFFICES CallSound(prod')
  BY DEF ProdSound, CallSound
<1>1. 1 \in 1 .. MaxBulk /\ MaxBulk \in 1 .. MaxBulk
  BY BlockAssumption
<1>2. CallSound(NoProd)
  BY DEF CallSound, NoProd
<1>3. ASSUME NEW l, prod.pc \notin {"idle", "gone"}
      PROVE  CallSound([prod EXCEPT !.pc = l])
  BY <1>3 DEF CallSound, ProdSound
<1>4. ASSUME NEW l, NEW x, NEW y, NEW z, prod.pc \notin {"idle", "gone"}
      PROVE  /\ CallSound([prod EXCEPT !.pc = l, !.first = x])
             /\ CallSound([prod EXCEPT !.pc = l, !.front = x])
             /\ CallSound([prod EXCEPT !.first = x, !.base = y])
             /\ CallSound([prod EXCEPT !.pc = l, !.base = x, !.need = y])
             /\ CallSound([prod EXCEPT !.pc = l, !.need = x, !.base = y, !.first = z])
  BY <1>4 DEF CallSound, ProdSound
<1>5. ASSUME NEW b, NEW l, prod.pc \notin {"idle", "gone"}, Enter(b, l)
      PROVE  CallSound(prod')
  BY <1>4, <1>5 DEF Enter
<1>6. ASSUME prod.pc \notin {"idle", "gone"}, GiveUp
      PROVE  CallSound(prod')
  BY <1>2, <1>4, <1>6 DEF GiveUp
<1>7. ASSUME NEW why, BulkUndo(why)
      PROVE  CallSound(prod')
  BY <1>2, <1>7 DEF BulkUndo, Fail
<1>8. CASE ExplicitEnqueue
  BY <1>1, <1>8 DEF ExplicitEnqueue, CallSound, NoProd
<1>9. CASE ExplicitHead
  BY <1>2, <1>3, <1>4, <1>5, <1>6, <1>7, <1>9 DEF ExplicitHead, Goto, Fail, To
<1>10. CASE ExplicitIndex
  BY <1>2, <1>3, <1>4, <1>5, <1>6, <1>7, <1>10 DEF ExplicitIndex, Goto, Fail, To
<1>11. CASE ExplicitBlock
  BY <1>2, <1>3, <1>4, <1>5, <1>6, <1>7, <1>11 DEF ExplicitBlock, Goto, Fail, To
<1>12. CASE ExplicitThrow
  BY <1>2, <1>3, <1>4, <1>5, <1>6, <1>7, <1>12 DEF ExplicitThrow, Goto, Fail, To
<1>13. CASE ExplicitEntry
  BY <1>2, <1>3, <1>4, <1>5, <1>6, <1>7, <1>13 DEF ExplicitEntry, Goto, Fail, To
<1>14. CASE ExplicitFront
  BY <1>2, <1>3, <1>4, <1>5, <1>6, <1>7, <1>14 DEF ExplicitFront, Goto, Fail, To
<1>15. CASE ExplicitConstruct
  BY <1>2, <1>3, <1>4, <1>5, <1>6, <1>7, <1>15 DEF ExplicitConstruct, Goto, Fail, To
<1>16. CASE ExplicitBulk
  BY <1>1, <1>16 DEF ExplicitBulk, CallSound, NoProd
<1>17. CASE BulkAhead
  BY <1>2, <1>3, <1>4, <1>5, <1>6, <1>7, <1>17 DEF BulkAhead, Goto, Fail, To
<1>18. CASE BulkHead
  BY <1>2, <1>3, <1>4, <1>5, <1>6, <1>7, <1>18 DEF BulkHead, Goto, Fail, To
<1>19. CASE BulkIndex
  <2>1. BulkUndo({"bulk"}) \/ prod' = [prod EXCEPT !.pc = "bulkBlock", !.front = prod.slots]
    BY <1>19 DEF BulkIndex
  <2>2. prod.pc \notin {"idle", "gone"}
    BY <1>19 DEF BulkIndex
  <2>3. CallSound([prod EXCEPT !.pc = "bulkBlock", !.front = prod.slots])
    BY <1>4, <2>2
  <2> QED
    BY <1>7, <2>1, <2>3
<1>20. CASE BulkBlock
  BY <1>2, <1>3, <1>4, <1>5, <1>6, <1>7, <1>20 DEF BulkBlock, Goto, Fail, To
<1>21. CASE BulkFill
  BY <1>2, <1>3, <1>4, <1>5, <1>6, <1>7, <1>21 DEF BulkFill, Goto, Fail, To
<1>22. CASE BulkThrow
  BY <1>2, <1>3, <1>4, <1>5, <1>6, <1>7, <1>22 DEF BulkThrow, Goto, Fail, To
<1>23. CASE BulkFront
  BY <1>2, <1>3, <1>4, <1>5, <1>6, <1>7, <1>23 DEF BulkFront, Goto, Fail, To
<1>24. CASE ImplicitHead
  BY <1>2, <1>3, <1>4, <1>5, <1>6, <1>7, <1>24 DEF ImplicitHead, Goto, Fail, To
<1>25. CASE InsertKey
  BY <1>2, <1>3, <1>4, <1>5, <1>6, <1>7, <1>25 DEF InsertKey, Goto, Fail, To
<1>26. CASE InsertGrow
  <2>1. UNCHANGED prod \/ GiveUp
    BY <1>26 DEF InsertGrow
  <2>2. prod.pc \notin {"idle", "gone"}
    BY <1>26 DEF InsertGrow
  <2> QED
    BY <1>6, <2>1, <2>2 DEF ProdSound, CallSound
<1>27. CASE InsertTail
  BY <1>2, <1>3, <1>4, <1>5, <1>6, <1>7, <1>27 DEF InsertTail, Goto, Fail, To
<1>28. CASE ImplicitBlock
  <2>1. PICK b : prod' = [prod EXCEPT !.pc = IF prod.need > 1 THEN "head" ELSE "construct",
                                      !.need = @ - 1, !.base = @ + BLOCK_SIZE,
                                      !.first = IF @ = nullptr THEN b ELSE @]
    BY <1>28 DEF ImplicitBlock
  <2>2. prod.pc \notin {"idle", "gone"}
    BY <1>28 DEF ImplicitBlock
  <2> QED
    BY <1>4, <2>1, <2>2
<1>29. CASE ImplicitNoBlock
  BY <1>2, <1>3, <1>4, <1>5, <1>6, <1>7, <1>29 DEF ImplicitNoBlock, Goto, Fail, To
<1>30. CASE ImplicitUndo
  <2>1. prod' = NoProd \/ \E b : prod' = [prod EXCEPT !.first = b, !.base = @ + BLOCK_SIZE]
    BY <1>30 DEF ImplicitUndo
  <2>2. prod.pc \notin {"idle", "gone"}
    BY <1>30 DEF ImplicitUndo
  <2>3. ASSUME NEW b PROVE CallSound([prod EXCEPT !.first = b, !.base = @ + BLOCK_SIZE])
    BY <1>4, <2>2
  <2> QED
    BY <1>2, <2>1, <2>3
<1>31. CASE ImplicitConstruct
  BY <1>2, <1>3, <1>4, <1>5, <1>6, <1>7, <1>31 DEF ImplicitConstruct, Goto, Fail, To
<1>32. CASE ImplicitThrow
  BY <1>2, <1>3, <1>4, <1>5, <1>6, <1>7, <1>32 DEF ImplicitThrow, Goto, Fail, To
<1>33. ASSUME NEW n \in {1, MaxBulk}, ImplicitEnqueue(n)
      PROVE  CallSound(prod')
  BY <1>1, <1>33 DEF ImplicitEnqueue, CallSound, NoProd
<1> QED
  BY <1>8, <1>9, <1>10, <1>11, <1>12, <1>13, <1>14, <1>15, <1>16, <1>17, <1>18, <1>19, <1>20,
     <1>21, <1>22, <1>23, <1>24, <1>25, <1>26, <1>27, <1>28, <1>29, <1>30, <1>31, <1>32, <1>33
  DEF ExplicitEnqueueStep, ImplicitEnqueueStep


(* A step of the producer that may raise tailIndex. *)
LEMMA ProducerMove ==
  ASSUME ClaimInv, UNCHANGED <<headIndex, dequeueOptimisticCount, dequeueOvercommit, loc>>,
         tailIndex' \in Nat, tailIndex' >= tailIndex, ProdSound'
  PROVE  ClaimInv'
<1>1. tailIndex \in Nat
  BY DEF ClaimInv, Counters
<1>2. Counters'
  BY DEF ClaimInv, Counters, InFlights
<1>3. GrantBound'
  <2> SUFFICES ASSUME NEW w \in Nat, w >= tailIndex'
               PROVE  headIndex + Total(Shares(w)) <= w
    BY DEF GrantBound, Shares
  <2>1. w >= tailIndex
    BY <1>1
  <2> QED
    BY <2>1 DEF ClaimInv, GrantBound
<1>4. DOMAIN loc' = Consumers /\ \A c \in Consumers : LocSound(loc'[c], dequeueOvercommit')
  BY DEF ClaimInv
<1> QED
  BY <1>2, <1>3, <1>4 DEF ClaimInv

LEMMA ClaimInit ==
  ASSUME Init PROVE ClaimInv
<1>1. /\ tailIndex = 0 /\ headIndex = 0 /\ dequeueOptimisticCount = 0 /\ dequeueOvercommit = 0
      /\ prod = NoProd /\ loc = [c \in Consumers |-> NoLoc]
  BY DEF Init, BaseInit
<1>2. ProdSound
  BY <1>1 DEF ProdSound, NoProd
<1>3. Fields \subseteq DOMAIN NoLoc /\ NoLoc.pc = "idle"
  BY DEF NoLoc, Fields
<1>4. LocSound(NoLoc, 0) /\ Raised(NoLoc) = 0 /\ \A w \in Nat : Share(NoLoc, w) = 0
  BY <1>3 DEF LocSound, Raised, Share
<1>5. /\ InFlights \in [Consumers -> Nat] /\ \A c \in Consumers : InFlights[c] = 0
      /\ \A w \in Nat : Shares(w) \in [Consumers -> Nat] /\ \A c \in Consumers : Shares(w)[c] = 0
  BY <1>1, <1>4 DEF InFlights, Shares
<1>6. Total(InFlights) = 0 /\ \A w \in Nat : Total(Shares(w)) = 0
  BY <1>5, TotalZero
<1>7. Counters /\ GrantBound
  BY <1>1, <1>6 DEF Counters, GrantBound
<1> QED
  BY <1>1, <1>2, <1>4, <1>7 DEF ClaimInv

(* Every step keeps the claims covered, and is a step of the abstract      *)
(* queue or invisible there. *)
LEMMA ClaimNext ==
  ASSUME ClaimInv, [Next]_vars
  PROVE  ClaimInv' /\ [Sub!Put \/ Sub!Claim]_<<tailIndex, headIndex>>
<1>1. tailIndex \in Nat /\ headIndex \in Nat /\ MaxBulk \in Nat
  BY BlockAssumption DEF ClaimInv, Counters
<1>2. ASSUME UNCHANGED <<Counts, loc>>, ProdSound'
      PROVE  ClaimInv' /\ UNCHANGED <<tailIndex, headIndex>>
  <2>1. /\ UNCHANGED <<headIndex, dequeueOptimisticCount, dequeueOvercommit, loc>>
        /\ tailIndex' = tailIndex
    BY <1>2 DEF Counts
  <2>2. tailIndex' \in Nat /\ tailIndex' >= tailIndex
    BY <1>1, <2>1
  <2> QED
    BY <1>2, <2>1, <2>2, ProducerMove
<1>3. CASE ExplicitEnqueueStep \/ ImplicitEnqueueStep
  <2>1. UNCHANGED <<Counts, loc>> /\ ProdSound'
    BY <1>3, EnqueueKeeps, CallKeeps DEF ClaimInv
  <2> QED
    BY <1>2, <2>1
<1>4. CASE Publish
  <2>1. /\ prod.pc = "publish" /\ tailIndex' = tailIndex + prod.count /\ prod' = NoProd
        /\ UNCHANGED <<headIndex, dequeueOptimisticCount, dequeueOvercommit, loc>>
    BY <1>4 DEF Publish, countVars
  <2>2. prod.count \in 1 .. MaxBulk
    BY <2>1 DEF ClaimInv, ProdSound
  <2>3. tailIndex' \in Nat /\ tailIndex' >= tailIndex
    BY <1>1, <2>1, <2>2
  <2>4. ProdSound'
    BY <2>1 DEF ProdSound, NoProd
  <2>5. ClaimInv'
    BY <2>1, <2>3, <2>4, ProducerMove
  <2>6. Sub!Put
    BY <2>1, <2>2 DEF Sub!Put
  <2> QED
    BY <2>5, <2>6
<1>5. ASSUME NEW c \in Consumers, DequeueStep(c)
      PROVE  ClaimInv' /\ [Sub!Put \/ Sub!Claim]_<<tailIndex, headIndex>>
  <2>1. CASE DequeueTail(c) \/ DequeueOvercommit(c) \/ DequeueCount(c)
    <3>1. UNCHANGED <<tailIndex, headIndex>>
      BY <2>1 DEF DequeueTail, DequeueOvercommit, DequeueCount, Shared
    <3> QED
      BY <2>1, <3>1, BeforeClaim
  <2>2. CASE DequeueClaim(c)
    BY <2>2, ClaimMove DEF DequeueClaim
  <2>3. CASE DequeueCheck(c)
    BY <2>3, CheckMove DEF DequeueCheck, Shared
  <2>4. CASE DequeueUndo(c)
    BY <2>4, UndoMove DEF DequeueUndo
  <2>5. CASE DequeueHead(c)
    <3>1. ClaimInv' /\ loc[c].count \in 1 .. MaxBulk /\ headIndex + loc[c].count <= tailIndex
      BY <2>5, HeadMove
    <3>2. Sub!Claim
      BY <2>5, <3>1 DEF DequeueHead, Sub!Claim
    <3> QED
      BY <3>1, <3>2
  <2>6. CASE DequeueRead(c) \/ ExplicitDequeueStep(c) \/ ImplicitDequeueStep(c)
    BY <2>6, ReadSteps DEF Counts
  <2> QED
    BY <1>5, <2>1, <2>2, <2>3, <2>4, <2>5, <2>6 DEF DequeueStep, ClaimStep
<1>6. CASE Destroy
  <2>1. prod' = [NoProd EXCEPT !.pc = "gone"] /\ UNCHANGED <<Counts, loc>>
    BY <1>6 DEF Destroy, Counts, countVars
  <2>2. ProdSound'
    BY <2>1 DEF ProdSound, NoProd
  <2> QED
    BY <1>2, <2>1, <2>2
<1>7. CASE UNCHANGED vars
  <2>1. UNCHANGED <<Counts, loc, prod>>
    BY <1>7 DEF vars, Counts
  <2> QED
    BY <1>2, <2>1 DEF ClaimInv, ProdSound
<1> QED
  BY <1>3, <1>4, <1>5, <1>6, <1>7 DEF Next, EnqueueStep

(* What is in flight is accounted for, and consumers raise headIndex only  *)
(* over elements that are there ("guaranteed to be at least one element"), *)
(* with any number of consumers whose overcommitments cross. *)
THEOREM ClaimsAreBacked == Spec => []ClaimsBacked
<1>1. Init => ClaimInv
  BY ClaimInit
<1>2. ClaimInv /\ [Next]_vars => ClaimInv'
  BY ClaimNext
<1>3. ClaimInv => ClaimsBacked
  <2> SUFFICES ASSUME ClaimInv PROVE ClaimsBacked
    OBVIOUS
  <2> DEFINE granted == [c \in Consumers |-> Granted(c)]
  <2>1. /\ tailIndex \in Nat /\ headIndex \in Nat
        /\ dequeueOptimisticCount = headIndex + dequeueOvercommit + Total(InFlights)
        /\ headIndex + Total(Shares(tailIndex)) <= tailIndex
    BY DEF ClaimInv, Counters, GrantBound
  <2>2. InFlights = [c \in Consumers |-> InFlight(c)]
    BY DEF InFlights, InFlight, Raised, At
  <2>3. /\ Shares(tailIndex) \in [Consumers -> Nat] /\ IsFiniteSet(Units(Shares(tailIndex)))
        /\ Total(Shares(tailIndex)) \in Nat
    BY <2>1, Sums
  <2>4. ASSUME NEW c \in Consumers
        PROVE  Granted(c) \in Nat /\ Granted(c) <= Share(loc[c], tailIndex)
    <3>1. Share(loc[c], tailIndex) \in Nat
      BY <2>1, ShareType DEF ClaimInv, Counters
    <3> QED
      BY <3>1 DEF Granted, Share, At
  <2>5. granted \in [Consumers -> Nat] /\ \A c \in Consumers : granted[c] <= Shares(tailIndex)[c]
    BY <2>4 DEF Shares
  <2>6. IsFiniteSet(Units(granted))
    BY <2>5, FiniteUnits, ConsumersAssumption
  <2>7. Total(granted) \in Nat /\ Total(granted) <= Total(Shares(tailIndex))
    BY <2>3, <2>5, <2>6, TotalMonotone
  <2>8. headIndex + Total(granted) <= tailIndex
    BY <2>1, <2>3, <2>7
  <2> QED
    BY <2>1, <2>2, <2>8 DEF ClaimsBacked
<1> QED
  BY <1>1, <1>2, <1>3, PTL DEF Spec

(* One producer's queue, explicit or implicit, implements SubQueue: an     *)
(* enqueue appears whole, and elements are claimed in order, each once,    *)
(* and only when they are there. *)
THEOREM SubQueueImplemented == Spec => ImplementsSubQueue
<1>1. Init => ClaimInv /\ Sub!SubInit
  BY ClaimInit DEF Init, BaseInit, Sub!SubInit
<1>2. ClaimInv /\ [Next]_vars => ClaimInv' /\ [Sub!Put \/ Sub!Claim]_<<tailIndex, headIndex>>
  BY ClaimNext
<1> QED
  BY <1>1, <1>2, PTL DEF Spec, ImplementsSubQueue, Sub!SubSpec

=============================================================================
