----------------------------- MODULE Counting -----------------------------
(***************************************************************************)
(* What happens to the size of a finite set when one element may join or   *)
(* leave it: the step every proof about semaphores and announcements takes *)
(* when a thread moves from one label to another; induction on sets; and   *)
(* the arithmetic of quotients and rests that indices are taken apart by.  *)
(***************************************************************************)
EXTENDS Integers, Units, FiniteSetTheorems, WellFoundedInduction, TLAPS

(* 1 if x belongs to S, 0 if not. *)
Has(x, S) == IF x \in S THEN 1 ELSE 0

(* Two sets that agree except on t differ in size by t's membership.       *)
LEMMA CountStep ==
  ASSUME NEW A, NEW B, NEW t, IsFiniteSet(A), A \ {t} = B \ {t}
  PROVE  /\ IsFiniteSet(B)
         /\ Cardinality(A) \in Nat
         /\ Cardinality(B) \in Nat
         /\ Cardinality(B) = Cardinality(A) + Has(t, B) - Has(t, A)
<1> DEFINE C == A \ {t}
<1>1. /\ IsFiniteSet(C)
      /\ Cardinality(C) = IF t \in A THEN Cardinality(A) - 1
                                     ELSE Cardinality(A)
  BY FS_RemoveElement
<1>2. Cardinality(A) \in Nat /\ Cardinality(C) \in Nat
  BY <1>1, FS_CardinalityType
<1>3. CASE t \in B
  <2>1. B = C \cup {t}
    BY <1>3
  <2>2. t \notin C
    OBVIOUS
  <2>3. /\ IsFiniteSet(B)
        /\ Cardinality(B) = Cardinality(C) + 1
    BY <1>1, <2>1, <2>2, FS_AddElement
  <2> QED
    BY <1>1, <1>2, <1>3, <2>3 DEF Has
<1>4. CASE t \notin B
  <2>1. B = C
    BY <1>4
  <2> HIDE DEF C
  <2> QED
    BY <1>1, <1>2, <1>4, <2>1 DEF Has
<1> QED
  BY <1>3, <1>4

---------------------------------------------------------------------------

(* A set of naturals that is not empty has a least element, ... *)
LEMMA LeastNat ==
  ASSUME NEW S, S \subseteq Nat, S # {}
  PROVE  \E n \in S : \A m \in S : n <= m
<1> DEFINE R == {p \in Nat \X Nat : p[1] < p[2]}
<1>1. IsWellFoundedOn(R, Nat)
  <2>1. R = OpToRel(<, Nat)
    BY DEF OpToRel
  <2> QED
    BY <2>1, NatLessThanWellFounded
<1>2. \E n \in S : \A m \in S : ~ (<<m, n>> \in R)
  BY <1>1, WFMin
<1>3. PICK n \in S : \A m \in S : ~ (<<m, n>> \in R)
  BY <1>2
<1>4. ASSUME NEW m \in S PROVE n <= m
  <2>1. m \in Nat /\ n \in Nat /\ <<m, n>> \notin R
    BY <1>3
  <2> QED
    BY <2>1
<1> QED
  BY <1>4

(* ... and one that contains 0 and each successor is all of them: induction *)
(* over a set that is named, where a predicate could not be. *)
LEMMA SetInduction ==
  ASSUME NEW S, 0 \in S, \A n \in Nat : n \in S => n + 1 \in S
  PROVE  Nat \subseteq S
<1> SUFFICES ASSUME NEW k \in Nat, k \notin S PROVE FALSE
  OBVIOUS
<1>1. PICK n \in Nat \ S : \A m \in Nat \ S : n <= m
  BY LeastNat
<1> QED
  BY <1>1

(* A map can be iterated. *)
Iterates(f, D, p, g) == f \in [Nat -> D] /\ f[0] = p /\ \A n \in Nat : f[n + 1] = g[f[n]]
MapOn(g, D) == g \in [D -> D]

LEMMA Iteration ==
  ASSUME NEW D, NEW p \in D, NEW map, MapOn(map, D)
  PROVE  \E f : Iterates(f, D, p, map)
<1>0. PICK g \in [D -> D] : g = map
  BY DEF MapOn
<1> DEFINE Upto(n) == {f \in [0 .. n -> D] : f[0] = p /\ \A k \in 0 .. n - 1 : f[k + 1] = g[f[k]]}
<1>1. \A n \in Nat : \E f : f \in Upto(n)
  <2> DEFINE S == {n \in Nat : \E f : f \in Upto(n)}
  <2>1. 0 \in S
    <3>1. [k \in 0 .. 0 |-> p] \in Upto(0)
      OBVIOUS
    <3> HIDE DEF Upto
    <3> QED
      BY <3>1
  <2>2. ASSUME NEW n \in Nat, n \in S PROVE n + 1 \in S
    <3>1. PICK f : f \in Upto(n)
      BY <2>2
    <3> DEFINE h == [k \in 0 .. n + 1 |-> IF k = n + 1 THEN g[f[n]] ELSE f[k]]
    <3>2. h \in Upto(n + 1)
      <4>1. f \in [0 .. n -> D] /\ f[0] = p /\ \A k \in 0 .. n - 1 : f[k + 1] = g[f[k]]
        BY <3>1
      <4>2. h \in [0 .. n + 1 -> D] /\ h[0] = p
        BY <4>1
      <4>3. ASSUME NEW k \in 0 .. n PROVE h[k + 1] = g[h[k]]
        BY <4>1, <4>3
      <4>4. 0 .. (n + 1) - 1 = 0 .. n
        OBVIOUS
      <4> HIDE DEF h
      <4> QED
        BY <4>2, <4>3, <4>4
    <3> HIDE DEF Upto, h
    <3> QED
      BY <3>2
  <2> HIDE DEF S
  <2>3. Nat \subseteq S
    BY <2>1, <2>2, SetInduction
  <2> QED
    BY <2>3 DEF S
<1>2. ASSUME NEW n \in Nat, NEW f, f \in Upto(n)
      PROVE  f \in [0 .. n -> D] /\ f[0] = p /\ \A k \in 0 .. n - 1 : f[k + 1] = g[f[k]]
  BY <1>2
<1> HIDE DEF Upto
<1> DEFINE pick == [n \in Nat |-> CHOOSE f : f \in Upto(n)]
<1>3. \A n \in Nat : pick[n] \in Upto(n)
  BY <1>1
<1> HIDE DEF pick
<1>4. \A k \in Nat : k \in {j \in Nat : \A n \in Nat : j <= n => pick[n][j] = pick[j][j]}
  <2> DEFINE S == {k \in Nat : \A n \in Nat : k <= n => pick[n][k] = pick[k][k]}
  <2>1. 0 \in S
    BY <1>2, <1>3
  <2>2. ASSUME NEW k \in Nat, k \in S PROVE k + 1 \in S
    <3>1. ASSUME NEW n \in Nat, k + 1 <= n PROVE pick[n][k + 1] = g[pick[k][k]]
      <4>1. pick[n][k] = pick[k][k]
        BY <2>2, <3>1
      <4>2. k \in 0 .. n - 1
        BY <3>1
      <4> QED
        BY <1>2, <1>3, <4>1, <4>2
    <3> QED
      BY <3>1
  <2> HIDE DEF S
  <2>3. Nat \subseteq S
    BY <2>1, <2>2, SetInduction
  <2> QED
    BY <2>3 DEF S
<1> DEFINE F == [n \in Nat |-> pick[n][n]]
<1>5. ASSUME NEW n \in Nat PROVE pick[n] \in [0 .. n -> D] /\ pick[n][0] = p
  BY <1>2, <1>3
<1>6. F \in [Nat -> D] /\ F[0] = p
  BY <1>5
<1>7. ASSUME NEW n \in Nat PROVE F[n + 1] = g[F[n]]
  <2>1. pick[n + 1][n + 1] = g[pick[n + 1][n]]
    <3>1. n \in 0 .. (n + 1) - 1
      OBVIOUS
    <3> QED
      BY <1>2, <1>3, <3>1
  <2>2. pick[n + 1][n] = pick[n][n]
    BY <1>4
  <2> QED
    BY <2>1, <2>2
<1> HIDE DEF F
<1>8. Iterates(F, D, p, map)
  BY <1>0, <1>6, <1>7 DEF Iterates
<1> QED
  BY <1>8

---------------------------------------------------------------------------

(* The units of one x are as many as f counts out for it. *)
LEMMA OwnUnits ==
  ASSUME NEW x, NEW n \in Nat
  PROVE  IsFiniteSet({x} \X (1 .. n)) /\ Cardinality({x} \X (1 .. n)) = n
<1>1. IsFiniteSet({x}) /\ Cardinality({x}) = 1
  BY FS_Singleton
<1>2. IsFiniteSet(1 .. n) /\ Cardinality(1 .. n) = n
  BY FS_Interval
<1>3. /\ IsFiniteSet({x} \X (1 .. n))
      /\ Cardinality({x} \X (1 .. n)) = Cardinality({x}) * Cardinality(1 .. n)
  BY <1>1, <1>2, FS_Product, Zenon
<1> QED
  BY <1>1, <1>2, <1>3

(* The units of the others do not depend on f[x]. *)
LEMMA UnitsSplit ==
  ASSUME NEW X, NEW f \in [X -> Nat], IsFiniteSet(Units(f)), NEW x \in X
  PROVE  /\ IsFiniteSet(Units(f) \ ({x} \X Nat))
         /\ Cardinality(Units(f) \ ({x} \X Nat)) \in Nat
         /\ Total(f) = Cardinality(Units(f) \ ({x} \X Nat)) + f[x]
<1> DEFINE mine == {x} \X (1 .. f[x])
           rest == Units(f) \ ({x} \X Nat)
<1>1. IsFiniteSet(mine) /\ Cardinality(mine) = f[x]
  BY OwnUnits
<1>2. IsFiniteSet(rest)
  BY FS_Difference
<1>3. Units(f) = rest \cup mine /\ rest \cap mine = {}
  BY DEF Units
<1>4. Cardinality(rest) \in Nat
  BY <1>2, FS_CardinalityType
<1>5. Cardinality(rest \cup mine) = Cardinality(rest) + Cardinality(mine) - Cardinality({})
  BY <1>1, <1>2, <1>3, FS_Union
<1>6. Cardinality({}) = 0
  BY FS_EmptySet
<1> HIDE DEF mine, rest
<1>7. Total(f) = Cardinality(rest) + f[x]
  BY <1>1, <1>3, <1>4, <1>5, <1>6 DEF Total
<1> QED
  BY <1>2, <1>4, <1>7 DEF rest

(* A function changed at x has a total changed by as much. *)
ChangesAt(X, f, g, x) ==
  /\ f \in [X -> Nat] /\ g \in [X -> Nat] /\ IsFiniteSet(Units(f))
  /\ x \in X /\ \A y \in X \ {x} : g[y] = f[y]

LEMMA TotalStep ==
  ASSUME NEW X, NEW f, NEW g, NEW x, ChangesAt(X, f, g, x)
  PROVE  /\ IsFiniteSet(Units(g))
         /\ Total(f) \in Nat /\ Total(g) \in Nat
         /\ Total(g) = Total(f) + g[x] - f[x]
<1>0. /\ f \in [X -> Nat] /\ g \in [X -> Nat] /\ IsFiniteSet(Units(f))
      /\ x \in X /\ \A y \in X \ {x} : g[y] = f[y]
  BY DEF ChangesAt
<1> DEFINE mine == {x} \X (1 .. g[x])
           rest == Units(f) \ ({x} \X Nat)
<1>1. rest = Units(g) \ ({x} \X Nat)
  <2>1. ASSUME NEW u PROVE u \in rest <=> u \in Units(g) \ ({x} \X Nat)
    <3>1. u \in Units(f) <=> \E y \in X : u \in {y} \X (1 .. f[y])
      BY <1>0 DEF Units
    <3>2. u \in Units(g) <=> \E y \in X : u \in {y} \X (1 .. g[y])
      BY <1>0 DEF Units
    <3>3. ASSUME NEW y \in X, u \notin {x} \X Nat
          PROVE  u \in {y} \X (1 .. f[y]) <=> u \in {y} \X (1 .. g[y])
      BY <1>0, <3>3
    <3> QED
      BY <3>1, <3>2, <3>3
  <2> QED
    BY <2>1
<1>2. IsFiniteSet(rest)
  BY <1>0, FS_Difference
<1>3. IsFiniteSet(mine)
  BY <1>0, OwnUnits
<1>4. Units(g) = rest \cup mine
  <2>1. Units(g) = (Units(g) \ ({x} \X Nat)) \cup mine
    BY <1>0 DEF Units
  <2> QED
    BY <1>1, <2>1
<1>5. IsFiniteSet(Units(g))
  <2> HIDE DEF rest, mine
  <2> QED
    BY <1>2, <1>3, <1>4, FS_Union
<1>6. /\ Cardinality(rest) \in Nat
      /\ Total(f) = Cardinality(rest) + f[x]
  BY <1>0, UnitsSplit
<1>7. Total(g) = Cardinality(Units(g) \ ({x} \X Nat)) + g[x]
  BY <1>0, <1>5, UnitsSplit
<1> HIDE DEF rest
<1>8. Total(g) = Cardinality(rest) + g[x]
  BY <1>1, <1>7 DEF rest
<1>9. f[x] \in Nat /\ g[x] \in Nat
  BY <1>0
<1> QED
  BY <1>5, <1>6, <1>8, <1>9

LEMMA TotalExcept ==
  ASSUME NEW X, NEW f \in [X -> Nat], IsFiniteSet(Units(f)), NEW x \in X, NEW n \in Nat
  PROVE  /\ IsFiniteSet(Units([f EXCEPT ![x] = n]))
         /\ Total(f) \in Nat /\ Total([f EXCEPT ![x] = n]) \in Nat
         /\ Total([f EXCEPT ![x] = n]) = Total(f) + n - f[x]
<1> DEFINE g == [f EXCEPT ![x] = n]
<1>1. g \in [X -> Nat] /\ g[x] = n /\ \A y \in X \ {x} : g[y] = f[y]
  OBVIOUS
<1> HIDE DEF g
<1>2. /\ IsFiniteSet(Units(g))
      /\ Total(f) \in Nat /\ Total(g) \in Nat
      /\ Total(g) = Total(f) + g[x] - f[x]
  <2>1. ChangesAt(X, f, g, x)
    BY <1>1 DEF ChangesAt
  <2> QED
    BY <2>1, TotalStep
<1> QED
  BY <1>1, <1>2 DEF g

(* No x has more than the total. *)
LEMMA TotalBound ==
  ASSUME NEW X, NEW f \in [X -> Nat], IsFiniteSet(Units(f)), NEW x \in X
  PROVE  Total(f) \in Nat /\ f[x] <= Total(f)
<1>1. /\ Cardinality(Units(f) \ ({x} \X Nat)) \in Nat
      /\ Total(f) = Cardinality(Units(f) \ ({x} \X Nat)) + f[x]
  BY UnitsSplit
<1>2. f[x] \in Nat
  OBVIOUS
<1> QED
  BY <1>1, <1>2

(* Nothing is counted out by a function that is zero everywhere. *)
LEMMA TotalZero ==
  ASSUME NEW X, NEW f \in [X -> Nat], \A x \in X : f[x] = 0
  PROVE  IsFiniteSet(Units(f)) /\ Total(f) = 0
<1>1. Units(f) = {}
  BY DEF Units
<1> QED
  BY <1>1, FS_EmptySet DEF Total

(* Over a finite domain there are finitely many units. *)
LEMMA FiniteUnits ==
  ASSUME NEW X, IsFiniteSet(X), NEW f \in [X -> Nat]
  PROVE  IsFiniteSet(Units(f))
<1> DEFINE g == [x \in X |-> {x} \X (1 .. f[x])]
           all == {g[x] : x \in X}
<1>1. IsFiniteSet(all)
  <2>1. g \in Surjection(X, all)
    <3> HIDE DEF g
    <3>1. g \in [X -> all]
      BY DEF g
    <3> QED
      BY <3>1 DEF Surjection
  <2> HIDE DEF g, all
  <2> QED
    BY <2>1, FS_Surjection
<1>2. ASSUME NEW s \in all PROVE IsFiniteSet(s)
  <2>1. PICK x \in X : s = g[x]
    OBVIOUS
  <2>2. s = {x} \X (1 .. f[x]) /\ f[x] \in Nat
    BY <2>1
  <2> QED
    BY <2>2, OwnUnits
<1>3. IsFiniteSet(UNION all)
  <2> HIDE DEF all
  <2> QED
    BY <1>1, <1>2, FS_UNION
<1>4. Units(f) = UNION all
  BY DEF Units
<1> QED
  BY <1>3, <1>4

(* A domain extended by zeros counts out nothing more. *)
Extends(X, f, Y, g) ==
  X \subseteq Y /\ f \in [X -> Nat] /\ g = [y \in Y |-> IF y \in X THEN f[y] ELSE 0]

LEMMA TotalExtend ==
  ASSUME NEW X, NEW f, NEW Y, NEW g, Extends(X, f, Y, g)
  PROVE  Total(g) = Total(f)
<1>0. X \subseteq Y /\ f \in [X -> Nat] /\ g = [y \in Y |-> IF y \in X THEN f[y] ELSE 0]
  BY DEF Extends
<1>1. Units(g) = Units(f)
  <2>1. ASSUME NEW u PROVE u \in Units(g) <=> u \in Units(f)
    <3>1. u \in Units(f) <=> \E y \in X : u \in {y} \X (1 .. f[y])
      BY <1>0 DEF Units
    <3>2. u \in Units(g) <=> \E y \in Y : u \in {y} \X (1 .. g[y])
      BY <1>0 DEF Units
    <3>3. ASSUME NEW y \in Y, u \in {y} \X (1 .. g[y]) PROVE y \in X /\ g[y] = f[y]
      BY <1>0, <3>3
    <3> QED
      BY <1>0, <3>1, <3>2, <3>3
  <2> QED
    BY <2>1
<1> QED
  BY <1>1 DEF Total


(* More is counted out by a function that is nowhere less. *)
LEMMA TotalMonotone ==
  ASSUME NEW X, NEW f \in [X -> Nat], NEW g \in [X -> Nat], IsFiniteSet(Units(g)),
         \A x \in X : f[x] <= g[x]
  PROVE  Total(f) \in Nat /\ Total(g) \in Nat /\ Total(f) <= Total(g)
<1>1. Units(f) \subseteq Units(g)
  <2>1. ASSUME NEW u, u \in Units(f) PROVE u \in Units(g)
    <3>1. PICK x \in X : u \in {x} \X (1 .. f[x])
      BY <2>1 DEF Units
    <3>2. u \in {x} \X (1 .. g[x])
      BY <3>1
    <3> QED
      BY <3>2 DEF Units
  <2> QED
    BY <2>1
<1>2. IsFiniteSet(Units(f)) /\ Cardinality(Units(f)) <= Cardinality(Units(g))
  BY <1>1, FS_Subset
<1> QED
  BY <1>2, FS_CardinalityType DEF Total

---------------------------------------------------------------------------
(* Quotients and rests *)

(* Multiplication by a positive number.                                   *)
LEMMA Times ==
  ASSUME NEW n \in Nat \ {0}, NEW a \in Int, NEW b \in Int
  PROVE  /\ n * a \in Int
         /\ a < b <=> n * a < n * b
         /\ a <= b <=> n * a <= n * b
         /\ n * (a + b) = n * a + n * b
         /\ n * (a - b) = n * a - n * b
<1>1. n * a \in Int /\ n * b \in Int /\ n * (a + b) = n * a + n * b /\ n * (a - b) = n * a - n * b
  OBVIOUS
<1>2. ASSUME NEW c \in Int, c > 0 PROVE n * c > 0
  BY <1>2
<1>3. ASSUME a < b PROVE n * a < n * b
  <2>1. n * (b - a) > 0
    BY <1>2, <1>3
  <2> QED
    BY <2>1
<1>4. ASSUME b < a PROVE n * b < n * a
  <2>1. n * (a - b) > 0
    BY <1>2, <1>4
  <2> QED
    BY <2>1
<1> QED
  BY <1>1, <1>3, <1>4

(* Quotient and rest determine each other.                                *)
LEMMA DivUnique ==
  ASSUME NEW n \in Nat \ {0}, NEW d \in Int, NEW r \in 0 .. n - 1
  PROVE  (n * d + r) \div n = d /\ (n * d + r) % n = r
<1> DEFINE a == n * d + r
           e == a \div n
           s == a % n
<1>0. a \in Int /\ e \in Int /\ s \in Int
  OBVIOUS
<1>1. a = n * e + s /\ s \in 0 .. n - 1
  OBVIOUS
<1>2. n * (d - e) = s - r
  BY <1>1, <1>0, Times
<1>3. ~ (d - e >= 1)
  <2>1. ASSUME d - e >= 1 PROVE n * 1 <= n * (d - e)
    BY <2>1, <1>0, Times
  <2> HIDE DEF a, e, s
  <2> QED BY <1>0, <1>1, <1>2, <2>1
<1>4. ~ (d - e <= -1)
  <2>1. ASSUME d - e <= -1 PROVE n * (d - e) <= n * (-1)
    BY <2>1, <1>0, Times
  <2> HIDE DEF a, e, s
  <2> QED BY <1>0, <1>1, <1>2, <2>1
<1>5. d = e
  BY <1>3, <1>4, <1>0
<1> QED
  BY <1>1, <1>2, <1>5, <1>0

(* A multiple of the divisor only changes the quotient.                   *)
LEMMA ModShift ==
  ASSUME NEW n \in Nat \ {0}, NEW a \in Int, NEW d \in Int
  PROVE  (a + n * d) % n = a % n /\ (a + n * d) \div n = a \div n + d
<1> DEFINE e == a \div n
           r == a % n
<1>1. a = n * e + r /\ r \in 0 .. n - 1 /\ e \in Int
  OBVIOUS
<1> HIDE DEF e, r
<1>2. a + n * d = n * (e + d) + r /\ e + d \in Int
  BY <1>1, Times
<1>3. (n * (e + d) + r) \div n = e + d /\ (n * (e + d) + r) % n = r
  BY <1>1, <1>2, DivUnique
<1>4. (a + n * d) % n = r /\ (a + n * d) \div n = e + d
  BY <1>2, <1>3
<1> QED
  BY <1>4 DEF e, r

(* Two numbers less than n apart with the same rest are one.              *)
LEMMA CellApart ==
  ASSUME NEW n \in Nat \ {0}, NEW a \in Int, NEW b \in Int, a % n = b % n,
         a - b < n, b - a < n
  PROVE  a = b
<1> DEFINE d == a \div n
           e == b \div n
<1>1. d \in Int /\ e \in Int /\ a = n * d + (a % n) /\ b = n * e + (b % n) /\ a % n \in Int
  OBVIOUS
<1> HIDE DEF d, e
<1>2. a - b = n * (d - e)
  BY <1>1, Times
<1>3. n * (d - e) < n * 1 /\ n * (-1) < n * (d - e)
  BY <1>1, <1>2
<1>4. d - e < 1 /\ -1 < d - e
  BY <1>1, <1>3, Times
<1> QED
  BY <1>1, <1>2, <1>4

===========================================================================
