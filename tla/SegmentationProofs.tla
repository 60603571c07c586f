-------------------------- MODULE SegmentationProofs --------------------------
(***************************************************************************)
(* The segments of a key range tile it, whatever the range, the number of   *)
(* segments and the sample: no key of the range is in no segment, and none  *)
(* in two.  Then what the classification of fetched rows says of one key,   *)
(* and how many differences it finds.  The facts about sets and integers    *)
(* that come first serve the proofs of the other components as well.        *)
(***************************************************************************)
EXTENDS Segmentation, RowSets, FiniteSetTheorems, FunctionTheorems, TLAPS

-------------------------------------------------------------------------------
(* Finite sets and sets of integers.  Induction is stated with sets: the    *)
(* library's induction theorems have an operator parameter, which no        *)
(* backend instantiates.                                                    *)

(* A finite, nonempty set of integers has a least element: of the sets of   *)
(* elements below some element one is minimal under inclusion.              *)
LEMMA LeastElement ==
  ASSUME NEW S \in SUBSET Int, IsFiniteSet(S), S # {}
  PROVE  \E x \in S : \A y \in S : x <= y
<1> DEFINE below(x) == { z \in S : z < x }
           family == { below(x) : x \in S }
           strict == StrictSubsetOrdering(S)
<1>1. IsWellFoundedOn(strict, SUBSET S)
  BY FS_StrictSubsetOrderingWellFounded, FS_FiniteSubsetsOfFinite
<1>2. family \subseteq SUBSET S /\ family # {}
  OBVIOUS
<1>3. PICK T \in family : \A U \in family : << U, T >> \notin strict
  BY <1>1, <1>2, WFMin
<1>4. PICK x \in S : T = below(x)
  OBVIOUS
<1>5. ASSUME NEW y \in S, y < x PROVE FALSE
  <2>1. \A z \in S : z < y => z < x
    BY <1>5
  <2>2. y \in Int /\ ~(y < y)
    OBVIOUS
  <2>3. below(y) \subseteq below(x) /\ y \in below(x) /\ y \notin below(y)
    BY <2>1, <2>2, <1>5
  <2>4. << below(y), below(x) >> \in strict
    BY <2>3 DEF StrictSubsetOrdering
  <2> QED
    BY <2>4, <1>3, <1>4
<1> QED
  BY <1>5

LEMMA GreatestElement ==
  ASSUME NEW S \in SUBSET Int, IsFiniteSet(S), S # {}
  PROVE  \E x \in S : \A y \in S : y <= x
<1> DEFINE above(x) == { z \in S : z > x }
           family == { above(x) : x \in S }
           strict == StrictSubsetOrdering(S)
<1>1. IsWellFoundedOn(strict, SUBSET S)
  BY FS_StrictSubsetOrderingWellFounded, FS_FiniteSubsetsOfFinite
<1>2. family \subseteq SUBSET S /\ family # {}
  OBVIOUS
<1>3. PICK T \in family : \A U \in family : << U, T >> \notin strict
  BY <1>1, <1>2, WFMin
<1>4. PICK x \in S : T = above(x)
  OBVIOUS
<1>5. ASSUME NEW y \in S, y > x PROVE FALSE
  <2>1. \A z \in S : z > y => z > x
    BY <1>5
  <2>2. y \in Int /\ ~(y > y)
    OBVIOUS
  <2>3. above(y) \subseteq above(x) /\ y \in above(x) /\ y \notin above(y)
    BY <2>1, <2>2, <1>5
  <2>4. << above(y), above(x) >> \in strict
    BY <2>3 DEF StrictSubsetOrdering
  <2> QED
    BY <2>4, <1>3, <1>4
<1> QED
  BY <1>5

(* Induction from 1 to n, for a property given as the set where it holds.   *)
LEMMA UpTo ==
  ASSUME NEW n \in Nat, NEW S,
         n > 0 => 1 \in S,
         \A i \in 1..n : i \in S /\ i < n => i + 1 \in S
  PROVE  1..n \subseteq S
<1> SUFFICES ASSUME NEW k \in (1..n) \ S PROVE FALSE
  OBVIOUS
<1> DEFINE bad == (1..n) \ S
<1>1. IsFiniteSet(bad) /\ bad \in SUBSET Int /\ bad # {}
  <2>1. IsFiniteSet(1..n)
    BY FS_Interval
  <2>2. bad \in SUBSET (1..n)
    OBVIOUS
  <2>3. IsFiniteSet(bad)
    BY <2>1, <2>2, FS_Subset
  <2> QED
    BY <2>3
<1>2. PICK x \in bad : \A y \in bad : x <= y
  BY <1>1, LeastElement
<1>3. x # 1
  BY <1>2
<1>4. x - 1 \in 1..n /\ x - 1 < n /\ x - 1 \notin bad
  BY <1>2, <1>3
<1>5. x \in S
  BY <1>4
<1> QED
  BY <1>5, <1>2

LEMMA CardinalityZero ==
  ASSUME NEW S, IsFiniteSet(S), Cardinality(S) = 0
  PROVE  S = {}
BY FS_EmptySet

(* Disjoint sets add up. *)
LEMMA DisjointUnion ==
  ASSUME NEW S, NEW T, IsFiniteSet(S), IsFiniteSet(T), S \cap T = {}
  PROVE  /\ IsFiniteSet(S \cup T)
         /\ Cardinality(S \cup T) = Cardinality(S) + Cardinality(T)
<1>1. Cardinality(S \cap T) = 0
  BY FS_EmptySet
<1> QED
  BY <1>1, FS_Union, FS_CardinalityType
-------------------------------------------------------------------------------
(* The rank of a member: how many are smaller.                              *)
Rank(S, x) == Cardinality({ y \in S : y < x })

LEMMA RankMonotone ==
  ASSUME NEW S \in SUBSET Int, IsFiniteSet(S), NEW x \in S
  PROVE  /\ Rank(S, x) \in 0..(Cardinality(S) - 1)
         /\ \A z \in S : x < z => Rank(S, x) < Rank(S, z)
<1> DEFINE below(z) == { y \in S : y < z }
<1>1. ASSUME NEW z \in S
      PROVE  /\ below(z) \in SUBSET S /\ IsFiniteSet(below(z))
             /\ Cardinality(below(z)) \in Nat
  <2>1. below(z) \in SUBSET S
    OBVIOUS
  <2>2. IsFiniteSet(below(z))
    BY <2>1, FS_Subset
  <2> QED
    BY <2>1, <2>2, FS_CardinalityType
<1>2. Cardinality(S) \in Nat
  BY FS_CardinalityType
<1>3. /\ IsFiniteSet(below(x) \cup {x})
      /\ Cardinality(below(x) \cup {x}) = Cardinality(below(x)) + 1
  <2>1. x \notin below(x)
    OBVIOUS
  <2> HIDE DEF below
  <2> QED
    BY <1>1, <2>1, FS_AddElement
<1>4. Cardinality(below(x)) + 1 <= Cardinality(S)
  <2>1. below(x) \cup {x} \in SUBSET S
    OBVIOUS
  <2> HIDE DEF below
  <2> QED
    BY <1>3, <2>1, FS_Subset
<1>5. ASSUME NEW z \in S, x < z PROVE Cardinality(below(x)) + 1 <= Cardinality(below(z))
  <2>1. below(x) \cup {x} \in SUBSET below(z)
    <3>1. \A y \in S : y < x => y < z
      BY <1>5
    <3> QED
      BY <1>5, <3>1
  <2> HIDE DEF below
  <2> QED
    BY <1>1, <1>3, <2>1, FS_Subset
<1>6. \A z \in S : Rank(S, z) = Cardinality(below(z))
  BY DEF Rank
<1> HIDE DEF below
<1> QED
  BY <1>1, <1>2, <1>4, <1>5, <1>6

(* Every rank is some member's. *)
LEMMA RankOnto ==
  ASSUME NEW S \in SUBSET Int, IsFiniteSet(S), NEW i \in 0..(Cardinality(S) - 1)
  PROVE  \E x \in S : Rank(S, x) = i
<1> DEFINE n == Cardinality(S)
           f == [x \in S |-> Rank(S, x)]
<1>1. n \in Nat
  BY FS_CardinalityType
<1>2. IsFiniteSet(0..(n - 1)) /\ Cardinality(0..(n - 1)) = n
  BY <1>1, FS_Interval
<1>3. f \in [S -> 0..(n - 1)]
  BY RankMonotone
<1>4. \A x, y \in S : f[x] = f[y] => x = y
  <2> SUFFICES ASSUME NEW x \in S, NEW y \in S, Rank(S, x) = Rank(S, y), x # y
               PROVE  FALSE
    OBVIOUS
  <2>1. x < y \/ y < x
    OBVIOUS
  <2>2. Rank(S, x) \in Int /\ Rank(S, y) \in Int
    BY RankMonotone
  <2> QED
    BY <2>1, <2>2, RankMonotone
<1>5. f \in Injection(S, 0..(n - 1))
  BY <1>3, <1>4, Fun_IsInj
<1>6. f \in Surjection(S, 0..(n - 1))
  BY <1>2, <1>5, FS_Injection
<1>7. \E x \in S : f[x] = i
  <2> HIDE DEF f
  <2>1. \A t \in 0..(n - 1) : \E x \in S : f[x] = t
    BY <1>6 DEF Surjection
  <2> QED
    BY <2>1
<1> QED
  BY <1>7

(* Of the members of rank less than m there are m, or all of them.          *)
LEMMA RankBelow ==
  ASSUME NEW S \in SUBSET Int, IsFiniteSet(S), NEW m \in 0..Cardinality(S)
  PROVE  Cardinality({ x \in S : Rank(S, x) < m }) = m
<1> DEFINE F == { x \in S : Rank(S, x) < m }
           f == [x \in F |-> Rank(S, x)]
<1>1. m \in Nat /\ Cardinality(S) \in Nat
  BY FS_CardinalityType
<1>2. f \in [F -> 0..(m - 1)]
  <2>1. ASSUME NEW x \in F PROVE Rank(S, x) \in 0..(m - 1)
    <3>1. x \in S /\ Rank(S, x) < m
      OBVIOUS
    <3>2. Rank(S, x) \in 0..(Cardinality(S) - 1)
      BY <3>1, RankMonotone
    <3> QED
      BY <1>1, <3>1, <3>2
  <2> HIDE DEF F
  <2> QED
    BY <2>1
<1>3. \A x, y \in F : f[x] = f[y] => x = y
  <2> SUFFICES ASSUME NEW x \in F, NEW y \in F, Rank(S, x) = Rank(S, y), x # y
               PROVE  FALSE
    OBVIOUS
  <2>1. x < y \/ y < x
    OBVIOUS
  <2>2. Rank(S, x) \in Int /\ Rank(S, y) \in Int
    BY RankMonotone
  <2> QED
    BY <2>1, <2>2, RankMonotone
<1>4. ASSUME NEW i \in 0..(m - 1) PROVE \E x \in F : f[x] = i
  <2>1. i \in 0..(Cardinality(S) - 1)
    BY <1>1
  <2>2. PICK x \in S : Rank(S, x) = i
    BY <2>1, RankOnto
  <2> QED
    BY <1>1, <2>2
<1>5. f \in Bijection(F, 0..(m - 1))
  BY <1>2, <1>3, <1>4, Fun_IsBij
<1>6. IsFiniteSet(F)
  <2>1. F \in SUBSET S
    OBVIOUS
  <2> QED
    BY <2>1, FS_Subset
<1>7. ExistsBijection(F, 0..(m - 1))
  BY <1>5 DEF ExistsBijection
<1>8. Cardinality(0..(m - 1)) = Cardinality(F)
  BY <1>6, <1>7, FS_Bijection
<1> QED
  BY <1>1, <1>8, FS_Interval

-------------------------------------------------------------------------------
(* Arithmetic. *)
LEMMA DivMod ==
  ASSUME NEW a \in Int, NEW d \in Nat \ {0}
  PROVE  /\ a \div d \in Int /\ a % d \in 0..(d - 1)
         /\ a = d * (a \div d) + (a % d)
OBVIOUS

LEMMA Scaled ==
  ASSUME NEW d \in Nat, NEW x \in Int, NEW y \in Int, x <= y
  PROVE  d * x <= d * y
OBVIOUS

(* A number between two multiples has its quotient between the factors.     *)
LEMMA QuotientBetween ==
  ASSUME NEW a \in Int, NEW d \in Nat \ {0}, NEW x \in Int
  PROVE  /\ d * x <= a => x <= a \div d
         /\ a <= d * x => a \div d <= x
         /\ a = d * x => a \div d = x /\ a % d = 0
<1> DEFINE q == a \div d
           r == a % d
<1>1. q \in Int /\ r \in 0..(d - 1) /\ a = d * q + r
  BY DivMod
<1> HIDE DEF q, r
<1>2. ASSUME q < x PROVE a < d * x
  <2>1. d * (q + 1) <= d * x
    BY <1>1, <1>2, Scaled
  <2>2. d * (q + 1) = d * q + d
    BY <1>1
  <2>3. d * x \in Int /\ d * q \in Int
    BY <1>1
  <2> QED
    BY <1>1, <2>1, <2>2, <2>3
<1>3. ASSUME q > x PROVE a > d * x
  <2>1. d * (x + 1) <= d * q
    BY <1>1, <1>3, Scaled
  <2>2. d * (x + 1) = d * x + d
    OBVIOUS
  <2>3. d * x \in Int /\ d * q \in Int
    BY <1>1
  <2> QED
    BY <1>1, <2>1, <2>2, <2>3
<1>4. d * x \in Int /\ d * q \in Int
  BY <1>1
<1>5. a = d * x => q = x /\ r = 0
  BY <1>1, <1>2, <1>3, <1>4
<1> QED
  BY <1>1, <1>2, <1>3, <1>4, <1>5 DEF q, r

LEMMA QuotientMonotone ==
  ASSUME NEW a \in Int, NEW b \in Int, NEW d \in Nat \ {0}, a <= b
  PROVE  /\ a \div d <= b \div d
         /\ a \div d = b \div d => a % d <= b % d
<1> DEFINE q == a \div d
           r == b \div d
<1>1. /\ q \in Int /\ a % d \in 0..(d - 1) /\ a = d * q + (a % d)
      /\ r \in Int /\ b % d \in 0..(d - 1) /\ b = d * r + (b % d)
  BY DivMod
<1>2. d * q \in Int /\ d * r \in Int
  BY <1>1
<1>3. q <= r
  <2>1. d * q <= b
    BY <1>1, <1>2
  <2> HIDE DEF q
  <2> QED
    BY <1>1, <2>1, QuotientBetween
<1>4. ASSUME q = r PROVE a % d <= b % d
  <2> DEFINE u == a % d
             v == b % d
             p == d * q
  <2>1. a = p + u /\ b = p + v /\ p \in Int /\ u \in Int /\ v \in Int
    BY <1>1, <1>2, <1>4
  <2> HIDE DEF u, v, p
  <2>2. u <= v
    BY <2>1
  <2> QED
    BY <2>2 DEF u, v
<1> QED
  BY <1>3, <1>4

LEMMA RoundMonotone ==
  ASSUME NEW a \in Int, NEW b \in Int, NEW d \in Nat \ {0}, a <= b
  PROVE  Round(a, d) \in Int /\ Round(a, d) <= Round(b, d)
<1> DEFINE q == a \div d
           r == b \div d
           u == a % d
           v == b % d
<1>1. q \in Int /\ r \in Int /\ u \in Int /\ v \in Int
  BY DivMod
<1>2. q <= r /\ (q = r => u <= v)
  BY QuotientMonotone
<1>3. Round(a, d) = IF 2 * u < d \/ (2 * u = d /\ q % 2 = 0) THEN q ELSE q + 1
  BY DEF Round
<1>4. Round(b, d) = IF 2 * v < d \/ (2 * v = d /\ r % 2 = 0) THEN r ELSE r + 1
  BY DEF Round
<1> HIDE DEF q, r, u, v
<1> QED
  BY <1>1, <1>2, <1>3, <1>4

LEMMA RoundExact ==
  ASSUME NEW d \in Nat \ {0}, NEW x \in Int
  PROVE  Round(d * x, d) = x
<1>1. d * x \in Int
  OBVIOUS
<1>2. (d * x) \div d = x /\ (d * x) % d = 0
  BY <1>1, QuotientBetween
<1> QED
  BY <1>2 DEF Round

(* A rounded quotient is off by half at most. *)
LEMMA RoundNear ==
  ASSUME NEW a \in Int, NEW d \in Nat \ {0}
  PROVE  /\ Round(a, d) \in Int
         /\ 2 * a - d <= 2 * (d * Round(a, d)) /\ 2 * (d * Round(a, d)) <= 2 * a + d
<1> DEFINE q == a \div d
           r == a % d
           p == d * q
<1>1. q \in Int /\ r \in 0..(d - 1) /\ a = p + r
  BY DivMod
<1>2. Round(a, d) = IF 2 * r < d \/ (2 * r = d /\ q % 2 = 0) THEN q ELSE q + 1
  BY DEF Round
<1>3. p \in Int /\ d * (q + 1) = p + d
  BY <1>1
<1> HIDE DEF q, r
<1>4. CASE 2 * r < d \/ (2 * r = d /\ q % 2 = 0)
  <2>1. Round(a, d) = q /\ 2 * r <= d
    BY <1>1, <1>2, <1>4
  <2>2. d * Round(a, d) = p
    BY <2>1
  <2> HIDE DEF p
  <2> QED
    BY <1>1, <1>3, <2>1, <2>2
<1>5. CASE ~(2 * r < d \/ (2 * r = d /\ q % 2 = 0))
  <2>1. Round(a, d) = q + 1 /\ 2 * r >= d
    BY <1>1, <1>2, <1>5
  <2>2. d * Round(a, d) = p + d
    BY <1>3, <2>1
  <2> HIDE DEF p
  <2> QED
    BY <1>1, <1>3, <2>1, <2>2
<1> QED
  BY <1>4, <1>5

-------------------------------------------------------------------------------
(* Sums and powers.  A function defined by recursion exists, and what holds  *)
(* of it is shown with UpTo.                                                *)
LEMMA Accumulates ==
  ASSUME NEW n \in Nat, NEW m \in Int, NEW b \in [1..n -> Int]
  PROVE  \E f \in [0..n -> Int] :
           f[0] = 0 /\ \A i \in 1..n : f[i] = f[i - 1] * m + b[i]
<1> DEFINE Good(k, f) == f[0] = 0 /\ \A i \in 1..k : f[i] = f[i - 1] * m + b[i]
           S == { k \in 1..n : \E f \in [0..k -> Int] : Good(k, f) }
<1>1. CASE n = 0
  <2> DEFINE f == [i \in 0..n |-> 0]
  <2>1. f \in [0..n -> Int] /\ f[0] = 0 /\ 1..n = {}
    BY <1>1
  <2> QED
    BY <2>1
<1>2. CASE n > 0
  <2>1. 1 \in S
    <3> DEFINE f == [i \in 0..1 |-> IF i = 0 THEN 0 ELSE b[1]]
    <3>1. b[1] \in Int /\ 1 \in 1..n
      BY <1>2
    <3>2. f \in [0..1 -> Int] /\ f[0] = 0 /\ f[1] = b[1]
      BY <3>1
    <3> HIDE DEF f
    <3>3. \A i \in 1..1 : f[i] = f[i - 1] * m + b[i]
      BY <3>1, <3>2
    <3> QED
      BY <3>1, <3>2, <3>3
  <2>2. ASSUME NEW k \in 1..n, k \in S, k < n PROVE k + 1 \in S
    <3>1. PICK f \in [0..k -> Int] : Good(k, f)
      BY <2>2
    <3> DEFINE next == f[k] * m + b[k + 1]
               g == [i \in 0..(k + 1) |-> IF i = k + 1 THEN next ELSE f[i]]
    <3>2. k + 1 \in 1..n /\ b[k + 1] \in Int /\ f[k] \in Int
      BY <2>2
    <3>3. next \in Int
      BY <3>2
    <3>4. /\ g \in [0..(k + 1) -> Int] /\ g[k + 1] = next
          /\ \A i \in 0..k : g[i] = f[i]
      <4> HIDE DEF next
      <4> QED
        BY <3>3
    <3> HIDE DEF g
    <3>5. g[0] = 0
      BY <3>1, <3>4
    <3>6. ASSUME NEW i \in 1..(k + 1) PROVE g[i] = g[i - 1] * m + b[i]
      <4>1. CASE i = k + 1
        BY <3>4, <4>1
      <4>2. CASE i # k + 1
        <5>1. i \in 1..k /\ i \in 0..k /\ i - 1 \in 0..k
          BY <4>2
        <5> QED
          BY <3>1, <3>4, <5>1
      <4> QED
        BY <4>1, <4>2
    <3> QED
      BY <3>2, <3>4, <3>5, <3>6
  <2> HIDE DEF S
  <2>3. 1..n \subseteq S
    BY <2>1, <2>2, UpTo
  <2>4. n \in S
    BY <1>2, <2>3
  <2> QED
    BY <2>4 DEF S
<1>3. n = 0 \/ n > 0
  OBVIOUS
<1> HIDE DEF S, Good
<1> QED
  BY <1>1, <1>2, <1>3, Zenon

IsPower(f, base, k) == f[0] = 1 /\ \A i \in 1..k : f[i] = base * f[i - 1]

LEMMA PowersExist ==
  ASSUME NEW base \in Int, NEW k \in Nat
  PROVE  \E f \in [0..k -> Int] : IsPower(f, base, k)
<1> DEFINE ones == [i \in 1..k |-> 1]
<1>1. ones \in [1..k -> Int]
  OBVIOUS
<1>2. PICK g \in [0..k -> Int] :
             g[0] = 0 /\ \A i \in 1..k : g[i] = g[i - 1] * base + ones[i]
  BY <1>1, Accumulates
<1> DEFINE f == [i \in 0..k |-> (base - 1) * g[i] + 1]
<1>3. f \in [0..k -> Int] /\ f[0] = 1
  BY <1>1, <1>2
<1>4. ASSUME NEW i \in 1..k PROVE f[i] = base * f[i - 1]
  <2>1. i \in 0..k /\ i - 1 \in 0..k /\ ones[i] = 1
    OBVIOUS
  <2> DEFINE x == g[i - 1]
  <2>2. x \in Int /\ g[i] = x * base + 1
    BY <1>2, <2>1
  <2>3. f[i] = (base - 1) * (x * base + 1) + 1 /\ f[i - 1] = (base - 1) * x + 1
    BY <2>1, <2>2
  <2> HIDE DEF f, x
  <2>4. (base - 1) * (x * base + 1) + 1 = base * ((base - 1) * x + 1)
    BY <1>1, <2>2
  <2> QED
    BY <2>3, <2>4
<1> QED
  BY <1>3, <1>4 DEF IsPower

LEMMA PowIs ==
  ASSUME NEW base \in Int, NEW k \in Nat
  PROVE  \E f \in [0..k -> Int] : IsPower(f, base, k) /\ Pow(base, k) = f[k]
<1> DEFINE Eq(f) == f = [i \in 0..k |-> IF i = 0 THEN 1 ELSE base * f[i - 1]]
           power == CHOOSE f : Eq(f)
<1>1. ASSUME NEW f \in [0..k -> Int] PROVE Eq(f) <=> IsPower(f, base, k)
  BY DEF IsPower
<1>2. Eq(power)
  <2>1. PICK f \in [0..k -> Int] : IsPower(f, base, k)
    BY PowersExist
  <2>2. Eq(f)
    BY <1>1, <2>1
  <2> HIDE DEF Eq
  <2> QED
    BY <2>2
<1>3. Pow(base, k) = power[k]
  BY DEF Pow
<1> HIDE DEF power
<1>4. DOMAIN power = 0..k /\ power[0] = 1 /\ \A i \in 1..k : power[i] = base * power[i - 1]
  BY <1>2
<1>5. power \in [0..k -> Int]
  <2> DEFINE S == { i \in 1..k : power[i] \in Int }
  <2>1. k > 0 => 1 \in S
    BY <1>4
  <2>2. ASSUME NEW i \in 1..k, i \in S, i < k PROVE i + 1 \in S
    <3>1. i + 1 \in 1..k /\ (i + 1) - 1 = i
      BY <2>2
    <3>2. power[i + 1] = base * power[i]
      BY <1>4, <3>1
    <3> QED
      BY <2>2, <3>1, <3>2
  <2> HIDE DEF S
  <2>3. 1..k \subseteq S
    BY <2>1, <2>2, UpTo
  <2>4. \A i \in 0..k : power[i] \in Int
    BY <1>4, <2>3 DEF S
  <2>5. power = [i \in 0..k |-> power[i]]
    BY <1>2
  <2> QED
    BY <2>4, <2>5
<1> QED
  BY <1>3, <1>4, <1>5 DEF IsPower

LEMMA SamePowers ==
  ASSUME NEW base, NEW k \in Nat, NEW f, NEW g, IsPower(f, base, k), IsPower(g, base, k)
  PROVE  f[k] = g[k]
<1> DEFINE S == { i \in 1..k : f[i] = g[i] }
<1>1. /\ f[0] = 1 /\ \A i \in 1..k : f[i] = base * f[i - 1]
      /\ g[0] = 1 /\ \A i \in 1..k : g[i] = base * g[i - 1]
  BY DEF IsPower
<1>2. k > 0 => 1 \in S
  BY <1>1
<1>3. ASSUME NEW i \in 1..k, i \in S, i < k PROVE i + 1 \in S
  <2>1. i + 1 \in 1..k /\ (i + 1) - 1 = i
    BY <1>3
  <2> QED
    BY <1>1, <1>3, <2>1
<1> HIDE DEF S
<1>4. 1..k \subseteq S
  BY <1>2, <1>3, UpTo
<1> QED
  BY <1>1, <1>4 DEF S

LEMMA PowNext ==
  ASSUME NEW base \in Int
  PROVE  /\ Pow(base, 0) = 1
         /\ \A k \in Nat : Pow(base, k) \in Int /\ Pow(base, k + 1) = base * Pow(base, k)
<1>1. Pow(base, 0) = 1
  BY PowIs DEF IsPower
<1>2. ASSUME NEW k \in Nat PROVE Pow(base, k) \in Int /\ Pow(base, k + 1) = base * Pow(base, k)
  <2>1. PICK f \in [0..k -> Int] : IsPower(f, base, k) /\ Pow(base, k) = f[k]
    BY PowIs
  <2> DEFINE n == k + 1
  <2>a. n \in Nat /\ n = k + 1
    OBVIOUS
  <2> HIDE DEF n
  <2>b. \E g \in [0..n -> Int] : IsPower(g, base, n) /\ Pow(base, n) = g[n]
    BY <2>a, PowIs
  <2>2. PICK g \in [0..n -> Int] : IsPower(g, base, n) /\ Pow(base, n) = g[n]
    BY <2>b
  <2>3. IsPower(g, base, k) /\ g[n] = base * g[k]
    <3>1. n \in 1..n /\ n - 1 = k /\ 1..k \subseteq 1..n
      BY <2>a
    <3> QED
      BY <2>2, <3>1 DEF IsPower
  <2>4. f[k] = g[k]
    BY <2>1, <2>3, SamePowers
  <2> QED
    BY <2>a, <2>1, <2>2, <2>3, <2>4
<1> QED
  BY <1>1, <1>2

(* A power is greater than its exponent, and so at least one.               *)
LEMMA PowExceeds ==
  ASSUME NEW base \in Int, base >= 2, NEW k \in Nat
  PROVE  Pow(base, k) \in Nat \ {0} /\ k < Pow(base, k)
<1> DEFINE S == { i \in 1..k : Pow(base, i) \in Int /\ i < Pow(base, i) }
<1>0. Pow(base, 0) = 1 /\ \A i \in Nat : Pow(base, i) \in Int /\ Pow(base, i + 1) = base * Pow(base, i)
  BY PowNext
<1>1. k > 0 => 1 \in S
  <2>1. Pow(base, 0 + 1) = base * 1
    BY <1>0
  <2> QED
    BY <2>1
<1>2. ASSUME NEW i \in 1..k, i \in S, i < k PROVE i + 1 \in S
  <2> DEFINE p == Pow(base, i)
  <2>1. p \in Int /\ i < p /\ Pow(base, i + 1) = base * p
    BY <1>2, PowNext
  <2> HIDE DEF p
  <2>2. base * p >= 2 * p
    <3>1. p * 2 <= p * base
      BY <2>1, Scaled
    <3> QED
      BY <2>1, <3>1
  <2> QED
    BY <1>2, <2>1, <2>2
<1> HIDE DEF S
<1>3. 1..k \subseteq S
  BY <1>1, <1>2, UpTo
<1> QED
  BY <1>0, <1>3 DEF S

LEMMA PowSum ==
  ASSUME NEW base \in Int, NEW a \in Nat, NEW k \in Nat
  PROVE  Pow(base, a + k) = Pow(base, a) * Pow(base, k)
<1> DEFINE S == { i \in 1..k : Pow(base, a + i) = Pow(base, a) * Pow(base, i) }
<1>0. Pow(base, 0) = 1 /\ \A i \in Nat : Pow(base, i) \in Int /\ Pow(base, i + 1) = base * Pow(base, i)
  BY PowNext
<1>1. k > 0 => 1 \in S
  BY <1>0
<1>2. ASSUME NEW i \in 1..k, i \in S, i < k PROVE i + 1 \in S
  <2> DEFINE p == Pow(base, i)
             q == Pow(base, a)
  <2>1. p \in Int /\ q \in Int /\ Pow(base, i + 1) = base * p
    BY <1>0
  <2>2. Pow(base, a + i) = q * p
    BY <1>2
  <2>3. Pow(base, (a + i) + 1) = base * Pow(base, a + i) /\ a + (i + 1) = (a + i) + 1
    BY <1>0
  <2> HIDE DEF p, q
  <2>4. base * (q * p) = q * (base * p)
    BY <2>1
  <2>5. Pow(base, a + (i + 1)) = q * Pow(base, i + 1)
    BY <2>1, <2>2, <2>3, <2>4
  <2> QED
    BY <1>2, <2>5 DEF q
<1> HIDE DEF S
<1>3. 1..k \subseteq S
  BY <1>1, <1>2, UpTo
<1>4. CASE k = 0
  BY <1>0, <1>4
<1>5. CASE k # 0
  <2>1. k \in S
    BY <1>3, <1>5
  <2> QED
    BY <2>1 DEF S
<1> QED
  BY <1>4, <1>5

LEMMA PowMonotone ==
  ASSUME NEW base \in Int, base >= 2, NEW i \in Nat, NEW k \in Nat, i <= k
  PROVE  /\ Pow(base, i) \in Nat \ {0} /\ Pow(base, k - i) \in Nat \ {0}
         /\ Pow(base, k) = Pow(base, i) * Pow(base, k - i)
         /\ Pow(base, i) <= Pow(base, k)
<1> DEFINE d == k - i
           p == Pow(base, i)
           q == Pow(base, d)
<1>1. d \in Nat /\ i + d = k
  OBVIOUS
<1> HIDE DEF d
<1>2. p \in Nat \ {0} /\ q \in Nat \ {0}
  BY <1>1, PowExceeds
<1>3. Pow(base, k) = p * q
  BY <1>1, PowSum
<1> HIDE DEF p, q
<1>4. p * 1 <= p * q
  BY <1>2, Scaled
<1>5. p <= p * q
  BY <1>2, <1>4
<1> QED
  BY <1>2, <1>3, <1>5 DEF p, q, d

LEMMA PowersOfTwo ==
  ASSUME NEW i \in Nat, NEW k \in Nat, i <= k
  PROVE  /\ Pow(2, i) \in Nat \ {0} /\ Pow(2, k) \in Nat \ {0}
         /\ Pow(2, i) <= Pow(2, k)
BY PowMonotone, PowExceeds

-------------------------------------------------------------------------------
(* Floats.  The float nearest to a number of units is off by half the       *)
(* spacing there at most; the spacing is one unit, or small against the     *)
(* number.                                                                  *)
LEMMA FloatSizes ==
  /\ FloatOne \in Nat \ {0} /\ FloatLimit \in Nat \ {0} /\ FloatLimit >= 2
  /\ \E half \in Nat \ {0} : FloatLimit = 2 * half
<1>1. FloatOne \in Nat \ {0} /\ FloatLimit \in Nat \ {0}
  <2>1. FloatBits \in Nat /\ FloatFraction \in Nat
    BY FloatAssumption
  <2>2. Pow(2, FloatBits) \in Nat \ {0} /\ Pow(2, FloatFraction) \in Nat \ {0}
    BY <2>1, PowersOfTwo
  <2> QED
    BY <2>2 DEF FloatOne, FloatLimit
<1> DEFINE half == Pow(2, FloatBits - 1)
<1>2. FloatBits - 1 \in Nat /\ (FloatBits - 1) + 1 = FloatBits
  BY FloatAssumption
<1>3. half \in Nat \ {0}
  BY <1>2, PowExceeds
<1>4. FloatLimit = 2 * half
  BY <1>2, PowNext DEF FloatLimit
<1> HIDE DEF half
<1> QED
  BY <1>1, <1>3, <1>4

Fits(num, den, k) == num < FloatLimit * Pow(2, k) * den

LEMMA SpacingIs ==
  ASSUME NEW num \in Nat, NEW den \in Nat \ {0}
  PROVE  \E k \in 0..num : /\ Spacing(num, den) = Pow(2, k) /\ Fits(num, den, k)
                           /\ k = 0 \/ ~Fits(num, den, k - 1)
<1> DEFINE S == { k \in 0..num : Fits(num, den, k) }
           least(k) == Fits(num, den, k) /\ (k = 0 \/ ~Fits(num, den, k - 1))
<1>1. Fits(num, den, num)
  <2> DEFINE p == Pow(2, num)
             l == FloatLimit
  <2>1. p \in Nat \ {0} /\ num < p /\ l \in Nat \ {0}
    BY PowExceeds, FloatSizes
  <2> HIDE DEF p, l
  <2>2. p * 1 <= p * l /\ p * l = l * p /\ l * p \in Nat
    BY <2>1, Scaled
  <2>3. (l * p) * 1 <= (l * p) * den /\ (l * p) * 1 = l * p /\ (l * p) * den \in Int
    BY <2>2, Scaled
  <2>4. num < (l * p) * den
    BY <2>1, <2>2, <2>3
  <2> QED
    BY <2>4 DEF Fits, p, l
<1>2. S \in SUBSET Int /\ IsFiniteSet(S) /\ S # {}
  <2>1. IsFiniteSet(0..num) /\ S \in SUBSET (0..num) /\ 0..num \in SUBSET Int
    BY FS_Interval
  <2>2. IsFiniteSet(S)
    BY <2>1, FS_Subset
  <2>3. num \in S
    BY <1>1
  <2> QED
    BY <2>1, <2>2, <2>3
<1>3. PICK m \in S : \A k \in S : m <= k
  <2> HIDE DEF S
  <2> QED
    BY <1>2, LeastElement
<1>4. m \in 0..num /\ least(m)
  <2>1. m # 0 => m - 1 \in 0..num /\ ~(m <= m - 1)
    OBVIOUS
  <2>2. m # 0 => m - 1 \notin S
    <3> HIDE DEF S
    <3> QED
      BY <1>3, <2>1
  <2> QED
    BY <2>1, <2>2
<1>5. Spacing(num, den) = Pow(2, CHOOSE k \in 0..num : least(k))
  BY DEF Spacing, Fits
<1> HIDE DEF least, S
<1>6. PICK k \in 0..num : least(k) /\ Spacing(num, den) = Pow(2, k)
  BY <1>4, <1>5
<1> QED
  BY <1>6 DEF least

LEMMA NearestIs ==
  ASSUME NEW num \in Nat, NEW den \in Nat \ {0}
  PROVE  Nearest(num, den) = Spacing(num, den) * Round(num, den * Spacing(num, den))
<1>1. num >= 0
  OBVIOUS
<1> QED
  BY <1>1 DEF Nearest

(* Half the spacing at most. *)
LEMMA NearestNear ==
  ASSUME NEW num \in Nat, NEW den \in Nat \ {0}
  PROVE  /\ Nearest(num, den) \in Int
         /\ \E u \in Nat \ {0} :
              /\ 2 * num - den * u <= 2 * (den * Nearest(num, den))
              /\ 2 * (den * Nearest(num, den)) <= 2 * num + den * u
              /\ u = 1 \/ FloatLimit * (den * u) <= 2 * num
<1>1. PICK k \in 0..num : /\ Spacing(num, den) = Pow(2, k)
                          /\ k = 0 \/ ~Fits(num, den, k - 1)
  BY SpacingIs
<1> DEFINE u == Pow(2, k)
           R == Round(num, den * u)
<1>2. u \in Nat \ {0} /\ (k = 0 => u = 1)
  BY PowExceeds, PowNext
<1>3. Nearest(num, den) = u * R
  BY <1>1, NearestIs
<1>4. k # 0 => FloatLimit * (den * u) <= 2 * num
  <2> SUFFICES ASSUME k # 0 PROVE FloatLimit * (den * u) <= 2 * num
    OBVIOUS
  <2> DEFINE v == Pow(2, k - 1)
             l == FloatLimit
  <2>1. k - 1 \in Nat /\ (k - 1) + 1 = k
    OBVIOUS
  <2>2. v \in Nat \ {0} /\ u = 2 * v /\ l \in Nat
    <3>1. v \in Nat \ {0}
      BY <2>1, PowExceeds
    <3>2. Pow(2, (k - 1) + 1) = 2 * v
      BY <2>1, PowNext
    <3> QED
      BY <2>1, <3>1, <3>2, FloatSizes
  <2>3. ~(num < l * v * den)
    BY <1>1 DEF Fits
  <2> HIDE DEF u, v, l
  <2>4. l * (den * u) = 2 * (l * v * den) /\ l * v * den \in Int
    BY <2>2
  <2>5. l * (den * u) <= 2 * num
    BY <2>3, <2>4
  <2> QED
    BY <2>5 DEF l
<1> HIDE DEF u
<1>5. den * u \in Nat \ {0}
  BY <1>2
<1>6. R \in Int /\ 2 * num - den * u <= 2 * ((den * u) * R)
      /\ 2 * ((den * u) * R) <= 2 * num + den * u
  <2> DEFINE d == den * u
  <2>1. d \in Nat \ {0}
    BY <1>5
  <2> HIDE DEF d
  <2>2. /\ Round(num, d) \in Int
        /\ 2 * num - d <= 2 * (d * Round(num, d)) /\ 2 * (d * Round(num, d)) <= 2 * num + d
    BY <2>1, RoundNear
  <2> QED
    BY <2>2 DEF d
<1> HIDE DEF R
<1>7. (den * u) * R = den * (u * R) /\ u * R \in Int
  BY <1>2, <1>6
<1>8. /\ 2 * num - den * u <= 2 * (den * Nearest(num, den))
      /\ 2 * (den * Nearest(num, den)) <= 2 * num + den * u
  BY <1>3, <1>6, <1>7
<1> QED
  BY <1>2, <1>3, <1>4, <1>7, <1>8

LEMMA NearestNearUnits ==
  ASSUME NEW num \in Nat
  PROVE  /\ Nearest(num, 1) \in Int
         /\ \E u \in Nat \ {0} : /\ 2 * num - u <= 2 * Nearest(num, 1)
                                 /\ 2 * Nearest(num, 1) <= 2 * num + u
                                 /\ u = 1 \/ FloatLimit * u <= 2 * num
<1> DEFINE y == Nearest(num, 1)
           l == FloatLimit
<1>1. 1 \in Nat \ {0}
  OBVIOUS
<1>2. /\ y \in Int
      /\ \E u \in Nat \ {0} : /\ 2 * num - 1 * u <= 2 * (1 * y)
                              /\ 2 * (1 * y) <= 2 * num + 1 * u
                              /\ u = 1 \/ l * (1 * u) <= 2 * num
  BY <1>1, NearestNear
<1> HIDE DEF y, l
<1>3. PICK u \in Nat \ {0} : /\ 2 * num - 1 * u <= 2 * (1 * y)
                             /\ 2 * (1 * y) <= 2 * num + 1 * u
                             /\ u = 1 \/ l * (1 * u) <= 2 * num
  BY <1>2
<1>4. 1 * u = u /\ 1 * y = y /\ y \in Int
  BY <1>2
<1>5. /\ 2 * num - u <= 2 * y /\ 2 * y <= 2 * num + u
      /\ u = 1 \/ l * u <= 2 * num
  BY <1>3, <1>4
<1> QED
  BY <1>4, <1>5 DEF y, l

LEMMA NearestMonotone ==
  ASSUME NEW a \in Nat, NEW b \in Nat, a <= b, NEW den \in Nat \ {0}
  PROVE  /\ Nearest(a, den) \in Int /\ Nearest(b, den) \in Int
         /\ Nearest(a, den) <= Nearest(b, den)
<1>1. PICK i \in 0..a : /\ Spacing(a, den) = Pow(2, i) /\ Fits(a, den, i)
                        /\ i = 0 \/ ~Fits(a, den, i - 1)
  BY SpacingIs
<1>2. PICK k \in 0..b : /\ Spacing(b, den) = Pow(2, k) /\ Fits(b, den, k)
                        /\ k = 0 \/ ~Fits(b, den, k - 1)
  BY SpacingIs
<1> DEFINE l == FloatLimit
           u == Pow(2, i)
           v == Pow(2, k)
           x == den * u
           y == den * v
<1>3. u \in Nat \ {0} /\ v \in Nat \ {0} /\ l \in Nat \ {0} /\ i \in Nat /\ k \in Nat
  BY PowExceeds, FloatSizes
<1>4. x \in Nat \ {0} /\ y \in Nat \ {0}
  <2> HIDE DEF u, v
  <2> QED
    BY <1>3
<1>5. /\ Nearest(a, den) = u * Round(a, x) /\ Nearest(b, den) = v * Round(b, y)
      /\ Nearest(a, den) \in Int /\ Nearest(b, den) \in Int
  BY <1>1, <1>2, NearestIs, NearestNear
<1>6. Round(a, x) \in Int /\ Round(b, x) \in Int /\ Round(a, x) <= Round(b, x)
      /\ Round(b, y) \in Int
  <2> HIDE DEF x, y
  <2>1. x \in Nat \ {0} /\ y \in Nat \ {0} /\ a \in Int /\ b \in Int /\ b <= b
    BY <1>4
  <2> QED
    BY <2>1, RoundMonotone
<1>7. CASE i = k
  <2>1. Round(a, x) <= Round(b, x) /\ Round(b, x) \in Int /\ x = y
    BY <1>6, <1>7
  <2> HIDE DEF u, v, x, y
  <2>2. u * Round(a, x) <= u * Round(b, x)
    BY <1>3, <1>6, <2>1, Scaled
  <2> QED
    BY <1>5, <1>7, <2>1, <2>2 DEF u, v
<1>8. CASE k < i
  <2> DEFINE w == Pow(2, i - 1)
  <2>1. i - 1 \in Nat /\ k <= i - 1 /\ i # 0
    BY <1>8
  <2>2. v <= w /\ w \in Nat
    BY <1>3, <2>1, PowersOfTwo
  <2>3. ~(a < l * w * den) /\ b < l * v * den
    BY <1>1, <1>2, <2>1 DEF Fits
  <2> HIDE DEF v, w, l
  <2>4. (l * den) * v <= (l * den) * w
    BY <1>3, <2>2, Scaled
  <2>5. (l * den) * v = l * v * den /\ (l * den) * w = l * w * den
    BY <1>3, <2>2
  <2>6. l * v * den \in Int /\ l * w * den \in Int
    BY <1>3, <2>2
  <2> QED
    BY <2>3, <2>4, <2>5, <2>6
<1>9. CASE i < k
  <2>1. PICK half \in Nat \ {0} : l = 2 * half
    BY FloatSizes
  <2> DEFINE w == Pow(2, k - 1)
  <2>2. k - 1 \in Nat /\ (k - 1) + 1 = k /\ i <= k - 1 /\ k # 0
    BY <1>9
  <2>3. w \in Nat \ {0} /\ v = 2 * w /\ u <= w
    <3>1. w \in Nat \ {0} /\ u <= w
      BY <1>3, <2>2, PowersOfTwo
    <3>2. Pow(2, (k - 1) + 1) = 2 * w
      BY <2>2, PowNext
    <3> QED
      BY <2>2, <3>1, <3>2
  <2>4. a < l * u * den /\ ~(b < l * w * den)
    BY <1>1, <1>2, <2>2 DEF Fits
  <2>5. Round(a, x) <= l
    <3>1. x * l = l * u * den /\ x * l \in Int
      <4> HIDE DEF u, l
      <4> QED
        BY <1>3
    <3>2. a <= x * l
      <4> HIDE DEF u, l, x
      <4> QED
        BY <1>4, <2>4, <3>1
    <3>3. Round(x * l, x) = l
      <4>1. x \in Nat \ {0} /\ l \in Int
        BY <1>3, <1>4
      <4> HIDE DEF x, l
      <4> QED
        BY <4>1, RoundExact
    <3> HIDE DEF x, l
    <3> QED
      BY <1>4, <3>1, <3>2, <3>3, RoundMonotone
  <2>6. half <= Round(b, y)
    <3>1. y * half = l * w * den /\ y * half \in Int
      <4> HIDE DEF v, w, l
      <4> QED
        BY <1>3, <2>1, <2>3
    <3>2. y * half <= b
      <4> HIDE DEF y, w, l
      <4> QED
        BY <1>4, <2>4, <3>1
    <3>3. Round(y * half, y) = half
      <4>1. y \in Nat \ {0} /\ half \in Int
        BY <1>4, <2>1
      <4> HIDE DEF y
      <4> QED
        BY <4>1, RoundExact
    <3> HIDE DEF y
    <3> QED
      BY <1>4, <3>1, <3>2, <3>3, RoundMonotone
  <2> DEFINE r == Round(a, x)
             s == Round(b, y)
  <2>7. r \in Int /\ s \in Int /\ r <= l /\ half <= s
    BY <1>6, <2>5, <2>6
  <2> HIDE DEF r, s, u, v, w, l
  <2>8. u * r <= u * l /\ v * half <= v * s
    BY <1>3, <2>1, <2>7, Scaled
  <2>9. u * l = (2 * half) * u /\ v * half = (2 * half) * w
    BY <1>3, <2>1, <2>3
  <2>10. (2 * half) * u <= (2 * half) * w
    BY <1>3, <2>1, <2>3, Scaled
  <2>11. u * r \in Int /\ v * s \in Int /\ (2 * half) * u \in Int /\ (2 * half) * w \in Int
    BY <1>3, <2>1, <2>3, <2>7
  <2>12. u * r <= v * s
    BY <2>8, <2>9, <2>10, <2>11
  <2> QED
    BY <1>5, <2>12 DEF r, s
<1> QED
  BY <1>3, <1>5, <1>7, <1>8, <1>9

(* A number of significant bits that suffice is a float itself. *)
LEMMA NearestExact ==
  ASSUME NEW x \in Nat, x < FloatLimit, NEW j \in Nat, NEW den \in Nat \ {0}
  PROVE  Nearest(den * (x * Pow(2, j)), den) = x * Pow(2, j)
<1> DEFINE p == Pow(2, j)
           a == den * (x * p)
           l == FloatLimit
<1>1. p \in Nat \ {0} /\ a \in Nat /\ l \in Nat \ {0}
  <2>1. p \in Nat \ {0}
    BY PowExceeds
  <2> HIDE DEF p
  <2> QED
    BY <2>1, FloatSizes
<1>2. PICK k \in 0..a : /\ Spacing(a, den) = Pow(2, k)
                        /\ k = 0 \/ ~Fits(a, den, k - 1)
  BY <1>1, SpacingIs
<1> DEFINE u == Pow(2, k)
<1>3. u \in Nat \ {0} /\ Nearest(a, den) = u * Round(a, den * u)
  BY <1>1, <1>2, NearestIs, PowExceeds
<1>4. CASE k <= j
  <2> DEFINE q == Pow(2, j - k)
             y == x * q
  <2>1. q \in Nat \ {0} /\ p = u * q
    BY <1>4, PowMonotone
  <2> HIDE DEF p, q, u
  <2>2. y \in Nat /\ x * p = u * y /\ den * u \in Nat \ {0}
    BY <1>3, <2>1
  <2> HIDE DEF y
  <2>3. a = (den * u) * y
    BY <1>3, <2>2
  <2>4. Round(a, den * u) = y
    BY <2>2, <2>3, RoundExact
  <2> QED
    BY <1>3, <2>2, <2>4 DEF p
<1>5. CASE j < k
  <2> DEFINE w == Pow(2, k - 1)
  <2>1. k - 1 \in Nat /\ j <= k - 1 /\ k # 0
    BY <1>5
  <2>2. p <= w /\ w \in Nat
    BY <2>1, PowersOfTwo
  <2>3. ~(a < l * w * den)
    BY <1>2, <2>1 DEF Fits
  <2> HIDE DEF p, w, l
  <2>4. (den * l) * p <= (den * l) * w /\ (den * p) * (x + 1) <= (den * p) * l
    <3>1. x + 1 <= l
      BY <1>1 DEF l
    <3> QED
      BY <1>1, <2>2, <3>1, Scaled
  <2>5. /\ (den * l) * w = l * w * den /\ (den * p) * l = (den * l) * p
        /\ (den * p) * (x + 1) = a + den * p /\ den * p \in Nat \ {0}
    BY <1>1, <2>2
  <2>6. (den * l) * p \in Int /\ l * w * den \in Int
    BY <1>1, <2>2
  <2> HIDE DEF a
  <2>7. FALSE
    BY <1>1, <2>3, <2>4, <2>5, <2>6
  <2> QED
    BY <2>7
<1> QED
  BY <1>4, <1>5

LEMMA NearestNat ==
  ASSUME NEW num \in Nat, NEW den \in Nat \ {0}
  PROVE  Nearest(num, den) \in Nat
<1>1. Nearest(den * (0 * Pow(2, 0)), den) = 0 * Pow(2, 0)
  BY FloatSizes, NearestExact
<1>2. Pow(2, 0) = 1 /\ den * (0 * 1) = 0
  BY PowNext
<1>3. Nearest(0, den) = 0
  BY <1>1, <1>2
<1>4. 0 \in Nat /\ 0 <= num
  OBVIOUS
<1>5. Nearest(num, den) \in Int /\ Nearest(0, den) <= Nearest(num, den)
  BY <1>4, NearestMonotone
<1> QED
  BY <1>3, <1>5

LEMMA NearestPower ==
  ASSUME NEW j \in Nat, NEW den \in Nat \ {0}
  PROVE  Nearest(den * Pow(2, j), den) = Pow(2, j)
<1> DEFINE p == Pow(2, j)
<1>1. 1 \in Nat /\ 1 < FloatLimit
  BY FloatSizes
<1>2. Nearest(den * (1 * p), den) = 1 * p
  BY <1>1, NearestExact
<1>3. p \in Nat
  BY PowersOfTwo
<1> HIDE DEF p
<1>4. 1 * p = p
  BY <1>3
<1> QED
  BY <1>2, <1>4 DEF p

-------------------------------------------------------------------------------
(* The order of bounds: the open end, and a NULL, come last. *)
Before(a, b) == b = None \/ (a # None /\ a <= b)

LEMMA BeforeOrder ==
  ASSUME NEW a \in Bound, NEW b \in Bound, NEW c \in Bound, Before(b, c)
  PROVE  Before(a, a) /\ (Before(a, b) => Before(a, c))
BY DEF Before, Bound

(* Neighbours share an end; and the ends are in order, but for the first    *)
(* one, which clamp_to_range may have moved past the second.                *)
Contiguous(segs) == \A i \in 1..(Len(segs) - 1) : segs[i].hi = segs[i + 1].lo

Ordered(segs) == \A i \in 2..(Len(segs) - 1) : Before(segs[i].lo, segs[i].hi)

Owned(k, segs) == \E i \in 1..Len(segs) : InSegment(k, segs[i])

Apart(segs) ==
  \A k \in Bound : \A i, j \in 1..Len(segs) :
    InSegment(k, segs[i]) /\ InSegment(k, segs[j]) => i = j

LEMMA SegmentsType ==
  ASSUME NEW segs \in Seq(Segment), NEW i \in 1..Len(segs)
  PROVE  segs[i] \in Segment /\ segs[i].lo \in Bound /\ segs[i].hi \in Bound
<1>1. segs[i] \in Segment
  OBVIOUS
<1> QED
  BY <1>1 DEF Segment

(* No key is in two segments of an ordered chain.                           *)
LEMMA OrderedApart ==
  ASSUME NEW segs \in Seq(Segment), Contiguous(segs), Ordered(segs)
  PROVE  Apart(segs)
<1> DEFINE n == Len(segs)
<1>0. n \in Nat
  OBVIOUS
<1>1. ASSUME NEW i \in 1..n
      PROVE  \A j \in 1..n : i < j => Before(segs[i].hi, segs[j].lo)
  <2> DEFINE S == { j \in 1..n : i < j => Before(segs[i].hi, segs[j].lo) }
  <2>1. n > 0 => 1 \in S
    BY <1>0
  <2>2. ASSUME NEW j \in 1..n, j \in S, j < n PROVE j + 1 \in S
    <3>1. j + 1 \in 1..n
      BY <2>2
    <3>2. segs[j].hi = segs[j + 1].lo
      BY <2>2 DEF Contiguous
    <3>3. /\ segs[i].hi \in Bound /\ segs[j].lo \in Bound /\ segs[j].hi \in Bound
      BY SegmentsType
    <3>4. CASE i = j
      BY <3>1, <3>2, <3>3, <3>4 DEF Before, Bound
    <3>5. CASE i < j
      <4>1. Before(segs[j].lo, segs[j].hi)
        BY <2>2, <3>5 DEF Ordered
      <4>2. Before(segs[i].hi, segs[j].hi)
        BY <2>2, <3>3, <3>5, <4>1, BeforeOrder
      <4> QED
        BY <3>1, <3>2, <4>2
    <3>6. CASE i > j
      BY <3>1, <3>6
    <3> QED
      BY <3>4, <3>5, <3>6
  <2>3. 1..n \subseteq S
    <3> HIDE DEF S
    <3> QED
      BY <1>0, <2>1, <2>2, UpTo
  <2> QED
    BY <2>3
<1>2. ASSUME NEW k \in Bound, NEW i \in 1..n, NEW j \in 1..n, i < j,
             InSegment(k, segs[i]), InSegment(k, segs[j])
      PROVE  FALSE
  <2>1. Before(segs[i].hi, segs[j].lo)
    BY <1>1, <1>2
  <2>2. segs[i].hi \in Bound /\ segs[j].lo \in Bound
    BY SegmentsType
  <2> QED
    BY <1>2, <2>1, <2>2 DEF InSegment, Before, Bound
<1> QED
  BY <1>2 DEF Apart

(* Every key from the first lower end on, and below the last upper end, is  *)
(* in a segment: in the last one that begins at or before it.               *)
LEMMA ContiguousCovers ==
  ASSUME NEW segs \in Seq(Segment), segs # << >>, Contiguous(segs),
         NEW k \in Bound, InSegment(k, Seg(segs[1].lo, segs[Len(segs)].hi))
  PROVE  Owned(k, segs)
<1> DEFINE n == Len(segs)
           S == { i \in 1..n : segs[i].lo # None /\ segs[i].lo <= k }
<1>0. n \in Nat \ {0} /\ 1 \in 1..n
  OBVIOUS
<1>1. k \in Int /\ segs[1].lo # None /\ segs[1].lo <= k /\ segs[1].lo \in Bound
  BY <1>0, SegmentsType DEF InSegment, Seg, Bound
<1>2. 1 \in S
  BY <1>0, <1>1
<1>3. S \in SUBSET Int /\ IsFiniteSet(S)
  <2>1. S \in SUBSET (1..n) /\ IsFiniteSet(1..n)
    BY <1>0, FS_Interval
  <2> QED
    BY <2>1, FS_Subset
<1>4. PICK i \in S : \A j \in S : j <= i
  BY <1>2, <1>3, GreatestElement
<1>5. segs[i].lo \in Bound /\ segs[i].hi \in Bound
  BY SegmentsType
<1>6. CASE i = n
  BY <1>1, <1>4, <1>5, <1>6 DEF InSegment, Seg, Bound, Owned
<1>7. CASE i < n
  <2>1. i + 1 \in 1..n /\ i + 1 \notin S
    BY <1>4, <1>7
  <2>2. segs[i].hi = segs[i + 1].lo
    BY <1>7 DEF Contiguous
  <2>3. segs[i].hi = None \/ ~(segs[i].hi <= k)
    BY <2>1, <2>2
  <2> QED
    BY <1>1, <1>4, <1>5, <2>3 DEF InSegment, Bound, Owned
<1> QED
  BY <1>6, <1>7

(* clamp_to_range moves only the outer ends. *)
End(segs) == segs[Len(segs)].hi

LEMMA Clamped ==
  ASSUME NEW segs \in Seq(Segment), segs # << >>, NEW lo \in Bound, NEW hi \in Bound,
         Contiguous(segs)
  PROVE  LET out == ClampToRange(segs, lo, hi)
         IN  /\ out \in Seq(Segment) /\ Len(out) = Len(segs) /\ out # << >>
             /\ Contiguous(out)
             /\ Ordered(segs) => Ordered(out)
             /\ out[1].lo = lo
             /\ hi = None => End(out) = End(segs)
             /\ hi # None => out[Len(out)].hi = hi
             /\ \A i \in 2..Len(out) : out[i].lo = segs[i].lo
<1> DEFINE n == Len(segs)
           at(i) == Seg(IF i = 1 THEN lo ELSE segs[i].lo,
                        IF i = n /\ hi # None THEN hi ELSE segs[i].hi)
           out == [i \in 1..n |-> at(i)]
<1>1. n \in Nat \ {0}
  OBVIOUS
<1>2. \A i \in 1..n : at(i) \in Segment
  BY SegmentsType DEF Segment, Seg
<1>3. out \in Seq(Segment) /\ Len(out) = n /\ out # << >>
  BY <1>1, <1>2
<1>4. \A i \in 1..n : /\ out[i].lo = IF i = 1 THEN lo ELSE segs[i].lo
                      /\ out[i].hi = IF i = n /\ hi # None THEN hi ELSE segs[i].hi
  BY DEF Seg
<1>5. out = ClampToRange(segs, lo, hi)
  BY DEF ClampToRange
<1> HIDE DEF out
<1>6. Contiguous(out)
  BY <1>1, <1>3, <1>4 DEF Contiguous
<1>7. Ordered(segs) => Ordered(out)
  BY <1>1, <1>3, <1>4 DEF Ordered
<1> QED
  BY <1>1, <1>3, <1>4, <1>5, <1>6, <1>7 DEF End

-------------------------------------------------------------------------------
(* segment_numeric_range: the cuts are integers in order, from its lower    *)
(* end, rounded as they are.                                               *)
LEMMA CutsInOrder ==
  ASSUME NEW lo \in Int, NEW width \in Nat, NEW i \in Nat, NEW j \in Nat, i <= j
  PROVE  /\ CutAt(lo, i, width) \in Int /\ CutAt(lo, j, width) \in Int
         /\ CutAt(lo, i, width) <= CutAt(lo, j, width)
         /\ CutAt(lo, 0, width) = lo
<1> DEFINE a == i * width
           b == j * width
<1>1. a \in Nat /\ b \in Nat /\ a <= b /\ 0 * width = 0 /\ 1 \in Nat \ {0}
  <2>1. width * i <= width * j
    BY Scaled
  <2> QED
    BY <2>1
<1> HIDE DEF a, b
<1>2. Nearest(a, 1) \in Int /\ Nearest(b, 1) \in Int /\ Nearest(a, 1) <= Nearest(b, 1)
  BY <1>1, NearestMonotone
<1>3. Round(Nearest(a, 1), FloatOne) \in Int /\ Round(Nearest(b, 1), FloatOne) \in Int
      /\ Round(Nearest(a, 1), FloatOne) <= Round(Nearest(b, 1), FloatOne)
  BY <1>2, FloatSizes, RoundMonotone
<1>4. Round(Nearest(0, 1), FloatOne) = 0
  <2>1. Nearest(1 * (0 * Pow(2, 0)), 1) = 0 * Pow(2, 0)
    BY <1>1, FloatSizes, NearestExact
  <2>2. Pow(2, 0) = 1 /\ 1 * (0 * 1) = 0
    BY PowNext
  <2>3. Round(FloatOne * 0, FloatOne) = 0
    BY FloatSizes, RoundExact
  <2>4. FloatOne * 0 = 0
    BY FloatSizes
  <2> QED
    BY <2>1, <2>2, <2>3, <2>4
<1> QED
  BY <1>1, <1>3, <1>4 DEF CutAt, a, b

(* The greatest power of two below s. *)
LEMMA PowerBelow ==
  ASSUME NEW s \in Nat, s >= 2
  PROVE  \E m \in Nat : Pow(2, m) < s /\ s <= 2 * Pow(2, m)
<1> DEFINE S == { k \in 0..s : s <= 2 * Pow(2, k) }
<1>1. \A k \in Nat : Pow(2, k) \in Nat \ {0} /\ k < Pow(2, k)
  BY PowExceeds
<1>2. s \in S
  BY <1>1
<1>3. S \in SUBSET Int /\ IsFiniteSet(S)
  <2>1. IsFiniteSet(0..s) /\ S \in SUBSET (0..s)
    BY FS_Interval
  <2> QED
    BY <2>1, FS_Subset
<1>4. PICK m \in S : \A k \in S : m <= k
  <2> HIDE DEF S
  <2> QED
    BY <1>2, <1>3, LeastElement
<1>5. m \in Nat /\ s <= 2 * Pow(2, m)
  OBVIOUS
<1>6. CASE m = 0
  <2>1. Pow(2, 0) = 1
    BY PowNext
  <2> QED
    BY <1>5, <1>6, <2>1
<1>7. CASE m # 0
  <2>1. m - 1 \in 0..s /\ ~(m <= m - 1) /\ m - 1 \in Nat /\ (m - 1) + 1 = m
    BY <1>7
  <2>2. m - 1 \notin S
    <3> HIDE DEF S
    <3> QED
      BY <1>4, <2>1
  <2>3. ~(s <= 2 * Pow(2, m - 1))
    BY <2>1, <2>2
  <2>4. Pow(2, (m - 1) + 1) = 2 * Pow(2, m - 1)
    BY <2>1, PowNext
  <2>5. Pow(2, m - 1) \in Nat
    BY <1>1, <2>1
  <2> QED
    BY <1>5, <2>1, <2>3, <2>4, <2>5
<1> QED
  BY <1>6, <1>7

(* The cut that halves a range of two keys or more is inside it: with a     *)
(* power of two on either side of the half, it stays between them.          *)
LEMMA HalfCut ==
  ASSUME NEW lo \in Int, NEW s \in Nat, s >= 2
  PROVE  LET cut == CutAt(lo, 1, Nearest(s * FloatOne, 2))
         IN  cut \in Int /\ lo < cut /\ cut < lo + s
<1> DEFINE one == FloatOne
           w   == Nearest(s * one, 2)
           c   == Round(Nearest(w, 1), one)
<1>1. PICK m \in Nat : Pow(2, m) < s /\ s <= 2 * Pow(2, m)
  BY PowerBelow
<1> DEFINE r == Pow(2, m)
<1>2. one \in Nat \ {0} /\ r \in Nat \ {0} /\ FloatFraction \in Nat
      /\ one = Pow(2, FloatFraction)
  BY FloatSizes, PowersOfTwo, FloatAssumption DEF FloatOne
<1>3. m + FloatFraction \in Nat /\ r * one = Pow(2, m + FloatFraction)
  BY <1>2, PowSum
<1>4. /\ Nearest(2 * one, 2) = one /\ Nearest(2 * (r * one), 2) = r * one
      /\ Nearest(1 * one, 1) = one /\ Nearest(1 * (r * one), 1) = r * one
  BY <1>2, <1>3, NearestPower
<1> HIDE DEF r, one
<1>5. /\ r * one \in Nat /\ s * one \in Nat /\ 2 * one \in Nat /\ 2 * (r * one) \in Nat
      /\ 1 * one = one /\ 1 * (r * one) = r * one
      /\ 2 * one <= s * one /\ s * one <= 2 * (r * one)
  <2>1. one * 2 <= one * s /\ one * s <= one * (2 * r)
    BY <1>1, <1>2, Scaled DEF r
  <2> QED
    BY <1>2, <2>1
<1>6. w \in Int /\ one <= w /\ w <= r * one
  <2>1. 2 \in Nat \ {0}
    OBVIOUS
  <2> QED
    BY <1>4, <1>5, <2>1, NearestMonotone
<1> HIDE DEF w
<1>7. w \in Nat
  BY <1>2, <1>6
<1> DEFINE x == Nearest(w, 1)
<1>8. x \in Int /\ one <= x /\ x <= r * one
  <2>1. 1 \in Nat \ {0} /\ one \in Nat
    BY <1>2
  <2>2. x \in Int /\ Nearest(one, 1) <= x /\ x <= Nearest(r * one, 1)
    BY <1>5, <1>6, <1>7, <2>1, NearestMonotone
  <2> QED
    BY <1>4, <1>5, <2>2
<1>9. c \in Int /\ 1 <= c /\ c <= r
  <2> HIDE DEF x
  <2>1. one * 1 = one /\ one * r = r * one /\ one \in Int /\ r * one \in Int
    BY <1>2
  <2>2. Round(one * 1, one) = 1 /\ Round(one * r, one) = r
    <3>1. \A y \in Int : Round(one * y, one) = y
      BY <1>2, RoundExact
    <3> QED
      BY <1>2, <3>1
  <2>3. Round(x, one) \in Int /\ Round(one, one) <= Round(x, one)
        /\ Round(x, one) <= Round(r * one, one)
    BY <1>2, <1>8, <2>1, RoundMonotone
  <2> QED
    BY <2>1, <2>2, <2>3 DEF x
<1>10. CutAt(lo, 1, w) = lo + c
  <2>1. 1 * w = w
    BY <1>7
  <2> QED
    BY <2>1 DEF CutAt, one
<1> HIDE DEF c
<1>11. r < s
  BY <1>1 DEF r
<1> QED
  BY <1>2, <1>9, <1>10, <1>11 DEF w, one

(* The slices of a numeric range are a chain. *)
LEMMA NumericRange ==
  ASSUME NEW lo \in Int, NEW hi \in Int, lo <= hi, NEW num \in Nat \ {0},
         NEW open \in BOOLEAN
  PROVE  LET out == SegmentNumericRange(lo, hi, num, open)
         IN  /\ out \in Seq(Segment) /\ out # << >> /\ Len(out) <= num
             /\ Contiguous(out) /\ Ordered(out)
             /\ open => out[Len(out)].hi = None
             /\ \A i \in 1..Len(out) : /\ out[i].lo \in Int /\ lo <= out[i].lo
                                       /\ num = 2 => out[i].lo <= hi + 1
<1> DEFINE out == SegmentNumericRange(lo, hi, num, open)
           s == hi - lo + 1
           width == Nearest(s * FloatOne, num)
           cut(i) == CutAt(lo, i, width)
           one == << Seg(lo, IF open THEN None ELSE hi + 1) >>
           many == [i \in 1..num |-> Seg(cut(i - 1),
                                         IF i = num /\ open THEN None ELSE cut(i))]
<1>1. out = IF lo = hi THEN one ELSE many
  BY DEF SegmentNumericRange
<1>2. CASE lo = hi
  <2> DEFINE t == Seg(lo, IF open THEN None ELSE hi + 1)
  <2>1. t \in Segment /\ t.lo = lo /\ t.hi = IF open THEN None ELSE hi + 1
    BY DEF Segment, Seg, Bound
  <2> HIDE DEF t
  <2>2. << t >> \in Seq(Segment) /\ Len(<< t >>) = 1 /\ << t >>[1] = t /\ << t >> # << >>
    BY <2>1
  <2>3. out = << t >>
    BY <1>1, <1>2 DEF t
  <2> QED
    BY <1>2, <2>1, <2>2, <2>3 DEF Contiguous, Ordered
<1>3. CASE lo # hi
  <2>1. s \in Nat /\ s >= 2 /\ lo + s = hi + 1
    BY <1>3
  <2>2. width \in Nat
    <3> HIDE DEF s
    <3>1. s * FloatOne \in Nat
      BY <2>1, FloatSizes
    <3> QED
      BY <3>1, NearestNat
  <2>3. num = 2 => cut(1) <= hi + 1
    <3> HIDE DEF s
    <3>1. CutAt(lo, 1, Nearest(s * FloatOne, 2)) \in Int
          /\ CutAt(lo, 1, Nearest(s * FloatOne, 2)) < lo + s
      BY <2>1, HalfCut
    <3> QED
      BY <2>1, <3>1
  <2> HIDE DEF width
  <2>4. \A i, j \in 0..num : i <= j => cut(i) \in Int /\ cut(j) \in Int /\ cut(i) <= cut(j)
    BY <2>2, CutsInOrder
  <2>5. cut(0) = lo
    BY <2>2, CutsInOrder
  <2> DEFINE at(i) == Seg(cut(i - 1), IF i = num /\ open THEN None ELSE cut(i))
  <2> HIDE DEF cut
  <2>6. \A i \in 1..num : /\ i - 1 \in 0..num /\ i \in 0..num /\ i - 1 <= i
    OBVIOUS
  <2>7. \A i \in 1..num : at(i) \in Segment
    BY <2>4, <2>6 DEF Segment, Seg, Bound
  <2>8. out = [i \in 1..num |-> at(i)]
    BY <1>1, <1>3 DEF cut
  <2>9. \A i \in 1..num : /\ at(i).lo = cut(i - 1)
                          /\ at(i).hi = IF i = num /\ open THEN None ELSE cut(i)
    BY DEF Seg
  <2> HIDE DEF at, out
  <2>10. out \in Seq(Segment) /\ Len(out) = num /\ out # << >>
    BY <2>7, <2>8
  <2>11. \A i \in 1..num : /\ out[i].lo = cut(i - 1)
                           /\ out[i].hi = IF i = num /\ open THEN None ELSE cut(i)
    BY <2>8, <2>9
  <2>12. Contiguous(out)
    <3> SUFFICES ASSUME NEW i \in 1..(num - 1) PROVE out[i].hi = out[i + 1].lo
      BY <2>10 DEF Contiguous
    <3>1. i \in 1..num /\ i + 1 \in 1..num /\ i # num /\ i + 1 - 1 = i
      OBVIOUS
    <3> QED
      BY <2>11, <3>1
  <2>13. Ordered(out)
    <3> SUFFICES ASSUME NEW i \in 2..(num - 1) PROVE Before(out[i].lo, out[i].hi)
      BY <2>10 DEF Ordered
    <3>1. i \in 1..num /\ i # num
      OBVIOUS
    <3>2. cut(i - 1) \in Int /\ cut(i - 1) <= cut(i)
      BY <2>4, <2>6, <3>1
    <3> QED
      BY <2>11, <3>1, <3>2, NoneAssumption DEF Before
  <2>14. open => out[num].hi = None
    BY <2>11
  <2>15. ASSUME NEW i \in 1..num
         PROVE  out[i].lo \in Int /\ lo <= out[i].lo /\ (num = 2 => out[i].lo <= hi + 1)
    <3>1. i - 1 \in 0..num /\ 0 \in 0..num /\ 0 <= i - 1
      OBVIOUS
    <3>2. cut(i - 1) \in Int /\ lo <= cut(i - 1)
      BY <2>4, <2>5, <3>1
    <3>3. num = 2 => i - 1 \in {0, 1}
      OBVIOUS
    <3>4. num = 2 => cut(i - 1) <= hi + 1
      BY <2>3, <2>5, <3>3
    <3> QED
      BY <2>11, <3>2, <3>4
  <2> QED
    BY <2>10, <2>12, <2>13, <2>14, <2>15 DEF out
<1> QED
  BY <1>2, <1>3

-------------------------------------------------------------------------------
(* segment_by_samples: the cuts are samples, in their order.                *)
LEMMA NthMember ==
  ASSUME NEW S \in SUBSET Int, IsFiniteSet(S), NEW i \in 1..Cardinality(S)
  PROVE  /\ Nth(S, i) \in S
         /\ \A j \in 1..Cardinality(S) : i < j => Nth(S, i) < Nth(S, j)
<1>1. Cardinality(S) \in Nat
  BY FS_CardinalityType
<1>2. ASSUME NEW j \in 1..Cardinality(S)
      PROVE  Nth(S, j) \in S /\ Rank(S, Nth(S, j)) = j - 1
  <2>1. j - 1 \in 0..(Cardinality(S) - 1)
    BY <1>1
  <2>2. \E x \in S : Rank(S, x) = j - 1
    BY <2>1, RankOnto
  <2>3. Nth(S, j) = CHOOSE x \in S : Rank(S, x) = j - 1
    BY DEF Nth, Rank
  <2> QED
    BY <2>2, <2>3
<1>3. ASSUME NEW j \in 1..Cardinality(S), i < j, ~(Nth(S, i) < Nth(S, j)) PROVE FALSE
  <2> DEFINE x == Nth(S, i)
             y == Nth(S, j)
  <2>1. x \in S /\ y \in S /\ Rank(S, x) = i - 1 /\ Rank(S, y) = j - 1
    BY <1>2
  <2>2. ~(x < y) /\ x \in Int /\ y \in Int
    BY <1>3, <2>1
  <2> HIDE DEF x, y
  <2>3. y < x => Rank(S, y) < Rank(S, x)
    BY <2>1, RankMonotone
  <2> QED
    BY <1>3, <2>1, <2>2, <2>3
<1> QED
  BY <1>2, <1>3

Sorted(samples) == \A i \in 1..(Len(samples) - 1) : Before(samples[i], samples[i + 1])

LEMMA SortedBefore ==
  ASSUME NEW samples \in Seq(Bound), Sorted(samples),
         NEW i \in 1..Len(samples), NEW j \in 1..Len(samples), i <= j
  PROVE  Before(samples[i], samples[j])
<1> DEFINE n == Len(samples)
           S == { k \in 1..n : i <= k => Before(samples[i], samples[k]) }
<1>0. n \in Nat /\ \A k \in 1..n : samples[k] \in Bound
  OBVIOUS
<1>1. n > 0 => 1 \in S
  BY <1>0 DEF Before, Bound
<1>2. ASSUME NEW k \in 1..n, k \in S, k < n PROVE k + 1 \in S
  <2>1. k + 1 \in 1..n /\ k \in 1..(n - 1)
    BY <1>2
  <2>2. Before(samples[k], samples[k + 1])
    BY <2>1 DEF Sorted
  <2>3. CASE i <= k
    <3>1. Before(samples[i], samples[k + 1])
      BY <1>0, <1>2, <2>1, <2>2, <2>3, BeforeOrder
    <3> QED
      BY <2>1, <3>1
  <2>4. CASE i = k + 1
    BY <1>0, <2>1, <2>4 DEF Before, Bound
  <2>5. CASE i > k + 1
    BY <2>1, <2>5
  <2> QED
    BY <2>3, <2>4, <2>5
<1>3. 1..n \subseteq S
  <2> HIDE DEF S
  <2> QED
    BY <1>0, <1>1, <1>2, UpTo
<1> QED
  BY <1>3

LEMMA BySamples ==
  ASSUME NEW samples \in Seq(Bound), samples # << >>, Sorted(samples),
         NEW num \in Nat \ {0}
  PROVE  LET out == SegmentBySamples(samples, num)
         IN  /\ out \in Seq(Segment) /\ out # << >> /\ Len(out) <= num
             /\ Contiguous(out) /\ Ordered(out)
             /\ out[Len(out)].hi = None
             /\ \A i \in 1..Len(out) : \E j \in 1..Len(samples) : out[i].lo = samples[j]
<1> DEFINE out     == SegmentBySamples(samples, num)
           m       == Len(samples)
           n       == Lesser(num, m)
           pos(i)  == Lesser((i * m) \div n, m - 1) + 1
           cut(i)  == samples[pos(i)]
           kept    == { i \in 1..(n - 1) : i = 1 \/ cut(i) # cut(i - 1) }
           last    == Cardinality(kept)
           edge(j) == CASE j = 0    -> samples[1]
                        [] j > last -> None
                        [] OTHER    -> cut(Nth(kept, j))
           at(j)   == Seg(edge(j - 1), edge(j))
<1>1. m \in Nat \ {0} /\ n \in Nat \ {0} /\ n <= num /\ \A i \in 1..m : samples[i] \in Bound
  BY DEF Lesser
<1>2. out = [j \in 1..(last + 1) |-> at(j)]
  BY <1>1 DEF SegmentBySamples
<1> HIDE DEF out
<1>3. ASSUME NEW i \in 1..(n - 1), NEW j \in 1..(n - 1), i <= j
      PROVE  pos(i) \in 1..m /\ pos(i) <= pos(j) /\ pos(j) \in 1..m
  <2> HIDE DEF m, n
  <2>1. m * 0 <= m * i /\ m * i <= m * j
    BY <1>1, <1>3, Scaled
  <2>2. i * m = m * i /\ j * m = m * j /\ i * m \in Int /\ j * m \in Int /\ m * 0 = 0 /\ n * 0 = 0
    BY <1>1
  <2> DEFINE a == i * m
             b == j * m
  <2>3. n * 0 <= a /\ a <= b /\ a \in Int /\ b \in Int
    BY <2>1, <2>2
  <2>4. pos(i) = Lesser(a \div n, m - 1) + 1 /\ pos(j) = Lesser(b \div n, m - 1) + 1
    OBVIOUS
  <2> HIDE DEF a, b, pos
  <2>5. 0 <= a \div n
    BY <1>1, <2>3, QuotientBetween
  <2>6. a \div n \in Int /\ b \div n \in Int
    BY <1>1, <2>3, DivMod
  <2>7. a \div n <= b \div n
    BY <1>1, <2>3, QuotientMonotone
  <2> QED
    BY <1>1, <2>4, <2>5, <2>6, <2>7, SMTT(40) DEF Lesser
<1>4. kept \in SUBSET Int /\ IsFiniteSet(kept) /\ last \in 0..(n - 1)
  <2>1. kept \in SUBSET (1..(n - 1)) /\ IsFiniteSet(1..(n - 1))
        /\ Cardinality(1..(n - 1)) = n - 1
    <3> DEFINE h == n - 1
    <3>1. h \in Nat
      BY <1>1
    <3>2. kept \in SUBSET (1..h)
      OBVIOUS
    <3> HIDE DEF h, n, kept
    <3>3. IsFiniteSet(1..h) /\ Cardinality(1..h) = h
      BY <3>1, FS_Interval
    <3> QED
      BY <3>2, <3>3 DEF h
  <2> HIDE DEF kept, n
  <2>2. IsFiniteSet(kept) /\ Cardinality(kept) <= n - 1
    BY <2>1, FS_Subset
  <2>3. Cardinality(kept) \in Nat
    BY <2>2, FS_CardinalityType
  <2> QED
    BY <1>1, <2>1, <2>2, <2>3
<1>5. kept \subseteq 1..(n - 1)
  OBVIOUS
<1> HIDE DEF kept
<1>6. ASSUME NEW j \in 1..last
      PROVE  /\ Nth(kept, j) \in 1..(n - 1)
             /\ \A i \in 1..last : j < i => Nth(kept, j) < Nth(kept, i)
  BY <1>4, <1>5, NthMember
<1>7. \A i \in 1..(n - 1) : \E k \in 1..m : cut(i) = samples[k]
  BY <1>3
<1>8. ASSUME NEW i \in 1..(n - 1), NEW j \in 1..(n - 1), i <= j PROVE Before(cut(i), cut(j))
  BY <1>3, <1>8, SortedBefore
<1> HIDE DEF cut, pos
<1>9. /\ edge(0) = samples[1]
      /\ edge(last + 1) = None
      /\ \A j \in 1..last : edge(j) = cut(Nth(kept, j))
  BY <1>4
<1>10. \A j \in 0..last : \E k \in 1..m : edge(j) = samples[k]
  <2> SUFFICES ASSUME NEW j \in 0..last PROVE \E k \in 1..m : edge(j) = samples[k]
    OBVIOUS
  <2> HIDE DEF edge, last, m, n
  <2>1. CASE j = 0
    BY <1>1, <1>9, <2>1
  <2>2. CASE j # 0
    <3>1. j \in 1..last
      BY <1>4, <2>2
    <3> QED
      BY <1>6, <1>7, <1>9, <3>1
  <2> QED
    BY <2>1, <2>2
<1> HIDE DEF edge
<1>11. \A j \in 0..(last + 1) : edge(j) \in Bound
  BY <1>1, <1>4, <1>9, <1>10, SMTT(40) DEF Bound
<1>12. \A j \in 1..(last + 1) : at(j) \in Segment /\ at(j).lo = edge(j - 1) /\ at(j).hi = edge(j)
  BY <1>4, <1>11 DEF Segment, Seg
<1> HIDE DEF at
<1>13. out \in Seq(Segment) /\ Len(out) = last + 1 /\ out # << >>
  BY <1>2, <1>4, <1>12, SMTT(40)
<1>14. \A j \in 1..(last + 1) : out[j].lo = edge(j - 1) /\ out[j].hi = edge(j)
  BY <1>2, <1>12
<1>15. Contiguous(out)
  BY <1>4, <1>13, <1>14 DEF Contiguous
<1>16. Ordered(out)
  <2> SUFFICES ASSUME NEW j \in 2..last PROVE Before(out[j].lo, out[j].hi)
    BY <1>4, <1>13 DEF Ordered
  <2>1. j - 1 \in 1..last /\ j \in 1..last /\ j - 1 < j
    BY <1>4
  <2>2. Nth(kept, j - 1) \in 1..(n - 1) /\ Nth(kept, j) \in 1..(n - 1)
        /\ Nth(kept, j - 1) < Nth(kept, j)
    BY <1>6, <2>1
  <2>3. Before(cut(Nth(kept, j - 1)), cut(Nth(kept, j)))
    BY <1>8, <2>2
  <2> QED
    BY <1>4, <1>9, <1>14, <2>1, <2>3
<1>17. out[last + 1].hi = None
  BY <1>4, <1>9, <1>14
<1>18. \A j \in 1..(last + 1) : \E k \in 1..m : out[j].lo = samples[k]
  <2> SUFFICES ASSUME NEW j \in 1..(last + 1) PROVE \E k \in 1..m : out[j].lo = samples[k]
    OBVIOUS
  <2>1. j - 1 \in 0..last
    BY <1>4
  <2> QED
    BY <1>10, <1>14, <2>1
<1>19. last + 1 <= num
  BY <1>1, <1>4
<1> QED
  BY <1>13, <1>15, <1>16, <1>17, <1>18, <1>19 DEF out

-------------------------------------------------------------------------------
(* ComputeNumSegments asks for at least one segment. *)
LEMMA NumSegments ==
  ASSUME NEW count \in Nat, NEW target \in Nat \ {0}, NEW minimum \in Nat \ {0}
  PROVE  ComputeNumSegments(count, target, minimum) \in Nat \ {0}
<1>1. (count + target - 1) \div target \in Int
  BY DivMod
<1> QED
  BY <1>1 DEF ComputeNumSegments, Greater

(* The initial segments of _initial_segments tile everything from lo up:    *)
(* the assertion assert_contiguous_coverage holds, no key from lo on is in  *)
(* no segment, and no key at all is in two - not even one below lo, which   *)
(* the second segment may take in when a sample drawn after an insert       *)
(* reaches below lo.  (lo is None when every key is NULL.)                  *)
THEOREM InitialTiles ==
  ASSUME NEW numeric \in BOOLEAN, NEW num \in Nat \ {0},
         NEW lo \in Bound, NEW hi \in Bound,
         (lo = None /\ hi = None) \/ (lo # None /\ hi # None /\ lo <= hi),
         NEW samples \in Seq(Bound), Sorted(samples)
  PROVE  LET segs == InitialSegments(numeric, num, lo, hi, samples)
         IN  /\ segs \in Seq(Segment) /\ segs # << >>
             /\ ContiguousCoverage(segs, lo, None)
             /\ Apart(segs)
             /\ \A k \in Bound : InSegment(k, Seg(lo, None)) => Owned(k, segs)
<1> DEFINE cuts == IF numeric THEN SegmentNumericRange(lo, hi, num, TRUE)
                              ELSE SegmentBySamples(samples, num)
           segs == ClampToRange(cuts, lo, None)
           open == << Seg(None, None) >>
<1>1. open \in Seq(Segment) /\ open # << >> /\ Contiguous(open) /\ Ordered(open)
      /\ open[Len(open)].hi = None
  <2> DEFINE s == Seg(None, None)
  <2>1. s \in Segment /\ s.hi = None
    BY DEF Segment, Seg, Bound
  <2> HIDE DEF s
  <2>2. << s >> \in Seq(Segment) /\ Len(<< s >>) = 1 /\ << s >>[1] = s /\ << s >> # << >>
    BY <2>1
  <2> QED
    BY <2>1, <2>2 DEF s, Contiguous, Ordered
<1>2. cuts \in Seq(Segment) /\ cuts # << >> /\ Contiguous(cuts) /\ Ordered(cuts)
      /\ cuts[Len(cuts)].hi = None
  <2>1. CASE numeric /\ lo = None
    <3>1. cuts = open
      BY <2>1 DEF SegmentNumericRange
    <3> HIDE DEF cuts, open
    <3> QED
      BY <1>1, <3>1
  <2>2. CASE numeric /\ lo # None
    <3>1. lo \in Int /\ hi \in Int /\ lo <= hi /\ TRUE \in BOOLEAN
      BY <2>2 DEF Bound
    <3> QED
      BY <2>2, <3>1, NumericRange
  <2>3. CASE ~numeric /\ samples = << >>
    <3>1. cuts = open
      BY <2>3 DEF SegmentBySamples
    <3> HIDE DEF cuts, open
    <3> QED
      BY <1>1, <3>1
  <2>4. CASE ~numeric /\ samples # << >>
    BY <2>4, BySamples
  <2> QED
    BY <2>1, <2>2, <2>3, <2>4
<1> HIDE DEF cuts
<1>3. None \in Bound
  BY DEF Bound
<1>4. /\ segs \in Seq(Segment) /\ segs # << >> /\ Contiguous(segs) /\ Ordered(segs)
      /\ segs[1].lo = lo /\ segs[Len(segs)].hi = None
  <2>1. ASSUME NEW h \in Bound, h = None
        PROVE  LET out == ClampToRange(cuts, lo, h)
               IN  /\ out \in Seq(Segment) /\ out # << >> /\ Contiguous(out) /\ Ordered(out)
                   /\ out[1].lo = lo /\ out[Len(out)].hi = cuts[Len(cuts)].hi
    <3> DEFINE out == ClampToRange(cuts, lo, h)
    <3>1. h = None => End(out) = End(cuts)
      BY <1>2, Clamped
    <3>2. out \in Seq(Segment) /\ out # << >> /\ Contiguous(out) /\ Ordered(out) /\ out[1].lo = lo
      BY <1>2, Clamped
    <3> QED
      BY <2>1, <3>1, <3>2 DEF End
  <2> QED
    BY <1>2, <1>3, <2>1
<1>5. InitialSegments(numeric, num, lo, hi, samples) = segs
  BY DEF InitialSegments, cuts
<1> HIDE DEF segs
<1>6. ContiguousCoverage(segs, lo, None)
  BY <1>4 DEF ContiguousCoverage, Contiguous
<1>7. Apart(segs)
  BY <1>4, OrderedApart
<1>8. \A k \in Bound : InSegment(k, Seg(lo, None)) => Owned(k, segs)
  BY <1>4, ContiguousCovers
<1> QED
  BY <1>4, <1>5, <1>6, <1>7, <1>8

(* Where a segment that holds a key is cut in two, the cut is inside it.    *)
LEMMA TwoParts ==
  ASSUME NEW segment \in Segment, NEW first \in Segment, NEW second \in Segment,
         first.lo = segment.lo, second.hi = segment.hi, first.hi = second.lo,
         segment.lo # None, segment.hi # None, second.lo # None,
         segment.lo <= second.lo, second.lo <= segment.hi,
         NEW k \in Bound
  PROVE  InSegment(k, first) \/ InSegment(k, second) => InSegment(k, segment)
BY DEF InSegment, Segment, Bound

(* The parts of _bisect tile the segment: the assertion holds, every key of *)
(* the segment is in exactly one part, and no part takes in a key of a      *)
(* neighbour of the segment.                                                *)
THEOREM BisectTiles ==
  ASSUME NEW numeric \in BOOLEAN, NEW segment \in Segment,
         NEW samples \in Seq(Bound), Sorted(samples),
         \A i \in 1..Len(samples) : InSegment(samples[i], segment),
         NEW key \in Bound, InSegment(key, segment)
  PROVE  LET segs == Bisect(numeric, segment, samples)
         IN  /\ segs \in Seq(Segment) /\ segs # << >>
             /\ ContiguousCoverage(segs, segment.lo, segment.hi)
             /\ Apart(segs)
             /\ \A k \in Bound : Owned(k, segs) <=> InSegment(k, segment)
<1> DEFINE lo   == segment.lo
           hi   == segment.hi
           cuts == IF numeric THEN SegmentNumericRange(lo, hi - 1, 2, FALSE)
                              ELSE SegmentBySamples(samples, 2)
           segs == ClampToRange(cuts, lo, hi)
<1>1. lo \in Int /\ hi \in Bound /\ (hi # None => hi \in Int /\ lo <= hi - 1)
  BY DEF InSegment, Segment, Bound
<1>2. segment = Seg(lo, hi)
  BY DEF Segment, Seg
<1>3. CASE segment.hi = None \/ (~numeric /\ samples = << >>)
  <2>1. Bisect(numeric, segment, samples) = << segment >>
    BY <1>3 DEF Bisect
  <2>2. << segment >> \in Seq(Segment) /\ Len(<< segment >>) = 1
        /\ << segment >>[1] = segment /\ << segment >> # << >>
    OBVIOUS
  <2> QED
    BY <2>1, <2>2 DEF ContiguousCoverage, Apart, Owned
<1>4. CASE segment.hi # None /\ (numeric \/ samples # << >>)
  <2>1. /\ cuts \in Seq(Segment) /\ cuts # << >> /\ Len(cuts) <= 2
        /\ Contiguous(cuts) /\ Ordered(cuts)
        /\ \A i \in 1..Len(cuts) : /\ cuts[i].lo # None
                                   /\ lo <= cuts[i].lo /\ cuts[i].lo <= hi
    <3>1. CASE numeric
      <4>1. lo \in Int /\ hi - 1 \in Int /\ lo <= hi - 1 /\ 2 \in Nat \ {0}
            /\ FALSE \in BOOLEAN /\ hi - 1 + 1 = hi
        BY <1>1, <1>4
      <4> DEFINE g == hi - 1
      <4> HIDE DEF g
      <4>2. LET out == SegmentNumericRange(lo, g, 2, FALSE)
            IN  /\ out \in Seq(Segment) /\ out # << >> /\ Len(out) <= 2
                /\ Contiguous(out) /\ Ordered(out)
                /\ \A i \in 1..Len(out) : /\ out[i].lo \in Int
                                          /\ lo <= out[i].lo /\ out[i].lo <= g + 1
        BY <4>1, NumericRange DEF g
      <4>3. cuts = SegmentNumericRange(lo, g, 2, FALSE) /\ g + 1 = hi
        BY <3>1, <4>1 DEF g
      <4> HIDE DEF cuts, lo, hi
      <4> QED
        BY <4>2, <4>3, NoneAssumption
    <3>2. CASE ~numeric
      <4>1. /\ cuts \in Seq(Segment) /\ cuts # << >> /\ Len(cuts) <= 2
            /\ Contiguous(cuts) /\ Ordered(cuts)
            /\ \A i \in 1..Len(cuts) : \E j \in 1..Len(samples) : cuts[i].lo = samples[j]
        BY <1>4, <3>2, BySamples
      <4>2. \A j \in 1..Len(samples) : samples[j] # None /\ lo <= samples[j] /\ samples[j] <= hi
        <5> SUFFICES ASSUME NEW j \in 1..Len(samples)
                     PROVE  samples[j] # None /\ lo <= samples[j] /\ samples[j] <= hi
          OBVIOUS
        <5>1. InSegment(samples[j], segment) /\ samples[j] \in Bound
          OBVIOUS
        <5> QED
          BY <1>1, <1>4, <5>1 DEF InSegment, Bound
      <4> QED
        BY <4>1, <4>2
    <3> QED
      BY <3>1, <3>2
  <2> HIDE DEF cuts
  <2>2. lo \in Bound /\ hi \in Bound /\ hi # None
    BY <1>1, <1>4 DEF Bound
  <2> HIDE DEF lo, hi
  <2>3. /\ segs \in Seq(Segment) /\ segs # << >> /\ Len(segs) = Len(cuts)
        /\ Contiguous(segs) /\ Ordered(segs)
        /\ segs[1].lo = lo /\ segs[Len(segs)].hi = hi
        /\ \A i \in 2..Len(segs) : segs[i].lo = cuts[i].lo
    <3>1. /\ segs \in Seq(Segment) /\ segs # << >> /\ Len(segs) = Len(cuts)
          /\ Contiguous(segs)
          /\ Ordered(cuts) => Ordered(segs)
          /\ segs[1].lo = lo
          /\ segs[Len(segs)].hi = hi
          /\ \A i \in 2..Len(segs) : segs[i].lo = cuts[i].lo
      BY <2>1, <2>2, Clamped
    <3> HIDE DEF segs
    <3> QED
      BY <2>1, <2>2, <3>1
  <2> HIDE DEF segs
  <2>4. Len(segs) \in {1, 2}
    BY <2>1, <2>3
  <2>5. Apart(segs)
    BY <2>3, OrderedApart
  <2>6. \A k \in Bound : InSegment(k, segment) => Owned(k, segs)
    BY <1>2, <2>3, ContiguousCovers
  <2>7. ASSUME NEW k \in Bound, NEW i \in 1..Len(segs), InSegment(k, segs[i])
        PROVE  InSegment(k, segment)
    <3>1. CASE Len(segs) = 1
      <4>1. segs[i].lo = lo /\ segs[i].hi = hi
        BY <2>3, <2>7, <3>1
      <4> QED
        BY <1>2, <2>7, <4>1 DEF InSegment, Seg
    <3>2. CASE Len(segs) = 2
      <4>1. 2 \in 2..Len(segs) /\ 2 \in 1..Len(cuts) /\ i \in {1, 2} /\ 1 \in 1..(Len(segs) - 1)
        BY <2>3, <3>2
      <4>2. segs[1] \in Segment /\ segs[2] \in Segment
        <5>1. \A m \in 1..Len(segs) : segs[m] \in Segment
          BY <2>3, SegmentsType
        <5> QED
          BY <3>2, <5>1
      <4>3. segs[1].hi = segs[2].lo
        BY <2>3, <4>1 DEF Contiguous
      <4>4. segs[2].lo # None /\ lo <= segs[2].lo /\ segs[2].lo <= hi
        BY <2>1, <2>3, <4>1
      <4>5. segs[1].lo = segment.lo /\ segs[2].hi = segment.hi
        BY <2>3, <3>2 DEF lo, hi
      <4>6. InSegment(k, segs[1]) \/ InSegment(k, segs[2])
        BY <2>7, <4>1
      <4> QED
        BY <1>1, <1>4, <4>2, <4>3, <4>4, <4>5, <4>6, TwoParts, NoneAssumption DEF lo, hi
    <3> QED
      BY <2>4, <3>1, <3>2
  <2>8. ContiguousCoverage(segs, segment.lo, segment.hi)
    BY <2>3 DEF ContiguousCoverage, Contiguous, lo, hi
  <2>9. Bisect(numeric, segment, samples) = segs
    BY <1>4 DEF Bisect, segs, cuts, lo, hi
  <2> QED
    BY <2>3, <2>5, <2>6, <2>7, <2>8, <2>9 DEF Owned
<1> QED
  BY <1>3, <1>4

(* Bisecting a bounded numeric segment of two keys or more makes progress:  *)
(* both parts are smaller, so that with integer keys a recursion of         *)
(* _resolve_mismatched_segment comes to an end without its depth limit.     *)
THEOREM BisectHalves ==
  ASSUME NEW lo \in Int, NEW hi \in Int, hi - lo >= 2, NEW samples
  PROVE  LET segs == Bisect(TRUE, Seg(lo, hi), samples)
         IN  /\ Len(segs) = 2
             /\ segs[1].lo = lo /\ segs[2].hi = hi /\ segs[1].hi = segs[2].lo
             /\ lo < segs[1].hi /\ segs[1].hi < hi
<1> DEFINE w == hi - lo
           width == Nearest(w * FloatOne, 2)
           cut(i) == CutAt(lo, i, width)
           c == cut(1)
           parts == [i \in 1..2 |-> Seg(cut(i - 1), IF i = 2 /\ FALSE THEN None ELSE cut(i))]
<1>1. w \in Nat /\ w >= 2 /\ lo # hi - 1 /\ hi # None /\ hi - 1 - lo + 1 = w /\ lo + w = hi
  BY NoneAssumption
<1>2. SegmentNumericRange(lo, hi - 1, 2, FALSE) = parts
  BY <1>1 DEF SegmentNumericRange
<1> HIDE DEF w
<1>3. c \in Int /\ lo < c /\ c < hi
  BY <1>1, HalfCut
<1>4. cut(0) = lo
  <2>1. w * FloatOne \in Nat
    BY <1>1, FloatSizes
  <2>2. width \in Nat
    BY <2>1, NearestNat
  <2> HIDE DEF width
  <2> QED
    BY <2>2, CutsInOrder
<1> HIDE DEF cut
<1>5. parts[1] = Seg(lo, c) /\ parts[2].lo = c /\ Len(parts) = 2
  <2>1. parts[1] = Seg(cut(0), cut(1)) /\ parts[2] = Seg(cut(1), cut(2)) /\ Len(parts) = 2
    OBVIOUS
  <2> HIDE DEF parts
  <2> QED
    BY <1>4, <2>1 DEF Seg
<1>6. Bisect(TRUE, Seg(lo, hi), samples) = ClampToRange(parts, lo, hi)
  BY <1>1, <1>2 DEF Bisect, Seg
<1> HIDE DEF parts, c
<1> DEFINE segs == ClampToRange(parts, lo, hi)
<1>7. Len(segs) = 2 /\ segs[1] = Seg(lo, parts[1].hi) /\ segs[2] = Seg(parts[2].lo, hi)
  BY <1>1, <1>5 DEF ClampToRange
<1> HIDE DEF segs
<1>8. /\ Len(segs) = 2
      /\ segs[1].lo = lo /\ segs[2].hi = hi /\ segs[1].hi = c /\ segs[2].lo = c
  BY <1>5, <1>7 DEF Seg
<1> QED
  BY <1>3, <1>6, <1>8 DEF segs

-------------------------------------------------------------------------------
(* Classified rows. *)
LEMMA RowsType ==
  ASSUME IsFiniteSet(Key), IsFiniteSet(Val), NEW table \in Table
  PROVE  /\ Rows(table) \subseteq Row /\ IsFiniteSet(Rows(table))
         /\ Cardinality(Rows(table)) \in Nat
<1>1. Rows(table) \in SUBSET Row
  BY DEF Rows
<1>2. IsFiniteSet(Row)
  BY FS_Product DEF Row
<1>3. IsFiniteSet(Rows(table))
  BY <1>1, <1>2, FS_Subset
<1> QED
  BY <1>1, <1>3, FS_CardinalityType

LEMMA AtMostOneValue ==
  ASSUME IsFiniteSet(Val), NEW S \in SUBSET Val, Cardinality(S) <= 1
  PROVE  S = {} \/ \E v \in Val : S = {v}
<1>1. IsFiniteSet(S) /\ Cardinality(S) \in Nat
  BY FS_Subset, FS_CardinalityType
<1>2. CASE Cardinality(S) = 0
  BY <1>1, <1>2, CardinalityZero
<1>3. CASE Cardinality(S) = 1
  BY <1>1, <1>3, FS_Singleton
<1> QED
  BY <1>1, <1>2, <1>3

(* The keys of fetched rows, and which of them are classified how. *)
LEMMA KeysOfRows ==
  ASSUME NEW table \in Table, NEW k \in Key
  PROVE  k \in KeysOf(Rows(table)) <=> table[k] # {}
<1>1. table[k] \subseteq Val
  BY DEF Table
<1>2. ASSUME NEW v \in table[k] PROVE << k, v >> \in Rows(table)
  BY <1>1 DEF Rows, Row
<1>3. ASSUME NEW r \in Rows(table), r[1] = k PROVE table[k] # {}
  BY <1>3 DEF Rows
<1>4. ASSUME NEW v \in table[k] PROVE k \in KeysOf(Rows(table))
  <2>1. << k, v >> \in Rows(table) /\ << k, v >>[1] = k
    BY <1>2
  <2> QED
    BY <2>1 DEF KeysOf
<1> QED
  BY <1>3, <1>4 DEF KeysOf

(* Sets of rows that have at most one row per key: the tables' own, or what *)
(* was fetched of them.                                                     *)
LEMMA KindsOfKey ==
  ASSUME NEW s, NEW t, NEW k
  PROVE  /\ k \in Missing(s, t) => k \notin Extra(s, t) /\ k \notin Changed(s, t)
         /\ k \in Extra(s, t) => k \notin Changed(s, t)
BY DEF Missing, Extra, Changed

LEMMA RowDiffMembers ==
  ASSUME NEW s, NEW t, NEW d
  PROVE  d \in RowDiffs(s, t) <=>
           \/ d = [key |-> d.key, kind |-> "missing"] /\ d.key \in Missing(s, t)
           \/ d = [key |-> d.key, kind |-> "extra"] /\ d.key \in Extra(s, t)
           \/ d = [key |-> d.key, kind |-> "changed"] /\ d.key \in Changed(s, t)
<1>1. ASSUME d \in RowDiffs(s, t)
      PROVE  \/ d = [key |-> d.key, kind |-> "missing"] /\ d.key \in Missing(s, t)
             \/ d = [key |-> d.key, kind |-> "extra"] /\ d.key \in Extra(s, t)
             \/ d = [key |-> d.key, kind |-> "changed"] /\ d.key \in Changed(s, t)
  BY <1>1 DEF RowDiffs
<1> QED
  BY <1>1 DEF RowDiffs

(* The one difference a key with at most one row on either side can make. *)
DiffAt(s, t, k) ==
  [key |-> k, kind |-> IF t[k] = {} THEN "missing"
                       ELSE IF s[k] = {} THEN "extra" ELSE "changed"]

LEMMA RowDiffOfKey ==
  ASSUME NEW s \in Table, NEW t \in Table, NEW k \in Key,
         s[k] = {} \/ \E v \in Val : s[k] = {v},
         t[k] = {} \/ \E v \in Val : t[k] = {v},
         NEW d
  PROVE  d \in RowDiffs(Rows(s), Rows(t)) /\ d.key = k
           <=> s[k] # t[k] /\ d = DiffAt(s, t, k)
<1>1. \A v : << k, v >> \in Rows(s) <=> v \in s[k]
  BY DEF Rows, Row, Table
<1>2. \A v : << k, v >> \in Rows(t) <=> v \in t[k]
  BY DEF Rows, Row, Table
<1>3. k \in Changed(Rows(s), Rows(t)) <=> s[k] # {} /\ t[k] # {} /\ s[k] # t[k]
  <2>1. k \in KeysOf(Rows(s)) \cap KeysOf(Rows(t)) <=> s[k] # {} /\ t[k] # {}
    BY KeysOfRows
  <2>2. (\E v, w \in Val : << k, v >> \in Rows(s) /\ << k, w >> \in Rows(t) /\ v # w)
          <=> \E v, w \in Val : v \in s[k] /\ w \in t[k] /\ v # w
    BY <1>1, <1>2
  <2>3. ASSUME s[k] # {}, t[k] # {}
        PROVE  (\E v, w \in Val : v \in s[k] /\ w \in t[k] /\ v # w) <=> s[k] # t[k]
    BY <2>3
  <2> QED
    BY <2>1, <2>2, <2>3 DEF Changed
<1>4. k \in Missing(Rows(s), Rows(t)) <=> s[k] # {} /\ t[k] = {}
  BY KeysOfRows DEF Missing
<1>5. k \in Extra(Rows(s), Rows(t)) <=> s[k] = {} /\ t[k] # {}
  BY KeysOfRows DEF Extra
<1>6. ASSUME d \in RowDiffs(Rows(s), Rows(t)), d.key = k
      PROVE  s[k] # t[k] /\ d = DiffAt(s, t, k)
  BY <1>3, <1>4, <1>5, <1>6, RowDiffMembers DEF DiffAt
<1>7. ASSUME s[k] # t[k], d = DiffAt(s, t, k)
      PROVE  d \in RowDiffs(Rows(s), Rows(t)) /\ d.key = k
  <2>1. d.key = k
    BY <1>7 DEF DiffAt
  <2> QED
    BY <1>3, <1>4, <1>5, <1>7, <2>1, RowDiffMembers DEF DiffAt
<1> QED
  BY <1>6, <1>7

(* A set in one-to-one correspondence with its members' keys has as many    *)
(* members as keys.                                                         *)
LEMMA CountByKey ==
  ASSUME NEW K, IsFiniteSet(K), NEW S,
         \A x \in S : x.key \in K,
         \A k \in K : \E x \in S : x.key = k,
         \A x, y \in S : x.key = y.key => x = y
  PROVE  IsFiniteSet(S) /\ Cardinality(S) = Cardinality(K)
<1> DEFINE f == [x \in S |-> x.key]
<1>1. f \in [S -> K]
  OBVIOUS
<1>2. f \in Bijection(S, K)
  BY <1>1, Fun_IsBij
<1>3. Inverse(f, S, K) \in Bijection(K, S)
  BY <1>2, Fun_BijInverse
<1>4. ExistsBijection(K, S)
  BY <1>3 DEF ExistsBijection
<1> QED
  BY <1>4, FS_Bijection

LEMMA TaggedCount ==
  ASSUME NEW K, IsFiniteSet(K), NEW kind
  PROVE  LET S == { [key |-> k, kind |-> kind] : k \in K }
         IN  IsFiniteSet(S) /\ Cardinality(S) = Cardinality(K)
<1> DEFINE S == { [key |-> k, kind |-> kind] : k \in K }
           tag(k) == [key |-> k, kind |-> kind]
<1>1. \A x \in S : x.key \in K /\ x = tag(x.key)
  OBVIOUS
<1>2. ASSUME NEW k \in K PROVE \E x \in S : x.key = k
  <2>1. tag(k) \in S /\ tag(k).key = k
    OBVIOUS
  <2> QED
    BY <2>1
<1>3. \A x, y \in S : x.key = y.key => x = y
  BY <1>1
<1> HIDE DEF S
<1>4. IsFiniteSet(S) /\ Cardinality(S) = Cardinality(K)
  BY <1>1, <1>2, <1>3, CountByKey
<1> QED
  BY <1>4 DEF S

(* The three counters of a report add up to the number of its differences. *)
LEMMA RowDiffsCount ==
  ASSUME IsFiniteSet(Key), NEW s, s \subseteq Row, NEW t, t \subseteq Row
  PROVE  /\ RowDiffs(s, t) \subseteq RowDiff /\ IsFiniteSet(RowDiffs(s, t))
         /\ Cardinality(Missing(s, t)) \in Nat
         /\ Cardinality(Extra(s, t)) \in Nat
         /\ Cardinality(Changed(s, t)) \in Nat
         /\ Cardinality(RowDiffs(s, t)) =
              Cardinality(Missing(s, t)) + Cardinality(Extra(s, t)) + Cardinality(Changed(s, t))
<1>1. KeysOf(s) \subseteq Key /\ KeysOf(t) \subseteq Key
  BY DEF KeysOf, Row
<1>2. /\ Missing(s, t) \in SUBSET Key /\ Extra(s, t) \in SUBSET Key
      /\ Changed(s, t) \in SUBSET Key
  BY <1>1 DEF Missing, Extra, Changed
<1>3. /\ IsFiniteSet(Missing(s, t)) /\ IsFiniteSet(Extra(s, t))
      /\ IsFiniteSet(Changed(s, t))
  BY <1>2, FS_Subset
<1> DEFINE M == { [key |-> k, kind |-> "missing"] : k \in Missing(s, t) }
           X == { [key |-> k, kind |-> "extra"]   : k \in Extra(s, t) }
           C == { [key |-> k, kind |-> "changed"] : k \in Changed(s, t) }
<1>4. IsFiniteSet(M) /\ Cardinality(M) = Cardinality(Missing(s, t))
  BY <1>3, TaggedCount
<1>5. IsFiniteSet(X) /\ Cardinality(X) = Cardinality(Extra(s, t))
  BY <1>3, TaggedCount
<1>6. IsFiniteSet(C) /\ Cardinality(C) = Cardinality(Changed(s, t))
  BY <1>3, TaggedCount
<1>7. M \cap X = {} /\ (M \cup X) \cap C = {}
  OBVIOUS
<1>8. RowDiffs(s, t) = (M \cup X) \cup C
  BY DEF RowDiffs
<1>9. RowDiffs(s, t) \subseteq RowDiff
  BY <1>2 DEF RowDiffs, RowDiff, Kind
<1> HIDE DEF M, X, C
<1>10. IsFiniteSet(M \cup X) /\ Cardinality(M \cup X) = Cardinality(M) + Cardinality(X)
  BY <1>4, <1>5, <1>7, DisjointUnion
<1>11. /\ IsFiniteSet((M \cup X) \cup C)
       /\ Cardinality((M \cup X) \cup C) = Cardinality(M \cup X) + Cardinality(C)
  BY <1>6, <1>7, <1>10, DisjointUnion
<1>12. /\ Cardinality(Missing(s, t)) \in Nat /\ Cardinality(Extra(s, t)) \in Nat
       /\ Cardinality(Changed(s, t)) \in Nat
  BY <1>3, FS_CardinalityType
<1> QED
  BY <1>4, <1>5, <1>6, <1>8, <1>9, <1>10, <1>11, <1>12

-------------------------------------------------------------------------------
(* Rows that were fetched make a table of their own.                        *)
AsTable(rows) == [k \in Key |-> { v \in Val : << k, v >> \in rows }]

LEMMA FetchedTable ==
  ASSUME NEW rows \in SUBSET Row
  PROVE  /\ AsTable(rows) \in Table /\ Rows(AsTable(rows)) = rows
         /\ \A k \in Key : \A v : v \in AsTable(rows)[k] <=> << k, v >> \in rows
<1>1. AsTable(rows) \in Table
  BY DEF AsTable, Table
<1>2. \A k \in Key : \A v : v \in AsTable(rows)[k] <=> << k, v >> \in rows
  BY DEF AsTable, Row
<1>3. ASSUME NEW r \in Row PROVE r \in Rows(AsTable(rows)) <=> r \in rows
  <2>1. r[1] \in Key /\ r = << r[1], r[2] >>
    BY DEF Row
  <2> QED
    BY <1>2, <2>1 DEF Rows
<1>4. Rows(AsTable(rows)) \subseteq Row /\ rows \subseteq Row
  BY DEF Rows
<1> QED
  BY <1>1, <1>2, <1>3, <1>4

(* A key makes at most one difference.                                      *)
LEMMA OneDiffPerKey ==
  ASSUME NEW s, NEW t, NEW c \in RowDiffs(s, t), NEW d \in RowDiffs(s, t), c.key = d.key
  PROVE  c = d
BY RowDiffMembers, KindsOfKey

DiffsWith(s, t, k) == { d \in RowDiffs(s, t) : d.key = k }

LEMMA DiffsOfKey ==
  ASSUME NEW s, NEW t, NEW k
  PROVE  Cardinality(DiffsWith(s, t, k)) =
           IF \E d \in RowDiffs(s, t) : d.key = k THEN 1 ELSE 0
<1> DEFINE D == DiffsWith(s, t, k)
<1>0. \A d : d \in D <=> d \in RowDiffs(s, t) /\ d.key = k
  BY DEF DiffsWith
<1> HIDE DEF D
<1>1. ASSUME NEW c \in D PROVE D = {c}
  BY <1>0, OneDiffPerKey
<1>2. CASE D = {}
  <2>1. Cardinality(D) = 0
    BY <1>2, FS_EmptySet
  <2> QED
    BY <1>0, <1>2, <2>1 DEF D
<1>3. CASE D # {}
  <2>1. PICK c \in D : TRUE
    BY <1>3
  <2>2. D = {c}
    BY <1>1
  <2>3. Cardinality({c}) = 1
    BY FS_Singleton
  <2> QED
    BY <1>0, <1>3, <2>2, <2>3 DEF D
<1> QED
  BY <1>0, <1>2, <1>3 DEF D

(* Appending differences one by one while n places are free adds n of them, *)
(* or all.                                                                  *)
LEMMA FirstDiffsCount ==
  ASSUME IsFiniteSet(Key), Key \subseteq Int,
         NEW diffs, \A d \in diffs : d.key \in Key,
         \A c, d \in diffs : c.key = d.key => c = d,
         NEW n \in Nat
  PROVE  /\ FirstDiffs(diffs, n) \subseteq diffs
         /\ n <= Cardinality(diffs) => Cardinality(FirstDiffs(diffs, n)) = n
         /\ n >= Cardinality(diffs) => FirstDiffs(diffs, n) = diffs
<1> DEFINE K == { k \in Key : \E d \in diffs : d.key = k }
           first == { k \in K : Rank(K, k) < n }
<1>1. K \in SUBSET Key /\ K \in SUBSET Int /\ IsFiniteSet(K)
  <2>1. K \in SUBSET Key
    OBVIOUS
  <2> HIDE DEF K
  <2> QED
    BY <2>1, FS_Subset
<1>2. \A d \in diffs : d.key \in K
  OBVIOUS
<1>3. \A k \in K : \E d \in diffs : d.key = k
  OBVIOUS
<1> HIDE DEF K
<1>4. Cardinality(diffs) = Cardinality(K)
  BY <1>1, <1>2, <1>3, CountByKey
<1>5. ASSUME NEW d \in diffs
      PROVE  Cardinality({ e \in diffs : e.key < d.key }) = Rank(K, d.key)
  <2> DEFINE D == { e \in diffs : e.key < d.key }
             B == { k \in K : k < d.key }
  <2>1. B \in SUBSET K
    OBVIOUS
  <2>2. IsFiniteSet(B)
    BY <1>1, <2>1, FS_Subset
  <2>3. /\ \A e \in D : e.key \in B
        /\ \A k \in B : \E e \in D : e.key = k
        /\ \A c, e \in D : c.key = e.key => c = e
    BY <1>2, <1>3
  <2> HIDE DEF B, D
  <2>4. Cardinality(D) = Cardinality(B)
    BY <2>2, <2>3, CountByKey
  <2> QED
    BY <2>4 DEF B, D, Rank
<1>6. first \in SUBSET K /\ IsFiniteSet(first)
  <2>1. first \in SUBSET K
    OBVIOUS
  <2> HIDE DEF first
  <2> QED
    BY <1>1, <2>1, FS_Subset
<1>7. FirstDiffs(diffs, n) = { d \in diffs : d.key \in first }
  BY <1>2, <1>5 DEF FirstDiffs
<1>8. Cardinality(FirstDiffs(diffs, n)) = Cardinality(first)
  <2> DEFINE D == { d \in diffs : d.key \in first }
  <2>1. /\ \A e \in D : e.key \in first
        /\ \A k \in first : \E e \in D : e.key = k
        /\ \A c, e \in D : c.key = e.key => c = e
    BY <1>3, <1>6
  <2> HIDE DEF D, first
  <2>2. Cardinality(D) = Cardinality(first)
    BY <1>6, <2>1, CountByKey
  <2> QED
    BY <1>7, <2>2 DEF D
<1>9. Cardinality(K) \in Nat
  BY <1>1, FS_CardinalityType
<1>10. ASSUME n <= Cardinality(diffs) PROVE Cardinality(first) = n
  <2>1. n \in 0..Cardinality(K)
    BY <1>4, <1>9, <1>10
  <2> QED
    BY <1>1, <2>1, RankBelow
<1>11. ASSUME n >= Cardinality(diffs) PROVE FirstDiffs(diffs, n) = diffs
  <2>1. \A k \in K : Rank(K, k) \in 0..(Cardinality(K) - 1)
    BY <1>1, RankMonotone
  <2>2. \A k \in K : Rank(K, k) < n
    BY <1>4, <1>9, <1>11, <2>1
  <2> QED
    BY <1>2, <1>7, <2>2
<1> QED
  BY <1>7, <1>8, <1>10, <1>11
===============================================================================
