--------------------------- MODULE AnalysisProofs ----------------------------
(***************************************************************************)
(* The algorithms of the lap analysis, for every session, trace and lap:   *)
(* the segmenter, the trace of a lap, the comparison of two laps, the      *)
(* braking points, and the optimal lap and its line.                       *)
(***************************************************************************)
EXTENDS LapSegmenter, Analysis, SequenceTheorems, FiniteSetTheorems, WellFoundedInduction, TLAPS

-----------------------------------------------------------------------------
(* What a recursive function computes, by induction along its places; listings; quotients. *)

LEMMA NatMin ==
  ASSUME NEW T, T \subseteq Nat, T # {}
  PROVE  \E x \in T : \A y \in T : x <= y
<1> DEFINE R == {p \in Nat \X Nat : p[1] < p[2]}
<1>1. IsWellFoundedOn(R, Nat)
  BY NatLessThanWellFounded DEF OpToRel
<1>2. PICK x \in T : \A y \in T : ~ (<<y, x>> \in R)
  BY <1>1, WFMin
<1>3. ASSUME NEW y \in T, y < x
      PROVE  FALSE
  <2>1. <<y, x>> \in R
    BY <1>3
  <2> QED BY <1>2, <2>1
<1>4. \A y \in T : x <= y
  BY <1>3
<1> QED BY <1>4

(* Induction along 0 .. n, over a set. *)
LEMMA Reaches ==
  ASSUME NEW n \in Nat, NEW S, 0 \in S, \A i \in 0 .. n - 1 : i \in S => i + 1 \in S
  PROVE  0 .. n \subseteq S
<1> SUFFICES ASSUME (0 .. n) \ S # {} PROVE FALSE
  OBVIOUS
<1>1. PICK m \in (0 .. n) \ S : \A y \in (0 .. n) \ S : m <= y
  <2>1. (0 .. n) \ S \subseteq Nat
    OBVIOUS
  <2> QED BY <2>1, NatMin
<1>2. m # 0 /\ m \in 0 .. n
  OBVIOUS
<1>3. m - 1 \in 0 .. n - 1 /\ m - 1 \in S
  <2>1. m - 1 \in 0 .. n - 1 /\ m - 1 \in 0 .. n
    BY <1>2
  <2>2. ~(m <= m - 1)
    BY <1>2
  <2> QED BY <1>1, <2>1, <2>2
<1>4. m \in S
  BY <1>2, <1>3
<1> QED BY <1>4

(* A function on 0 .. n given by its first value and a step. *)
Iterates(f, n, S, a, g) ==
  /\ f \in [0 .. n -> S] /\ f[0] = a
  /\ \A i \in 1 .. n : f[i] = g[<<i, f[i - 1]>>]

LEMMA Recursion ==
  ASSUME NEW n \in Nat, NEW S, NEW a \in S, NEW g \in [(1 .. n) \X S -> S]
  PROVE  \E f : Iterates(f, n, S, a, g)
<1> DEFINE Is(f, k) == f \in [0 .. k -> S] /\ f[0] = a /\ \A i \in 1 .. k : f[i] = g[<<i, f[i - 1]>>]
           K == {k \in 0 .. n : \E f : Is(f, k)}
<1>1. 0 \in K
  <2> DEFINE f == [i \in 0 .. 0 |-> a]
  <2>1. Is(f, 0)
    OBVIOUS
  <2>2. 0 \in 0 .. n
    OBVIOUS
  <2> HIDE DEF f, Is
  <2> QED BY <2>1, <2>2
<1>2. ASSUME NEW k \in 0 .. n - 1, k \in K
      PROVE  k + 1 \in K
  <2>1. PICK f : Is(f, k)
    BY <1>2
  <2> DEFINE v == g[<<k + 1, f[k]>>]
             h == [i \in 0 .. k + 1 |-> IF i <= k THEN f[i] ELSE v]
  <2>2. k \in Nat /\ k + 1 \in 1 .. n
    OBVIOUS
  <2>3. f[k] \in S /\ <<k + 1, f[k]>> \in (1 .. n) \X S
    BY <2>1, <2>2
  <2>4. v \in S
    BY <2>3
  <2> HIDE DEF v
  <2>5. h \in [0 .. k + 1 -> S]
    BY <2>1, <2>2, <2>4
  <2>6. h[0] = a
    BY <2>1, <2>2
  <2>7. ASSUME NEW i \in 1 .. k + 1
        PROVE  h[i] = g[<<i, h[i - 1]>>]
    <3>1. CASE i <= k
      <4>1. i \in 1 .. k /\ i \in 0 .. k + 1 /\ i - 1 \in 0 .. k + 1 /\ i - 1 <= k
        BY <2>2, <3>1
      <4>2. h[i] = f[i] /\ h[i - 1] = f[i - 1]
        BY <3>1, <4>1
      <4>3. f[i] = g[<<i, f[i - 1]>>]
        BY <2>1, <4>1
      <4> HIDE DEF h
      <4> QED BY <4>2, <4>3
    <3>2. CASE i = k + 1
      <4>1. h[i] = v /\ h[i - 1] = f[k]
        BY <2>2, <3>2
      <4> HIDE DEF h
      <4> QED BY <3>2, <4>1 DEF v
    <3> QED BY <2>2, <3>1, <3>2
  <2>8. Is(h, k + 1)
    BY <2>5, <2>6, <2>7
  <2> HIDE DEF h, Is
  <2> QED BY <2>2, <2>8
<1> HIDE DEF Is
<1>3. 0 .. n \subseteq K
  <2> HIDE DEF K
  <2> QED BY <1>1, <1>2, Reaches
<1>4. n \in K
  BY <1>3
<1> QED BY <1>4 DEF Is, Iterates


(* Picked lists a set of places in their order: a place by each rank, and each place once. *)
Lists(p, n, set) ==
  /\ n \in Nat /\ p \in [1 .. n -> set]
  /\ \A i \in set : \E k \in 1 .. n : p[k] = i
  /\ \A k, l \in 1 .. n : k < l => p[k] < p[l]

(* The ranks of a set of places are one to one with its size. *)
LEMMA RankIsPlace ==
  ASSUME NEW m \in Nat, NEW set \in SUBSET (1 .. m)
  PROVE  /\ Cardinality(set) \in Nat
         /\ \A i \in set : Rank(i, set) \in 1 .. Cardinality(set)
         /\ \A i, j \in set : i < j => Rank(i, set) < Rank(j, set)
         /\ \A k \in 1 .. Cardinality(set) : \E i \in set : Rank(i, set) = k
<1> DEFINE n == Cardinality(set)
           To(i) == {j \in set : j <= i}
<1>1. IsFiniteSet(set) /\ n \in Nat
  <2>1. IsFiniteSet(1 .. m)
    BY FS_Interval
  <2> QED BY <2>1, FS_Subset, FS_CardinalityType
<1>2. ASSUME NEW i \in set
      PROVE  IsFiniteSet(To(i)) /\ Rank(i, set) = Cardinality(To(i)) /\ Rank(i, set) \in 1 .. n
  <2>1. To(i) \in SUBSET set /\ i \in To(i)
    OBVIOUS
  <2> HIDE DEF To
  <2>2. IsFiniteSet(To(i)) /\ Cardinality(To(i)) <= n
    BY <1>1, <2>1, FS_Subset
  <2>3. Cardinality(To(i)) \in Nat /\ Cardinality(To(i)) # 0
    BY <2>1, <2>2, FS_CardinalityType, FS_EmptySet
  <2>4. Rank(i, set) = Cardinality(To(i))
    BY DEF Rank, To
  <2> QED BY <1>1, <2>2, <2>3, <2>4
<1>3. ASSUME NEW i \in set, NEW j \in set, i < j
      PROVE  Rank(i, set) < Rank(j, set)
  <2>1. To(i) \in SUBSET To(j) /\ To(i) # To(j)
    <3>1. j \in To(j) /\ j \notin To(i)
      BY <1>3
    <3>2. \A k \in set : k <= i => k <= j
      BY <1>3
    <3>3. To(i) \subseteq To(j)
      BY <3>2
    <3> QED BY <3>1, <3>3
  <2> HIDE DEF To
  <2>2. Cardinality(To(i)) <= Cardinality(To(j)) /\ Cardinality(To(j)) # Cardinality(To(i))
    BY <1>2, <2>1, FS_Subset
  <2> QED BY <1>1, <1>2, <2>2
<1> DEFINE f == [i \in set |-> Rank(i, set)]
<1>a. \A i \in set : Rank(i, set) \in 1 .. n /\ i \in Int
  <2> TAKE i \in set
  <2>1. Rank(i, set) \in 1 .. n
    BY <1>2
  <2>2. i \in Int
    OBVIOUS
  <2> QED BY <2>1, <2>2
<1>b. \A i, j \in set : i < j => Rank(i, set) < Rank(j, set)
  BY <1>3
<1>4. f \in Injection(set, 1 .. n)
  <2>1. f \in [set -> 1 .. n]
    BY <1>2
  <2>2. \A i, j \in set : f[i] = f[j] => i = j
    <3> SUFFICES ASSUME NEW i \in set, NEW j \in set, f[i] = f[j] PROVE i = j
      OBVIOUS
    <3>1. f[i] = Rank(i, set) /\ f[j] = Rank(j, set)
      OBVIOUS
    <3> HIDE DEF f, n
    <3>2. Rank(i, set) \in Int /\ Rank(j, set) \in Int /\ i \in Int /\ j \in Int
      BY <1>1, <1>a
    <3>3. Rank(i, set) = Rank(j, set)
      BY <3>1
    <3>4. i < j => FALSE
      <4>1. i < j => Rank(i, set) < Rank(j, set)
        BY <1>b
      <4> QED BY <3>2, <3>3, <4>1
    <3>5. j < i => FALSE
      <4>1. j < i => Rank(j, set) < Rank(i, set)
        BY <1>b
      <4> QED BY <3>2, <3>3, <4>1
    <3> QED BY <3>2, <3>4, <3>5
  <2> QED BY <2>1, <2>2 DEF Injection, IsInjective
<1> HIDE DEF f, n
<1>5. f \in Surjection(set, 1 .. n)
  <2>1. IsFiniteSet(1 .. n) /\ Cardinality(1 .. n) = n
    BY <1>1, FS_Interval
  <2> QED BY <1>4, <2>1, FS_Injection DEF n
<1>6. \A k \in 1 .. n : \E i \in set : Rank(i, set) = k
  BY <1>5 DEF Surjection, f
<1> QED BY <1>1, <1>2, <1>3, <1>6 DEF n

(* Which is what the places of Picked are. *)
LEMMA PickedLists ==
  ASSUME NEW s, NEW m \in Nat, NEW set \in SUBSET (1 .. m)
  PROVE  \E n, p : Lists(p, n, set) /\ Picked(s, set) = [k \in 1 .. n |-> s[p[k]]]
<1> DEFINE n == Cardinality(set)
           At(k) == CHOOSE i \in set : Rank(i, set) = k
           p == [k \in 1 .. n |-> At(k)]
<1>1. /\ n \in Nat
      /\ \A i \in set : Rank(i, set) \in 1 .. n
      /\ \A i, j \in set : i < j => Rank(i, set) < Rank(j, set)
      /\ \A k \in 1 .. n : \E i \in set : Rank(i, set) = k
  BY RankIsPlace
<1>2. \A k \in 1 .. n : p[k] \in set /\ Rank(p[k], set) = k
  BY <1>1
<1>3. Picked(s, set) = [k \in 1 .. n |-> s[p[k]]]
  BY DEF Picked
<1>4. p \in [1 .. n -> set]
  BY <1>2
<1> HIDE DEF n, p
<1>5. ASSUME NEW i \in set, NEW j \in set
      PROVE  /\ Rank(i, set) < Rank(j, set) => i < j
             /\ Rank(i, set) = Rank(j, set) => i = j
  <2>1. i \in Int /\ j \in Int /\ Rank(i, set) \in Int /\ Rank(j, set) \in Int
    BY <1>1
  <2>2. (i < j => Rank(i, set) < Rank(j, set)) /\ (j < i => Rank(j, set) < Rank(i, set))
    BY <1>1
  <2> QED BY <2>1, <2>2
<1>7. ASSUME NEW k \in 1 .. n, NEW l \in 1 .. n, k < l PROVE p[k] < p[l]
  <2>1. Rank(p[k], set) < Rank(p[l], set) /\ p[k] \in set /\ p[l] \in set
    BY <1>2, <1>7
  <2> QED BY <1>5, <2>1
<1>8. ASSUME NEW i \in set PROVE \E k \in 1 .. n : p[k] = i
  <2>1. PICK k \in 1 .. n : k = Rank(i, set)
    BY <1>1
  <2>2. p[k] \in set /\ Rank(p[k], set) = Rank(i, set)
    BY <1>2, <2>1
  <2>3. p[k] = i
    BY <1>5, <2>2
  <2> QED BY <2>3
<1>9. Lists(p, n, set)
  BY <1>1, <1>4, <1>7, <1>8 DEF Lists
<1> QED BY <1>3, <1>9


(* A quotient, rounded down. *)
LEMMA Quotient ==
  ASSUME NEW n \in Int, NEW d \in Nat \ {0}
  PROVE  n \div d \in Int /\ d * (n \div d) <= n /\ n < d * (n \div d) + d
<1> DEFINE q == n \div d
<1>1. q \in Int /\ n % d = n - d * q /\ n % d \in 0 .. d - 1
  OBVIOUS
<1> QED BY <1>1

LEMMA QuotientIs ==
  ASSUME NEW n \in Int, NEW d \in Nat \ {0}, NEW q \in Int, d * q <= n, n < d * q + d
  PROVE  n \div d = q
<1>1. PICK p \in Int : p = n \div d /\ d * p <= n /\ n < d * p + d
  BY Quotient
<1>2. p < q => FALSE
  <2> SUFFICES ASSUME p < q PROVE FALSE
    OBVIOUS
  <2>1. p + 1 <= q
    OBVIOUS
  <2>2. d * (p + 1) <= d * q
    BY <2>1
  <2>3. d * (p + 1) = d * p + d
    OBVIOUS
  <2> QED BY <1>1, <2>2, <2>3
<1>3. q < p => FALSE
  <2> SUFFICES ASSUME q < p PROVE FALSE
    OBVIOUS
  <2>1. q + 1 <= p
    OBVIOUS
  <2>2. d * (q + 1) <= d * p
    BY <2>1
  <2>3. d * (q + 1) = d * q + d
    OBVIOUS
  <2> QED BY <1>1, <2>2, <2>3
<1> QED BY <1>1, <1>2, <1>3

LEMMA QuotientGrows ==
  ASSUME NEW m \in Int, NEW n \in Int, NEW d \in Nat \ {0}, m <= n
  PROVE  m \div d <= n \div d
<1>1. PICK p \in Int : p = m \div d /\ d * p <= m /\ m < d * p + d
  BY Quotient
<1>2. PICK q \in Int : q = n \div d /\ d * q <= n /\ n < d * q + d
  BY Quotient
<1>3. q < p => FALSE
  <2> SUFFICES ASSUME q < p PROVE FALSE
    OBVIOUS
  <2>1. q + 1 <= p
    OBVIOUS
  <2>2. d * (q + 1) <= d * p
    BY <2>1
  <2>3. d * (q + 1) = d * q + d
    OBVIOUS
  <2> QED BY <1>1, <1>2, <2>2, <2>3
<1> QED BY <1>1, <1>2, <1>3

LEMMA QuotientOfProduct ==
  ASSUME NEW n \in Int, NEW d \in Nat \ {0}
  PROVE  (n * d) \div d = n /\ (d * n) \div d = n
<1>1. PICK m \in Int : m = n * d /\ m = d * n
  OBVIOUS
<1>2. d * n <= m /\ m < d * n + d
  BY <1>1
<1>3. m \div d = n
  BY <1>2, QuotientIs
<1> QED BY <1>1, <1>3

LEMMA QuotientIsNat ==
  ASSUME NEW n \in Nat, NEW d \in Nat \ {0}
  PROVE  n \div d \in Nat
<1>1. PICK q \in Int : q = n \div d /\ d * q <= n /\ n < d * q + d
  BY Quotient
<1>2. q < 0 => FALSE
  <2> SUFFICES ASSUME q < 0 PROVE FALSE
    OBVIOUS
  <2>1. d * (q + 1) <= 0
    OBVIOUS
  <2>2. d * (q + 1) = d * q + d
    OBVIOUS
  <2> QED BY <1>1, <2>1, <2>2
<1> QED BY <1>1, <1>2

(* What is between 0 and a whole is a fraction of it. *)
LEMMA ShareWithin ==
  ASSUME NEW n \in Int, NEW d \in Nat \ {0}, NEW w \in Nat, 0 <= n, n <= d
  PROVE  (n * w) \div d \in 0 .. w /\ (w * n) \div d \in 0 .. w
<1>1. PICK m \in Int : m = n * w /\ m = w * n
  OBVIOUS
<1>2. 0 <= m /\ m <= d * w
  BY <1>1
<1>3. PICK q \in Int : q = m \div d /\ d * q <= m /\ m < d * q + d
  BY Quotient
<1>4. q >= 0
  <2> SUFFICES ASSUME q < 0 PROVE FALSE
    BY <1>3
  <2>1. d * (q + 1) <= 0
    OBVIOUS
  <2>2. d * (q + 1) = d * q + d
    OBVIOUS
  <2> QED BY <1>2, <1>3, <2>1, <2>2
<1>5. q <= w
  <2> SUFFICES ASSUME q > w PROVE FALSE
    BY <1>3
  <2>1. d * (w + 1) <= d * q
    OBVIOUS
  <2>2. d * (w + 1) = d * w + d
    OBVIOUS
  <2> QED BY <1>2, <1>3, <2>1, <2>2
<1> QED BY <1>1, <1>3, <1>4, <1>5

-----------------------------------------------------------------------------
(* The segmenter. LapsAbut says nothing of the lap under way, which is where the next entry of
   `laps` comes from. SegmenterInv adds that its first point is the crossing that closed the
   lap before it and that `lapNumber` is its place (RunningIsNext), and the types that make an
   Append of a lap a sequence again (TypeOK). *)

(* A quotient by a positive number is a number. *)
LEMMA BetweenIsInt ==
  ASSUME NEW x \in Int, NEW y \in Int, NEW num \in Int, NEW den \in Int, den > 0
  PROVE  Between(x, y, num, den) \in Int
<1>1. num * (y - x) \in Int
  OBVIOUS
<1> DEFINE k == num * (y - x)
<1>2. k \in Int
  BY <1>1
<1> HIDE DEF k
<1>3. k \div den \in Int
  BY <1>2
<1> QED BY <1>3 DEF Between, k

LEMMA CrossIsInt ==
  ASSUME NEW v \in Plane, NEW w \in Plane
  PROVE  Cross(v, w) \in Int
<1>1. v[1] \in Int /\ v[2] \in Int /\ w[1] \in Int /\ w[2] \in Int
  BY DEF Plane
<1>2. v[1] * w[2] \in Int /\ v[2] * w[1] \in Int
  BY <1>1
<1> QED BY <1>2 DEF Cross

LEMMA MinusIsPlane ==
  ASSUME NEW p \in Plane, NEW q \in Plane
  PROVE  Minus(p, q) \in Plane
BY DEF Minus, Plane

(* A crossing is an instant and a place, and goes one way or the other. *)
LEMMA CrossingTyped ==
  ASSUME NEW p \in Sample, NEW s \in Sample, NEW gate \in [a : Plane, b : Plane],
         NEW sign \in {-1, 0, 1}, FindGateCrossing(p, s, gate, sign) # None
  PROVE  LET c == FindGateCrossing(p, s, gate, sign)
         IN  c.time \in Int /\ c.at \in Plane /\ c.dir \in {-1, 1}
<1> DEFINE r == Minus(s.at, p.at)
           g == Minus(gate.b, gate.a)
           q == Minus(gate.a, p.at)
           dir == IF Cross(r, g) > 0 THEN 1 ELSE -1
           denom == dir * Cross(r, g)
           t == dir * Cross(q, g)
           c == FindGateCrossing(p, s, gate, sign)
<1>1. p.at \in Plane /\ s.at \in Plane /\ denom # 0
  BY DEF FindGateCrossing, Meeting, IsPositioned, Sample
<1>2. r \in Plane /\ g \in Plane /\ q \in Plane
  BY <1>1, MinusIsPlane
<1>3. Cross(r, g) \in Int /\ Cross(q, g) \in Int
  BY <1>2, CrossIsInt
<1>4. dir \in {-1, 1} /\ denom \in Int /\ denom > 0 /\ t \in Int
  <2>1. CASE Cross(r, g) > 0
    BY <2>1, <1>1, <1>3
  <2>2. CASE ~(Cross(r, g) > 0)
    BY <2>2, <1>1, <1>3
  <2> QED BY <2>1, <2>2
<1>5. /\ c.time = Between(p.time, s.time, t, denom)
      /\ c.at = Point(p.at, s.at, t, denom)
      /\ c.dir = dir
  BY DEF FindGateCrossing, Meeting
<1> HIDE DEF dir, denom, t, c
<1>6. c.time \in Int
  BY <1>4, <1>5, BetweenIsInt DEF Sample
<1>7. c.at \in Plane
  <2>1. p.at[1] \in Int /\ p.at[2] \in Int /\ s.at[1] \in Int /\ s.at[2] \in Int
    BY <1>1 DEF Plane
  <2>2. /\ Between(p.at[1], s.at[1], t, denom) \in Int
        /\ Between(p.at[2], s.at[2], t, denom) \in Int
    BY <2>1, <1>4, BetweenIsInt
  <2> QED BY <2>2, <1>5 DEF Point, Plane
<1> QED BY <1>4, <1>5, <1>6, <1>7 DEF c

-----------------------------------------------------------------------------

LEMMA InitInv == Init => SegmenterInv
BY DEF Init, SegmenterInv, TypeOK, RunningIsNext, LapsAbut

(* A sample without a position leaves everything but the history alone. *)
LEMMA UnlocatedInv ==
  ASSUME SegmenterInv, NEW s \in Sample, PushUnlocated(s)
  PROVE  SegmenterInv'
BY DEF SegmenterInv, TypeOK, RunningIsNext, LapsAbut, PushUnlocated

(* A fix within a lap adds a point at its end, never at its beginning. *)
LEMMA WithinInv ==
  ASSUME SegmenterInv, NEW s \in Sample, PushWithin(s)
  PROVE  SegmenterInv'
<1> USE DEF PushWithin
<1>1. PointOf(s) \in LapPoint
  BY DEF PointOf, Sample, LapPoint, IsPositioned
<1>2. TypeOK'
  BY <1>1 DEF SegmenterInv, TypeOK
<1>3. RunningIsNext'
  <2>1. CASE points = <<>>
    BY <2>1 DEF SegmenterInv, RunningIsNext
  <2>2. CASE points # <<>>
    <3>1. points' # <<>> /\ points'[1] = points[1]
      BY <2>2, <1>1 DEF SegmenterInv, TypeOK
    <3> QED BY <3>1, <2>2 DEF SegmenterInv, RunningIsNext
  <2> QED BY <2>1, <2>2
<1>4. LapsAbut'
  BY DEF SegmenterInv, LapsAbut
<1> QED BY <1>2, <1>3, <1>4 DEF SegmenterInv

(* An accepted crossing ends the lap under way where the next one begins. *)
LEMMA AcrossInv ==
  ASSUME SegmenterAssumption, SegmenterInv, NEW s \in Sample, PushAcross(s)
  PROVE  SegmenterInv'
<1> DEFINE c == Crossing(s)
           anchor == PointOf(c)
<1>1. /\ IsPositioned(s) /\ c # None /\ AcceptCrossing(c.time)
      /\ samples' = Append(samples, s) /\ prev' = s
      /\ dirSign' = IF dirSign = 0 THEN c.dir ELSE dirSign
      /\ laps' = Closed(anchor) /\ lapNumber' = lapNumber + 1
      /\ points' = <<anchor, PointOf(s)>>
  BY DEF PushAcross
<1>2. c.time \in Int /\ c.at \in Plane /\ c.dir \in {-1, 1}
  <2>1. prev \in Sample /\ c = FindGateCrossing(prev, s, SfGate, dirSign)
    BY <1>1 DEF Crossing, SegmenterInv, TypeOK
  <2>2. SfGate \in [a : Plane, b : Plane] /\ dirSign \in {-1, 0, 1}
    BY DEF SegmenterAssumption, SegmenterInv, TypeOK
  <2> QED BY <1>1, <2>1, <2>2, CrossingTyped
<1>3. anchor \in LapPoint /\ PointOf(s) \in LapPoint
  BY <1>1, <1>2 DEF PointOf, Sample, LapPoint, IsPositioned
<1> HIDE DEF c, anchor
<1>4. points' \in Seq(LapPoint) /\ points' # <<>> /\ points'[1] = anchor
  BY <1>1, <1>3
<1>5. anchor.time = c.time
  BY DEF anchor, PointOf
<1>6. CASE points = <<>>
  <2>1. laps' = laps /\ laps = <<>> /\ lapNumber = 0
    BY <1>1, <1>6 DEF Closed, SegmenterInv, RunningIsNext
  <2>2. TypeOK'
    BY <1>1, <1>2, <1>4, <2>1 DEF SegmenterInv, TypeOK
  <2>3. RunningIsNext' /\ LapsAbut'
    BY <1>1, <1>4, <2>1 DEF RunningIsNext, LapsAbut
  <2> QED BY <2>2, <2>3 DEF SegmenterInv
<1>7. CASE points # <<>>
  <2> DEFINE lap == [number |-> lapNumber, start |-> points[1].time, end |-> anchor.time,
                     points |-> Append(points, anchor)]
  <2>1. laps' = Append(laps, lap)
    BY <1>1, <1>7 DEF Closed
  <2>2. /\ laps \in Seq(LapResult) /\ points \in Seq(LapPoint) /\ lapNumber \in Nat
        /\ lapNumber = Len(laps) + 1
        /\ laps # <<>> => points[1].time = laps[Len(laps)].end
    BY <1>7 DEF SegmenterInv, TypeOK, RunningIsNext
  <2>3. points[1] \in LapPoint /\ Append(points, anchor) \in Seq(LapPoint)
    BY <1>3, <1>7, <2>2
  <2>4. lap \in LapResult
    BY <1>2, <1>5, <2>2, <2>3 DEF LapResult, LapPoint
  <2>5. TypeOK'
    BY <1>1, <1>2, <1>4, <2>1, <2>2, <2>4, SMTT(60) DEF SegmenterInv, TypeOK
  <2>6. lap.end - lap.start >= MIN_LAP
    BY <1>1, <1>5, <1>7 DEF AcceptCrossing
  <2>7. lap.number = Len(laps) + 1 /\ lap.end = anchor.time
        /\ (laps # <<>> => lap.start = laps[Len(laps)].end)
    BY <2>2
  <2> HIDE DEF lap
  <2>8. /\ Len(laps') = Len(laps) + 1 /\ laps'[Len(laps')] = lap
        /\ \A i \in DOMAIN laps : laps'[i] = laps[i]
    BY <2>1, <2>2, <2>4
  <2>9. RunningIsNext'
    BY <1>1, <1>4, <2>2, <2>7, <2>8 DEF RunningIsNext
  <2>10. LapsAbut'
    <3> SUFFICES ASSUME NEW i \in DOMAIN laps'
                 PROVE  /\ laps'[i].number = i
                        /\ laps'[i].end - laps'[i].start >= MIN_LAP
                        /\ i > 1 => laps'[i].start = laps'[i - 1].end
      BY DEF LapsAbut
    <3>1. laps' \in Seq(LapResult) /\ i \in 1 .. Len(laps) + 1
      BY <2>1, <2>2, <2>4, <2>8
    <3>2. CASE i = Len(laps) + 1
      BY <2>2, <2>6, <2>7, <2>8, <3>1, <3>2
    <3>3. CASE i # Len(laps) + 1
      <4>1. i \in DOMAIN laps /\ (i > 1 => i - 1 \in DOMAIN laps)
        BY <2>2, <3>1, <3>3
      <4> QED BY <2>8, <4>1 DEF SegmenterInv, LapsAbut
    <3> QED BY <3>2, <3>3
  <2> QED BY <2>5, <2>9, <2>10 DEF SegmenterInv
<1> QED BY <1>6, <1>7

(* The next sample is one. *)
LEMMA StepInv ==
  ASSUME SegmenterAssumption, SegmenterInv, [Next]_vars
  PROVE  SegmenterInv'
<1>1. CASE Next
  <2>1. PICK fix \in Fix, hop \in Hop : Push(fix, hop)
    BY <1>1 DEF Next
  <2> DEFINE s == Stamped(fix, IF samples = <<>> THEN 0 ELSE samples[Len(samples)].time + hop)
  <2>2. s \in Sample
    <3>1. fix.at \in Plane \cup {None} /\ fix.slow \in BOOLEAN /\ hop \in Int
      BY <2>1 DEF SegmenterAssumption
    <3>2. samples # <<>> => samples[Len(samples)].time \in Int
      <4>1. samples \in Seq(Sample)
        BY DEF SegmenterInv, TypeOK
      <4>2. samples # <<>> => samples[Len(samples)] \in Sample
        BY <4>1
      <4> QED BY <4>2 DEF Sample
    <3> QED BY <3>1, <3>2 DEF Sample, Stamped
  <2>3. PushUnlocated(s) \/ PushWithin(s) \/ PushAcross(s)
    BY <2>1 DEF Push
  <2> QED BY <2>2, <2>3, UnlocatedInv, WithinInv, AcrossInv
<1>2. CASE UNCHANGED vars
  BY <1>2 DEF vars, SegmenterInv, TypeOK, RunningIsNext, LapsAbut
<1> QED BY <1>1, <1>2

(* Every state of a segmenter satisfies the inductive invariant (push). *)
THEOREM SegmenterInvariant == Spec => []SegmenterInv
<1>1. SegmenterInv /\ [Next]_vars => SegmenterInv'
  BY SegmenterAssumption, StepInv
<1> QED BY InitInv, <1>1, PTL DEF Spec

(* Consecutive laps share the instant of their line, are numbered by their place and none is
   shorter than the debounce (closeLap, acceptCrossing), for every gate and every session. *)
THEOREM LapsAbutAlways == Spec => []LapsAbut
<1>1. SegmenterInv => LapsAbut
  BY DEF SegmenterInv
<1> QED BY SegmenterInvariant, <1>1, PTL

-----------------------------------------------------------------------------
(* The laps of a session. LapsAreCrossings speaks of the whole session, the segmenter of the last
   fix and the running lap. CrossingsInv ties the two: the last fix is the last located sample,
   the latched direction is that of the crossings that count, and the running lap and the closed
   ones hold the fixes since, or between, those crossings. One more sample is at most one more
   crossing, and every earlier one stays. *)

(* There is at most one last element. *)
LEMMA LastIsOne ==
  ASSUME NEW T \in SUBSET Int, NEW i \in LastOf(T), NEW j \in LastOf(T)
  PROVE  i = j
BY DEF LastOf

LEMMA LocatedAppend ==
  ASSUME NEW s \in Seq(Sample), NEW x \in Sample
  PROVE  LET t == Append(s, x) m == Len(s) + 1
         IN  /\ LocatedAt(t) = IF IsPositioned(x) THEN LocatedAt(s) \cup {m} ELSE LocatedAt(s)
             /\ LocatedAt(s) \subseteq 1 .. Len(s)
             /\ Len(t) = m /\ t[m] = x /\ \A i \in 1 .. Len(s) : t[i] = s[i]
<1> DEFINE t == Append(s, x)
           m == Len(s) + 1
<1>1. DOMAIN s = 1 .. Len(s) /\ DOMAIN t = 1 .. m /\ Len(s) \in Nat /\ m \in Nat
  OBVIOUS
<1>2. t[m] = x /\ Len(t) = m /\ \A i \in 1 .. Len(s) : t[i] = s[i]
  OBVIOUS
<1> HIDE DEF t
<1>3. DOMAIN t = DOMAIN s \cup {m}
  BY <1>1
<1>4. LocatedAt(t) = IF IsPositioned(x) THEN LocatedAt(s) \cup {m} ELSE LocatedAt(s)
  BY <1>1, <1>2, <1>3 DEF LocatedAt
<1> QED BY <1>1, <1>2, <1>4 DEF LocatedAt, t

(* The fix a located sample is compared to. *)
LEMMA RawIsFound ==
  ASSUME NEW s \in Seq(Sample), NEW j \in Int, NEW i \in Before(s, j)
  PROVE  RawAt(s, j) = FindGateCrossing(s[i], s[j], SfGate, 0)
<1>1. {k \in LocatedAt(s) : k < j} \in SUBSET Int
  BY DEF LocatedAt
<1>2. \A k \in Before(s, j) : k = i
  BY <1>1, LastIsOne DEF Before
<1>3. (CHOOSE k \in Before(s, j) : TRUE) = i
  BY <1>2
<1> QED BY <1>3 DEF RawAt

(* t is s with a sample x more, at the place m. *)
Grown(s, x, t, m) ==
  s \in Seq(Sample) /\ x \in Sample /\ t = Append(s, x) /\ m = Len(s) + 1

LEMMA RawAppend ==
  ASSUME NEW s, NEW x, NEW t, NEW m, Grown(s, x, t, m)
  PROVE  /\ \A j \in 1 .. Len(s) : RawAt(t, j) = RawAt(s, j)
         /\ LocatedAt(s) = {} => RawAt(t, m) = None
         /\ \A i \in LastOf(LocatedAt(s)) :
               RawAt(t, m) = FindGateCrossing(s[i], x, SfGate, 0)
         /\ Raw(t) = IF IsPositioned(x) /\ RawAt(t, m) # None THEN Raw(s) \cup {m} ELSE Raw(s)
         /\ Raw(s) \subseteq 1 .. Len(s)
<1> USE DEF Grown
<1>1. /\ LocatedAt(t) = IF IsPositioned(x) THEN LocatedAt(s) \cup {m} ELSE LocatedAt(s)
      /\ LocatedAt(s) \subseteq 1 .. Len(s) /\ Len(s) \in Nat
      /\ t[m] = x /\ \A i \in 1 .. Len(s) : t[i] = s[i]
  BY LocatedAppend
<1>2. t \in Seq(Sample) /\ m \in Int
  BY <1>1
<1>3. \A j \in 1 .. Len(s) : {i \in LocatedAt(t) : i < j} = {i \in LocatedAt(s) : i < j}
  BY <1>1
<1>4. \A j \in 1 .. Len(s) : Before(t, j) = Before(s, j)
  BY <1>3 DEF Before
<1>5. \A j \in 1 .. Len(s) : Before(s, j) \subseteq 1 .. Len(s)
  BY <1>1 DEF Before, LastOf
<1>6. ASSUME NEW j \in 1 .. Len(s) PROVE RawAt(t, j) = RawAt(s, j)
  <2>1. CASE Before(s, j) = {}
    BY <2>1, <1>4 DEF RawAt
  <2>2. CASE Before(s, j) # {}
    <3>1. PICK i \in Before(s, j) : TRUE
      BY <2>2
    <3>2. t[i] = s[i] /\ t[j] = s[j]
      BY <1>1, <1>5, <3>1
    <3>3. RawAt(s, j) = FindGateCrossing(s[i], s[j], SfGate, 0)
      BY <3>1, RawIsFound
    <3>4. i \in Before(t, j) /\ j \in Int
      BY <3>1, <1>4
    <3>5. RawAt(t, j) = FindGateCrossing(t[i], t[j], SfGate, 0)
      BY <3>4, <1>2, RawIsFound
    <3> QED BY <3>2, <3>3, <3>5
  <2> QED BY <2>1, <2>2
<1>7. {i \in LocatedAt(t) : i < m} = LocatedAt(s)
  BY <1>1
<1>8. Before(t, m) = LastOf(LocatedAt(s))
  BY <1>7 DEF Before
<1>9. LocatedAt(s) = {} => RawAt(t, m) = None
  BY <1>8 DEF RawAt, LastOf
<1>10. ASSUME NEW i \in LastOf(LocatedAt(s))
       PROVE  RawAt(t, m) = FindGateCrossing(s[i], x, SfGate, 0)
  <2>1. i \in 1 .. Len(s)
    BY <1>1 DEF LastOf
  <2>3. i \in Before(t, m)
    BY <1>8
  <2>2. RawAt(t, m) = FindGateCrossing(t[i], t[m], SfGate, 0)
    BY <1>2, <2>3, RawIsFound
  <2> QED BY <1>2, <2>1, <2>2
<1>11. Raw(s) \subseteq 1 .. Len(s)
  BY <1>1 DEF Raw
<1>12. Raw(t) = IF IsPositioned(x) /\ RawAt(t, m) # None THEN Raw(s) \cup {m} ELSE Raw(s)
  BY <1>1, <1>6 DEF Raw
<1> QED BY <1>6, <1>9, <1>10, <1>11, <1>12

(* What the latched direction leaves out are the crossings the other way. *)
LEMMA FoundDirected ==
  ASSUME NEW p, NEW x, NEW sign \in {-1, 0, 1}
  PROVE  LET any == FindGateCrossing(p, x, SfGate, 0)
             c == FindGateCrossing(p, x, SfGate, sign)
         IN  c = IF any # None /\ sign \in {0, any.dir} THEN any ELSE None
<1> DEFINE r == Minus(x.at, p.at)
           s == Minus(SfGate.b, SfGate.a)
           q == Minus(SfGate.a, p.at)
           dir == IF Cross(r, s) > 0 THEN 1 ELSE -1
           denom == dir * Cross(r, s)
           t == dir * Cross(q, s)
           u == dir * Cross(q, r)
           R == [ time |-> Between(p.time, x.time, t, denom), at |-> Point(p.at, x.at, t, denom),
                  dir |-> dir, num |-> t, den |-> denom ]
           away == \/ ~IsPositioned(p) \/ ~IsPositioned(x) \/ x.slow
                   \/ x.time <= p.time \/ x.time - p.time > MAX_FIX_GAP
                   \/ denom = 0 \/ ~Within(t, denom) \/ ~Within(u, denom)
<1>1. \A n : FindGateCrossing(p, x, SfGate, n) = IF away \/ n \notin {0, dir} THEN None ELSE R
  BY DEF FindGateCrossing, Meeting
<1>2. R.dir = dir /\ dir \in {-1, 1}
  OBVIOUS
<1> HIDE DEF away, R, dir
<1> QED BY <1>1, <1>2

(* A fraction of a stretch of time is within it. *)
LEMMA QuotientWithin ==
  ASSUME NEW n \in Int, NEW d \in Int, NEW D \in Int, 0 <= n, n <= d, d > 0, D >= 0
  PROVE  (n * D) \div d \in 0 .. D
OBVIOUS

LEMMA BetweenWithin ==
  ASSUME NEW x \in Int, NEW y \in Int, NEW num \in Int, NEW den \in Int,
         0 <= num, num <= den, den > 0, x <= y
  PROVE  x <= Between(x, y, num, den) /\ Between(x, y, num, den) <= y
<1>1. y - x \in Int /\ y - x >= 0
  OBVIOUS
<1>2. (num * (y - x)) \div den \in 0 .. (y - x)
  BY <1>1, QuotientWithin
<1> QED BY <1>2 DEF Between

(* What a crossing is made of: a fraction of the hop, at whose time and place it lies. *)
LEMMA CrossingParts ==
  ASSUME NEW p \in Sample, NEW x \in Sample, NEW gate \in [a : Plane, b : Plane],
         FindGateCrossing(p, x, gate, 0) # None
  PROVE  LET c == FindGateCrossing(p, x, gate, 0)
         IN  /\ p.at \in Plane /\ x.at \in Plane
             /\ p.time < x.time /\ x.time - p.time <= MAX_FIX_GAP
             /\ c.num \in Int /\ c.den \in Int
             /\ 0 <= c.num /\ c.num <= c.den /\ c.den > 0
             /\ c.time = Between(p.time, x.time, c.num, c.den)
             /\ c.at = Point(p.at, x.at, c.num, c.den)
<1> DEFINE r == Minus(x.at, p.at)
           g == Minus(gate.b, gate.a)
           q == Minus(gate.a, p.at)
           dir == IF Cross(r, g) > 0 THEN 1 ELSE -1
           denom == dir * Cross(r, g)
           t == dir * Cross(q, g)
           c == FindGateCrossing(p, x, gate, 0)
<1>1. /\ p.at \in Plane /\ x.at \in Plane /\ denom # 0
      /\ ~(x.time <= p.time) /\ ~(x.time - p.time > MAX_FIX_GAP)
      /\ Within(t, denom)
  BY DEF FindGateCrossing, Meeting, IsPositioned, Sample
<1>2. r \in Plane /\ g \in Plane /\ q \in Plane
  BY <1>1, MinusIsPlane
<1>3. Cross(r, g) \in Int /\ Cross(q, g) \in Int
  BY <1>2, CrossIsInt
<1>4. dir \in {-1, 1} /\ denom \in Int /\ denom > 0 /\ t \in Int
  <2>1. CASE Cross(r, g) > 0
    BY <2>1, <1>1, <1>3
  <2>2. CASE ~(Cross(r, g) > 0)
    BY <2>2, <1>1, <1>3
  <2> QED BY <2>1, <2>2
<1>5. /\ c.time = Between(p.time, x.time, t, denom)
      /\ c.at = Point(p.at, x.at, t, denom)
      /\ c.num = t /\ c.den = denom
  BY DEF FindGateCrossing, Meeting
<1> HIDE DEF dir, denom, t, c
<1>6. p.time < x.time /\ x.time - p.time <= MAX_FIX_GAP
  BY <1>1, SegmenterAssumption DEF Sample, SegmenterAssumption
<1> QED BY <1>1, <1>4, <1>5, <1>6 DEF c, Within

LEMMA FoundWithin ==
  ASSUME NEW p \in Sample, NEW x \in Sample, NEW gate \in [a : Plane, b : Plane],
         FindGateCrossing(p, x, gate, 0) # None
  PROVE  LET c == FindGateCrossing(p, x, gate, 0)
         IN  c.time \in Int /\ p.time <= c.time /\ c.time <= x.time
<1> DEFINE c == FindGateCrossing(p, x, gate, 0)
<1>1. /\ p.time < x.time /\ c.num \in Int /\ c.den \in Int
      /\ 0 <= c.num /\ c.num <= c.den /\ c.den > 0
      /\ c.time = Between(p.time, x.time, c.num, c.den)
  BY CrossingParts
<1> HIDE DEF c
<1>2. p.time \in Int /\ x.time \in Int /\ p.time <= x.time
  BY <1>1 DEF Sample
<1>3. PICK num \in Int, den \in Int : num = c.num /\ den = c.den
  BY <1>1
<1>4. 0 <= num /\ num <= den /\ den > 0 /\ c.time = Between(p.time, x.time, num, den)
  BY <1>1, <1>3
<1>5. Between(p.time, x.time, num, den) \in Int
  BY <1>2, <1>4, BetweenIsInt
<1>6. /\ p.time <= Between(p.time, x.time, num, den)
      /\ Between(p.time, x.time, num, den) <= x.time
  BY <1>2, <1>4, BetweenWithin
<1> QED BY <1>4, <1>5, <1>6 DEF c

(* A crossing has the two located fixes it lies between. *)
LEMMA RawHasHop ==
  ASSUME SegmenterAssumption, NEW s \in Seq(Sample), NEW j \in Raw(s)
  PROVE  \E i \in Before(s, j) :
           /\ i \in 1 .. Len(s) /\ j \in 1 .. Len(s) /\ i < j /\ i \in LocatedAt(s)
           /\ \A k \in LocatedAt(s) : k < j => k <= i
           /\ RawAt(s, j) = FindGateCrossing(s[i], s[j], SfGate, 0)
           /\ RawAt(s, j) # None
           /\ RawAt(s, j).time \in Int
           /\ s[i].time <= RawAt(s, j).time /\ RawAt(s, j).time <= s[j].time
<1>1. j \in 1 .. Len(s) /\ RawAt(s, j) # None
  BY DEF Raw, LocatedAt
<1>2. PICK i \in Before(s, j) : TRUE
  BY <1>1 DEF RawAt
<1>3. i \in LocatedAt(s) /\ i < j /\ \A k \in LocatedAt(s) : k < j => k <= i
  BY <1>2 DEF Before, LastOf
<1>4. i \in 1 .. Len(s)
  BY <1>3 DEF LocatedAt
<1>5. RawAt(s, j) = FindGateCrossing(s[i], s[j], SfGate, 0)
  BY <1>1, <1>2, RawIsFound
<1>6. s[i] \in Sample /\ s[j] \in Sample /\ SfGate \in [a : Plane, b : Plane]
  BY <1>1, <1>4 DEF SegmenterAssumption
<1>7. RawAt(s, j).time \in Int /\ s[i].time <= RawAt(s, j).time /\ RawAt(s, j).time <= s[j].time
  BY <1>1, <1>5, <1>6, FoundWithin
<1> QED BY <1>1, <1>2, <1>3, <1>4, <1>5, <1>7

(* Crossings come in the order of their fixes. *)
LEMMA RawAscends ==
  ASSUME SegmenterAssumption, NEW s \in Seq(Sample), Ascending(s),
         NEW i \in Raw(s), NEW j \in Raw(s), i < j
  PROVE  RawAt(s, i).time <= RawAt(s, j).time
<1>1. PICK h \in Before(s, j) :
        /\ h \in 1 .. Len(s) /\ j \in 1 .. Len(s)
        /\ \A k \in LocatedAt(s) : k < j => k <= h
        /\ RawAt(s, j).time \in Int /\ s[h].time <= RawAt(s, j).time
  BY RawHasHop
<1>2. i \in 1 .. Len(s) /\ i \in LocatedAt(s)
  BY DEF Raw, LocatedAt
<1>3. RawAt(s, i).time \in Int /\ RawAt(s, i).time <= s[i].time
  BY RawHasHop
<1>4. i <= h
  BY <1>1, <1>2
<1>5. s[i].time <= s[h].time /\ s[i].time \in Int /\ s[h].time \in Int
  <2>1. s[i] \in Sample /\ s[h] \in Sample
    BY <1>1, <1>2
  <2>2. i < h => s[i].time < s[h].time
    BY <1>1, <1>2 DEF Ascending
  <2> QED BY <1>1, <1>2, <1>4, <2>1, <2>2 DEF Sample
<1> QED BY <1>1, <1>3, <1>5

(* A listing with m after its n entries. *)
Extended(at, n, m) == [k \in 1 .. n + 1 |-> IF k = n + 1 THEN m ELSE at[k]]

LEMMA ExtendedIs ==
  ASSUME NEW at, NEW n \in Nat, NEW m
  PROVE  /\ DOMAIN Extended(at, n, m) = 1 .. n + 1
         /\ Extended(at, n, m)[n + 1] = m
         /\ \A k \in 1 .. n : Extended(at, n, m)[k] = at[k]
BY DEF Extended

(* The crossings that count, once there may be one more crossing. *)
LEMMA OneMore ==
  ASSUME NEW s, NEW x, NEW t, NEW m, Grown(s, x, t, m)
  PROVE  /\ Raw(t) = IF m \in Raw(t) THEN Raw(s) \cup {m} ELSE Raw(s)
         /\ \A j \in Raw(s) : j < m /\ ~(m < j) /\ m # j /\ RawAt(t, j) = RawAt(s, j)
         /\ ~(m < m)
<1>1. /\ \A j \in 1 .. Len(s) : RawAt(t, j) = RawAt(s, j)
      /\ Raw(t) = IF IsPositioned(x) /\ RawAt(t, m) # None THEN Raw(s) \cup {m} ELSE Raw(s)
      /\ Raw(s) \subseteq 1 .. Len(s)
  BY RawAppend
<1>2. Len(s) \in Nat /\ m = Len(s) + 1
  BY DEF Grown
<1> QED BY <1>1, <1>2

(* A crossing too soon, or the wrong way, leaves those that count as they were. *)
LEMMA CountedKept ==
  ASSUME NEW s, NEW x, NEW t, NEW m, Grown(s, x, t, m),
         NEW n \in Nat, NEW at, Counted(s, at, n),
         m \in Raw(t) => \E k \in 1 .. n :
           ~ /\ RawAt(s, at[k]).dir = RawAt(t, m).dir
             /\ RawAt(t, m).time - RawAt(s, at[k]).time >= MIN_LAP
  PROVE  Counted(t, at, n)
<1> DEFINE set == {at[k] : k \in 1 .. n}
<1>a. /\ Raw(t) = IF m \in Raw(t) THEN Raw(s) \cup {m} ELSE Raw(s)
      /\ \A j \in Raw(s) : j < m /\ ~(m < j) /\ m # j /\ RawAt(t, j) = RawAt(s, j)
  BY OneMore
<1>1. at \in [1 .. n -> Raw(s)] /\ Counting(s, set) /\ set \subseteq Raw(s)
  BY DEF Counted
<1>2. \A k \in 1 .. n : at[k] \in set
  OBVIOUS
<1> HIDE DEF set
<1>3. ASSUME NEW j \in Raw(s)
      PROVE  j \in set <=>
               \A i \in set : i < j => /\ RawAt(t, i).dir = RawAt(t, j).dir
                                       /\ RawAt(t, j).time - RawAt(t, i).time >= MIN_LAP
  BY <1>a, <1>1 DEF Counting
<1>4. ASSUME m \in Raw(t)
      PROVE  m \notin set /\ \E i \in set :
               i < m /\ ~ /\ RawAt(t, i).dir = RawAt(t, m).dir
                          /\ RawAt(t, m).time - RawAt(t, i).time >= MIN_LAP
  BY <1>a, <1>1, <1>2, <1>4
<1>5. Counting(t, set)
  BY <1>a, <1>3, <1>4 DEF Counting
<1>6. at \in [1 .. n -> Raw(t)]
  BY <1>a, <1>1
<1> QED BY <1>5, <1>6 DEF Counted, set

(* Any other is the next one that counts. *)
LEMMA CountedMore ==
  ASSUME NEW s, NEW x, NEW t, NEW m, Grown(s, x, t, m), m \in Raw(t),
         NEW n \in Nat, NEW at, Counted(s, at, n),
         \A k \in 1 .. n :
           /\ RawAt(s, at[k]).dir = RawAt(t, m).dir
           /\ RawAt(t, m).time - RawAt(s, at[k]).time >= MIN_LAP
  PROVE  Counted(t, Extended(at, n, m), n + 1)
<1> DEFINE set == {at[k] : k \in 1 .. n}
<1> PICK more : more = Extended(at, n, m)
  OBVIOUS
<1>a. /\ Raw(t) = Raw(s) \cup {m} /\ ~(m < m)
      /\ \A j \in Raw(s) : j < m /\ ~(m < j) /\ m # j /\ RawAt(t, j) = RawAt(s, j)
  BY OneMore
<1>1. at \in [1 .. n -> Raw(s)] /\ Counting(s, set) /\ set \subseteq Raw(s)
  BY DEF Counted
<1>2. \A k \in 1 .. n : more[k] = at[k]
  BY ExtendedIs
<1>3. more[n + 1] = m /\ \A k \in 1 .. n + 1 : k \in 1 .. n \/ k = n + 1
  <2>1. more[n + 1] = m
    BY ExtendedIs
  <2> QED BY <2>1
<1>4. more \in [1 .. n + 1 -> Raw(t)]
  BY <1>a, <1>1 DEF Extended
<1>5. DOMAIN more = 1 .. n + 1
  BY ExtendedIs
<1>6. {more[k] : k \in 1 .. n + 1} = set \cup {m}
  <2>1. n + 1 \in 1 .. n + 1 /\ \A k \in 1 .. n : k \in 1 .. n + 1
    OBVIOUS
  <2> QED BY <1>2, <1>3, <2>1
<1>7. \A k, l \in 1 .. n + 1 : k < l => more[k] < more[l]
  <2> SUFFICES ASSUME NEW k \in 1 .. n + 1, NEW l \in 1 .. n + 1, k < l
               PROVE  more[k] < more[l]
    OBVIOUS
  <2>1. k \in 1 .. n
    OBVIOUS
  <2>2. CASE l = n + 1
    BY <2>1, <2>2, <1>a, <1>1, <1>2, <1>3
  <2>3. CASE l # n + 1
    <3>1. l \in 1 .. n
      BY <2>3
    <3>2. at[k] < at[l]
      BY <2>1, <3>1 DEF Counted
    <3> QED BY <2>1, <3>1, <3>2, <1>2
  <2> QED BY <2>2, <2>3
<1> HIDE DEF set
<1>8. ASSUME NEW j \in Raw(s)
      PROVE  j \in set \cup {m} <=>
               \A i \in set \cup {m} : i < j =>
                  /\ RawAt(t, i).dir = RawAt(t, j).dir
                  /\ RawAt(t, j).time - RawAt(t, i).time >= MIN_LAP
  BY <1>a, <1>1 DEF Counting
<1>9. \A i \in set \cup {m} : i < m =>
         /\ RawAt(t, i).dir = RawAt(t, m).dir
         /\ RawAt(t, m).time - RawAt(t, i).time >= MIN_LAP
  <2>1. \A i \in set : \E k \in 1 .. n : i = at[k]
    BY DEF set
  <2> QED BY <1>a, <1>1, <2>1
<1>10. Counting(t, set \cup {m})
  BY <1>a, <1>8, <1>9 DEF Counting
<1> QED BY <1>4, <1>6, <1>7, <1>10 DEF Counted

(* A stretch that has ended gains no point, and one under way gains the new fix. *)
LEMMA StretchKept ==
  ASSUME NEW s, NEW x, NEW t, NEW m, Grown(s, x, t, m)
  PROVE  \A i \in 1 .. m, j \in 1 .. m : Stretch(t, i, j) = Stretch(s, i, j)
<1>1. /\ LocatedAt(t) = IF IsPositioned(x) THEN LocatedAt(s) \cup {m} ELSE LocatedAt(s)
      /\ LocatedAt(s) \subseteq 1 .. Len(s) /\ Len(s) \in Nat /\ m = Len(s) + 1
      /\ \A k \in 1 .. Len(s) : t[k] = s[k]
  BY LocatedAppend DEF Grown
<1> TAKE i \in 1 .. m, j \in 1 .. m
<1>2. {k \in LocatedAt(t) : i <= k /\ k < j} = {k \in LocatedAt(s) : i <= k /\ k < j}
  BY <1>1
<1>3. \A k \in {k \in LocatedAt(s) : i <= k /\ k < j} : t[k] = s[k]
  BY <1>1
<1> QED BY <1>2, <1>3 DEF Stretch

LEMMA StretchMore ==
  ASSUME NEW s, NEW x, NEW t, NEW m, Grown(s, x, t, m), NEW i \in 1 .. m
  PROVE  /\ IsPositioned(x) =>
              Stretch(t, i, Len(t) + 1) = Stretch(s, i, Len(s) + 1) \cup {PointOf(x)}
         /\ ~IsPositioned(x) => Stretch(t, i, Len(t) + 1) = Stretch(s, i, Len(s) + 1)
<1>1. /\ LocatedAt(t) = IF IsPositioned(x) THEN LocatedAt(s) \cup {m} ELSE LocatedAt(s)
      /\ LocatedAt(s) \subseteq 1 .. Len(s) /\ Len(s) \in Nat /\ m = Len(s) + 1
      /\ t[m] = x /\ Len(t) = m /\ \A k \in 1 .. Len(s) : t[k] = s[k]
  BY LocatedAppend DEF Grown
<1> DEFINE set == {k \in LocatedAt(s) : i <= k /\ k < Len(s) + 1}
<1>2. {k \in LocatedAt(t) : i <= k /\ k < Len(t) + 1} = IF IsPositioned(x) THEN set \cup {m} ELSE set
  BY <1>1
<1>3. \A k \in set : t[k] = s[k]
  BY <1>1
<1>4. Stretch(s, i, Len(s) + 1) = {PointOf(s[k]) : k \in set}
  BY DEF Stretch
<1> HIDE DEF set
<1> QED BY <1>1, <1>2, <1>3, <1>4 DEF Stretch

LEMMA ToSetAppend ==
  ASSUME NEW S, NEW p \in Seq(S), NEW e \in S
  PROVE  ToSet(Append(p, e)) = ToSet(p) \cup {e}
<1>1. DOMAIN Append(p, e) = 1 .. Len(p) + 1 /\ DOMAIN p = 1 .. Len(p) /\ Len(p) \in Nat
  OBVIOUS
<1>2. /\ \A k \in 1 .. Len(p) : Append(p, e)[k] = p[k]
      /\ Append(p, e)[Len(p) + 1] = e
  OBVIOUS
<1>3. 1 .. Len(p) + 1 = (1 .. Len(p)) \cup {Len(p) + 1}
  BY <1>1
<1> QED BY <1>1, <1>2, <1>3 DEF ToSet

(* What was said of the laps so far is said of them still, with a sample more. *)
LEMMA LapsKept ==
  ASSUME NEW s, NEW x, NEW t, NEW m, Grown(s, x, t, m),
         NEW n \in Nat, NEW at \in [1 .. n -> Raw(s)], Runs(s, at, n), Holds(s, at)
  PROVE  Runs(t, at, n) /\ Holds(t, at)
<1> SUFFICES ASSUME NEW k \in DOMAIN laps
             PROVE  /\ laps[k].number = k
                    /\ laps[k].start = RawAt(t, at[k]).time
                    /\ laps[k].end = RawAt(t, at[k + 1]).time
                    /\ ToSet(laps[k].points) =
                         {PointOf(RawAt(t, at[k])), PointOf(RawAt(t, at[k + 1]))}
                           \cup Stretch(t, at[k], at[k + 1])
  BY DEF Runs, Holds
<1>1. k \in 1 .. n /\ k + 1 \in 1 .. n
  BY DEF Runs
<1>2. Raw(s) \subseteq 1 .. Len(s) /\ \A j \in 1 .. Len(s) : RawAt(t, j) = RawAt(s, j)
  BY RawAppend
<1>3. at[k] \in 1 .. Len(s) /\ at[k + 1] \in 1 .. Len(s)
  BY <1>1, <1>2
<1>4. at[k] \in 1 .. m /\ at[k + 1] \in 1 .. m
  <2>1. Len(s) \in Nat /\ m = Len(s) + 1
    BY DEF Grown
  <2> QED BY <1>3, <2>1
<1>5. Stretch(t, at[k], at[k + 1]) = Stretch(s, at[k], at[k + 1])
  <2>1. \A i \in 1 .. m, j \in 1 .. m : Stretch(t, i, j) = Stretch(s, i, j)
    BY StretchKept
  <2> QED BY <1>4, <2>1
<1>6. RawAt(t, at[k]) = RawAt(s, at[k]) /\ RawAt(t, at[k + 1]) = RawAt(s, at[k + 1])
  BY <1>2, <1>3
<1>7. /\ laps[k].number = k
      /\ laps[k].start = RawAt(s, at[k]).time /\ laps[k].end = RawAt(s, at[k + 1]).time
  BY DEF Runs
<1>8. ToSet(laps[k].points) =
        {PointOf(RawAt(s, at[k])), PointOf(RawAt(s, at[k + 1]))} \cup Stretch(s, at[k], at[k + 1])
  BY DEF Holds
<1> QED BY <1>5, <1>6, <1>7, <1>8

(* The crossing of the next sample is the one of the line, if it goes the way that was latched. *)
LEMMA CrossingIsRaw ==
  ASSUME SegmenterAssumption, TypeOK, PrevIsLast, NEW x, NEW t, NEW m,
         Grown(samples, x, t, m)
  PROVE  Crossing(x) = IF RawAt(t, m) # None /\ dirSign \in {0, RawAt(t, m).dir}
                       THEN RawAt(t, m) ELSE None
<1>1. samples \in Seq(Sample) /\ dirSign \in {-1, 0, 1}
  BY DEF TypeOK
<1>2. /\ LocatedAt(samples) = {} => RawAt(t, m) = None
      /\ \A i \in LastOf(LocatedAt(samples)) :
            RawAt(t, m) = FindGateCrossing(samples[i], x, SfGate, 0)
  BY RawAppend
<1>3. CASE prev = None /\ LocatedAt(samples) = {}
  BY <1>2, <1>3 DEF Crossing
<1>4. CASE ~(prev = None /\ LocatedAt(samples) = {})
  <2>1. PICK i \in LastOf(LocatedAt(samples)) : prev = samples[i]
    BY <1>4 DEF PrevIsLast
  <2>2. prev # None
    <3>1. i \in DOMAIN samples
      BY <2>1 DEF LastOf, LocatedAt
    <3> QED BY <1>1, <2>1, <3>1 DEF SegmenterAssumption
  <2>3. RawAt(t, m) = FindGateCrossing(prev, x, SfGate, 0)
    BY <1>2, <2>1
  <2>4. Crossing(x) = FindGateCrossing(prev, x, SfGate, dirSign)
    BY <2>2 DEF Crossing
  <2> QED BY <1>1, <2>3, <2>4, FoundDirected
<1> QED BY <1>3, <1>4

(* What the larger invariant says of the types. *)
LEMMA CrossingsTyped ==
  ASSUME CrossingsInv
  PROVE  /\ samples \in Seq(Sample) /\ points \in Seq(LapPoint) /\ laps \in Seq(LapResult)
         /\ lapNumber \in Nat /\ Len(samples) \in Nat /\ TypeOK
BY DEF CrossingsInv, SegmenterInv, TypeOK

(* The hop from the fix before, once the next sample has been taken. *)
LEMMA PrevKept ==
  ASSUME PrevIsLast, NEW x, NEW m, Grown(samples, x, samples', m),
         prev' = IF IsPositioned(x) THEN x ELSE prev
  PROVE  PrevIsLast'
<1>1. /\ LocatedAt(samples') = IF IsPositioned(x) THEN LocatedAt(samples) \cup {m}
                               ELSE LocatedAt(samples)
      /\ LocatedAt(samples) \subseteq 1 .. Len(samples) /\ Len(samples) \in Nat
      /\ samples'[m] = x /\ \A i \in 1 .. Len(samples) : samples'[i] = samples[i]
      /\ m = Len(samples) + 1
  BY LocatedAppend DEF Grown
<1>2. CASE IsPositioned(x)
  <2>1. LocatedAt(samples') = LocatedAt(samples) \cup {m}
    BY <1>1, <1>2
  <2>2. m \in LastOf(LocatedAt(samples'))
    BY <1>1, <2>1 DEF LastOf
  <2> QED BY <1>1, <1>2, <2>2 DEF PrevIsLast
<1>3. CASE ~IsPositioned(x)
  <2>1. LocatedAt(samples') = LocatedAt(samples) /\ prev' = prev
    BY <1>1, <1>3
  <2>2. LastOf(LocatedAt(samples)) \subseteq 1 .. Len(samples)
    BY <1>1 DEF LastOf
  <2> QED BY <1>1, <2>1, <2>2 DEF PrevIsLast
<1> QED BY <1>2, <1>3

(* A fix that no crossing that counts lies before. *)
LEMMA NotAcrossInv ==
  ASSUME CrossingsInv, SegmenterInv', Ascending(samples'), PrevIsLast',
         NEW x, NEW m, Grown(samples, x, samples', m),
         UNCHANGED <<dirSign, lapNumber, laps>>,
         points' = IF points = <<>> \/ ~IsPositioned(x) THEN points ELSE Append(points, PointOf(x)),
         NEW at \in [1 .. lapNumber -> Raw(samples)],
         Counted(samples, at, lapNumber), Runs(samples, at, lapNumber),
         Holds(samples, at), Underway(samples, at, lapNumber),
         m \in Raw(samples') => \E k \in 1 .. lapNumber :
           ~ /\ RawAt(samples, at[k]).dir = RawAt(samples', m).dir
             /\ RawAt(samples', m).time - RawAt(samples, at[k]).time >= MIN_LAP
  PROVE  CrossingsInv'
<1>1. /\ samples \in Seq(Sample) /\ points \in Seq(LapPoint) /\ lapNumber \in Nat
      /\ Len(samples) \in Nat /\ m = Len(samples) + 1 /\ Len(samples') = m
  BY CrossingsTyped DEF Grown
<1>2. /\ \A j \in 1 .. Len(samples) : RawAt(samples', j) = RawAt(samples, j)
      /\ Raw(samples') = IF IsPositioned(x) /\ RawAt(samples', m) # None
                         THEN Raw(samples) \cup {m} ELSE Raw(samples)
      /\ Raw(samples) \subseteq 1 .. Len(samples)
  BY RawAppend
<1>3. \A j \in Raw(samples) :
        j < m /\ ~(m < j) /\ m # j /\ RawAt(samples', j) = RawAt(samples, j)
  BY <1>1, <1>2
<1>4. Raw(samples) \subseteq Raw(samples') /\ Raw(samples') \subseteq Raw(samples) \cup {m}
  BY <1>2
<1>5. Counted(samples, at, lapNumber)'
  <2>1. Counted(samples', at, lapNumber)
    BY <1>1, CountedKept
  <2> QED BY <2>1 DEF Counted, Counting
<1>6. Runs(samples, at, lapNumber)' /\ Holds(samples, at)'
  <2>1. Runs(samples', at, lapNumber) /\ Holds(samples', at)
    BY <1>1, LapsKept
  <2>2. laps' = laps /\ lapNumber' = lapNumber
    OBVIOUS
  <2>3. Runs(samples, at, lapNumber)'
    BY <2>1, <2>2 DEF Runs
  <2>4. Holds(samples, at)'
    BY <2>1, <2>2 DEF Holds
  <2> QED BY <2>3, <2>4
<1>7. Underway(samples, at, lapNumber)'
  <2>1. CASE lapNumber = 0
    BY <2>1 DEF Underway
  <2>2. CASE lapNumber # 0
    <3> DEFINE a == at[lapNumber]
               anchor == PointOf(RawAt(samples, a))
    <3>1. /\ dirSign = RawAt(samples, a).dir /\ points[1] = anchor
          /\ ToSet(points) = {anchor} \cup Stretch(samples, a, Len(samples) + 1)
      BY <1>1, <2>2 DEF Underway
    <3>2. points # <<>>
      BY <2>2 DEF CrossingsInv, SegmenterInv, RunningIsNext
    <3>3. a \in 1 .. Len(samples) /\ a \in 1 .. m
      BY <1>1, <1>2, <2>2
    <3> HIDE DEF a
    <3>4. /\ IsPositioned(x) => Stretch(samples', a, Len(samples') + 1)
                                  = Stretch(samples, a, Len(samples) + 1) \cup {PointOf(x)}
          /\ ~IsPositioned(x) => Stretch(samples', a, Len(samples') + 1)
                                   = Stretch(samples, a, Len(samples) + 1)
      BY <3>3, StretchMore
    <3>5. anchor = PointOf(RawAt(samples', a)) /\ dirSign = RawAt(samples', a).dir
      BY <1>2, <3>1, <3>3
    <3> HIDE DEF anchor
    <3>6. points'[1] = anchor /\ ToSet(points') = {anchor} \cup Stretch(samples', a, Len(samples') + 1)
      <4>1. CASE ~IsPositioned(x)
        BY <4>1, <3>1, <3>4
      <4>2. CASE IsPositioned(x)
        <5>1. PointOf(x) \in LapPoint
          BY <4>2 DEF PointOf, LapPoint, Grown, Sample, IsPositioned
        <5>2. points' = Append(points, PointOf(x))
          BY <4>2, <3>2
        <5>3. ToSet(points') = ToSet(points) \cup {PointOf(x)}
          BY <1>1, <5>1, <5>2, ToSetAppend
        <5>4. points'[1] = points[1]
          BY <1>1, <3>2, <5>1, <5>2
        <5> QED BY <4>2, <3>1, <3>4, <5>3, <5>4
      <4> QED BY <4>1, <4>2
    <3>7. lapNumber' = lapNumber /\ dirSign' = dirSign
      OBVIOUS
    <3> QED BY <2>2, <3>5, <3>6, <3>7 DEF Underway, a
  <2> QED BY <2>1, <2>2
<1>8. at \in [1 .. lapNumber -> Raw(samples)]'
  <2>1. at \in [1 .. lapNumber -> Raw(samples')]
    BY <1>4
  <2> QED BY <2>1 DEF Raw, LocatedAt, RawAt, Before
<1> QED BY <1>5, <1>6, <1>7, <1>8 DEF CrossingsInv

(* A crossing is an instant, a direction and a point of a lap. *)
LEMMA RawTyped ==
  ASSUME SegmenterAssumption, NEW s \in Seq(Sample), NEW j \in Raw(s)
  PROVE  /\ RawAt(s, j).time \in Int /\ RawAt(s, j).dir \in {-1, 1}
         /\ PointOf(RawAt(s, j)) \in LapPoint
<1>1. PICK i \in 1 .. Len(s) :
        j \in 1 .. Len(s) /\ RawAt(s, j) = FindGateCrossing(s[i], s[j], SfGate, 0)
        /\ RawAt(s, j) # None
  BY RawHasHop
<1>2. s[i] \in Sample /\ s[j] \in Sample /\ SfGate \in [a : Plane, b : Plane] /\ 0 \in {-1, 0, 1}
  BY <1>1 DEF SegmenterAssumption
<1>3. RawAt(s, j).time \in Int /\ RawAt(s, j).at \in Plane /\ RawAt(s, j).dir \in {-1, 1}
  BY <1>1, <1>2, CrossingTyped
<1> QED BY <1>3 DEF PointOf, LapPoint

(* The last of the crossings that count speaks for those before it. *)
LEMMA LastSpeaks ==
  ASSUME SegmenterAssumption, NEW s \in Seq(Sample), Ascending(s), NEW n \in Nat, n # 0,
         NEW at, Counted(s, at, n), NEW k \in 1 .. n
  PROVE  /\ RawAt(s, at[k]).dir = RawAt(s, at[n]).dir
         /\ RawAt(s, at[k]).time <= RawAt(s, at[n]).time
<1>1. at \in [1 .. n -> Raw(s)] /\ n \in 1 .. n
  BY DEF Counted
<1>2. at[k] \in Raw(s) /\ at[n] \in Raw(s)
  BY <1>1
<1>3. CASE k = n
  BY <1>2, <1>3, RawTyped
<1>4. CASE k # n
  <2>1. at[k] < at[n]
    BY <1>1, <1>4 DEF Counted
  <2>2. RawAt(s, at[k]).dir = RawAt(s, at[n]).dir
    <3> DEFINE set == {at[l] : l \in 1 .. n}
    <3>1. Counting(s, set) /\ at[k] \in set /\ at[n] \in set
      BY <1>1 DEF Counted
    <3> HIDE DEF set
    <3> QED BY <1>2, <2>1, <3>1 DEF Counting
  <2> QED BY <1>2, <2>1, <2>2, RawAscends
<1> QED BY <1>3, <1>4

(* The crossings of a sample that is only dropped are those before it. *)
LEMMA UnlocatedCross ==
  ASSUME SegmenterAssumption, CrossingsInv, NEW x \in Sample, Ascending(samples'), PushUnlocated(x)
  PROVE  CrossingsInv'
<1> PICK m : m = Len(samples) + 1
  OBVIOUS
<1>1. /\ ~IsPositioned(x) /\ samples' = Append(samples, x)
      /\ UNCHANGED <<prev, dirSign, lapNumber, points, laps>>
  BY DEF PushUnlocated
<1>2. Grown(samples, x, samples', m)
  BY <1>1, CrossingsTyped DEF Grown
<1>3. PrevIsLast'
  BY <1>1, <1>2, PrevKept DEF CrossingsInv
<1>4. SegmenterInv'
  BY UnlocatedInv DEF CrossingsInv
<1>5. PICK at \in [1 .. lapNumber -> Raw(samples)] :
        /\ Counted(samples, at, lapNumber) /\ Runs(samples, at, lapNumber)
        /\ Holds(samples, at) /\ Underway(samples, at, lapNumber)
  BY DEF CrossingsInv
<1>6. m \notin Raw(samples')
  <2>1. /\ Raw(samples') = IF IsPositioned(x) /\ RawAt(samples', m) # None
                           THEN Raw(samples) \cup {m} ELSE Raw(samples)
        /\ Raw(samples) \subseteq 1 .. Len(samples)
    BY <1>2, RawAppend
  <2>2. Len(samples) \in Nat
    BY CrossingsTyped
  <2> QED BY <1>1, <2>1, <2>2
<1> QED BY <1>1, <1>2, <1>3, <1>4, <1>5, <1>6, NotAcrossInv

(* No lap runs before the first crossing that counts. *)
LEMMA NoLapNoPoints ==
  ASSUME CrossingsInv
  PROVE  points = <<>> <=> lapNumber = 0
BY DEF CrossingsInv, SegmenterInv, TypeOK, RunningIsNext

(* A crossing that is not accepted is one that does not count. *)
LEMMA WithinCross ==
  ASSUME SegmenterAssumption, CrossingsInv, NEW x \in Sample, Ascending(samples'), PushWithin(x)
  PROVE  CrossingsInv'
<1> PICK m : m = Len(samples) + 1
  OBVIOUS
<1>1. /\ IsPositioned(x) /\ samples' = Append(samples, x) /\ prev' = x
      /\ Crossing(x) # None => ~AcceptCrossing(Crossing(x).time)
      /\ points' = IF points = <<>> THEN points ELSE Append(points, PointOf(x))
      /\ UNCHANGED <<dirSign, lapNumber, laps>>
  BY DEF PushWithin
<1>2. Grown(samples, x, samples', m)
  BY <1>1, CrossingsTyped DEF Grown
<1>3. PrevIsLast'
  BY <1>1, <1>2, PrevKept DEF CrossingsInv
<1>4. SegmenterInv'
  BY WithinInv DEF CrossingsInv
<1>5. PICK at \in [1 .. lapNumber -> Raw(samples)] :
        /\ Counted(samples, at, lapNumber) /\ Runs(samples, at, lapNumber)
        /\ Holds(samples, at) /\ Underway(samples, at, lapNumber)
  BY DEF CrossingsInv
<1>6. ASSUME m \in Raw(samples')
      PROVE  \E k \in 1 .. lapNumber :
               ~ /\ RawAt(samples, at[k]).dir = RawAt(samples', m).dir
                 /\ RawAt(samples', m).time - RawAt(samples, at[k]).time >= MIN_LAP
  <2> PICK c : c = RawAt(samples', m)
    OBVIOUS
  <2>1. c # None
    BY <1>6 DEF Raw
  <2>2. Crossing(x) = IF dirSign \in {0, c.dir} THEN c ELSE None
    BY <1>2, <2>1, CrossingIsRaw, CrossingsTyped DEF CrossingsInv
  <2>3. CASE lapNumber = 0
    <3>1. dirSign = 0 /\ points = <<>>
      BY <1>5, <2>3, NoLapNoPoints DEF Underway
    <3> QED BY <1>1, <2>1, <2>2, <3>1 DEF AcceptCrossing
  <2>4. CASE lapNumber # 0
    <3>1. lapNumber \in 1 .. lapNumber
      BY <2>4, CrossingsTyped
    <3>2. /\ dirSign = RawAt(samples, at[lapNumber]).dir
          /\ points[1].time = RawAt(samples, at[lapNumber]).time
      BY <1>5, <2>4 DEF Underway, PointOf
    <3>3. Crossing(x) # None => ~(c.time - points[1].time >= MIN_LAP)
      BY <1>1, <2>2, <2>4, NoLapNoPoints DEF AcceptCrossing
    <3>4. ~ /\ RawAt(samples, at[lapNumber]).dir = c.dir
            /\ c.time - RawAt(samples, at[lapNumber]).time >= MIN_LAP
      BY <2>1, <2>2, <3>2, <3>3
    <3> QED BY <3>1, <3>4
  <2> QED BY <2>3, <2>4
<1> QED BY <1>1, <1>2, <1>3, <1>4, <1>5, <1>6, NotAcrossInv

(* The lap that closes runs from the last crossing that counts to the next. *)
LEMMA LapsMore ==
  ASSUME NEW x, NEW m, Grown(samples, x, samples', m), laps \in Seq(LapResult), points \in Seq(LapPoint),
         NEW n \in Nat, n # 0, n = lapNumber, NEW at \in [1 .. n -> Raw(samples)],
         Runs(samples, at, n), Holds(samples, at), Underway(samples, at, n),
         NEW lap \in LapResult,
         lap.number = n, lap.start = points[1].time, lap.end = RawAt(samples', m).time,
         ToSet(lap.points) = ToSet(points) \cup {PointOf(RawAt(samples', m))},
         laps' = Append(laps, lap)
  PROVE  Runs(samples, Extended(at, n, m), n + 1)' /\ Holds(samples, Extended(at, n, m))'
<1> PICK more : more = Extended(at, n, m)
  OBVIOUS
<1>1. /\ more[n + 1] = m /\ \A k \in 1 .. n : more[k] = at[k]
  BY ExtendedIs
<1>2. Runs(samples', at, n) /\ Holds(samples', at)
  BY LapsKept
<1>3. DOMAIN laps = 1 .. n - 1 /\ Len(laps) = n - 1
  BY DEF Runs
<1>4. DOMAIN laps' = 1 .. n /\ laps'[n] = lap /\ \A k \in 1 .. n - 1 : laps'[k] = laps[k]
  BY <1>3
<1>5. \A k \in 1 .. n : k = n \/ (k \in 1 .. n - 1 /\ k + 1 \in 1 .. n)
  OBVIOUS
<1>6. n \in 1 .. n
  OBVIOUS
<1>7. /\ \A j \in 1 .. Len(samples) : RawAt(samples', j) = RawAt(samples, j)
      /\ Raw(samples) \subseteq 1 .. Len(samples)
  BY RawAppend
<1> PICK a : a = at[n]
  OBVIOUS
<1>8. a \in 1 .. Len(samples) /\ RawAt(samples', a) = RawAt(samples, a)
  BY <1>6, <1>7
<1>9. /\ points[1] = PointOf(RawAt(samples', a))
      /\ ToSet(points) = {PointOf(RawAt(samples', a))} \cup Stretch(samples, a, Len(samples) + 1)
  BY <1>8 DEF Underway
<1>10. Stretch(samples, a, Len(samples) + 1) = Stretch(samples', a, m)
  <2>1. a \in 1 .. m /\ m \in 1 .. m /\ m = Len(samples) + 1
    BY <1>8 DEF Grown
  <2>2. \A i \in 1 .. m, j \in 1 .. m : Stretch(samples', i, j) = Stretch(samples, i, j)
    BY StretchKept
  <2> QED BY <2>1, <2>2
<1> HIDE DEF Grown
<1>11. ASSUME NEW k \in 1 .. n
       PROVE  /\ laps'[k].number = k
              /\ laps'[k].start = RawAt(samples', more[k]).time
              /\ laps'[k].end = RawAt(samples', more[k + 1]).time
              /\ ToSet(laps'[k].points) =
                   {PointOf(RawAt(samples', more[k])), PointOf(RawAt(samples', more[k + 1]))}
                     \cup Stretch(samples', more[k], more[k + 1])
  <2>1. CASE k = n
    <3>1. more[k] = a /\ more[k + 1] = m /\ laps'[k] = lap
      BY <1>1, <1>4, <1>6, <2>1
    <3>2. lap.start = RawAt(samples', a).time
      BY <1>9 DEF PointOf
    <3> QED BY <1>9, <1>10, <2>1, <3>1, <3>2
  <2>2. CASE k # n
    <3>1. k \in 1 .. n - 1 /\ k + 1 \in 1 .. n
      BY <1>5, <2>2
    <3>2. more[k] = at[k] /\ more[k + 1] = at[k + 1] /\ laps'[k] = laps[k] /\ k \in DOMAIN laps
      BY <1>1, <1>3, <1>4, <3>1
    <3>3. /\ laps[k].number = k
          /\ laps[k].start = RawAt(samples', at[k]).time
          /\ laps[k].end = RawAt(samples', at[k + 1]).time
      BY <1>2, <3>2 DEF Runs
    <3>4. ToSet(laps[k].points) =
            {PointOf(RawAt(samples', at[k])), PointOf(RawAt(samples', at[k + 1]))}
              \cup Stretch(samples', at[k], at[k + 1])
      BY <1>2, <3>2 DEF Holds
    <3> QED BY <3>2, <3>3, <3>4
  <2> QED BY <2>1, <2>2
<1>12. n + 1 - 1 = n
  OBVIOUS
<1>13. Runs(samples, more, n + 1)'
  <2>1. DOMAIN laps' = 1 .. n + 1 - 1
    BY <1>4, <1>12
  <2>2. \A k \in DOMAIN laps' :
          /\ laps'[k].number = k
          /\ laps'[k].start = RawAt(samples', more[k]).time
          /\ laps'[k].end = RawAt(samples', more[k + 1]).time
    BY <1>4, <1>11
  <2> QED BY <2>1, <2>2 DEF Runs
<1>14. Holds(samples, more)'
  BY <1>4, <1>11 DEF Holds
<1> QED BY <1>13, <1>14

(* One that is accepted closes the lap and begins the next. *)
LEMMA AcrossCross ==
  ASSUME SegmenterAssumption, CrossingsInv, NEW x \in Sample, Ascending(samples'), PushAcross(x)
  PROVE  CrossingsInv'
<1> PICK m : m = Len(samples) + 1
  OBVIOUS
<1> PICK n \in Nat : n = lapNumber
  BY CrossingsTyped
<1> DEFINE c == Crossing(x)
           anchor == PointOf(c)
<1>1. /\ IsPositioned(x) /\ c # None /\ AcceptCrossing(c.time)
      /\ samples' = Append(samples, x) /\ prev' = x
      /\ dirSign' = IF dirSign = 0 THEN c.dir ELSE dirSign
      /\ laps' = Closed(anchor) /\ lapNumber' = n + 1
      /\ points' = <<anchor, PointOf(x)>>
  BY DEF PushAcross
<1>2. Grown(samples, x, samples', m) /\ samples' \in Seq(Sample) /\ m \in Nat /\ Len(samples') = m
  BY <1>1, CrossingsTyped DEF Grown
<1>3. PrevIsLast'
  BY <1>1, <1>2, PrevKept DEF CrossingsInv
<1>4. SegmenterInv'
  BY AcrossInv DEF CrossingsInv
<1>5. PICK at \in [1 .. n -> Raw(samples)] :
        /\ Counted(samples, at, n) /\ Runs(samples, at, n)
        /\ Holds(samples, at) /\ Underway(samples, at, n)
  BY DEF CrossingsInv
<1>6. c = RawAt(samples', m) /\ dirSign \in {0, c.dir}
  <2>1. c = IF RawAt(samples', m) # None /\ dirSign \in {0, RawAt(samples', m).dir}
            THEN RawAt(samples', m) ELSE None
    BY <1>2, CrossingIsRaw, CrossingsTyped DEF CrossingsInv
  <2> HIDE DEF c
  <2> QED BY <1>1, <2>1
<1> HIDE DEF c, anchor
<1>7. /\ Raw(samples') = Raw(samples) \cup {m} /\ Raw(samples) \subseteq 1 .. Len(samples)
      /\ \A j \in 1 .. Len(samples) : RawAt(samples', j) = RawAt(samples, j)
  <2>1. /\ \A j \in 1 .. Len(samples) : RawAt(samples', j) = RawAt(samples, j)
        /\ Raw(samples') = IF IsPositioned(x) /\ RawAt(samples', m) # None
                           THEN Raw(samples) \cup {m} ELSE Raw(samples)
        /\ Raw(samples) \subseteq 1 .. Len(samples)
    BY <1>2, RawAppend
  <2> QED BY <1>1, <1>6, <2>1
<1>8. c.time \in Int /\ c.dir \in {-1, 1} /\ anchor \in LapPoint
  <2>1. m \in Raw(samples')
    BY <1>7
  <2> QED BY <1>2, <1>6, <2>1, RawTyped DEF anchor
<1>9. PointOf(x) \in LapPoint
  BY <1>1 DEF PointOf, LapPoint, Sample, IsPositioned
<1> PICK more : more = Extended(at, n, m)
  OBVIOUS
<1>10. \A k \in 1 .. n : /\ RawAt(samples, at[k]).dir = c.dir
                         /\ c.time - RawAt(samples, at[k]).time >= MIN_LAP
  <2> SUFFICES ASSUME NEW k \in 1 .. n
               PROVE  /\ RawAt(samples, at[k]).dir = c.dir
                      /\ c.time - RawAt(samples, at[k]).time >= MIN_LAP
    OBVIOUS
  <2>1. n # 0 /\ n \in 1 .. n
    OBVIOUS
  <2>2. dirSign = RawAt(samples, at[n]).dir /\ points[1].time = RawAt(samples, at[n]).time
    BY <1>5, <2>1 DEF Underway, PointOf
  <2>3. c.time - RawAt(samples, at[n]).time >= MIN_LAP
    BY <1>1, <2>1, <2>2, NoLapNoPoints DEF AcceptCrossing
  <2>4. /\ RawAt(samples, at[k]).dir = RawAt(samples, at[n]).dir
        /\ RawAt(samples, at[k]).time <= RawAt(samples, at[n]).time
    <3>1. samples \in Seq(Sample) /\ Ascending(samples) /\ Counted(samples, at, n)
      BY <1>5, CrossingsTyped DEF CrossingsInv
    <3> QED BY <2>1, <3>1, LastSpeaks
  <2>5. at[k] \in Raw(samples) /\ at[n] \in Raw(samples)
    BY <2>1
  <2>6. /\ RawAt(samples, at[k]).time \in Int
        /\ RawAt(samples, at[n]).time \in Int /\ RawAt(samples, at[n]).dir \in {-1, 1}
    BY <2>5, CrossingsTyped, RawTyped
  <2>7. RawAt(samples, at[k]).dir = c.dir
    BY <1>6, <2>2, <2>4, <2>6
  <2>8. c.time - RawAt(samples, at[k]).time >= MIN_LAP
    BY <1>8, <2>3, <2>4, <2>6, SegmenterAssumption DEF SegmenterAssumption
  <2> QED BY <2>7, <2>8
<1>11. Counted(samples', more, n + 1)
  <2>1. Grown(samples, x, samples', m) /\ m \in Raw(samples') /\ Counted(samples, at, n)
    BY <1>2, <1>5, <1>7
  <2> QED BY <1>6, <1>10, <2>1, CountedMore
<1>12. Runs(samples, more, n + 1)' /\ Holds(samples, more)'
  <2>1. CASE n = 0
    <3>1. laps' = laps /\ DOMAIN laps = {} /\ 1 .. n + 1 - 1 = {}
      BY <1>1, <1>5, <2>1, NoLapNoPoints DEF Closed, Runs
    <3> QED BY <3>1 DEF Runs, Holds
  <2>2. CASE n # 0
    <3> DEFINE lap == [number |-> n, start |-> points[1].time, end |-> anchor.time,
                       points |-> Append(points, anchor)]
    <3>1. points # <<>> /\ points \in Seq(LapPoint) /\ laps \in Seq(LapResult)
      BY <2>2, NoLapNoPoints, CrossingsTyped
    <3>2. laps' = Append(laps, lap)
      BY <1>1, <3>1 DEF Closed
    <3>3. lap \in LapResult
      <4>1. points[1].time \in Int /\ anchor.time \in Int
        <5>1. points[1] \in LapPoint
          BY <3>1
        <5> QED BY <1>8, <5>1 DEF LapPoint
      <4>2. Append(points, anchor) \in Seq(LapPoint)
        BY <1>8, <3>1
      <4> QED BY <4>1, <4>2 DEF LapResult
    <3>4. /\ lap.number = n /\ lap.start = points[1].time /\ lap.end = RawAt(samples', m).time
          /\ ToSet(lap.points) = ToSet(points) \cup {PointOf(RawAt(samples', m))}
      <4>1. ToSet(Append(points, anchor)) = ToSet(points) \cup {anchor}
        BY <1>8, <3>1, ToSetAppend
      <4> QED BY <1>6, <4>1 DEF anchor, PointOf
    <3> HIDE DEF lap
    <3>5. Grown(samples, x, samples', m) /\ n = lapNumber
      BY <1>2
    <3>6. Runs(samples, at, n) /\ Holds(samples, at) /\ Underway(samples, at, n)
      BY <1>5
    <3> QED BY <2>2, <3>1, <3>2, <3>3, <3>4, <3>5, <3>6, LapsMore
  <2> QED BY <2>1, <2>2
<1>13. Underway(samples, more, n + 1)'
  <2>1. n + 1 # 0 /\ more[n + 1] = m
    BY ExtendedIs
  <2>2. dirSign' = RawAt(samples', m).dir
    BY <1>1, <1>6
  <2>3. points'[1] = PointOf(RawAt(samples', m))
    BY <1>1, <1>6 DEF anchor
  <2>4. ToSet(points') = {anchor, PointOf(x)}
    BY <1>1 DEF ToSet
  <2>5. Stretch(samples', m, Len(samples') + 1) = {PointOf(x)}
    <3>1. m \in 1 .. m
      BY <1>2 DEF Grown
    <3>2. Stretch(samples', m, Len(samples') + 1)
            = Stretch(samples, m, Len(samples) + 1) \cup {PointOf(x)}
      <4>1. Grown(samples, x, samples', m) /\ IsPositioned(x)
        BY <1>1, <1>2
      <4> QED BY <3>1, <4>1, StretchMore
    <3>3. Stretch(samples, m, Len(samples) + 1) = {}
      <4>1. {k \in LocatedAt(samples) : m <= k /\ k < Len(samples) + 1} = {}
        BY <1>2 DEF LocatedAt, Grown
      <4> QED BY <4>1 DEF Stretch
    <3> QED BY <3>2, <3>3
  <2> QED BY <1>6, <2>1, <2>2, <2>3, <2>4, <2>5 DEF Underway, anchor
<1>14. Counted(samples, more, n + 1)'
  BY <1>11 DEF Counted, Counting
<1>15. more \in [1 .. lapNumber -> Raw(samples)]'
  <2>1. more \in [1 .. n + 1 -> Raw(samples')]
    BY <1>11 DEF Counted
  <2> QED BY <1>1, <2>1
<1>16. Ascending(samples)'
  BY DEF Ascending
<1> QED BY <1>1, <1>3, <1>4, <1>12, <1>13, <1>14, <1>15, <1>16 DEF CrossingsInv

(* The invariant holds of a segmenter that has seen nothing. *)
LEMMA InitCross ==
  ASSUME Init PROVE CrossingsInv
<1> USE DEF Init
<1>1. SegmenterInv
  BY InitInv
<1>2. LocatedAt(samples) = {} /\ Raw(samples) = {} /\ Ascending(samples)
  BY DEF LocatedAt, Raw, Ascending
<1>3. PrevIsLast
  BY <1>2 DEF PrevIsLast
<1> DEFINE at == [k \in 1 .. lapNumber |-> 0]
<1>4. 1 .. lapNumber = {} /\ 1 .. lapNumber - 1 = {} /\ DOMAIN laps = {}
  OBVIOUS
<1>5. at \in [1 .. lapNumber -> Raw(samples)]
  BY <1>4
<1> HIDE DEF at
<1>6. Counted(samples, at, lapNumber)
  BY <1>2, <1>4, <1>5 DEF Counted, Counting
<1>7. Runs(samples, at, lapNumber) /\ Holds(samples, at) /\ Underway(samples, at, lapNumber)
  BY <1>4 DEF Runs, Holds, Underway
<1> QED BY <1>1, <1>2, <1>3, <1>5, <1>6, <1>7 DEF CrossingsInv

(* The next sample is later than those before it. *)
LEMMA StepCross ==
  ASSUME SegmenterAssumption, CrossingsInv, [Next]_vars
  PROVE  CrossingsInv'
<1>1. CASE Next
  <2>1. PICK fix \in Fix, hop \in Hop : Push(fix, hop)
    BY <1>1 DEF Next
  <2> DEFINE s == Stamped(fix, IF samples = <<>> THEN 0 ELSE samples[Len(samples)].time + hop)
  <2>2. samples \in Seq(Sample) /\ Ascending(samples) /\ Len(samples) \in Nat
    BY CrossingsTyped DEF CrossingsInv
  <2>3. fix.at \in Plane \cup {None} /\ fix.slow \in BOOLEAN /\ hop \in Nat /\ hop > 0
    BY <2>1, SegmenterAssumption DEF SegmenterAssumption
  <2>4. \A i \in DOMAIN samples : samples[i].time \in Int
    <3> SUFFICES ASSUME NEW i \in DOMAIN samples PROVE samples[i].time \in Int
      OBVIOUS
    <3>1. samples[i] \in Sample
      BY <2>2
    <3> QED BY <3>1 DEF Sample
  <2>5. samples # <<>> => Len(samples) \in DOMAIN samples
    BY <2>2
  <2>6. s \in Sample
    BY <2>3, <2>4, <2>5 DEF Sample, Stamped
  <2>7. \A i \in DOMAIN samples : samples[i].time < s.time
    <3> SUFFICES ASSUME NEW i \in DOMAIN samples PROVE samples[i].time < s.time
      OBVIOUS
    <3>1. s.time = samples[Len(samples)].time + hop
      BY <2>2 DEF Stamped
    <3>2. samples[i].time <= samples[Len(samples)].time
      <4>1. i <= Len(samples) /\ i \in Nat
        BY <2>2
      <4>2. i < Len(samples) => samples[i].time < samples[Len(samples)].time
        BY <2>2, <2>5 DEF Ascending
      <4>3. Len(samples) \in DOMAIN samples
        BY <2>2
      <4> QED BY <2>2, <2>4, <4>1, <4>2, <4>3
    <3>3. samples[i].time \in Int /\ samples[Len(samples)].time \in Int
      BY <2>2, <2>4, <2>5
    <3> QED BY <2>3, <3>1, <3>2, <3>3
  <2>8. PushUnlocated(s) \/ PushWithin(s) \/ PushAcross(s)
    BY <2>1 DEF Push
  <2> HIDE DEF s
  <2>9. samples' = Append(samples, s)
    BY <2>8 DEF PushUnlocated, PushWithin, PushAcross
  <2>10. Ascending(samples')
    <3>1. /\ DOMAIN samples' = 1 .. Len(samples) + 1 /\ DOMAIN samples = 1 .. Len(samples)
          /\ samples'[Len(samples) + 1] = s
          /\ \A i \in DOMAIN samples : samples'[i] = samples[i]
      BY <2>2, <2>6, <2>9
    <3> SUFFICES ASSUME NEW i \in DOMAIN samples', NEW j \in DOMAIN samples', i < j
                 PROVE  samples'[i].time < samples'[j].time
      BY DEF Ascending
    <3>2. i \in DOMAIN samples /\ (j \in DOMAIN samples \/ j = Len(samples) + 1)
      BY <2>2, <3>1
    <3> QED BY <2>2, <2>7, <3>1, <3>2 DEF Ascending
  <2> QED BY <2>6, <2>8, <2>10, UnlocatedCross, WithinCross, AcrossCross
<1>2. CASE UNCHANGED vars
  <2>1. SegmenterInv'
    BY <1>2, StepInv DEF CrossingsInv
  <2>2. PrevIsLast' /\ Ascending(samples')
    BY <1>2 DEF vars, CrossingsInv, PrevIsLast
  <2>3. PICK at \in [1 .. lapNumber -> Raw(samples)] :
          /\ Counted(samples, at, lapNumber) /\ Runs(samples, at, lapNumber)
          /\ Holds(samples, at) /\ Underway(samples, at, lapNumber)
    BY DEF CrossingsInv
  <2>4. /\ at \in [1 .. lapNumber -> Raw(samples)]'
        /\ Counted(samples, at, lapNumber)'
        /\ Runs(samples, at, lapNumber)' /\ Holds(samples, at)' /\ Underway(samples, at, lapNumber)'
    BY <1>2, <2>3 DEF vars, Runs, Holds, Underway
  <2> QED BY <2>1, <2>2, <2>4 DEF CrossingsInv, Ascending
<1> QED BY <1>1, <1>2

(* Every state of a segmenter satisfies the larger invariant: where the latched direction, the fix
   it compares to and the lap under way come from in the whole session (push). *)
THEOREM CrossingsInvariant == Spec => []CrossingsInv
<1>1. CrossingsInv /\ [Next]_vars => CrossingsInv'
  BY SegmenterAssumption, StepCross
<1> QED BY InitCross, <1>1, PTL DEF Spec

(* Whatever order of jitter, reversals, gaps and lost positions the samples come in, the laps are
   the intervals between the crossings that count (push, acceptCrossing, closeLap), for every gate,
   every debounce and every session. *)
THEOREM LapsAreCrossingsAlways == Spec => []LapsAreCrossings
<1>1. CrossingsInv => LapsAreCrossings
  BY DEF CrossingsInv, LapsAreCrossings
<1> QED BY CrossingsInvariant, <1>1, PTL

-----------------------------------------------------------------------------
(* The trace of a lap. TraceRebuildsLap follows from CrossingsInv, which says where the points of
   a lap come from, and from the samples being on a grid: a crossing at the time of a fix is at its
   place. The window, its located fixes and those within the lap are listings of places, so
   interpolateAt finds the hop of the crossing, unless a sample without position hides its fix. *)

(* Every sample is a fix on the grid. *)
OnGrid(tick) == \A i \in DOMAIN samples : \E n \in Nat, fix \in Fix : samples[i] = Stamped(fix, n * tick)

(* The next sample is on the grid as those before it are. *)
LEMMA StepOnGrid ==
  ASSUME SegmenterInv, NEW tick \in Nat, \A hop \in Hop : \E n \in Nat : hop = n * tick,
         OnGrid(tick), [Next]_vars
  PROVE  OnGrid(tick)'
<1>1. CASE Next
  <2>1. PICK fix \in Fix, hop \in Hop : Push(fix, hop)
    BY <1>1 DEF Next
  <2> DEFINE time == IF samples = <<>> THEN 0 ELSE samples[Len(samples)].time + hop
  <2>2. PICK n \in Nat : time = n * tick
    <3>1. CASE samples = <<>>
      <4>1. time = 0 * tick /\ 0 \in Nat
        BY <3>1
      <4> QED BY <4>1
    <3>2. CASE samples # <<>>
      <4>1. Len(samples) \in DOMAIN samples
        BY <3>2 DEF SegmenterInv, TypeOK
      <4>2. PICK a \in Nat, f \in Fix : samples[Len(samples)] = Stamped(f, a * tick)
        BY <4>1 DEF OnGrid
      <4>3. PICK b \in Nat : hop = b * tick
        OBVIOUS
      <4>4. time = a * tick + b * tick
        BY <3>2, <4>2, <4>3 DEF Stamped
      <4>5. a * tick + b * tick = (a + b) * tick /\ a + b \in Nat
        OBVIOUS
      <4> QED BY <4>4, <4>5
    <3> QED BY <3>1, <3>2
  <2>3. samples' = Append(samples, Stamped(fix, n * tick))
    BY <2>1, <2>2 DEF Push, PushUnlocated, PushWithin, PushAcross
  <2>4. /\ DOMAIN samples' = 1 .. Len(samples) + 1 /\ DOMAIN samples = 1 .. Len(samples)
        /\ samples'[Len(samples) + 1] = Stamped(fix, n * tick)
        /\ \A i \in DOMAIN samples : samples'[i] = samples[i]
    BY <2>3 DEF SegmenterInv, TypeOK
  <2> HIDE DEF time
  <2> SUFFICES ASSUME NEW i \in DOMAIN samples'
               PROVE  \E a \in Nat, f \in Fix : samples'[i] = Stamped(f, a * tick)
    BY DEF OnGrid
  <2>5. i \in DOMAIN samples \/ i = Len(samples) + 1
    BY <2>4
  <2> QED BY <2>4, <2>5 DEF OnGrid
<1>2. CASE UNCHANGED vars
  BY <1>2 DEF vars, OnGrid
<1> QED BY <1>1, <1>2

(* What the assumption says of the fixes of the grid, it says of the samples. *)
GridOf(tick) ==
  /\ tick \in 1 .. MAX_FIX_GAP
  /\ \A hop \in Hop : \E n \in 1 .. hop : hop = n * tick
  /\ \A n \in 1 .. MAX_FIX_GAP, p, q \in Fix :
       LET c == FindGateCrossing(Stamped(p, 0), Stamped(q, n * tick), SfGate, 0)
       IN  c # None => /\ IsWhole(0, n * tick, c.num, c.den)
                       /\ \A d \in {1, 2} : IsWhole(p.at[d], q.at[d], c.num, c.den)

(* Only the time between two fixes matters to where their hop crosses the gate. *)
LEMMA FoundEarlier ==
  ASSUME SegmenterAssumption, NEW f \in Fix, NEW g \in Fix, NEW a \in Int, NEW b \in Int, NEW gap,
         gap = b - a, FindGateCrossing(Stamped(f, a), Stamped(g, b), SfGate, 0) # None
  PROVE  LET c == FindGateCrossing(Stamped(f, a), Stamped(g, b), SfGate, 0)
             e == FindGateCrossing(Stamped(f, 0), Stamped(g, gap), SfGate, 0)
         IN  e # None /\ e.num = c.num /\ e.den = c.den /\ 0 < gap /\ gap <= MAX_FIX_GAP
<1> DEFINE r == Minus(g.at, f.at)
           s == Minus(SfGate.b, SfGate.a)
           q == Minus(SfGate.a, f.at)
           dir == IF Cross(r, s) > 0 THEN 1 ELSE -1
           denom == dir * Cross(r, s)
           t == dir * Cross(q, s)
           u == dir * Cross(q, r)
           R(x, y) == [ time |-> Between(x, y, t, denom), at |-> Point(f.at, g.at, t, denom),
                        dir |-> dir, num |-> t, den |-> denom ]
           away == \/ f.at = None \/ g.at = None \/ g.slow
                   \/ denom = 0 \/ ~Within(t, denom) \/ ~Within(u, denom)
<1>1. \A x, y : FindGateCrossing(Stamped(f, x), Stamped(g, y), SfGate, 0) =
                  IF away \/ y <= x \/ y - x > MAX_FIX_GAP THEN None ELSE R(x, y)
  BY DEF FindGateCrossing, Meeting, Stamped, IsPositioned
<1>2. ~away /\ ~(b <= a) /\ ~(b - a > MAX_FIX_GAP)
  BY <1>1
<1>3. MAX_FIX_GAP \in Nat /\ gap \in Int
  BY DEF SegmenterAssumption
<1>4. ~(gap <= 0) /\ ~(gap - 0 > MAX_FIX_GAP)
  BY <1>2, <1>3
<1>5. R(0, gap) # None
  <2>1. f.at \in Plane /\ g.at \in Plane /\ denom # 0
    BY <1>2 DEF SegmenterAssumption
  <2>2. r \in Plane /\ s \in Plane /\ q \in Plane
    BY <2>1, MinusIsPlane DEF SegmenterAssumption
  <2>3. Cross(r, s) \in Int /\ Cross(q, s) \in Int
    BY <2>2, CrossIsInt
  <2>4. dir \in {-1, 1} /\ denom \in Int /\ denom > 0 /\ t \in Int
    <3>1. CASE Cross(r, s) > 0
      BY <3>1, <2>1, <2>3
    <3>2. CASE ~(Cross(r, s) > 0)
      BY <3>2, <2>1, <2>3
    <3> QED BY <3>1, <3>2
  <2> HIDE DEF dir, denom, t
  <2>5. Between(0, gap, t, denom) \in Int
    BY <1>3, <2>4, BetweenIsInt
  <2>6. Point(f.at, g.at, t, denom) \in Plane
    <3>1. f.at[1] \in Int /\ f.at[2] \in Int /\ g.at[1] \in Int /\ g.at[2] \in Int
      BY <2>1 DEF Plane
    <3>2. /\ Between(f.at[1], g.at[1], t, denom) \in Int
          /\ Between(f.at[2], g.at[2], t, denom) \in Int
      BY <3>1, <2>4, BetweenIsInt
    <3> QED BY <3>2 DEF Point, Plane
  <2>7. R(0, gap) \in Met
    BY <2>4, <2>5, <2>6 DEF Met
  <2> QED BY <2>7 DEF SegmenterAssumption
<1> HIDE DEF away, dir, denom, t
<1> QED BY <1>1, <1>2, <1>3, <1>4, <1>5

(* The ends of the hop on which the line is crossed: a crossing at the time of either end is at its
   place, and one between them is where a fix made up at that time would be. *)
LEMMA WholeEnds ==
  ASSUME NEW x \in Int, NEW y \in Int, NEW num \in Int, NEW den \in Int, den > 0,
         IsWhole(x, y, num, den)
  PROVE  /\ num = 0 => Between(x, y, num, den) = x
         /\ num = den => Between(x, y, num, den) = y
<1> PICK z : z = Between(x, y, num, den)
  OBVIOUS
<1>1. z \in Int
  BY BetweenIsInt
<1>2. den * (z - x) = num * (y - x)
  BY DEF IsWhole
<1>3. num = 0 => z = x
  <2>1. num = 0 => den * (z - x) = 0
    BY <1>2
  <2> QED BY <1>1, <2>1
<1>4. num = den => z = y
  <2>1. num = den => den * (z - x) = den * (y - x)
    BY <1>2
  <2>2. num = den => den * (z - y) = 0
    BY <1>1, <2>1
  <2> QED BY <1>1, <2>2
<1> QED BY <1>3, <1>4

LEMMA WholeTime ==
  ASSUME NEW x \in Int, NEW y \in Int, NEW num \in Int, NEW den \in Int, den > 0, x < y,
         IsWhole(x, y, num, den)
  PROVE  /\ Between(x, y, num, den) = x => num = 0
         /\ Between(x, y, num, den) = y => num = den
<1> PICK z : z = Between(x, y, num, den)
  OBVIOUS
<1>1. z \in Int
  BY BetweenIsInt
<1>2. den * (z - x) = num * (y - x)
  BY DEF IsWhole
<1> PICK gap \in Int : gap = y - x
  OBVIOUS
<1>3. gap > 0 /\ den * (z - x) = num * gap
  BY <1>2
<1>4. z = x => num = 0
  <2>1. z = x => num * gap = 0
    BY <1>3
  <2> QED BY <1>3, <2>1
<1>5. z = y => num = den
  <2>1. z = y => den * gap = num * gap
    BY <1>3
  <2>2. z = y => (den - num) * gap = 0
    BY <2>1
  <2> QED BY <1>3, <2>2
<1> QED BY <1>4, <1>5

LEMMA ZeroProduct ==
  ASSUME NEW a \in Int, NEW b \in Int, a > 0, a * b = 0
  PROVE  b = 0
OBVIOUS

(* Equal fractions of a hop are the same way from x to y. *)
SameWay(x, y, num, den, t, gap) ==
  /\ x \in Int /\ y \in Int /\ num \in Int /\ den \in Int /\ t \in Int /\ gap \in Int
  /\ den > 0 /\ gap > 0 /\ den * t = num * gap /\ IsWhole(x, y, num, den)

LEMMA SameFraction ==
  ASSUME NEW x, NEW y, NEW num, NEW den, NEW t, NEW gap, SameWay(x, y, num, den, t, gap)
  PROVE  Between(x, y, t, gap) = Between(x, y, num, den)
<1>a. /\ x \in Int /\ y \in Int /\ num \in Int /\ den \in Int /\ den > 0
      /\ t \in Int /\ gap \in Int
  BY DEF SameWay
<1> PICK z : z = Between(x, y, num, den)
  OBVIOUS
<1>0. gap > 0 /\ den * t = num * gap
  BY DEF SameWay
<1>1. z \in Int
  BY <1>a, BetweenIsInt
<1>2. den * (z - x) = num * (y - x)
  BY DEF SameWay, IsWhole
<1> PICK e \in Int, w \in Int : e = z - x /\ w = y - x
  BY <1>1, <1>a
<1>3. den * e = num * w
  BY <1>2
<1>4. den * (t * w) = den * (gap * e)
  <2>1. den * (t * w) = (den * t) * w
    BY <1>a
  <2>2. (den * t) * w = (num * gap) * w
    BY <1>a, <1>0
  <2>3. (num * gap) * w = gap * (num * w)
    BY <1>a
  <2>4. gap * (num * w) = gap * (den * e)
    BY <1>a, <1>3
  <2>5. gap * (den * e) = den * (gap * e)
    BY <1>a
  <2> QED BY <2>1, <2>2, <2>3, <2>4, <2>5
<1>5. t * w = gap * e
  <2> PICK l \in Int, r \in Int : l = t * w /\ r = gap * e
    BY <1>a
  <2>1. den * l = den * r
    BY <1>a, <1>4
  <2> PICK d \in Int : d = l - r
    BY <1>a
  <2>2. den * l - den * r = den * d
    BY <1>a
  <2>3. den * d = 0
    BY <1>a, <2>1, <2>2
  <2>4. d = 0
    BY <1>a, <2>3, ZeroProduct
  <2> QED BY <2>4
<1>7. gap > 0
  BY <1>a, <1>0
<1>6. (t * w) \div gap = e
  BY <1>5, <1>7, <1>a
<1>8. Between(x, y, t, gap) = x + e
  BY <1>a, <1>6 DEF Between
<1>9. x + e = z
  BY <1>1, <1>a
<1> QED BY <1>8, <1>9

(* The hop on which j is crossed: the located fix before, and where on the way to j the line is. *)
HopOf(s, h, j) ==
  /\ h \in LocatedAt(s) /\ j \in LocatedAt(s) /\ h < j
  /\ \A k \in LocatedAt(s) : k < j => k <= h
  /\ RawAt(s, j).time \in Int
  /\ s[h].time <= RawAt(s, j).time /\ RawAt(s, j).time <= s[j].time
  /\ RawAt(s, j).time = s[h].time => PointOf(RawAt(s, j)) = PointOf(s[h])
  /\ RawAt(s, j).time = s[j].time => PointOf(RawAt(s, j)) = PointOf(s[j])
  /\ s[h].time < RawAt(s, j).time /\ RawAt(s, j).time < s[j].time =>
       RawAt(s, j).at = Point(s[h].at, s[j].at, RawAt(s, j).time - s[h].time, s[j].time - s[h].time)

(* Where a hop begins does not matter to whether a fraction of it is whole. *)
LEMMA WholeShift ==
  ASSUME NEW x \in Int, NEW y \in Int, NEW num \in Int, NEW den \in Int, den > 0, NEW gap, gap = y - x,
         IsWhole(0, gap, num, den)
  PROVE  IsWhole(x, y, num, den)
<1> PICK d \in Int : d = (num * gap) \div den
  OBVIOUS
<1>1. Between(0, gap, num, den) = 0 + d /\ Between(x, y, num, den) = x + d
  <2>1. gap \in Int /\ gap - 0 = gap
    OBVIOUS
  <2> QED BY <2>1 DEF Between
<1>2. den * (0 + d - 0) = num * (gap - 0)
  BY <1>1 DEF IsWhole
<1>3. 0 + d - 0 = d /\ gap - 0 = gap /\ x + d - x = d
  OBVIOUS
<1> QED BY <1>1, <1>2, <1>3 DEF IsWhole

LEMMA TimesMore ==
  ASSUME NEW n \in Int, NEW t \in Int, n > 0, t >= 1
  PROVE  n <= n * t
OBVIOUS

(* A crossing on the grid is the fix at either end, or lies on the way by its time. *)
LEMMA WholeHop ==
  ASSUME NEW x \in Int, NEW y \in Int, NEW num \in Int, NEW den \in Int, den > 0, x < y,
         NEW f \in Plane, NEW g \in Plane, IsWhole(x, y, num, den),
         \A d \in {1, 2} : IsWhole(f[d], g[d], num, den)
  PROVE  /\ Between(x, y, num, den) = x => Point(f, g, num, den) = f
         /\ Between(x, y, num, den) = y => Point(f, g, num, den) = g
         /\ Point(f, g, Between(x, y, num, den) - x, y - x) = Point(f, g, num, den)
<1>1. /\ f[1] \in Int /\ f[2] \in Int /\ g[1] \in Int /\ g[2] \in Int
      /\ f = <<f[1], f[2]>> /\ g = <<g[1], g[2]>>
  BY DEF Plane
<1>2. IsWhole(f[1], g[1], num, den) /\ IsWhole(f[2], g[2], num, den)
  OBVIOUS
<1>3. /\ num = 0 => Between(f[1], g[1], num, den) = f[1] /\ Between(f[2], g[2], num, den) = f[2]
      /\ num = den => Between(f[1], g[1], num, den) = g[1] /\ Between(f[2], g[2], num, den) = g[2]
  BY <1>1, <1>2, WholeEnds
<1>4. /\ Between(x, y, num, den) = x => num = 0
      /\ Between(x, y, num, den) = y => num = den
  BY WholeTime
<1>a. PICK t, gap : t = Between(x, y, num, den) - x /\ gap = y - x
  OBVIOUS
<1>5. t \in Int /\ gap \in Int /\ gap > 0
  <2>1. Between(x, y, num, den) \in Int
    BY BetweenIsInt
  <2> QED BY <1>a, <2>1
<1>6. den * t = num * gap
  BY <1>a DEF IsWhole
<1>7. ASSUME NEW p \in Int, NEW q \in Int, IsWhole(p, q, num, den)
      PROVE  Between(p, q, t, gap) = Between(p, q, num, den)
  <2>1. SameWay(p, q, num, den, t, gap)
    BY <1>5, <1>6, <1>7 DEF SameWay
  <2> QED BY <2>1, SameFraction
<1>8. /\ Between(f[1], g[1], t, gap) = Between(f[1], g[1], num, den)
      /\ Between(f[2], g[2], t, gap) = Between(f[2], g[2], num, den)
  BY <1>1, <1>2, <1>7
<1>9. Point(f, g, t, gap) = Point(f, g, num, den)
  BY <1>8 DEF Point
<1> QED BY <1>1, <1>3, <1>4, <1>9, <1>a DEF Point

(* So every crossing of samples on the grid has such a hop. *)
LEMMA RawOnGrid ==
  ASSUME SegmenterAssumption, NEW tick, GridOf(tick), NEW s \in Seq(Sample),
         \A i \in DOMAIN s : \E n \in Nat, fix \in Fix : s[i] = Stamped(fix, n * tick),
         NEW j \in Raw(s)
  PROVE  \E h \in LocatedAt(s) : HopOf(s, h, j)
<1>1. PICK h \in Before(s, j) :
        /\ h \in 1 .. Len(s) /\ j \in 1 .. Len(s) /\ h < j /\ h \in LocatedAt(s)
        /\ \A k \in LocatedAt(s) : k < j => k <= h
        /\ RawAt(s, j) = FindGateCrossing(s[h], s[j], SfGate, 0) /\ RawAt(s, j) # None
        /\ RawAt(s, j).time \in Int
        /\ s[h].time <= RawAt(s, j).time /\ RawAt(s, j).time <= s[j].time
  BY RawHasHop
<1>2. PICK a \in Nat, f \in Fix : s[h] = Stamped(f, a * tick)
  BY <1>1
<1>3. PICK b \in Nat, g \in Fix : s[j] = Stamped(g, b * tick)
  BY <1>1
<1>4. tick \in Nat /\ tick >= 1 /\ MAX_FIX_GAP \in Nat
  BY DEF GridOf, SegmenterAssumption
<1>a. PICK x \in Int, y \in Int, n \in Int, gap \in Int :
      x = a * tick /\ y = b * tick /\ n = b - a /\ gap = n * tick
  BY <1>4
<1>5. gap = y - x /\ s[h].time = x /\ s[j].time = y
  <2>1. (b - a) * tick = b * tick - a * tick
    BY <1>4
  <2> QED BY <1>a, <1>2, <1>3, <2>1 DEF Stamped
<1>b. PICK c : c = RawAt(s, j)
  OBVIOUS
<1>6. c = FindGateCrossing(Stamped(f, x), Stamped(g, y), SfGate, 0) /\ c # None
  BY <1>a, <1>b, <1>1, <1>2, <1>3
<1>c. PICK e : e = FindGateCrossing(Stamped(f, 0), Stamped(g, gap), SfGate, 0)
  OBVIOUS
<1>7. e # None /\ e.num = c.num /\ e.den = c.den /\ 0 < gap /\ gap <= MAX_FIX_GAP
  BY <1>c, <1>5, <1>6, FoundEarlier
<1>8. n \in 1 .. MAX_FIX_GAP
  <2>1. n > 0 /\ tick \in Int
    BY <1>a, <1>4, <1>7
  <2>2. n <= n * tick
    BY <1>4, <2>1, TimesMore
  <2> QED BY <1>a, <1>4, <1>7, <2>1, <2>2
<1>9. IsWhole(0, gap, c.num, c.den) /\ \A d \in {1, 2} : IsWhole(f.at[d], g.at[d], c.num, c.den)
  <2>1. \A p, q \in Fix :
          LET k == FindGateCrossing(Stamped(p, 0), Stamped(q, n * tick), SfGate, 0)
          IN  k # None => /\ IsWhole(0, n * tick, k.num, k.den)
                          /\ \A d \in {1, 2} : IsWhole(p.at[d], q.at[d], k.num, k.den)
    BY <1>8 DEF GridOf
  <2>2. e # None => /\ IsWhole(0, gap, e.num, e.den)
                    /\ \A d \in {1, 2} : IsWhole(f.at[d], g.at[d], e.num, e.den)
    BY <1>a, <1>c, <2>1
  <2> QED BY <1>7, <2>2
<1>10. /\ f.at \in Plane /\ g.at \in Plane /\ c.num \in Int /\ c.den \in Int /\ c.den > 0
       /\ c.time = Between(x, y, c.num, c.den) /\ c.at = Point(f.at, g.at, c.num, c.den)
  <2>1. s[h] \in Sample /\ s[j] \in Sample /\ SfGate \in [a : Plane, b : Plane]
    BY <1>1 DEF SegmenterAssumption
  <2>2. /\ s[h].at \in Plane /\ s[j].at \in Plane
        /\ c.num \in Int /\ c.den \in Int /\ c.den > 0
        /\ c.time = Between(s[h].time, s[j].time, c.num, c.den)
        /\ c.at = Point(s[h].at, s[j].at, c.num, c.den)
    <3>1. c = FindGateCrossing(s[h], s[j], SfGate, 0)
      BY <1>b, <1>1
    <3>2. LET e1 == FindGateCrossing(s[h], s[j], SfGate, 0)
          IN  /\ s[h].at \in Plane /\ s[j].at \in Plane
              /\ e1.num \in Int /\ e1.den \in Int /\ e1.den > 0
              /\ e1.time = Between(s[h].time, s[j].time, e1.num, e1.den)
              /\ e1.at = Point(s[h].at, s[j].at, e1.num, e1.den)
      BY <1>1, <2>1, CrossingParts
    <3> QED BY <3>1, <3>2
  <2>3. s[h].at = f.at /\ s[j].at = g.at
    BY <1>2, <1>3 DEF Stamped
  <2> QED BY <1>5, <2>2, <2>3
<1>d. PICK num \in Int, den \in Int : num = c.num /\ den = c.den
  BY <1>10
<1>11. IsWhole(x, y, num, den) /\ den > 0 /\ x < y
  <2>1. den > 0 /\ IsWhole(0, gap, num, den)
    BY <1>d, <1>9, <1>10
  <2>2. x < y
    BY <1>5, <1>7
  <2> QED BY <1>5, <2>1, <2>2, WholeShift
<1>12. \A d \in {1, 2} : IsWhole(f.at[d], g.at[d], num, den)
  BY <1>d, <1>9
<1>13. /\ Between(x, y, num, den) = x => Point(f.at, g.at, num, den) = f.at
       /\ Between(x, y, num, den) = y => Point(f.at, g.at, num, den) = g.at
       /\ Point(f.at, g.at, Between(x, y, num, den) - x, y - x) = Point(f.at, g.at, num, den)
  <2>1. f.at \in Plane /\ g.at \in Plane
    BY <1>10
  <2> QED BY <1>11, <1>12, <2>1, WholeHop
<1>14. c.time = Between(x, y, num, den) /\ c.at = Point(f.at, g.at, num, den)
  BY <1>d, <1>10
<1>15. /\ c.time = x => c.at = f.at
       /\ c.time = y => c.at = g.at
       /\ c.at = Point(f.at, g.at, c.time - x, y - x)
  BY <1>13, <1>14
<1>17. s[h].at = f.at /\ s[j].at = g.at
  BY <1>2, <1>3 DEF Stamped
<1>16. PointOf(s[h]) = [time |-> x, at |-> f.at] /\ PointOf(s[j]) = [time |-> y, at |-> g.at]
  BY <1>5, <1>17 DEF PointOf
<1>18. j \in LocatedAt(s)
  BY DEF Raw
<1>19. /\ c.time = s[h].time => PointOf(c) = PointOf(s[h])
       /\ c.time = s[j].time => PointOf(c) = PointOf(s[j])
       /\ c.at = Point(s[h].at, s[j].at, c.time - s[h].time, s[j].time - s[h].time)
  <2>1. PointOf(c) = [time |-> c.time, at |-> c.at]
    BY DEF PointOf
  <2>2. c.time = s[h].time => PointOf(c) = PointOf(s[h])
    BY <1>5, <1>15, <1>16, <2>1
  <2>3. c.time = s[j].time => PointOf(c) = PointOf(s[j])
    BY <1>5, <1>15, <1>16, <2>1
  <2>4. c.at = Point(s[h].at, s[j].at, c.time - s[h].time, s[j].time - s[h].time)
    BY <1>5, <1>15, <1>17
  <2> QED BY <2>2, <2>3, <2>4
<1>20. /\ RawAt(s, j).time = s[h].time => PointOf(RawAt(s, j)) = PointOf(s[h])
       /\ RawAt(s, j).time = s[j].time => PointOf(RawAt(s, j)) = PointOf(s[j])
       /\ RawAt(s, j).at = Point(s[h].at, s[j].at, RawAt(s, j).time - s[h].time, s[j].time - s[h].time)
  BY <1>b, <1>19
<1>21. HopOf(s, h, j)
  <2>1. h \in LocatedAt(s) /\ j \in LocatedAt(s) /\ h < j
    BY <1>1, <1>18
  <2>2. \A k \in LocatedAt(s) : k < j => k <= h
    BY <1>1
  <2>3. RawAt(s, j).time \in Int /\ s[h].time <= RawAt(s, j).time /\ RawAt(s, j).time <= s[j].time
    BY <1>1
  <2> QED BY <1>20, <2>1, <2>2, <2>3 DEF HopOf
<1> QED BY <1>1, <1>21

(* What is picked from a listing is listed by the two places one after the other. *)
LEMMA ListsCompose ==
  ASSUME NEW W \in SUBSET Int, NEW m, NEW p, Lists(p, m, W),
         NEW S \in SUBSET (1 .. m), NEW n, NEW r, Lists(r, n, S)
  PROVE  Lists([k \in 1 .. n |-> p[r[k]]], n, {p[i] : i \in S})
<1> DEFINE q == [k \in 1 .. n |-> p[r[k]]]
           T == {p[i] : i \in S}
<1>1. /\ n \in Nat /\ r \in [1 .. n -> S]
      /\ \A i \in S : \E k \in 1 .. n : r[k] = i
      /\ \A k, l \in 1 .. n : k < l => r[k] < r[l]
  BY DEF Lists
<1>2. /\ m \in Nat /\ p \in [1 .. m -> W]
      /\ \A k, l \in 1 .. m : k < l => p[k] < p[l]
  BY DEF Lists
<1>3. q \in [1 .. n -> T]
  BY <1>1
<1>4. \A j \in T : \E k \in 1 .. n : q[k] = j
  BY <1>1
<1>5. ASSUME NEW k \in 1 .. n, NEW l \in 1 .. n, k < l PROVE q[k] < q[l]
  <2>1. r[k] \in 1 .. m /\ r[l] \in 1 .. m /\ r[k] < r[l]
    BY <1>1, <1>5
  <2> QED BY <1>2, <2>1
<1> HIDE DEF q, T
<1>6. Lists(q, n, T)
  BY <1>1, <1>3, <1>4, <1>5 DEF Lists
<1> QED BY <1>6 DEF q, T

(* The samples of a trace: the located ones of its window, and those of them within the lap. *)
InWindow(s, from, to) == {i \in WindowAt(s, from, to) : IsPositioned(s[i])}
InLap(s, from, to) == {i \in LocatedAt(s) : from <= s[i].time /\ s[i].time <= to}
Listed(s, p, n) == [k \in 1 .. n |-> s[p[k]]]
PointsOf(s, p, n) == [k \in 1 .. n |-> PointOf(s[p[k]])]

(* The trace of a window, told by the places of its fixes and of those within the lap. *)
TraceOf(s, from, to, q, n, r, m) ==
  /\ Lists(q, n, InWindow(s, from, to)) /\ Lists(r, m, InLap(s, from, to))
  /\ AnchorToLap(LapWindow(s, from, to), from, to) =
       InterpolateAt(Listed(s, q, n), from) \o PointsOf(s, r, m)
         \o InterpolateAt(Listed(s, q, n), to)

(* The trace is told by such places (findLapWindow, anchorToLap). *)
LEMMA TraceLists ==
  ASSUME NEW s \in Seq(Sample), NEW from, NEW to
  PROVE  \E q, n, r, m : TraceOf(s, from, to, q, n, r, m)
<1> DEFINE W == WindowAt(s, from, to)
           L == InWindow(s, from, to)
           window == LapWindow(s, from, to)
           located == LocatedOf(window)
           inside == Picked(located, WithinLap(located, from, to))
<1>1. Len(s) \in Nat /\ W \in SUBSET (1 .. Len(s)) /\ W \in SUBSET Int
  BY DEF WindowAt, LastOf, FirstOf
<1>2. PICK w, p : Lists(p, w, W) /\ window = Listed(s, p, w)
  BY <1>1, PickedLists DEF LapWindow, Listed
<1> DEFINE S == {k \in DOMAIN window : IsPositioned(window[k])}
<1>3. w \in Nat /\ p \in [1 .. w -> W] /\ \A i \in W : \E k \in 1 .. w : p[k] = i
  BY <1>2 DEF Lists
<1>4. DOMAIN window = 1 .. w /\ \A k \in 1 .. w : window[k] = s[p[k]]
  BY <1>2 DEF Listed
<1> HIDE DEF window, W
<1>5. S \in SUBSET (1 .. w)
  BY <1>4
<1>6. PICK n, u : Lists(u, n, S) /\ located = [k \in 1 .. n |-> window[u[k]]]
  BY <1>3, <1>5, PickedLists DEF LocatedOf
<1>7. L = {p[k] : k \in S}
  BY <1>3, <1>4 DEF InWindow, W
<1> HIDE DEF S
<1>a. PICK q : q = [k \in 1 .. n |-> p[u[k]]]
  OBVIOUS
<1>8. Lists(q, n, L)
  BY <1>a, <1>1, <1>2, <1>5, <1>6, <1>7, ListsCompose
<1>9. n \in Nat /\ u \in [1 .. n -> S] /\ q \in [1 .. n -> L] /\ \A i \in L : \E k \in 1 .. n : q[k] = i
  BY <1>6, <1>8 DEF Lists
<1>10. located = Listed(s, q, n)
  BY <1>a, <1>4, <1>5, <1>6, <1>9 DEF Listed
<1> DEFINE I == WithinLap(located, from, to)
<1>11. DOMAIN located = 1 .. n /\ \A k \in 1 .. n : located[k] = s[q[k]]
  BY <1>10 DEF Listed
<1> HIDE DEF located, L
<1>12. I \in SUBSET (1 .. n)
  BY <1>11 DEF WithinLap
<1>13. PICK m, v : Lists(v, m, I) /\ inside = [k \in 1 .. m |-> located[v[k]]]
  BY <1>9, <1>12, PickedLists
<1>14. InLap(s, from, to) = {q[k] : k \in I}
  <2>a. \A i \in DOMAIN s : from <= s[i].time /\ s[i].time <= to => i \in W
    BY DEF W, WindowAt
  <2>b. DOMAIN s = 1 .. Len(s)
    OBVIOUS
  <2>1. InLap(s, from, to) = {i \in L : from <= s[i].time /\ s[i].time <= to}
    <3>1. L = {i \in W : IsPositioned(s[i])} /\ W \subseteq DOMAIN s
      BY <1>1, <2>b DEF L, InWindow, W
    <3> HIDE DEF L
    <3> QED BY <2>a, <3>1 DEF InLap, LocatedAt
  <2> QED BY <1>9, <1>11, <2>1 DEF WithinLap
<1> HIDE DEF I
<1>b. PICK r : r = [k \in 1 .. m |-> q[v[k]]]
  OBVIOUS
<1>15. L \in SUBSET Int
  BY <1>1 DEF L, InWindow, W
<1>16. Lists(r, m, InLap(s, from, to))
  <2>1. Lists([k \in 1 .. m |-> q[v[k]]], m, {q[k] : k \in I})
    BY <1>8, <1>12, <1>13, <1>15, ListsCompose
  <2> QED BY <1>b, <1>14, <2>1
<1>17. m \in Nat /\ v \in [1 .. m -> I] /\ r \in [1 .. m -> InLap(s, from, to)]
  BY <1>13, <1>16 DEF Lists
<1>18. DOMAIN inside = 1 .. m /\ \A k \in 1 .. m : inside[k] = s[r[k]]
  BY <1>b, <1>11, <1>12, <1>13, <1>17
<1> HIDE DEF inside
<1>19. [i \in DOMAIN inside |-> [time |-> inside[i].time, at |-> inside[i].at]]
         = PointsOf(s, r, m)
  BY <1>18 DEF PointOf, PointsOf
<1>20. AnchorToLap(window, from, to) =
         InterpolateAt(located, from) \o PointsOf(s, r, m) \o InterpolateAt(located, to)
  BY <1>19 DEF AnchorToLap, inside, located, I
<1>21. TraceOf(s, from, to, q, n, r, m)
  BY <1>8, <1>10, <1>16, <1>20 DEF TraceOf, L, window
<1> QED BY <1>21

(* In ascending samples, places and times go the same way. *)
LEMMA TimeIsPlace ==
  ASSUME NEW s \in Seq(Sample), Ascending(s), NEW i \in LocatedAt(s), NEW j \in LocatedAt(s)
  PROVE  /\ i \in Nat /\ j \in Nat /\ s[i].time \in Int /\ s[j].time \in Int
         /\ i < j <=> s[i].time < s[j].time
         /\ i = j <=> s[i].time = s[j].time
<1>1. i \in DOMAIN s /\ j \in DOMAIN s /\ i \in Nat /\ j \in Nat
  BY DEF LocatedAt
<1>2. s[i] \in Sample /\ s[j] \in Sample
  BY <1>1
<1>3. s[i].time \in Int /\ s[j].time \in Int
  BY <1>2 DEF Sample
<1>4. (i < j => s[i].time < s[j].time) /\ (j < i => s[j].time < s[i].time)
  BY <1>1 DEF Ascending
<1>5. i = j => s[i].time = s[j].time
  OBVIOUS
<1> QED BY <1>1, <1>3, <1>4, <1>5

(* A listing ascends. *)
LEMMA ListAscends ==
  ASSUME NEW L \in SUBSET Nat, NEW n, NEW q, Lists(q, n, L), NEW k \in 1 .. n, NEW l \in 1 .. n
  PROVE  /\ q[k] \in Nat /\ q[l] \in Nat
         /\ k <= l => q[k] <= q[l]
         /\ q[k] < q[l] => k < l
<1>1. n \in Nat /\ q[k] \in Nat /\ q[l] \in Nat
  BY DEF Lists
<1>2. (k < l => q[k] < q[l]) /\ (l < k => q[l] < q[k]) /\ (k = l => q[k] = q[l])
  BY DEF Lists
<1> QED BY <1>1, <1>2

(* Neighbours in the list of a set have nothing of the set between them. *)
LEMMA Neighbours ==
  ASSUME NEW L \in SUBSET Nat, NEW n, NEW q, Lists(q, n, L), NEW k \in 1 .. n - 1
  PROVE  /\ k \in 1 .. n /\ k + 1 \in 1 .. n /\ q[k] \in L /\ q[k + 1] \in L /\ q[k] < q[k + 1]
         /\ \A i \in L : i <= q[k] \/ q[k + 1] <= i
<1>1. n \in Nat /\ q \in [1 .. n -> L] /\ \A i \in L : \E l \in 1 .. n : q[l] = i
  BY DEF Lists
<1>2. k \in 1 .. n /\ k + 1 \in 1 .. n /\ k < k + 1
  BY <1>1
<1>3. q[k] \in L /\ q[k + 1] \in L /\ q[k] < q[k + 1]
  BY <1>1, <1>2 DEF Lists
<1>4. ASSUME NEW i \in L PROVE i <= q[k] \/ q[k + 1] <= i
  <2>1. PICK l \in 1 .. n : q[l] = i
    BY <1>1
  <2>2. l <= k \/ k + 1 <= l
    BY <1>1, <1>2
  <2>3. (l <= k => q[l] <= q[k]) /\ (k + 1 <= l => q[k + 1] <= q[l])
    BY <1>2, ListAscends
  <2> QED BY <2>1, <2>2, <2>3
<1> QED BY <1>2, <1>3, <1>4

Adjacent(L, h, j) == h \in L /\ j \in L /\ h < j /\ \A i \in L : i <= h \/ j <= i

(* And what has nothing of the set between it is neighbours in the list. *)
LEMMA AreNeighbours ==
  ASSUME NEW L \in SUBSET Nat, NEW n, NEW q, Lists(q, n, L), NEW h, NEW j, Adjacent(L, h, j)
  PROVE  \E k \in 1 .. n - 1 : q[k] = h /\ q[k + 1] = j
<1>1. n \in Nat /\ q \in [1 .. n -> L] /\ \A i \in L : \E l \in 1 .. n : q[l] = i
  BY DEF Lists
<1>0. h \in L /\ j \in L /\ h < j /\ \A i \in L : i <= h \/ j <= i
  BY DEF Adjacent
<1>2. PICK k \in 1 .. n : q[k] = h
  BY <1>0, <1>1
<1>3. PICK l \in 1 .. n : q[l] = j
  BY <1>0, <1>1
<1>4. k < l
  BY <1>0, <1>2, <1>3, ListAscends
<1>5. k \in 1 .. n - 1 /\ k + 1 \in 1 .. n /\ k < k + 1 /\ k + 1 <= l
  BY <1>1, <1>4
<1>6. q[k + 1] \in L /\ h < q[k + 1]
  <2>1. q[k + 1] \in L /\ q[k] < q[k + 1]
    BY <1>5, Neighbours
  <2> QED BY <1>2, <2>1
<1>7. q[k + 1] <= j
  BY <1>3, <1>5, ListAscends
<1>8. q[k + 1] = j
  <2>1. PICK x \in L : x = q[k + 1]
    BY <1>6
  <2>2. (x <= h \/ j <= x) /\ h < x /\ x <= j
    BY <1>0, <1>6, <1>7, <2>1
  <2> QED BY <1>0, <2>1, <2>2
<1> QED BY <1>2, <1>5, <1>8

(* The end of a lap, made up anew: it is the crossing, if both fixes of its hop are there and
   neither sits on it. *)
EndOf(s, h, j, L) ==
  IF h \in L /\ j \in L /\ s[h].time < RawAt(s, j).time /\ RawAt(s, j).time < s[j].time
  THEN <<PointOf(RawAt(s, j))>> ELSE <<>>

(* Which is what interpolateAt makes of the listed fixes. *)
LEMMA Interpolated ==
  ASSUME NEW s \in Seq(Sample), Ascending(s), NEW h, NEW j, HopOf(s, h, j),
         NEW L \in SUBSET LocatedAt(s), NEW n, NEW q, Lists(q, n, L),
         \A i \in L : s[i].time < RawAt(s, j).time => h \in L,
         \A i \in L : s[i].time > RawAt(s, j).time => j \in L
  PROVE  InterpolateAt(Listed(s, q, n), RawAt(s, j).time) = EndOf(s, h, j, L)
<1> DEFINE located == Listed(s, q, n)
<1>c. PICK c : c = RawAt(s, j)
  OBVIOUS
<1>t. PICK t : t = c.time
  OBVIOUS
<1>1. /\ h \in LocatedAt(s) /\ j \in LocatedAt(s) /\ h < j
      /\ \A k \in LocatedAt(s) : k < j => k <= h
      /\ t \in Int /\ s[h].time <= t /\ t <= s[j].time
      /\ s[h].time < t /\ t < s[j].time =>
           c.at = Point(s[h].at, s[j].at, t - s[h].time, s[j].time - s[h].time)
  BY <1>c, <1>t DEF HopOf
<1>2. L \in SUBSET Nat /\ n \in Nat
  BY DEF LocatedAt, Lists
<1>3. Len(located) = n /\ \A k \in 1 .. n : located[k] = s[q[k]]
  BY <1>2 DEF Listed
<1> DEFINE K == {k \in 1 .. Len(located) - 1 : located[k].time < t /\ located[k + 1].time > t}
           strict == h \in L /\ j \in L /\ s[h].time < t /\ t < s[j].time
<1> HIDE DEF located
<1>4. ASSUME NEW k \in K PROVE strict /\ located[k] = s[h] /\ located[k + 1] = s[j]
  <2>0. k \in 1 .. n - 1
    BY <1>3
  <2>1. /\ k \in 1 .. n /\ k + 1 \in 1 .. n /\ q[k] \in L /\ q[k + 1] \in L
        /\ q[k] < q[k + 1] /\ \A i \in L : i <= q[k] \/ q[k + 1] <= i
    BY <1>2, <2>0, Neighbours
  <2>2. located[k] = s[q[k]] /\ located[k + 1] = s[q[k + 1]]
    BY <1>3, <2>1
  <2>3. s[q[k]].time < t /\ s[q[k + 1]].time > t
    BY <2>2
  <2>4. h \in L /\ j \in L
    BY <1>c, <1>t, <2>1, <2>3
  <2>a. PICK x \in LocatedAt(s), y \in LocatedAt(s) : x = q[k] /\ y = q[k + 1]
    BY <2>1
  <2>5. /\ x \in Nat /\ y \in Nat /\ h \in Nat /\ j \in Nat
        /\ s[x].time \in Int /\ s[y].time \in Int /\ s[h].time \in Int /\ s[j].time \in Int
        /\ x < j <=> s[x].time < s[j].time
        /\ h < y <=> s[h].time < s[y].time
    BY <1>1, TimeIsPlace
  <2>b. s[x].time < t /\ s[y].time > t
    BY <2>3, <2>a
  <2>c. s[x].time < s[j].time /\ s[h].time < s[y].time
    <3>1. /\ s[x].time \in Int /\ s[y].time \in Int /\ s[h].time \in Int /\ s[j].time \in Int
          /\ t \in Int /\ s[h].time <= t /\ t <= s[j].time
      BY <1>1, <2>5
    <3> QED BY <2>b, <3>1
  <2>6. x < j /\ h < y
    BY <2>5, <2>c
  <2>7. x <= h /\ ~(y < j)
    BY <1>1, <2>5, <2>6
  <2>8. (h <= x \/ y <= h) /\ (j <= x \/ y <= j)
    BY <2>1, <2>4, <2>a
  <2>9. x = h /\ y = j
    BY <2>5, <2>6, <2>7, <2>8
  <2> QED BY <2>2, <2>3, <2>4, <2>9, <2>a
<1>5. ASSUME strict PROVE K # {}
  <2>1. \A i \in L : i <= h \/ j <= i
    <3> SUFFICES ASSUME NEW i \in L PROVE i <= h \/ j <= i
      OBVIOUS
    <3>1. i \in LocatedAt(s) /\ i \in Nat /\ j \in Nat
      BY <1>2, <1>5
    <3> QED BY <1>1, <3>1
  <2>d. h \in L /\ j \in L /\ h < j
    BY <1>1, <1>5
  <2>f. Adjacent(L, h, j)
    BY <2>1, <2>d DEF Adjacent
  <2>2. PICK k \in 1 .. n - 1 : q[k] = h /\ q[k + 1] = j
    BY <1>2, <2>f, AreNeighbours
  <2>3. k \in 1 .. n /\ k + 1 \in 1 .. n
    BY <1>2
  <2>a. located[k] = s[h] /\ located[k + 1] = s[j]
    BY <1>3, <2>2, <2>3
  <2>b. s[h].time \in Int /\ s[j].time \in Int
    BY <1>1, TimeIsPlace
  <2>c. located[k].time < t /\ located[k + 1].time > t
    BY <1>1, <1>5, <2>a, <2>b
  <2>4. k \in K
    BY <1>3, <2>c
  <2> QED BY <2>4
<1>6. InterpolateAt(located, t) =
        IF K = {} THEN <<>>
        ELSE LET i == CHOOSE i \in K : TRUE
             IN  <<[time |-> t, at |-> Point(located[i].at, located[i + 1].at, t - located[i].time,
                                             located[i + 1].time - located[i].time)]>>
  BY DEF InterpolateAt
<1>7. EndOf(s, h, j, L) = IF strict THEN <<PointOf(c)>> ELSE <<>>
  BY <1>c, <1>t DEF EndOf
<1> HIDE DEF K
<1>8. InterpolateAt(located, t) = EndOf(s, h, j, L)
  <2>1. CASE K = {}
    <3>1. ~strict
      BY <1>5, <2>1
    <3> QED BY <1>6, <1>7, <2>1, <3>1
  <2>2. CASE K # {}
    <3>1. PICK i : i = CHOOSE x \in K : TRUE
      OBVIOUS
    <3>2. i \in K
      BY <2>2, <3>1
    <3>3. strict /\ located[i] = s[h] /\ located[i + 1] = s[j]
      BY <1>4, <3>2
    <3>4. InterpolateAt(located, t) =
            <<[time |-> t, at |-> Point(located[i].at, located[i + 1].at, t - located[i].time,
                                        located[i + 1].time - located[i].time)]>>
      BY <1>6, <2>2, <3>1
    <3>5. InterpolateAt(located, t) = <<[time |-> t, at |-> c.at]>>
      BY <1>1, <3>3, <3>4
    <3>6. PointOf(c) = [time |-> t, at |-> c.at]
      BY <1>t DEF PointOf
    <3> QED BY <1>7, <3>3, <3>5, <3>6
  <2> QED BY <2>1, <2>2
<1> QED BY <1>c, <1>t, <1>8 DEF located

(* A lap between two crossings, and the hops they are on. *)
LapOf(s, ha, a, hb, b) ==
  s \in Seq(Sample) /\ Ascending(s) /\ HopOf(s, ha, a) /\ HopOf(s, hb, b) /\ a < b

(* Where any located fix is, by place and by time, next to a hop. *)
LEMMA HopOrder ==
  ASSUME NEW s \in Seq(Sample), Ascending(s), NEW h, NEW j, HopOf(s, h, j), NEW i \in LocatedAt(s)
  PROVE  /\ h \in Nat /\ j \in Nat /\ i \in Nat /\ h < j
         /\ s[h].time \in Int /\ s[j].time \in Int /\ s[i].time \in Int /\ RawAt(s, j).time \in Int
         /\ s[h].time <= RawAt(s, j).time /\ RawAt(s, j).time <= s[j].time
         /\ i <= h \/ j <= i
         /\ i <= h => s[i].time <= s[h].time
         /\ j <= i => s[j].time <= s[i].time
         /\ s[i].time = s[h].time => i = h
         /\ s[i].time = s[j].time => i = j
<1>1. /\ h \in LocatedAt(s) /\ j \in LocatedAt(s) /\ h < j
      /\ i < j => i <= h
      /\ RawAt(s, j).time \in Int
      /\ s[h].time <= RawAt(s, j).time /\ RawAt(s, j).time <= s[j].time
  BY DEF HopOf
<1>2. /\ i \in Nat /\ h \in Nat /\ s[i].time \in Int /\ s[h].time \in Int
      /\ i < h <=> s[i].time < s[h].time
      /\ i = h <=> s[i].time = s[h].time
  BY <1>1, TimeIsPlace
<1>3. /\ j \in Nat /\ s[j].time \in Int
      /\ j < i <=> s[j].time < s[i].time
      /\ i = j <=> s[i].time = s[j].time
  BY <1>1, TimeIsPlace
<1> QED BY <1>1, <1>2, <1>3

(* The four fixes of the hops at the ends of a lap, in order. *)
LEMMA LapOrder ==
  ASSUME NEW s, NEW ha, NEW a, NEW hb, NEW b, LapOf(s, ha, a, hb, b)
  PROVE  /\ ha \in LocatedAt(s) /\ a \in LocatedAt(s) /\ hb \in LocatedAt(s) /\ b \in LocatedAt(s)
         /\ a <= hb /\ s[a].time <= s[hb].time
         /\ s[a].time \in Int /\ s[hb].time \in Int
         /\ RawAt(s, a).time \in Int /\ RawAt(s, b).time \in Int
         /\ RawAt(s, a).time <= s[a].time /\ s[hb].time <= RawAt(s, b).time
<1>1. s \in Seq(Sample) /\ Ascending(s) /\ HopOf(s, ha, a) /\ HopOf(s, hb, b) /\ a < b
  BY DEF LapOf
<1>2. ha \in LocatedAt(s) /\ a \in LocatedAt(s) /\ hb \in LocatedAt(s) /\ b \in LocatedAt(s)
  BY <1>1 DEF HopOf
<1>3. /\ a \in Nat /\ s[a].time \in Int /\ RawAt(s, a).time \in Int
      /\ RawAt(s, a).time <= s[a].time
  BY <1>1, <1>2, HopOrder
<1>4. /\ hb \in Nat /\ b \in Nat /\ s[hb].time \in Int /\ RawAt(s, b).time \in Int
      /\ s[hb].time <= RawAt(s, b).time
      /\ a <= hb \/ b <= a
      /\ a <= hb => s[a].time <= s[hb].time
  BY <1>1, <1>2, HopOrder
<1> QED BY <1>1, <1>2, <1>3, <1>4

(* The fixes of the two hops that the window of the lap holds. *)
LEMMA WindowEnds ==
  ASSUME NEW s, NEW ha, NEW a, NEW hb, NEW b, LapOf(s, ha, a, hb, b), NEW from, NEW to,
         from = RawAt(s, a).time, to = RawAt(s, b).time
  PROVE  LET L == InWindow(s, from, to)
         IN  /\ L \in SUBSET LocatedAt(s) /\ a \in L /\ hb \in L
             /\ \A i \in L : s[i].time < from => ha \in L
             /\ \A i \in L : s[i].time > to => b \in L
<1> DEFINE L == InWindow(s, from, to)
<1>1. s \in Seq(Sample) /\ Ascending(s) /\ HopOf(s, ha, a) /\ HopOf(s, hb, b) /\ a < b
  BY DEF LapOf
<1>2. /\ ha \in LocatedAt(s) /\ a \in LocatedAt(s) /\ hb \in LocatedAt(s) /\ b \in LocatedAt(s)
      /\ s[a].time <= s[hb].time /\ s[a].time \in Int /\ s[hb].time \in Int
      /\ from \in Int /\ to \in Int /\ from <= s[a].time /\ s[hb].time <= to
  BY LapOrder
<1>3. L \in SUBSET LocatedAt(s)
  BY DEF InWindow, WindowAt, LocatedAt, LastOf, FirstOf
<1>4. \A i \in LocatedAt(s) : from <= s[i].time /\ s[i].time <= to => i \in L
  BY DEF InWindow, WindowAt, LocatedAt
<1>5. a \in L /\ hb \in L
  BY <1>2, <1>4
<1>6. ASSUME NEW i \in L, s[i].time < from PROVE ha \in L
  <2>1. i \in LocatedAt(s) /\ i \in WindowAt(s, from, to)
    BY <1>3 DEF InWindow
  <2>2. /\ i \in Nat /\ ha \in Nat /\ s[i].time \in Int /\ s[ha].time \in Int
        /\ s[a].time \in Int /\ s[ha].time <= from /\ from <= s[a].time
        /\ i <= ha \/ a <= i
        /\ a <= i => s[a].time <= s[i].time
    BY <1>1, <2>1, HopOrder
  <2>3. i <= ha /\ ~(from <= s[i].time) /\ ~(s[i].time > to)
    BY <1>2, <1>6, <2>2
  <2>4. i \in LastOf({k \in DOMAIN s : s[k].time < from})
    BY <2>1, <2>3 DEF WindowAt, FirstOf
  <2>5. s[ha].time < from => ha <= i
    BY <1>2, <2>4 DEF LastOf, LocatedAt
  <2>6. CASE s[ha].time < from
    BY <1>6, <2>2, <2>3, <2>5, <2>6
  <2>7. CASE ~(s[ha].time < from)
    <3>1. from <= s[ha].time /\ s[ha].time <= to
      BY <1>2, <2>2, <2>7
    <3> QED BY <1>2, <1>4, <3>1
  <2> QED BY <2>6, <2>7
<1>7. ASSUME NEW i \in L, s[i].time > to PROVE b \in L
  <2>1. i \in LocatedAt(s) /\ i \in WindowAt(s, from, to)
    BY <1>3 DEF InWindow
  <2>2. /\ i \in Nat /\ hb \in Nat /\ b \in Nat /\ s[i].time \in Int /\ s[hb].time \in Int
        /\ s[b].time \in Int /\ s[hb].time <= to /\ to <= s[b].time
        /\ i <= hb \/ b <= i
        /\ i <= hb => s[i].time <= s[hb].time
    BY <1>1, <2>1, HopOrder
  <2>3. b <= i /\ ~(s[i].time <= to) /\ ~(s[i].time < from)
    BY <1>2, <1>7, <2>2
  <2>4. i \in FirstOf({k \in DOMAIN s : s[k].time > to})
    BY <2>1, <2>3 DEF WindowAt, LastOf
  <2>5. s[b].time > to => i <= b
    BY <1>2, <2>4 DEF FirstOf, LocatedAt
  <2>6. CASE s[b].time > to
    BY <1>7, <2>2, <2>3, <2>5, <2>6
  <2>7. CASE ~(s[b].time > to)
    <3>1. from <= s[b].time /\ s[b].time <= to
      BY <1>2, <2>2, <2>7
    <3> QED BY <1>2, <1>4, <3>1
  <2> QED BY <2>6, <2>7
<1> QED BY <1>3, <1>5, <1>6, <1>7

(* So a trace is its two ends around the fixes within the lap. *)
LEMMA TraceIs ==
  ASSUME NEW s, NEW ha, NEW a, NEW hb, NEW b, LapOf(s, ha, a, hb, b), NEW from, NEW to,
         from = RawAt(s, a).time, to = RawAt(s, b).time
  PROVE  \E r, m :
           /\ Lists(r, m, InLap(s, from, to))
           /\ AnchorToLap(LapWindow(s, from, to), from, to) =
                EndOf(s, ha, a, InWindow(s, from, to))
                  \o PointsOf(s, r, m)
                  \o EndOf(s, hb, b, InWindow(s, from, to))
<1>1. s \in Seq(Sample) /\ Ascending(s) /\ HopOf(s, ha, a) /\ HopOf(s, hb, b)
  BY DEF LapOf
<1> DEFINE L == InWindow(s, from, to)
<1>2. /\ L \in SUBSET LocatedAt(s) /\ a \in L /\ hb \in L
      /\ \A i \in L : s[i].time < from => ha \in L
      /\ \A i \in L : s[i].time > to => b \in L
  BY WindowEnds
<1>3. PICK q, n, r, m : TraceOf(s, from, to, q, n, r, m)
  BY <1>1, TraceLists
<1>7. /\ Lists(q, n, L) /\ Lists(r, m, InLap(s, from, to))
      /\ AnchorToLap(LapWindow(s, from, to), from, to) =
           InterpolateAt(Listed(s, q, n), from) \o PointsOf(s, r, m)
             \o InterpolateAt(Listed(s, q, n), to)
  BY <1>3 DEF TraceOf
<1> HIDE DEF L
<1>4. InterpolateAt(Listed(s, q, n), RawAt(s, a).time) = EndOf(s, ha, a, L)
  <2>1. /\ \A i \in L : s[i].time < RawAt(s, a).time => ha \in L
        /\ \A i \in L : s[i].time > RawAt(s, a).time => a \in L
    BY <1>2
  <2> QED BY <1>1, <1>2, <1>7, <2>1, Interpolated
<1>5. InterpolateAt(Listed(s, q, n), RawAt(s, b).time) = EndOf(s, hb, b, L)
  <2>1. /\ \A i \in L : s[i].time < RawAt(s, b).time => hb \in L
        /\ \A i \in L : s[i].time > RawAt(s, b).time => b \in L
    BY <1>2
  <2> QED BY <1>1, <1>2, <1>7, <2>1, Interpolated
<1>6. /\ InterpolateAt(Listed(s, q, n), from) = EndOf(s, ha, a, L)
      /\ InterpolateAt(Listed(s, q, n), to) = EndOf(s, hb, b, L)
  BY <1>4, <1>5
<1> QED BY <1>6, <1>7 DEF L

(* A concatenation holds what its parts hold, and rises if they do, one above the other. *)
LEMMA ToSetConcat ==
  ASSUME NEW S, NEW u \in Seq(S), NEW v \in Seq(S)
  PROVE  u \o v \in Seq(S) /\ ToSet(u \o v) = ToSet(u) \cup ToSet(v)
<1> DEFINE w == u \o v
<1>1. /\ w \in Seq(S) /\ Len(u) \in Nat /\ Len(v) \in Nat /\ Len(w) = Len(u) + Len(v)
      /\ DOMAIN u = 1 .. Len(u) /\ DOMAIN v = 1 .. Len(v) /\ DOMAIN w = 1 .. Len(w)
      /\ \A i \in 1 .. Len(u) : w[i] = u[i]
      /\ \A i \in 1 .. Len(v) : w[Len(u) + i] = v[i]
  OBVIOUS
<1> HIDE DEF w
<1>2. ASSUME NEW i \in DOMAIN w PROVE w[i] \in ToSet(u) \cup ToSet(v)
  <2>1. CASE i \in 1 .. Len(u)
    BY <1>1, <2>1 DEF ToSet
  <2>2. CASE i \notin 1 .. Len(u)
    <3>1. PICK k \in 1 .. Len(v) : i = Len(u) + k
      <4>1. i - Len(u) \in 1 .. Len(v) /\ i = Len(u) + (i - Len(u))
        BY <1>1, <2>2
      <4> QED BY <4>1
    <3> QED BY <1>1, <3>1 DEF ToSet
  <2> QED BY <2>1, <2>2
<1>3. \A i \in DOMAIN u : u[i] \in ToSet(w)
  <2>1. \A i \in DOMAIN u : i \in DOMAIN w /\ w[i] = u[i]
    BY <1>1
  <2> QED BY <2>1 DEF ToSet
<1>4. ASSUME NEW i \in DOMAIN v PROVE v[i] \in ToSet(w)
  <2>1. PICK k \in DOMAIN w : k = Len(u) + i
    BY <1>1
  <2> QED BY <1>1, <2>1 DEF ToSet
<1>5. ToSet(w) \subseteq ToSet(u) \cup ToSet(v)
  BY <1>2 DEF ToSet
<1>6. ToSet(u) \subseteq ToSet(w) /\ ToSet(v) \subseteq ToSet(w)
  BY <1>3, <1>4 DEF ToSet
<1> QED BY <1>1, <1>5, <1>6 DEF w

(* The points of a trace ascend. *)
Rising(u) == \A i, j \in DOMAIN u : i < j => u[i].time < u[j].time

LEMMA RisingConcat ==
  ASSUME NEW S, NEW u \in Seq(S), NEW v \in Seq(S), Rising(u), Rising(v),
         \A i \in DOMAIN u, j \in DOMAIN v : u[i].time < v[j].time
  PROVE  Rising(u \o v)
<1> DEFINE w == u \o v
<1>1. /\ Len(u) \in Nat /\ Len(v) \in Nat /\ Len(w) = Len(u) + Len(v) /\ DOMAIN w = 1 .. Len(w)
      /\ DOMAIN u = 1 .. Len(u) /\ DOMAIN v = 1 .. Len(v)
      /\ \A i \in 1 .. Len(u) : w[i] = u[i]
      /\ \A i \in 1 .. Len(v) : w[Len(u) + i] = v[i]
  OBVIOUS
<1> HIDE DEF w
<1>2. ASSUME NEW i \in DOMAIN w, i \notin DOMAIN u
      PROVE  \E k \in DOMAIN v : i = Len(u) + k /\ w[i] = v[k]
  <2>1. i - Len(u) \in DOMAIN v /\ i = Len(u) + (i - Len(u))
    BY <1>1, <1>2
  <2>2. PICK k \in DOMAIN v : i = Len(u) + k
    BY <2>1
  <2> QED BY <1>1, <2>2
<1> SUFFICES ASSUME NEW i \in DOMAIN w, NEW j \in DOMAIN w, i < j PROVE w[i].time < w[j].time
  BY DEF Rising, w
<1>3. CASE i \in DOMAIN u /\ j \in DOMAIN u
  BY <1>1, <1>3 DEF Rising
<1>4. CASE i \in DOMAIN u /\ j \notin DOMAIN u
  <2>1. PICK l \in DOMAIN v : w[j] = v[l]
    BY <1>2, <1>4
  <2> QED BY <1>1, <1>4, <2>1
<1>5. CASE i \notin DOMAIN u
  <2>1. j \notin DOMAIN u
    BY <1>1, <1>5
  <2>2. PICK k \in DOMAIN v : i = Len(u) + k /\ w[i] = v[k]
    BY <1>2, <1>5
  <2>3. PICK l \in DOMAIN v : j = Len(u) + l /\ w[j] = v[l]
    BY <1>2, <2>1
  <2>4. k < l
    BY <1>1, <2>2, <2>3
  <2> QED BY <2>2, <2>3, <2>4 DEF Rising
<1> QED BY <1>3, <1>4, <1>5

(* A fix on the instant of a crossing is the crossing, and two that bracket it are its hop. *)
LEMMA BracketIsHop ==
  ASSUME NEW s \in Seq(Sample), Ascending(s), NEW h, NEW j, HopOf(s, h, j), NEW i \in LocatedAt(s),
         s[i].time <= RawAt(s, j).time
  PROVE  /\ s[i].time = RawAt(s, j).time => PointOf(s[i]) = PointOf(RawAt(s, j))
         /\ s[i].time < RawAt(s, j).time /\ i + 1 \in LocatedAt(s) /\ s[i + 1].time > RawAt(s, j).time =>
              /\ i = h /\ i + 1 = j
              /\ s[h].time < RawAt(s, j).time /\ RawAt(s, j).time < s[j].time
<1>t. PICK t : t = RawAt(s, j).time
  OBVIOUS
<1>1. /\ h \in LocatedAt(s) /\ j \in LocatedAt(s)
      /\ t = s[h].time => PointOf(RawAt(s, j)) = PointOf(s[h])
      /\ t = s[j].time => PointOf(RawAt(s, j)) = PointOf(s[j])
  BY <1>t DEF HopOf
<1>2. ASSUME NEW k \in LocatedAt(s)
      PROVE  /\ h \in Nat /\ j \in Nat /\ k \in Nat /\ h < j
             /\ s[h].time \in Int /\ s[j].time \in Int /\ s[k].time \in Int /\ t \in Int
             /\ s[h].time <= t /\ t <= s[j].time
             /\ k <= h \/ j <= k
             /\ k <= h => s[k].time <= s[h].time
             /\ j <= k => s[j].time <= s[k].time
             /\ s[k].time = s[h].time => k = h
             /\ s[k].time = s[j].time => k = j
  BY <1>t, HopOrder
<1>3. ASSUME s[i].time = t PROVE PointOf(s[i]) = PointOf(RawAt(s, j))
  <2>1. (i = h /\ t = s[h].time) \/ (i = j /\ t = s[j].time)
    BY <1>2, <1>3
  <2> QED BY <1>1, <2>1
<1>4. ASSUME s[i].time < t, i + 1 \in LocatedAt(s), s[i + 1].time > t
      PROVE  i = h /\ i + 1 = j /\ s[h].time < t /\ t < s[j].time
  <2>1. PICK k \in LocatedAt(s) : k = i + 1
    BY <1>4
  <2>2. s[k].time > t
    BY <1>4, <2>1
  <2>3. i <= h
    BY <1>2, <1>4
  <2>4. j <= k
    BY <1>2, <2>2
  <2>5. i \in Nat /\ h \in Nat /\ j \in Nat /\ h < j
    BY <1>2
  <2>6. i = h /\ i + 1 = j
    BY <2>1, <2>3, <2>4, <2>5
  <2> QED BY <1>4, <2>6
<1> QED BY <1>3, <1>4, <1>t

(* A fix on an instant, or one of two that bracket it. *)
Brackets(s, i, time) ==
  /\ i \in LocatedAt(s) /\ s[i].time <= time
  /\ s[i].time < time => i + 1 \in LocatedAt(s) /\ s[i + 1].time > time

(* The three parts of a trace: its ends, if they are made up, and the fixes within the lap. *)
LEMMA PartsOfTrace ==
  ASSUME NEW s, NEW ha, NEW a, NEW hb, NEW b, LapOf(s, ha, a, hb, b), NEW from, NEW to,
         from = RawAt(s, a).time, to = RawAt(s, b).time
  PROVE  LET L == InWindow(s, from, to)
             I == InLap(s, from, to)
             trace == AnchorToLap(LapWindow(s, from, to), from, to)
         IN  /\ ToSet(trace) = ToSet(EndOf(s, ha, a, L)) \cup {PointOf(s[i]) : i \in I}
                                 \cup ToSet(EndOf(s, hb, b, L))
             /\ Rising(trace) /\ Len(trace) \in Nat /\ DOMAIN trace = 1 .. Len(trace)
<1> DEFINE L == InWindow(s, from, to)
           I == InLap(s, from, to)
           S == {PointOf(RawAt(s, a)), PointOf(RawAt(s, b))} \cup {PointOf(s[i]) : i \in I}
           u == EndOf(s, ha, a, L)
           v == EndOf(s, hb, b, L)
<1>1. s \in Seq(Sample) /\ Ascending(s) /\ HopOf(s, ha, a) /\ HopOf(s, hb, b)
  BY DEF LapOf
<1>2. PICK r, m :
        /\ Lists(r, m, I)
        /\ AnchorToLap(LapWindow(s, from, to), from, to) = u \o PointsOf(s, r, m) \o v
  BY TraceIs
<1> DEFINE w == PointsOf(s, r, m)
<1>3. /\ m \in Nat /\ r \in [1 .. m -> I]
      /\ \A i \in I : \E k \in 1 .. m : r[k] = i
      /\ \A k, l \in 1 .. m : k < l => r[k] < r[l]
  BY <1>2 DEF Lists
<1>4. /\ DOMAIN w = 1 .. m /\ \A k \in 1 .. m : w[k] = PointOf(s[r[k]])
      /\ w = [k \in 1 .. m |-> PointOf(s[r[k]])]
  BY DEF PointsOf
<1> HIDE DEF I, w
<1>5. u \in Seq(S) /\ v \in Seq(S) /\ w \in Seq(S)
  <2>1. u \in Seq(S) /\ v \in Seq(S)
    <3>1. u \in {<<>>, <<PointOf(RawAt(s, a))>>} /\ v \in {<<>>, <<PointOf(RawAt(s, b))>>}
      BY DEF EndOf
    <3>2. PointOf(RawAt(s, a)) \in S /\ PointOf(RawAt(s, b)) \in S
      OBVIOUS
    <3> HIDE DEF S, u, v
    <3>3. /\ <<>> \in Seq(S) /\ <<PointOf(RawAt(s, a))>> \in Seq(S)
          /\ <<PointOf(RawAt(s, b))>> \in Seq(S)
      BY <3>2
    <3> QED BY <3>1, <3>3
  <2>2. \A k \in 1 .. m : PointOf(s[r[k]]) \in S
    BY <1>3
  <2> HIDE DEF S
  <2>3. w \in Seq(S)
    BY <1>3, <1>4, <2>2
  <2> QED BY <2>1, <2>3
<1>6. ToSet(w) = {PointOf(s[i]) : i \in I}
  BY <1>3, <1>4 DEF ToSet
<1>7. /\ Rising(u) /\ \A i \in DOMAIN u : u[i].time = from
      /\ \A i \in DOMAIN u : s[ha].time < from /\ from < s[a].time
  BY DEF Rising, EndOf, PointOf
<1>8. /\ Rising(v) /\ \A i \in DOMAIN v : v[i].time = to
      /\ \A i \in DOMAIN v : s[hb].time < to /\ to < s[b].time
  BY DEF Rising, EndOf, PointOf
<1> HIDE DEF u, v, S
<1>9. \A k \in 1 .. m : r[k] \in LocatedAt(s) /\ w[k].time = s[r[k]].time
                        /\ from <= s[r[k]].time /\ s[r[k]].time <= to
  BY <1>3, <1>4 DEF I, InLap, PointOf
<1>10. Rising(w)
  <2> SUFFICES ASSUME NEW k \in 1 .. m, NEW l \in 1 .. m, k < l PROVE w[k].time < w[l].time
    BY <1>4 DEF Rising
  <2>1. r[k] < r[l] /\ r[k] \in LocatedAt(s) /\ r[l] \in LocatedAt(s)
    BY <1>3, <1>9
  <2>2. s[r[k]].time < s[r[l]].time
    BY <1>1, <2>1, TimeIsPlace
  <2> QED BY <1>9, <2>2
<1>11. /\ ha \in LocatedAt(s) /\ a \in LocatedAt(s) /\ hb \in LocatedAt(s) /\ b \in LocatedAt(s)
       /\ from \in Int /\ to \in Int
       /\ s[a].time \in Int /\ s[hb].time \in Int /\ from <= s[a].time /\ s[a].time <= s[hb].time
       /\ s[hb].time <= to
  BY LapOrder
<1>12. ASSUME NEW i \in DOMAIN u, NEW k \in 1 .. m PROVE u[i].time < w[k].time
  <2>0. PICK x \in LocatedAt(s) : x = r[k]
    BY <1>9
  <2>1. /\ s[ha].time \in Int /\ s[a].time \in Int /\ s[x].time \in Int
        /\ ha \in Nat /\ a \in Nat /\ x \in Nat
        /\ x <= ha \/ a <= x
        /\ x <= ha => s[x].time <= s[ha].time
        /\ a <= x => s[a].time <= s[x].time
    BY <1>1, HopOrder
  <2>2. s[ha].time < from /\ from < s[a].time /\ from <= s[x].time
    BY <1>7, <1>9, <2>0
  <2>3. from < s[x].time
    BY <1>11, <2>1, <2>2
  <2> QED BY <1>7, <1>9, <2>0, <2>3
<1>13. ASSUME NEW i \in DOMAIN v, NEW k \in 1 .. m PROVE w[k].time < v[i].time
  <2>0. PICK x \in LocatedAt(s) : x = r[k]
    BY <1>9
  <2>1. /\ s[hb].time \in Int /\ s[b].time \in Int /\ s[x].time \in Int
        /\ hb \in Nat /\ b \in Nat /\ x \in Nat
        /\ x <= hb \/ b <= x
        /\ x <= hb => s[x].time <= s[hb].time
        /\ b <= x => s[b].time <= s[x].time
    BY <1>1, HopOrder
  <2>2. s[hb].time < to /\ to < s[b].time /\ s[x].time <= to
    BY <1>8, <1>9, <2>0
  <2>3. s[x].time < to
    BY <1>11, <2>1, <2>2
  <2> QED BY <1>8, <1>9, <2>0, <2>3
<1>14. ASSUME NEW i \in DOMAIN u, NEW j \in DOMAIN v PROVE u[i].time < v[j].time
  <2>1. from < s[a].time /\ u[i].time = from /\ v[j].time = to
    BY <1>7, <1>8
  <2> QED BY <1>11, <2>1
<1>15. u \o w \in Seq(S) /\ Rising(u \o w) /\ ToSet(u \o w) = ToSet(u) \cup ToSet(w)
  <2>1. \A i \in DOMAIN u, k \in DOMAIN w : u[i].time < w[k].time
    BY <1>4, <1>12
  <2>2. Rising(u \o w)
    BY <1>5, <1>7, <1>10, <2>1, RisingConcat
  <2> QED BY <1>5, <2>2, ToSetConcat
<1>16. ASSUME NEW i \in DOMAIN (u \o w), NEW j \in DOMAIN v PROVE (u \o w)[i].time < v[j].time
  <2>1. (u \o w)[i] \in ToSet(u) \cup ToSet(w)
    BY <1>15 DEF ToSet
  <2>2. (\E k \in DOMAIN u : (u \o w)[i] = u[k]) \/ (\E k \in DOMAIN w : (u \o w)[i] = w[k])
    BY <2>1 DEF ToSet
  <2> QED BY <1>4, <1>13, <1>14, <2>2
<1>17. PICK x \in Seq(S) : x = u \o w
  BY <1>15
<1>18. Rising(x \o v) /\ x \o v \in Seq(S) /\ ToSet(x \o v) = ToSet(x) \cup ToSet(v)
  <2>1. Rising(x) /\ \A i \in DOMAIN x, j \in DOMAIN v : x[i].time < v[j].time
    BY <1>15, <1>16, <1>17
  <2> QED BY <1>5, <1>8, <2>1, RisingConcat, ToSetConcat
<1>19. Len(x \o v) \in Nat /\ DOMAIN (x \o v) = 1 .. Len(x \o v)
  BY <1>18
<1>20. AnchorToLap(LapWindow(s, from, to), from, to) = x \o v
  BY <1>2, <1>17 DEF w
<1> QED BY <1>6, <1>15, <1>17, <1>18, <1>19, <1>20 DEF u, v, I

(* A trace holds the fixes and the crossings of its lap, and no other point. *)
LEMMA TraceHolds ==
  ASSUME NEW s, NEW ha, NEW a, NEW hb, NEW b, LapOf(s, ha, a, hb, b), NEW from, NEW to,
         from = RawAt(s, a).time, to = RawAt(s, b).time
  PROVE  LET trace == AnchorToLap(LapWindow(s, from, to), from, to)
         IN  /\ ToSet(trace) \subseteq {PointOf(RawAt(s, a)), PointOf(RawAt(s, b))} \cup Stretch(s, a, b)
             /\ Stretch(s, a, b) \subseteq ToSet(trace)
             /\ \A i : Brackets(s, i, from) => PointOf(RawAt(s, a)) \in ToSet(trace)
             /\ \A i : Brackets(s, i, to) => PointOf(RawAt(s, b)) \in ToSet(trace)
<1> DEFINE L == InWindow(s, from, to)
           I == InLap(s, from, to)
           set == ToSet(AnchorToLap(LapWindow(s, from, to), from, to))
           u == EndOf(s, ha, a, L)
           v == EndOf(s, hb, b, L)
<1>1. s \in Seq(Sample) /\ Ascending(s) /\ HopOf(s, ha, a) /\ HopOf(s, hb, b)
  BY DEF LapOf
<1>2. set = ToSet(u) \cup {PointOf(s[i]) : i \in I} \cup ToSet(v)
  BY PartsOfTrace
<1> HIDE DEF set
<1>3. /\ ha \in LocatedAt(s) /\ a \in LocatedAt(s) /\ hb \in LocatedAt(s) /\ b \in LocatedAt(s)
      /\ from \in Int /\ to \in Int /\ a <= hb
      /\ s[a].time \in Int /\ s[hb].time \in Int /\ from <= s[a].time /\ s[a].time <= s[hb].time
      /\ s[hb].time <= to
  BY LapOrder
<1>4. ToSet(u) \subseteq {PointOf(RawAt(s, a))} /\ ToSet(v) \subseteq {PointOf(RawAt(s, b))}
  BY DEF EndOf, ToSet
<1>5. ASSUME NEW x \in LocatedAt(s)
      PROVE  /\ s[ha].time \in Int /\ s[hb].time \in Int /\ s[a].time \in Int /\ s[b].time \in Int
             /\ ha \in Nat /\ a \in Nat /\ hb \in Nat /\ b \in Nat /\ x \in Nat /\ s[x].time \in Int
             /\ ha < a /\ hb < b
             /\ s[ha].time <= from /\ to <= s[b].time
             /\ x <= ha \/ a <= x
             /\ x <= hb \/ b <= x
             /\ x <= ha => s[x].time <= s[ha].time
             /\ a <= x => s[a].time <= s[x].time
             /\ x <= hb => s[x].time <= s[hb].time
             /\ b <= x => s[b].time <= s[x].time
             /\ s[x].time = s[ha].time => x = ha
             /\ s[x].time = s[b].time => x = b
  BY <1>1, HopOrder
<1>6. ASSUME NEW x \in LocatedAt(s), a <= x, x < b PROVE x \in I
  <2>1. from <= s[x].time /\ s[x].time <= to
    BY <1>3, <1>5, <1>6
  <2> QED BY <2>1 DEF InLap
<1>7. ASSUME NEW x \in I
      PROVE  PointOf(s[x]) \in {PointOf(RawAt(s, a)), PointOf(RawAt(s, b))} \cup Stretch(s, a, b)
  <2>1. x \in LocatedAt(s) /\ from <= s[x].time /\ s[x].time <= to
    BY DEF InLap
  <2>2. CASE a <= x /\ x < b
    BY <2>1, <2>2 DEF Stretch
  <2>3. CASE ~(a <= x)
    <3>1. x = ha /\ from = s[ha].time
      BY <1>3, <1>5, <2>1, <2>3
    <3> QED BY <1>1, <3>1 DEF HopOf
  <2>4. CASE ~(x < b)
    <3>1. x = b /\ to = s[b].time
      BY <1>3, <1>5, <2>1, <2>4
    <3> QED BY <1>1, <3>1 DEF HopOf
  <2> QED BY <2>2, <2>3, <2>4
<1>8. Stretch(s, a, b) \subseteq set
  BY <1>2, <1>6 DEF Stretch
<1>9. set \subseteq {PointOf(RawAt(s, a)), PointOf(RawAt(s, b))} \cup Stretch(s, a, b)
  BY <1>2, <1>4, <1>7
<1>10. L \in SUBSET LocatedAt(s) /\ a \in L /\ hb \in L
  BY WindowEnds
<1>11. ASSUME NEW i, Brackets(s, i, from) PROVE PointOf(RawAt(s, a)) \in set
  <2>1. /\ i \in LocatedAt(s) /\ s[i].time <= from
        /\ s[i].time < from => i + 1 \in LocatedAt(s) /\ s[i + 1].time > from
    BY <1>11 DEF Brackets
  <2>2. /\ s[i].time = from => PointOf(s[i]) = PointOf(RawAt(s, a))
        /\ s[i].time < from /\ i + 1 \in LocatedAt(s) /\ s[i + 1].time > from =>
             i = ha /\ i + 1 = a /\ s[ha].time < from /\ from < s[a].time
    <3>1. s[i].time <= RawAt(s, a).time
      BY <2>1
    <3>2. /\ s[i].time = RawAt(s, a).time => PointOf(s[i]) = PointOf(RawAt(s, a))
          /\ s[i].time < RawAt(s, a).time /\ i + 1 \in LocatedAt(s)
               /\ s[i + 1].time > RawAt(s, a).time =>
               /\ i = ha /\ i + 1 = a
               /\ s[ha].time < RawAt(s, a).time /\ RawAt(s, a).time < s[a].time
      BY <1>1, <2>1, <3>1, BracketIsHop
    <3> QED BY <3>2
  <2>3. CASE s[i].time = from
    <3>1. i \in I
      BY <1>3, <2>1, <2>3 DEF InLap
    <3> QED BY <1>2, <2>2, <2>3, <3>1
  <2>4. CASE s[i].time < from
    <3>1. ha + 1 = a /\ s[ha].time < from /\ from < s[a].time
      BY <2>1, <2>2, <2>4
    <3>2. ha \in DOMAIN s /\ IsPositioned(s[ha]) /\ a \in DOMAIN s /\ DOMAIN s \subseteq Nat
      BY <1>1, <1>3 DEF LocatedAt
    <3>3. ASSUME NEW j \in DOMAIN s, s[j].time < from PROVE j <= ha
      <4>1. a < j => s[a].time < s[j].time
        BY <1>1, <3>2 DEF Ascending
      <4>2. s[j].time \in Int /\ j \in Nat /\ ha \in Nat
        <5>1. s[j] \in Sample
          BY <1>1
        <5> QED BY <3>2, <5>1 DEF Sample
      <4> QED BY <1>3, <3>1, <3>2, <3>3, <4>1, <4>2
    <3>4. ha \in L
      BY <3>1, <3>2, <3>3 DEF InWindow, WindowAt, LastOf
    <3>5. u = <<PointOf(RawAt(s, a))>>
      BY <1>10, <3>1, <3>4 DEF EndOf
    <3> QED BY <1>2, <3>5 DEF ToSet
  <2>5. s[i].time \in Int
    BY <1>5, <2>1
  <2> QED BY <1>3, <2>1, <2>3, <2>4, <2>5
<1>12. ASSUME NEW i, Brackets(s, i, to) PROVE PointOf(RawAt(s, b)) \in set
  <2>1. /\ i \in LocatedAt(s) /\ s[i].time <= to
        /\ s[i].time < to => i + 1 \in LocatedAt(s) /\ s[i + 1].time > to
    BY <1>12 DEF Brackets
  <2>2. /\ s[i].time = to => PointOf(s[i]) = PointOf(RawAt(s, b))
        /\ s[i].time < to /\ i + 1 \in LocatedAt(s) /\ s[i + 1].time > to =>
             i = hb /\ i + 1 = b /\ s[hb].time < to /\ to < s[b].time
    <3>1. s[i].time <= RawAt(s, b).time
      BY <2>1
    <3>2. /\ s[i].time = RawAt(s, b).time => PointOf(s[i]) = PointOf(RawAt(s, b))
          /\ s[i].time < RawAt(s, b).time /\ i + 1 \in LocatedAt(s)
               /\ s[i + 1].time > RawAt(s, b).time =>
               /\ i = hb /\ i + 1 = b
               /\ s[hb].time < RawAt(s, b).time /\ RawAt(s, b).time < s[b].time
      BY <1>1, <2>1, <3>1, BracketIsHop
    <3> QED BY <3>2
  <2>3. CASE s[i].time = to
    <3>1. i \in I
      BY <1>3, <2>1, <2>3 DEF InLap
    <3> QED BY <1>2, <2>2, <2>3, <3>1
  <2>4. CASE s[i].time < to
    <3>1. hb + 1 = b /\ s[hb].time < to /\ to < s[b].time
      BY <2>1, <2>2, <2>4
    <3>2. hb \in DOMAIN s /\ b \in DOMAIN s /\ IsPositioned(s[b]) /\ DOMAIN s \subseteq Nat
      BY <1>1, <1>3 DEF LocatedAt
    <3>3. ASSUME NEW j \in DOMAIN s, s[j].time > to PROVE b <= j
      <4>1. j < hb => s[j].time < s[hb].time
        BY <1>1, <3>2 DEF Ascending
      <4>2. s[j].time \in Int /\ j \in Nat /\ hb \in Nat /\ b \in Nat
        <5>1. s[j] \in Sample
          BY <1>1
        <5> QED BY <3>2, <5>1 DEF Sample
      <4> QED BY <1>3, <3>1, <3>2, <3>3, <4>1, <4>2
    <3>4. b \in L
      BY <3>1, <3>2, <3>3 DEF InWindow, WindowAt, FirstOf
    <3>5. v = <<PointOf(RawAt(s, b))>>
      BY <1>10, <3>1, <3>4 DEF EndOf
    <3> QED BY <1>2, <3>5 DEF ToSet
  <2>5. s[i].time \in Int
    BY <1>5, <2>1
  <2> QED BY <1>3, <2>1, <2>3, <2>4, <2>5
<1> QED BY <1>8, <1>9, <1>11, <1>12 DEF set

(* Bracketed, by a place. *)
LEMMA BracketedIs ==
  ASSUME samples \in Seq(Sample), NEW time, Bracketed(time)
  PROVE  \E i : Brackets(samples, i, time)
<1>1. PICK i \in DOMAIN samples :
        /\ IsPositioned(samples[i]) /\ samples[i].time <= time
        /\ samples[i].time < time =>
             /\ i < Len(samples)
             /\ IsPositioned(samples[i + 1]) /\ samples[i + 1].time > time
  BY DEF Bracketed
<1>2. i < Len(samples) => i + 1 \in DOMAIN samples
  OBVIOUS
<1>3. Brackets(samples, i, time)
  BY <1>1, <1>2 DEF Brackets, LocatedAt
<1> QED BY <1>3

(* The trace of every lap, from what the laps and the samples are known to be. *)
LEMMA LapRebuilt ==
  ASSUME SegmenterAssumption, CrossingsInv, NEW tick, GridOf(tick), OnGrid(tick)
  PROVE  TraceRebuildsLap
<1>1. samples \in Seq(Sample) /\ Ascending(samples) /\ lapNumber \in Nat
  BY CrossingsTyped DEF CrossingsInv, SegmenterInv, TypeOK
<1>2. PICK at \in [1 .. lapNumber -> Raw(samples)] :
        Counted(samples, at, lapNumber) /\ Runs(samples, at, lapNumber) /\ Holds(samples, at)
  BY DEF CrossingsInv
<1> SUFFICES ASSUME NEW k \in DOMAIN laps
             PROVE  LET lap == laps[k]
                        trace == Trace(lap)
                        lost == {p \in ToSet(lap.points) :
                                   p.time \in {lap.start, lap.end} /\ ~Bracketed(p.time)}
                    IN  /\ ToSet(trace) \subseteq ToSet(lap.points)
                        /\ ToSet(lap.points) \ lost \subseteq ToSet(trace)
                        /\ \A i \in 2 .. Len(trace) : trace[i - 1].time < trace[i].time
  BY DEF TraceRebuildsLap
<1> DEFINE lap == laps[k]
           trace == Trace(lap)
<1>3. k \in 1 .. lapNumber /\ k + 1 \in 1 .. lapNumber /\ k < k + 1
  BY <1>1, <1>2 DEF Runs
<1>a. PICK a \in Raw(samples), b \in Raw(samples) : a = at[k] /\ b = at[k + 1]
  BY <1>2, <1>3
<1>4. a < b
  BY <1>2, <1>3, <1>a DEF Counted
<1>b. PICK from, to : from = lap.start /\ to = lap.end
  OBVIOUS
<1>5. from = RawAt(samples, a).time /\ to = RawAt(samples, b).time
  BY <1>2, <1>a, <1>b DEF Runs
<1>6. ToSet(lap.points) =
        {PointOf(RawAt(samples, a)), PointOf(RawAt(samples, b))} \cup Stretch(samples, a, b)
  BY <1>2, <1>a DEF Holds
<1>7. \A i \in DOMAIN samples : \E n \in Nat, fix \in Fix : samples[i] = Stamped(fix, n * tick)
  BY DEF OnGrid
<1>8. PICK ha : HopOf(samples, ha, a)
  BY <1>1, <1>7, RawOnGrid
<1>9. PICK hb : HopOf(samples, hb, b)
  BY <1>1, <1>7, RawOnGrid
<1>10. LapOf(samples, ha, a, hb, b)
  BY <1>1, <1>4, <1>8, <1>9 DEF LapOf
<1>11. trace = AnchorToLap(LapWindow(samples, from, to), from, to)
  BY <1>b DEF Trace
<1>12. /\ ToSet(trace) \subseteq
            {PointOf(RawAt(samples, a)), PointOf(RawAt(samples, b))} \cup Stretch(samples, a, b)
       /\ Stretch(samples, a, b) \subseteq ToSet(trace)
       /\ \A i : Brackets(samples, i, from) => PointOf(RawAt(samples, a)) \in ToSet(trace)
       /\ \A i : Brackets(samples, i, to) => PointOf(RawAt(samples, b)) \in ToSet(trace)
  BY <1>5, <1>10, <1>11, TraceHolds
<1>13. Rising(trace) /\ Len(trace) \in Nat /\ DOMAIN trace = 1 .. Len(trace)
  BY <1>5, <1>10, <1>11, PartsOfTrace
<1> HIDE DEF trace, lap
<1>14. \A i \in 2 .. Len(trace) : trace[i - 1].time < trace[i].time
  <2> TAKE i \in 2 .. Len(trace)
  <2>1. i - 1 \in DOMAIN trace /\ i \in DOMAIN trace /\ i - 1 < i
    BY <1>13
  <2> QED BY <1>13, <2>1 DEF Rising
<1>15. PointOf(RawAt(samples, a)).time = from /\ PointOf(RawAt(samples, b)).time = to
  BY <1>5 DEF PointOf
<1>16. ASSUME NEW p \in ToSet(lap.points), ~(p.time \in {from, to} /\ ~Bracketed(p.time))
       PROVE  p \in ToSet(trace)
  <2>1. CASE p \in Stretch(samples, a, b)
    BY <1>12, <2>1
  <2>2. CASE p = PointOf(RawAt(samples, a))
    <3>1. Bracketed(from)
      BY <1>15, <1>16, <2>2
    <3>2. PICK i : Brackets(samples, i, from)
      BY <1>1, <3>1, BracketedIs
    <3> QED BY <1>12, <2>2, <3>2
  <2>3. CASE p = PointOf(RawAt(samples, b))
    <3>1. Bracketed(to)
      BY <1>15, <1>16, <2>3
    <3>2. PICK i : Brackets(samples, i, to)
      BY <1>1, <3>1, BracketedIs
    <3> QED BY <1>12, <2>3, <3>2
  <2> QED BY <1>6, <2>1, <2>2, <2>3
<1>17. ToSet(trace) \subseteq ToSet(lap.points)
  BY <1>6, <1>12
<1> QED BY <1>b, <1>14, <1>16, <1>17 DEF lap, trace

(* The trace of every lap holds the points the lap was timed on, in ascending time, but for an end
   next to a sample without position (findLapWindow, anchorToLap, interpolateAt), for every session
   on a grid. *)
THEOREM TraceRebuildsLapAlways == Spec => []TraceRebuildsLap
<1>1. PICK tick : GridOf(tick)
  BY GridAssumption DEF GridOf
<1>2. tick \in Nat /\ \A hop \in Hop : \E n \in Nat : hop = n * tick
  BY <1>1, SegmenterAssumption DEF GridOf, SegmenterAssumption
<1>3. Init => OnGrid(tick)
  BY DEF Init, OnGrid
<1>4. SegmenterInv /\ OnGrid(tick) /\ [Next]_vars => OnGrid(tick)'
  BY <1>2, StepOnGrid
<1>5. CrossingsInv /\ OnGrid(tick) => TraceRebuildsLap
  BY <1>1, SegmenterAssumption, LapRebuilt
<1> QED BY <1>3, <1>4, <1>5, SegmenterInvariant, CrossingsInvariant, PTL DEF Spec

-----------------------------------------------------------------------------
(* The comparison of two laps. *)

(* Where the cursor of a lookup stands: all it passed lies before the distance. *)
Behind(s, c, d) == c \in 1 .. Len(s) /\ \A j \in 1 .. c - 1 : s[j + 1].dist < d

CursorIs(s, c, d) == Behind(s, c, d) /\ (c = Len(s) \/ s[c + 1].dist >= d)

LEMMA ReadingsOf ==
  ASSUME NEW s, IsTrace(s)
  PROVE  /\ Len(s) \in Nat
         /\ \A i \in 1 .. Len(s) : s[i] \in Reading /\ s[i].dist \in Nat /\ s[i].elapsed \in Nat
<1>1. Len(s) \in Nat /\ \A i \in 1 .. Len(s) : s[i] \in Reading
  BY DEF IsTrace
<1>2. \A r \in Reading : r.dist \in Nat /\ r.elapsed \in Nat
  BY DEF Reading
<1> QED BY <1>1, <1>2

LEMMA AdvanceIs ==
  ASSUME NEW s, IsTrace(s), NEW c \in 1 .. Len(s), NEW d \in Int
  PROVE  /\ Advance(s, c, d) \in c .. Len(s)
         /\ Advance(s, c, d) = Len(s) \/ s[Advance(s, c, d) + 1].dist >= d
         /\ \A j \in c .. Advance(s, c, d) - 1 : s[j + 1].dist < d
<1> DEFINE T == {i \in c .. Len(s) : i = Len(s) \/ s[i + 1].dist >= d}
<1>1. Len(s) \in Nat /\ \A i \in 1 .. Len(s) : s[i].dist \in Nat
  BY ReadingsOf
<1>2. PICK i \in T : \A j \in T : i <= j
  <2>1. Len(s) \in T
    BY <1>1
  <2>2. T \subseteq Nat
    BY <1>1
  <2> HIDE DEF T
  <2> QED BY <2>1, <2>2, NatMin
<1>3. \A j \in c .. i - 1 : s[j + 1].dist < d
  <2> SUFFICES ASSUME NEW j \in c .. i - 1 PROVE s[j + 1].dist < d
    OBVIOUS
  <2>1. j \in c .. Len(s) /\ j + 1 \in 1 .. Len(s) /\ j < i
    BY <1>1, <1>2
  <2>2. j \notin T
    BY <1>2, <2>1
  <2> QED BY <1>1, <2>1, <2>2
<1>4. \E k \in c .. Len(s) :
         /\ k = Len(s) \/ s[k + 1].dist >= d
         /\ \A j \in c .. k - 1 : s[j + 1].dist < d
  BY <1>2, <1>3
<1>5. PICK k : k = Advance(s, c, d)
  OBVIOUS
<1>6. /\ k \in c .. Len(s)
      /\ k = Len(s) \/ s[k + 1].dist >= d
      /\ \A j \in c .. k - 1 : s[j + 1].dist < d
  <2> DEFINE Is(m) == /\ m = Len(s) \/ s[m + 1].dist >= d
                      /\ \A j \in c .. m - 1 : s[j + 1].dist < d
  <2>1. k = CHOOSE m \in c .. Len(s) : Is(m)
    BY <1>5 DEF Advance
  <2>2. \E m \in c .. Len(s) : Is(m)
    BY <1>4
  <2> HIDE DEF Is
  <2>3. k \in c .. Len(s) /\ Is(k)
    BY <2>1, <2>2
  <2> QED BY <2>3 DEF Is
<1> QED BY <1>5, <1>6

LEMMA AdvanceWithin ==
  ASSUME NEW s, IsTrace(s), NEW c \in 1 .. Len(s), NEW d \in Int
  PROVE  Advance(s, c, d) \in 1 .. Len(s)
<1>1. Advance(s, c, d) \in c .. Len(s) /\ Len(s) \in Nat
  BY AdvanceIs, ReadingsOf
<1> QED BY <1>1

(* Advancing from where a lookup of less stood is as good as from the start. *)
LEMMA CursorAdvances ==
  ASSUME NEW s, IsTrace(s), NEW c, NEW b \in Int, NEW d \in Int, b <= d,
         Behind(s, c, b)
  PROVE  CursorIs(s, Advance(s, c, d), d)
<1> USE DEF Behind
<1>1. Len(s) \in Nat /\ \A i \in 1 .. Len(s) : s[i].dist \in Nat
  BY ReadingsOf
<1>2. PICK k : k = Advance(s, c, d)
  OBVIOUS
<1>3. /\ k \in c .. Len(s)
      /\ k = Len(s) \/ s[k + 1].dist >= d
      /\ \A j \in c .. k - 1 : s[j + 1].dist < d
  BY <1>2, AdvanceIs
<1>4. \A j \in 1 .. k - 1 : s[j + 1].dist < d
  <2> SUFFICES ASSUME NEW j \in 1 .. k - 1 PROVE s[j + 1].dist < d
    OBVIOUS
  <2>1. CASE j < c
    <3>1. j \in 1 .. c - 1 /\ j + 1 \in 1 .. Len(s)
      BY <1>1, <1>3, <2>1
    <3>2. s[j + 1].dist < b /\ s[j + 1].dist \in Nat
      BY <1>1, <3>1
    <3> QED BY <3>2
  <2>2. CASE j >= c
    <3>1. j \in c .. k - 1
      BY <1>1, <1>3, <2>2
    <3> QED BY <1>3, <3>1
  <2> QED BY <1>1, <1>3, <2>1, <2>2
<1> QED BY <1>1, <1>2, <1>3, <1>4 DEF CursorIs

LEMMA BracketIs ==
  ASSUME NEW s, IsTrace(s), NEW i \in 2 .. Len(s), NEW d \in Nat,
         s[1].dist < d, d < s[Len(s)].dist, s[i].dist >= d, \A j \in 2 .. i - 1 : s[j].dist < d
  PROVE  BracketBy(s, "dist", d)
           = [a |-> s[i - 1], b |-> s[i], num |-> d - s[i - 1].dist, den |-> s[i].dist - s[i - 1].dist]
<1>1. Len(s) \in Nat /\ \A k \in 1 .. Len(s) : s[k].dist \in Nat
  BY ReadingsOf
<1>2. 1 \in 1 .. Len(s) /\ Len(s) \in 1 .. Len(s) /\ Len(s) >= 2
  BY <1>1
<1>3. ~(Len(s) < 2 \/ d <= s[1].dist) /\ ~(d >= s[Len(s)].dist)
  BY <1>1, <1>2
<1> DEFINE Is(k) == /\ s[k].dist >= d
                    /\ \A j \in 2 .. k - 1 : s[j].dist < d
           c == CHOOSE k \in 2 .. Len(s) : Is(k)
<1>4. BracketBy(s, "dist", d)
        = [a |-> s[c - 1], b |-> s[c], num |-> d - s[c - 1].dist, den |-> s[c].dist - s[c - 1].dist]
  BY <1>3 DEF BracketBy
<1>5. ASSUME NEW k \in 2 .. Len(s), Is(k)
      PROVE  k = i
  <2>1. ~(k < i)
    BY <1>1, <1>5
  <2>2. ~(i < k)
    BY <1>1, <1>5
  <2> QED BY <1>1, <2>1, <2>2
<1>6. c = i
  <2>1. Is(i)
    OBVIOUS
  <2> HIDE DEF Is
  <2> QED BY <1>5, <2>1
<1> HIDE DEF c
<1> QED BY <1>4, <1>6

LEMMA SampleIs ==
  ASSUME NEW s, IsTrace(s), EndsMoving(s), NEW d \in Nat, d <= s[Len(s)].dist,
         NEW c, CursorIs(s, c, d)
  PROVE  SampleAt(s, c, d) = InterpolateTracePointAt(s, d).elapsed
<1> DEFINE n == Len(s)
<1>1. n \in Nat /\ n >= 2 /\ \A i \in 1 .. n : s[i] \in Reading /\ s[i].dist \in Nat /\ s[i].elapsed \in Nat
  BY ReadingsOf DEF EndsMoving
<1>2. /\ \A i, j \in 1 .. n : i < j => s[i].dist <= s[j].dist
      /\ s[n - 1].dist < s[n].dist /\ n - 1 \in 1 .. n /\ n \in 1 .. n /\ 1 \in 1 .. n
  BY <1>1 DEF IsTrace, EndsMoving
<1>3. /\ c \in 1 .. n /\ (c = n \/ s[c + 1].dist >= d)
      /\ \A j \in 1 .. c - 1 : s[j + 1].dist < d
  BY DEF CursorIs, Behind
<1>4. c \in 1 .. n - 1 /\ c + 1 \in 2 .. n /\ c + 1 \in 1 .. n
  <2>1. SUFFICES ASSUME c = n PROVE FALSE
    BY <1>1, <1>3
  <2>2. n - 1 \in 1 .. c - 1 /\ (n - 1) + 1 = n
    BY <1>1, <2>1
  <2>3. s[n].dist < d
    BY <1>3, <2>2
  <2> QED BY <1>1, <1>2, <2>3
<1>5. MinOf(c + 1, n) = c + 1
  BY <1>1, <1>4 DEF MinOf
<1> DEFINE a == s[c]
           b == s[c + 1]
<1>6. a \in Reading /\ b \in Reading /\ a.dist \in Nat /\ b.dist \in Nat /\ a.elapsed \in Nat /\ b.elapsed \in Nat
  BY <1>1, <1>3, <1>4
<1>7. SampleAt(s, c, d) =
        IF b.dist <= a.dist \/ d <= a.dist THEN a.elapsed
        ELSE IF d >= b.dist THEN b.elapsed
        ELSE Between(a.elapsed, b.elapsed, d - a.dist, b.dist - a.dist)
  BY <1>5 DEF SampleAt
<1> HIDE DEF n
<1>8. CASE d <= s[1].dist
  <2>1. c = 1
    <3> SUFFICES ASSUME c # 1 PROVE FALSE
      OBVIOUS
    <3>1. 1 \in 1 .. c - 1 /\ 1 + 1 \in 1 .. n /\ 1 < 1 + 1
      BY <1>1, <1>3
    <3>2. s[1 + 1].dist < d /\ s[1].dist <= s[1 + 1].dist
      BY <1>2, <1>3, <3>1
    <3> QED BY <1>1, <1>2, <1>8, <3>1, <3>2
  <2>2. SampleAt(s, c, d) = a.elapsed
    BY <1>7, <1>8, <2>1
  <2>3. BracketBy(s, "dist", d) = [a |-> s[1], b |-> s[1], num |-> 0, den |-> 1]
    BY <1>8 DEF BracketBy
  <2>4. InterpolateTracePointAt(s, d) = s[1]
    BY <2>3 DEF InterpolateTracePointAt, InterpolatedAt, ByDistance
  <2> QED BY <2>1, <2>2, <2>4
<1>9. CASE s[1].dist < d /\ d = s[n].dist
  <2>1. c = n - 1
    <3> SUFFICES ASSUME c # n - 1 PROVE FALSE
      OBVIOUS
    <3>1. c + 1 \in 1 .. n /\ (c + 1 = n - 1 \/ c + 1 < n - 1) /\ c # n
      BY <1>1, <1>4
    <3>2. s[c + 1].dist <= s[n - 1].dist
      BY <1>1, <1>2, <3>1
    <3> QED BY <1>1, <1>2, <1>3, <1>9, <3>1, <3>2
  <2>2. b = s[n] /\ a = s[n - 1]
    BY <1>1, <2>1
  <2>3. SampleAt(s, c, d) = b.elapsed
    <3>1. ~(b.dist <= a.dist \/ d <= a.dist) /\ d >= b.dist
      BY <1>2, <1>6, <1>9, <2>2
    <3> HIDE DEF a, b
    <3> QED BY <1>7, <3>1
  <2>4. BracketBy(s, "dist", d) = [a |-> s[n], b |-> s[n], num |-> 0, den |-> 1]
    <3>1. ~(n < 2 \/ d <= s[1].dist) /\ d >= s[n].dist
      BY <1>1, <1>2, <1>9
    <3> QED BY <3>1 DEF BracketBy, n
  <2>5. InterpolateTracePointAt(s, d) = s[n]
    BY <2>4 DEF InterpolateTracePointAt, InterpolatedAt, ByDistance
  <2> QED BY <2>2, <2>3, <2>5
<1>10. CASE s[1].dist < d /\ d < s[n].dist
  <2>1. \A j \in 2 .. (c + 1) - 1 : s[j].dist < d
    <3> SUFFICES ASSUME NEW j \in 2 .. (c + 1) - 1 PROVE s[j].dist < d
      OBVIOUS
    <3>1. j - 1 \in 1 .. c - 1 /\ (j - 1) + 1 = j
      BY <1>4
    <3> QED BY <1>3, <3>1
  <2>2. a.dist < d /\ b.dist >= d
    <3>1. c # n
      BY <1>1, <1>4
    <3>2. CASE c = 1
      BY <1>3, <1>10, <3>1, <3>2
    <3>3. CASE c # 1
      <4>1. c \in 2 .. (c + 1) - 1
        BY <1>4, <3>3
      <4> QED BY <1>3, <2>1, <3>1, <4>1
    <3> QED BY <3>2, <3>3
  <2>3. BracketBy(s, "dist", d) = [a |-> a, b |-> b, num |-> d - a.dist, den |-> b.dist - a.dist]
    <3>1. c + 1 \in 2 .. Len(s) /\ (c + 1) - 1 = c
      BY <1>4 DEF n
    <3> QED BY <1>10, <2>1, <2>2, <3>1, BracketIs DEF n
  <2>4. a # b
    BY <1>6, <2>2
  <2> HIDE DEF a, b
  <2>5. InterpolateTracePointAt(s, d).elapsed = Between(a.elapsed, b.elapsed, d - a.dist, b.dist - a.dist)
    BY <2>3, <2>4 DEF InterpolateTracePointAt, InterpolatedAt, Along, ByDistance, ByElapsed
  <2>6. CASE d < b.dist
    <3>1. ~(b.dist <= a.dist \/ d <= a.dist) /\ ~(d >= b.dist)
      BY <1>6, <2>2, <2>6
    <3> QED BY <1>7, <2>5, <3>1
  <2>7. CASE d = b.dist
    <3>1. ~(b.dist <= a.dist \/ d <= a.dist) /\ d >= b.dist
      BY <1>6, <2>2, <2>7
    <3>2. Between(a.elapsed, b.elapsed, d - a.dist, b.dist - a.dist) = b.elapsed
      <4>1. PICK h \in Nat \ {0}, w \in Int : h = b.dist - a.dist /\ w = b.elapsed - a.elapsed
        BY <1>6, <2>2
      <4>2. (h * w) \div h = w
        BY QuotientOfProduct
      <4>3. Between(a.elapsed, b.elapsed, d - a.dist, b.dist - a.dist) = a.elapsed + w
        BY <2>7, <4>1, <4>2 DEF Between
      <4> QED BY <1>6, <4>1, <4>3
    <3> QED BY <1>7, <2>5, <3>1, <3>2
  <2> QED BY <1>6, <2>2, <2>6, <2>7
<1> QED BY <1>1, <1>2, <1>8, <1>9, <1>10 DEF n

(* The axis of a comparison. *)
LEMMA AxisIs ==
  ASSUME NEW end \in Nat, NEW steps \in Nat, steps >= 2
  PROVE  /\ \A i \in 1 .. steps : (end * (i - 1)) \div (steps - 1) \in 0 .. end
         /\ \A i \in 2 .. steps :
              (end * ((i - 1) - 1)) \div (steps - 1) <= (end * (i - 1)) \div (steps - 1)
         /\ (end * (steps - 1)) \div (steps - 1) = end
<1>1. steps - 1 \in Nat \ {0}
  OBVIOUS
<1>2. ASSUME NEW i \in 1 .. steps
      PROVE  (end * (i - 1)) \div (steps - 1) \in 0 .. end
  <2>1. i - 1 \in Int /\ 0 <= i - 1 /\ i - 1 <= steps - 1
    OBVIOUS
  <2> QED BY <1>1, <2>1, ShareWithin
<1>3. ASSUME NEW i \in 2 .. steps
      PROVE  (end * ((i - 1) - 1)) \div (steps - 1) <= (end * (i - 1)) \div (steps - 1)
  <2>1. PICK k \in Int : k = i - 1
    OBVIOUS
  <2>2. PICK m \in Int : m = end * (k - 1)
    OBVIOUS
  <2>3. PICK n \in Int : n = end * k
    OBVIOUS
  <2>4. PICK d \in Nat \ {0} : d = steps - 1
    BY <1>1
  <2>5. m <= n
    <3>1. end * k = end * (k - 1) + end
      OBVIOUS
    <3> QED BY <2>2, <2>3, <3>1
  <2>6. m \div d <= n \div d
    BY <2>5, QuotientGrows
  <2> QED BY <2>1, <2>2, <2>3, <2>4, <2>6
<1>4. (end * (steps - 1)) \div (steps - 1) = end
  BY <1>1, QuotientOfProduct
<1> QED BY <1>2, <1>3, <1>4

End(a, b) == MinOf(a[Len(a)].dist, b[Len(b)].dist)
AxisAt(a, b, steps, i) == (End(a, b) * (i - 1)) \div (steps - 1)

(* What a comparison holds: the samples at cursors that stand where fresh lookups would. *)
LEMMA ComparisonIs ==
  ASSUME NEW a, NEW b, IsTrace(a), IsTrace(b), Len(a) >= 2, Len(b) >= 2,
         NEW steps \in Nat, steps >= 2
  PROVE  \E cursor :
           /\ \A i \in 1 .. steps : /\ CursorIs(a, cursor[i].a, AxisAt(a, b, steps, i))
                                    /\ CursorIs(b, cursor[i].b, AxisAt(a, b, steps, i))
           /\ CompareLaps(a, b, steps) =
                [i \in 1 .. steps |->
                  [ dist |-> AxisAt(a, b, steps, i),
                    a |-> SampleAt(a, cursor[i].a, AxisAt(a, b, steps, i)),
                    b |-> SampleAt(b, cursor[i].b, AxisAt(a, b, steps, i)) ]]
<1> DEFINE Cursor == [a : 1 .. Len(a), b : 1 .. Len(b)]
           start == [a |-> 1, b |-> 1]
           dist == [i \in 1 .. steps |-> (End(a, b) * (i - 1)) \div (steps - 1)]
           Moved(c, d) == [a |-> Advance(a, c.a, d), b |-> Advance(b, c.b, d)]
           g == [p \in (1 .. steps) \X Cursor |-> Moved(p[2], dist[p[1]])]
           Def(f) == [i \in 0 .. steps |-> IF i = 0 THEN start ELSE Moved(f[i - 1], dist[i])]
           cursor == CHOOSE f : f = Def(f)
<1>1. /\ End(a, b) \in Nat /\ Len(a) \in Nat /\ Len(b) \in Nat
      /\ Len(a) \in 1 .. Len(a) /\ Len(b) \in 1 .. Len(b) /\ 1 \in 1 .. Len(a) /\ 1 \in 1 .. Len(b)
  BY ReadingsOf DEF End, MinOf
<1>2. /\ \A i \in 1 .. steps : dist[i] \in Nat /\ dist[i] = AxisAt(a, b, steps, i)
      /\ \A i \in 2 .. steps : dist[i - 1] <= dist[i]
  <2>1. \A i \in 1 .. steps : dist[i] = AxisAt(a, b, steps, i)
    BY DEF AxisAt
  <2> HIDE DEF dist
  <2>2. ASSUME NEW i \in 1 .. steps
        PROVE  dist[i] \in Nat
    <3>1. (End(a, b) * (i - 1)) \div (steps - 1) \in 0 .. End(a, b)
      BY <1>1, AxisIs
    <3>2. PICK q : q = (End(a, b) * (i - 1)) \div (steps - 1)
      OBVIOUS
    <3>3. q \in 0 .. End(a, b) /\ dist[i] = q
      BY <2>1, <3>1, <3>2 DEF AxisAt
    <3> QED BY <1>1, <3>3
  <2>3. ASSUME NEW i \in 2 .. steps
        PROVE  dist[i - 1] <= dist[i]
    <3>1. i \in 1 .. steps /\ i - 1 \in 1 .. steps
      OBVIOUS
    <3>2. dist[i - 1] = (End(a, b) * ((i - 1) - 1)) \div (steps - 1)
          /\ dist[i] = (End(a, b) * (i - 1)) \div (steps - 1)
      BY <2>1, <3>1 DEF AxisAt
    <3> QED BY <1>1, <3>2, AxisIs
  <2> QED BY <2>1, <2>2, <2>3
<1>3. \A c \in Cursor, i \in 1 .. steps : Moved(c, dist[i]) \in Cursor
  <2> SUFFICES ASSUME NEW c \in Cursor, NEW i \in 1 .. steps PROVE Moved(c, dist[i]) \in Cursor
    OBVIOUS
  <2>1. PICK d \in Nat : d = dist[i]
    BY <1>2
  <2>2. c.a \in 1 .. Len(a) /\ c.b \in 1 .. Len(b)
    OBVIOUS
  <2>3. PICK k \in 1 .. Len(a), l \in 1 .. Len(b) : k = c.a /\ l = c.b
    BY <2>2
  <2>4. Advance(a, c.a, d) \in 1 .. Len(a) /\ Advance(b, c.b, d) \in 1 .. Len(b)
    <3> HIDE DEF Cursor, start, dist, Moved, g, Def, cursor
    <3>1. d \in Int
      OBVIOUS
    <3>2. Advance(a, k, d) \in 1 .. Len(a)
      BY <3>1, AdvanceWithin
    <3>3. Advance(b, l, d) \in 1 .. Len(b)
      BY <3>1, AdvanceWithin
    <3> QED BY <2>3, <3>2, <3>3
  <2> HIDE DEF dist
  <2> QED BY <2>1, <2>4
<1> HIDE DEF dist
<1>4. g \in [(1 .. steps) \X Cursor -> Cursor]
  <2> HIDE DEF Cursor, Moved
  <2> QED BY <1>3
<1>5. start \in Cursor
  BY <1>1
<1>6. PICK f : Iterates(f, steps, Cursor, start, g)
  <2> HIDE DEF g, start, Cursor
  <2> QED BY <1>4, <1>5, Recursion
<1>7. f \in [0 .. steps -> Cursor] /\ f[0] = start /\ \A i \in 1 .. steps : f[i] = g[<<i, f[i - 1]>>]
  <2> HIDE DEF g, start, Cursor
  <2> QED BY <1>6 DEF Iterates
<1>8. \A i \in 1 .. steps : f[i] = Moved(f[i - 1], dist[i])
  <2> TAKE i \in 1 .. steps
  <2>1. <<i, f[i - 1]>> \in (1 .. steps) \X Cursor
    <3>1. i - 1 \in 0 .. steps
      OBVIOUS
    <3> HIDE DEF Cursor
    <3> QED BY <1>7, <3>1
  <2> HIDE DEF Cursor, Moved
  <2> QED BY <1>7, <2>1
<1>9. f = Def(f)
  <2>1. ASSUME NEW i \in 0 .. steps
        PROVE  f[i] = IF i = 0 THEN start ELSE Moved(f[i - 1], dist[i])
    <3>1. i = 0 \/ (i # 0 /\ i \in 1 .. steps)
      OBVIOUS
    <3> HIDE DEF Moved, start
    <3> QED BY <1>7, <1>8, <3>1
  <2> HIDE DEF Moved, start, Cursor
  <2> QED BY <1>7, <2>1
<1>10. cursor = Def(cursor)
  <2> HIDE DEF Def
  <2> QED BY <1>9
<1>11. CompareLaps(a, b, steps) =
         [i \in 1 .. steps |->
           [ dist |-> dist[i], a |-> SampleAt(a, cursor[i].a, dist[i]), b |-> SampleAt(b, cursor[i].b, dist[i]) ]]
  <2>1. ~(Len(a) < 2 \/ Len(b) < 2)
    BY <1>1
  <2> QED BY <2>1 DEF CompareLaps, End, dist
<1> HIDE DEF cursor, g
<1>12. cursor[0] = start /\ \A i \in 1 .. steps : cursor[i] = Moved(cursor[i - 1], dist[i])
  <2>1. \A i \in 0 .. steps : cursor[i] = IF i = 0 THEN start ELSE Moved(cursor[i - 1], dist[i])
    <3> HIDE DEF Moved, start
    <3> QED BY <1>10
  <2>2. 0 \in 0 .. steps /\ \A i \in 1 .. steps : i \in 0 .. steps /\ i # 0
    OBVIOUS
  <2> HIDE DEF Moved, start
  <2> QED BY <2>1, <2>2
<1> DEFINE K == {i \in 0 .. steps : i # 0 => /\ CursorIs(a, cursor[i].a, dist[i])
                                             /\ CursorIs(b, cursor[i].b, dist[i])}
<1>13. ASSUME NEW i \in 0 .. steps - 1, i \in K
       PROVE  i + 1 \in K
  <2>1. i + 1 \in 1 .. steps /\ i + 1 \in 0 .. steps /\ (i + 1) - 1 = i
    OBVIOUS
  <2>2. PICK d \in Nat : d = dist[i + 1]
    BY <1>2, <2>1
  <2>3. PICK c : c = cursor[i]
    OBVIOUS
  <2>4. \E x \in Int : x <= d /\ Behind(a, c.a, x) /\ Behind(b, c.b, x)
    <3>1. CASE i = 0
      <4>1. c.a = 1 /\ c.b = 1
        BY <1>12, <2>3, <3>1
      <4>2. 1 .. 1 - 1 = {}
        OBVIOUS
      <4>3. d \in Int /\ Behind(a, c.a, d) /\ Behind(b, c.b, d)
        BY <1>1, <2>2, <4>1, <4>2 DEF Behind
      <4> QED BY <2>2, <4>3
    <3>2. CASE i # 0
      <4>1. i \in 1 .. steps /\ i + 1 \in 2 .. steps
        BY <3>2
      <4>2. PICK x \in Nat : x = dist[i]
        BY <1>2, <4>1
      <4>3. x <= d
        BY <1>2, <2>1, <2>2, <4>1, <4>2
      <4>4. CursorIs(a, c.a, x) /\ CursorIs(b, c.b, x)
        BY <1>13, <2>3, <3>2, <4>2
      <4>5. Behind(a, c.a, x) /\ Behind(b, c.b, x)
        BY <4>4 DEF CursorIs
      <4> QED BY <4>2, <4>3, <4>5
    <3> QED BY <3>1, <3>2
  <2>5. PICK x \in Int : x <= d /\ Behind(a, c.a, x) /\ Behind(b, c.b, x)
    BY <2>4
  <2>6. CursorIs(a, Advance(a, c.a, d), d)
    BY <2>5, CursorAdvances
  <2>7. CursorIs(b, Advance(b, c.b, d), d)
    BY <2>5, CursorAdvances
  <2>8. cursor[i + 1].a = Advance(a, c.a, d) /\ cursor[i + 1].b = Advance(b, c.b, d)
    <3>1. cursor[i + 1] = Moved(c, d)
      BY <1>12, <2>1, <2>2, <2>3
    <3> QED BY <3>1
  <2> QED BY <2>1, <2>2, <2>6, <2>7, <2>8
<1>14. 0 .. steps \subseteq K
  <2>1. 0 \in K
    OBVIOUS
  <2> HIDE DEF K
  <2> QED BY <1>13, <2>1, Reaches
<1>15. \A i \in 1 .. steps : CursorIs(a, cursor[i].a, dist[i]) /\ CursorIs(b, cursor[i].b, dist[i])
  <2> TAKE i \in 1 .. steps
  <2>1. i \in K /\ i # 0
    BY <1>14
  <2> QED BY <2>1
<1>16. \A i \in 1 .. steps : dist[i] = AxisAt(a, b, steps, i)
  BY <1>2
<1>17. CompareLaps(a, b, steps) =
         [i \in 1 .. steps |->
           [ dist |-> AxisAt(a, b, steps, i),
             a |-> SampleAt(a, cursor[i].a, AxisAt(a, b, steps, i)),
             b |-> SampleAt(b, cursor[i].b, AxisAt(a, b, steps, i)) ]]
  BY <1>11, <1>16
<1> QED BY <1>15, <1>16, <1>17

(* DeltasAreInterpolated *)
THEOREM DeltasAreInterpolatedAlways ==
  ASSUME NEW a, NEW b, IsTrace(a), IsTrace(b), Len(a) >= 2 => EndsMoving(a), Len(b) >= 2 => EndsMoving(b),
         NEW steps \in Nat, steps >= 2
  PROVE  DeltasAreInterpolated(a, b, steps)
<1>1. CASE Len(a) < 2 \/ Len(b) < 2
  <2>1. CompareLaps(a, b, steps) = <<>>
    BY <1>1 DEF CompareLaps
  <2> QED BY <2>1 DEF DeltasAreInterpolated
<1>2. CASE ~(Len(a) < 2 \/ Len(b) < 2)
  <2>1. Len(a) \in Nat /\ Len(b) \in Nat /\ Len(a) >= 2 /\ Len(b) >= 2 /\ EndsMoving(a) /\ EndsMoving(b)
    BY <1>2, ReadingsOf
  <2> DEFINE At(i) == AxisAt(a, b, steps, i)
             compared == CompareLaps(a, b, steps)
  <2>2. PICK cursor :
          /\ \A i \in 1 .. steps : CursorIs(a, cursor[i].a, At(i)) /\ CursorIs(b, cursor[i].b, At(i))
          /\ compared = [i \in 1 .. steps |->
               [dist |-> At(i), a |-> SampleAt(a, cursor[i].a, At(i)), b |-> SampleAt(b, cursor[i].b, At(i))]]
    BY <2>1, ComparisonIs
  <2>3. /\ a[Len(a)].dist \in Nat /\ b[Len(b)].dist \in Nat
        /\ End(a, b) \in Nat /\ End(a, b) <= a[Len(a)].dist /\ End(a, b) <= b[Len(b)].dist
        /\ End(a, b) = a[Len(a)].dist \/ End(a, b) = b[Len(b)].dist
    BY <2>1, ReadingsOf DEF End, MinOf
  <2>4. \A i \in 1 .. steps : At(i) \in 0 .. End(a, b)
    BY <2>3, AxisIs DEF AxisAt
  <2> HIDE DEF At
  <2>5. ASSUME NEW i \in 1 .. steps
        PROVE  /\ compared[i].dist = At(i)
               /\ compared[i].a = InterpolateTracePointAt(a, At(i)).elapsed
               /\ compared[i].b = InterpolateTracePointAt(b, At(i)).elapsed
    <3>1. /\ compared[i].dist = At(i) /\ compared[i].a = SampleAt(a, cursor[i].a, At(i))
          /\ compared[i].b = SampleAt(b, cursor[i].b, At(i))
      BY <2>2
    <3>2. At(i) \in Nat /\ At(i) <= a[Len(a)].dist /\ At(i) <= b[Len(b)].dist
      BY <2>3, <2>4
    <3>3. PICK d \in Nat : d = At(i)
      BY <3>2
    <3>4. CursorIs(a, cursor[i].a, d) /\ CursorIs(b, cursor[i].b, d)
      BY <2>2, <3>3
    <3>5. /\ SampleAt(a, cursor[i].a, d) = InterpolateTracePointAt(a, d).elapsed
          /\ SampleAt(b, cursor[i].b, d) = InterpolateTracePointAt(b, d).elapsed
      BY <2>1, <3>2, <3>3, <3>4, SampleIs
    <3> QED BY <3>1, <3>3, <3>5
  <2>6. DOMAIN compared = 1 .. steps /\ Len(compared) = steps /\ steps \in 1 .. steps
    BY <2>2
  <2>7. At(steps) = End(a, b)
    BY <2>3, AxisIs DEF At, AxisAt
  <2>8. ASSUME NEW s, IsTrace(s), EndsMoving(s)
        PROVE  InterpolateTracePointAt(s, s[Len(s)].dist).elapsed = s[Len(s)].elapsed
    <3>1. /\ Len(s) \in Nat /\ Len(s) >= 2 /\ s[1].dist \in Nat /\ s[Len(s)].dist \in Nat
          /\ s[Len(s) - 1].dist \in Nat
      BY <2>8, ReadingsOf DEF EndsMoving
    <3>2. s[1].dist < s[Len(s)].dist
      <4>1. 1 = Len(s) - 1 \/ s[1].dist <= s[Len(s) - 1].dist
        BY <2>8, <3>1 DEF IsTrace
      <4> QED BY <2>8, <3>1, <4>1 DEF EndsMoving
    <3>3. BracketBy(s, "dist", s[Len(s)].dist) = [a |-> s[Len(s)], b |-> s[Len(s)], num |-> 0, den |-> 1]
      <4>1. ~(Len(s) < 2 \/ s[Len(s)].dist <= s[1].dist) /\ s[Len(s)].dist >= s[Len(s)].dist
        BY <3>1, <3>2
      <4> QED BY <4>1 DEF BracketBy
    <3>4. InterpolateTracePointAt(s, s[Len(s)].dist) = s[Len(s)]
      BY <3>3 DEF InterpolateTracePointAt, InterpolatedAt, ByDistance
    <3> QED BY <3>4
  <2>9. LET last == compared[Len(compared)] IN
           (last.a = a[Len(a)].elapsed /\ last.dist = a[Len(a)].dist)
             \/ (last.b = b[Len(b)].elapsed /\ last.dist = b[Len(b)].dist)
    <3>1. /\ compared[steps].dist = End(a, b)
          /\ compared[steps].a = InterpolateTracePointAt(a, End(a, b)).elapsed
          /\ compared[steps].b = InterpolateTracePointAt(b, End(a, b)).elapsed
      BY <2>5, <2>6, <2>7
    <3> HIDE DEF compared
    <3>2. CASE End(a, b) = a[Len(a)].dist
      BY <2>1, <2>6, <2>8, <3>1, <3>2
    <3>3. CASE End(a, b) = b[Len(b)].dist
      BY <2>1, <2>6, <2>8, <3>1, <3>3
    <3> QED BY <2>3, <3>2, <3>3
  <2> HIDE DEF compared
  <2> QED BY <2>5, <2>6, <2>9 DEF DeltasAreInterpolated, compared
<1> QED BY <1>1, <1>2

-----------------------------------------------------------------------------
(* The braking points. *)

State == [zones : Seq(Brakes!Zone), open : Brakes!Zone \cup {None}]
Start == [zones |-> <<>>, open |-> None]

LEMMA LastZone ==
  ASSUME NEW st \in State
  PROVE  /\ Brakes!All(st) \in Seq(Brakes!Zone)
         /\ st.open # None => Brakes!All(st) # <<>> /\ Brakes!All(st)[Len(Brakes!All(st))] = st.open
                              /\ Len(Brakes!All(st)) = Len(st.zones) + 1
                              /\ \A k \in 1 .. Len(st.zones) : Brakes!All(st)[k] = st.zones[k]
         /\ st.open = None => Brakes!All(st) = st.zones
BY DEF Brakes!All, State

(* What one interval does to the zones: nothing, the last one grows, or one begins. *)
Same(st, new) == new = st
Grows(st, new, at, time) ==
  LET A == Brakes!All(st)
      B == Brakes!All(new)
      n == Len(A)
  IN  /\ n > 0 /\ Len(B) = n /\ \A k \in 1 .. n - 1 : B[k] = A[k]
      /\ B[n].start = A[n].start /\ B[n].end = time
      /\ st.open = None => at - A[n].end <= MERGE
Begins(st, new, at, time) ==
  LET A == Brakes!All(st)
      B == Brakes!All(new)
      n == Len(A)
  IN  /\ Len(B) = n + 1 /\ \A k \in 1 .. n : B[k] = A[k]
      /\ B[n + 1].start = at /\ B[n + 1].end = time
      /\ st.open = None
      /\ n > 0 => at - A[n].end > MERGE

Moves(st, new, intervals, i) ==
  \/ new = st /\ (intervals[i].decel = None \/ (st.open = None /\ intervals[i].decel < ENTER))
  \/ /\ intervals[i].decel # None
     /\ st.open = None => intervals[i].decel >= ENTER
     /\ intervals[i].decel >= EXIT => new.open # None
     /\ \/ Grows(st, new, intervals[i - 1].time, intervals[i].time)
        \/ Begins(st, new, intervals[i - 1].time, intervals[i].time)

LEMMA StepOf ==
  ASSUME Brakes!BrakingAssumption, NEW intervals \in Seq(Interval), NEW i \in 2 .. Len(intervals), NEW st \in State
  PROVE  Brakes!Step(st, intervals, i) \in State /\ Moves(st, Brakes!Step(st, intervals, i), intervals, i)
<1> DEFINE decel == intervals[i].decel
           at == intervals[i - 1].time
           time == intervals[i].time
           open == Brakes!Opened(st, at)
           closed == Brakes!Closed(st, at)
           zone == [start |-> open.start, end |-> time, peak |-> Brakes!Higher(open.peak, decel)]
           new == Brakes!Step(st, intervals, i)
           A == Brakes!All(st)
<1>1. at \in Int /\ time \in Int /\ decel \in Int \cup {None}
  <2>1. intervals[i] \in Interval /\ intervals[i - 1] \in Interval
    OBVIOUS
  <2> QED BY <2>1 DEF Interval
<1>2. CASE decel = None \/ (st.open = None /\ decel < ENTER)
  <2>1. new = st
    BY <1>2 DEF Brakes!Step
  <2> HIDE DEF new
  <2>2. new \in State /\ Moves(st, new, intervals, i)
    BY <1>2, <2>1 DEF Moves, decel
  <2> QED BY <2>2 DEF new
<1>3. CASE decel # None /\ (st.open = None => decel >= ENTER)
  <2>1. decel \in Int /\ ~(decel = None \/ (st.open = None /\ decel < ENTER))
    BY <1>1, <1>3 DEF Brakes!BrakingAssumption
  <2>2. closed \in Seq(Brakes!Zone) /\ open \in Brakes!Zone
    <3>1. CASE Brakes!Reopens(st, at)
      <4>1. st.zones \in Seq(Brakes!Zone) /\ st.zones # <<>>
        BY <3>1 DEF State, Brakes!Reopens
      <4>2. closed = SubSeq(st.zones, 1, Len(st.zones) - 1) /\ open = st.zones[Len(st.zones)]
        BY <3>1 DEF Brakes!Closed, Brakes!Opened, Brakes!Reopens
      <4>3. Len(st.zones) \in 1 .. Len(st.zones)
        BY <4>1
      <4> QED BY <4>1, <4>2, <4>3
    <3>2. CASE ~Brakes!Reopens(st, at)
      <4>1. [start |-> at, end |-> at, peak |-> 0] \in Brakes!Zone
        BY <1>1 DEF Brakes!Zone
      <4> QED BY <3>2, <4>1 DEF Brakes!Closed, Brakes!Opened, State
    <3> QED BY <3>1, <3>2
  <2>3. zone \in Brakes!Zone /\ zone # None
    BY <1>1, <2>1, <2>2 DEF Brakes!Zone, Brakes!Higher, Brakes!BrakingAssumption
  <2>4. /\ decel < EXIT => new = [zones |-> Append(closed, zone), open |-> None]
        /\ decel >= EXIT => new = [zones |-> closed, open |-> zone]
    BY <2>1 DEF Brakes!Step, Brakes!BrakingAssumption
  <2>5. new \in State /\ Brakes!All(new) = Append(closed, zone) /\ (decel >= EXIT => new.open # None)
    <3> HIDE DEF new, zone, closed
    <3>1. Append(closed, zone) \in Seq(Brakes!Zone)
      BY <2>2, <2>3
    <3>2. CASE decel < EXIT
      <4>1. new = [zones |-> Append(closed, zone), open |-> None]
        BY <2>4, <3>2
      <4>2. new \in State
        BY <3>1, <4>1 DEF State
      <4>3. Brakes!All(new) = Append(closed, zone)
        BY <4>1 DEF Brakes!All
      <4>4. ~(decel >= EXIT)
        BY <2>1, <3>2 DEF Brakes!BrakingAssumption
      <4> QED BY <4>2, <4>3, <4>4
    <3>3. CASE decel >= EXIT
      BY <2>1, <2>2, <2>3, <2>4, <3>1, <3>3 DEF State, Brakes!All, Brakes!BrakingAssumption
    <3>4. decel < EXIT \/ decel >= EXIT
      BY <2>1 DEF Brakes!BrakingAssumption
    <3> QED BY <3>2, <3>3, <3>4
  <2>6. zone.start = open.start /\ zone.end = time
    OBVIOUS
  <2>7. CASE st.open # None
    <3>1. closed = st.zones /\ open = st.open
      BY <2>7 DEF Brakes!Closed, Brakes!Opened, Brakes!Reopens
    <3>2. /\ A \in Seq(Brakes!Zone) /\ A[Len(A)] = st.open /\ Len(A) = Len(st.zones) + 1
          /\ \A k \in 1 .. Len(st.zones) : A[k] = st.zones[k]
      BY <2>7, LastZone
    <3> DEFINE B == Append(st.zones, zone)
    <3>3. Brakes!All(new) = B
      BY <2>5, <3>1
    <3>4. /\ Len(B) = Len(st.zones) + 1 /\ B[Len(st.zones) + 1] = zone
          /\ \A k \in 1 .. Len(st.zones) : B[k] = st.zones[k]
          /\ Len(st.zones) \in Nat
      <4> HIDE DEF zone
      <4> QED BY <2>3 DEF State
    <3> HIDE DEF A, B, zone, open, closed, new
    <3>5. Grows(st, new, at, time)
      BY <2>6, <2>7, <3>1, <3>2, <3>3, <3>4 DEF Grows, A
    <3> QED BY <1>3, <2>5, <3>5 DEF Moves, at, time, decel, new
  <2>8. CASE Brakes!Reopens(st, at)
    <3>1. /\ st.open = None /\ st.zones \in Seq(Brakes!Zone) /\ st.zones # <<>>
          /\ at - st.zones[Len(st.zones)].end <= MERGE
      BY <2>8 DEF State, Brakes!Reopens
    <3>2. closed = SubSeq(st.zones, 1, Len(st.zones) - 1) /\ open = st.zones[Len(st.zones)]
      BY <2>8 DEF Brakes!Closed, Brakes!Opened, Brakes!Reopens
    <3>3. A = st.zones
      BY <3>1, LastZone
    <3> DEFINE B == Append(SubSeq(st.zones, 1, Len(st.zones) - 1), zone)
    <3>4. Brakes!All(new) = B
      BY <2>5, <3>2
    <3>5. /\ Len(st.zones) \in Nat /\ Len(st.zones) > 0
          /\ Len(B) = Len(st.zones) /\ B[Len(st.zones)] = zone
          /\ \A k \in 1 .. Len(st.zones) - 1 : B[k] = st.zones[k]
      <4> HIDE DEF zone
      <4> QED BY <2>3, <3>1
    <3> HIDE DEF A, B, zone, open, closed, new
    <3>6. Grows(st, new, at, time)
      BY <2>6, <3>1, <3>2, <3>3, <3>4, <3>5 DEF Grows, A
    <3> QED BY <1>3, <2>5, <3>6 DEF Moves, at, time, decel, new
  <2>9. CASE st.open = None /\ ~Brakes!Reopens(st, at)
    <3>1. closed = st.zones /\ open.start = at
      BY <2>9 DEF Brakes!Closed, Brakes!Opened
    <3>2. A = st.zones /\ st.zones \in Seq(Brakes!Zone)
      BY <2>9, LastZone DEF State
    <3> DEFINE B == Append(st.zones, zone)
    <3>3. Brakes!All(new) = B
      BY <2>5, <3>1
    <3>4. /\ Len(B) = Len(st.zones) + 1 /\ B[Len(st.zones) + 1] = zone
          /\ \A k \in 1 .. Len(st.zones) : B[k] = st.zones[k]
          /\ Len(st.zones) \in Nat
      <4> HIDE DEF zone
      <4> QED BY <2>3, <3>2
    <3>5. Len(st.zones) > 0 => at - st.zones[Len(st.zones)].end > MERGE
      <4>1. SUFFICES ASSUME Len(st.zones) > 0 PROVE at - st.zones[Len(st.zones)].end > MERGE
        OBVIOUS
      <4>2. st.zones # <<>> /\ st.zones[Len(st.zones)] \in Brakes!Zone
        BY <3>2, <4>1
      <4>3. st.zones[Len(st.zones)].end \in Int
        BY <4>2 DEF Brakes!Zone
      <4> QED BY <1>1, <2>9, <4>2, <4>3 DEF Brakes!Reopens, Brakes!BrakingAssumption
    <3> HIDE DEF A, B, zone, open, closed, new
    <3>6. Begins(st, new, at, time)
      BY <2>6, <2>9, <3>1, <3>2, <3>3, <3>4, <3>5 DEF Begins, A
    <3> QED BY <1>3, <2>5, <3>6 DEF Moves, at, time, decel, new
  <2> QED BY <2>7, <2>8, <2>9
<1>4. ~(decel = None \/ (st.open = None /\ decel < ENTER)) => decel # None /\ (st.open = None => decel >= ENTER)
  BY <1>1 DEF Brakes!BrakingAssumption
<1> HIDE DEF decel, at, time, new
<1> QED BY <1>2, <1>3, <1>4 DEF new

(* Every zone so far is whole, of the intervals up to i. *)
Hard(intervals, k) == intervals[k].decel # None /\ intervals[k].decel >= ENTER

WholeUpTo(st, intervals, i) ==
  LET A == Brakes!All(st)
      n == Len(A)
  IN  /\ \A j, k \in 1 .. n : j < k => A[k].start - A[j].end > MERGE
      /\ \A k \in 1 .. n :
           /\ A[k].start <= A[k].end /\ A[k].end <= intervals[i].time
           /\ \E s \in 2 .. i : intervals[s - 1].time = A[k].start /\ Hard(intervals, s)
      /\ \A a, b \in 1 .. i : Brakes!HardFrom(intervals, a, b) =>
           \E k \in 1 .. n : A[k].start <= intervals[a].time /\ A[k].end >= intervals[b].time
      /\ i > 1 /\ Hard(intervals, i) => st.open # None /\ A[n].end = intervals[i].time

LEMMA StepKeepsWhole ==
  ASSUME Brakes!BrakingAssumption, NEW intervals \in Seq(Interval), InOrder(intervals),
         NEW i \in 2 .. Len(intervals), NEW st \in State, WholeUpTo(st, intervals, i - 1)
  PROVE  WholeUpTo(Brakes!Step(st, intervals, i), intervals, i)
<1> DEFINE new == Brakes!Step(st, intervals, i)
           A == Brakes!All(st)
           n == Len(A)
           B == Brakes!All(new)
           m == Len(B)
           at == intervals[i - 1].time
           time == intervals[i].time
<1>1. new \in State /\ Moves(st, new, intervals, i)
  BY StepOf
<1> HIDE DEF new
<1>2. A \in Seq(Brakes!Zone) /\ B \in Seq(Brakes!Zone)
  BY <1>1, LastZone
<1>3. \A k \in 1 .. Len(intervals) : intervals[k].time \in Int /\ intervals[k].decel \in Int \cup {None}
  <2> TAKE k \in 1 .. Len(intervals)
  <2>1. intervals[k] \in Interval
    OBVIOUS
  <2> QED BY <2>1 DEF Interval
<1>4. i \in Int /\ i - 1 \in 1 .. Len(intervals) /\ i \in 1 .. Len(intervals) /\ at <= time /\ at \in Int /\ time \in Int
  <2>1. i - 1 \in 1 .. Len(intervals) /\ i \in 1 .. Len(intervals)
    OBVIOUS
  <2> QED BY <1>3, <2>1 DEF InOrder
<1>5. /\ n \in Nat /\ \A k \in 1 .. n : A[k] \in Brakes!Zone /\ A[k].start \in Int /\ A[k].end \in Int
      /\ m \in Nat /\ \A k \in 1 .. m : B[k] \in Brakes!Zone /\ B[k].start \in Int /\ B[k].end \in Int
  <2>1. \A z \in Brakes!Zone : z.start \in Int /\ z.end \in Int
    BY DEF Brakes!Zone
  <2>2. n \in Nat /\ m \in Nat /\ (\A k \in 1 .. n : A[k] \in Brakes!Zone) /\ (\A k \in 1 .. m : B[k] \in Brakes!Zone)
    BY <1>2
  <2> QED BY <2>1, <2>2
<1> HIDE DEF A, B, n, m
<1>w. /\ \A j, k \in 1 .. n : j < k => A[k].start - A[j].end > MERGE
      /\ \A k \in 1 .. n :
           /\ A[k].start <= A[k].end /\ A[k].end <= at
           /\ \E s \in 2 .. i - 1 : intervals[s - 1].time = A[k].start /\ Hard(intervals, s)
      /\ \A a, b \in 1 .. i - 1 : Brakes!HardFrom(intervals, a, b) =>
           \E k \in 1 .. n : A[k].start <= intervals[a].time /\ A[k].end >= intervals[b].time
      /\ i - 1 > 1 /\ Hard(intervals, i - 1) => st.open # None /\ A[n].end = at
  BY DEF WholeUpTo, A, n
<1>6. CASE new = st /\ (intervals[i].decel = None \/ (st.open = None /\ intervals[i].decel < ENTER))
  <2>1. B = A /\ m = n
    BY <1>6 DEF A, B, n, m
  <2>2. ~Hard(intervals, i)
    BY <1>3, <1>4, <1>6 DEF Hard, Brakes!BrakingAssumption
  <2>3. \A a, b \in 1 .. i : Brakes!HardFrom(intervals, a, b) => b \in 1 .. i - 1 /\ a \in 1 .. i - 1
    BY <1>4, <2>2 DEF Brakes!HardFrom, Hard
  <2>4. \A k \in 1 .. n : A[k].end <= time
    <3> TAKE k \in 1 .. n
    <3>1. A[k].end \in Int /\ A[k].end <= at
      BY <1>5, <1>w
    <3> QED BY <1>4, <3>1
  <2>5. \A s \in 2 .. i - 1 : s \in 2 .. i
    BY <1>4
  <2>6. /\ \A j, k \in 1 .. m : j < k => B[k].start - B[j].end > MERGE
        /\ \A k \in 1 .. m :
             /\ B[k].start <= B[k].end /\ B[k].end <= time
             /\ \E s \in 2 .. i : intervals[s - 1].time = B[k].start /\ Hard(intervals, s)
        /\ \A a, b \in 1 .. i : Brakes!HardFrom(intervals, a, b) =>
             \E k \in 1 .. m : B[k].start <= intervals[a].time /\ B[k].end >= intervals[b].time
    BY <1>w, <2>1, <2>3, <2>4, <2>5
  <2> QED BY <2>2, <2>6 DEF WholeUpTo, B, m, new
<1>7. CASE /\ intervals[i].decel # None
           /\ st.open = None => intervals[i].decel >= ENTER
           /\ intervals[i].decel >= EXIT => new.open # None
           /\ Grows(st, new, at, time)
  <2>1. /\ n > 0 /\ m = n /\ \A k \in 1 .. n - 1 : B[k] = A[k]
        /\ B[n].start = A[n].start /\ B[n].end = time
        /\ st.open = None => at - A[n].end <= MERGE
    BY <1>7 DEF Grows, A, B, n, m
  <2>2. \A k \in 1 .. n : B[k].start = A[k].start /\ A[k].end <= B[k].end /\ B[k].end <= time
                          /\ (k < n => B[k].end = A[k].end)
    <3> TAKE k \in 1 .. n
    <3>1. CASE k = n
      BY <1>4, <1>5, <1>w, <2>1, <3>1
    <3>2. CASE k # n
      <4>1. k \in 1 .. n - 1 /\ k \in Int /\ n \in Int
        BY <1>5, <3>2
      <4>2. A[k].end <= at /\ A[k].end \in Int
        BY <1>5, <1>w
      <4> QED BY <1>4, <2>1, <3>2, <4>1, <4>2
    <3> QED BY <3>1, <3>2
  <2>3. ASSUME NEW j \in 1 .. m, NEW k \in 1 .. m, j < k
        PROVE  B[k].start - B[j].end > MERGE
    <3>1. j < n /\ j \in 1 .. n /\ k \in 1 .. n
      BY <1>5, <2>1, <2>3
    <3>2. A[k].start - A[j].end > MERGE
      BY <1>w, <2>3, <3>1
    <3> QED BY <2>2, <3>1, <3>2
  <2>4. ASSUME NEW k \in 1 .. m
        PROVE  /\ B[k].start <= B[k].end /\ B[k].end <= time
               /\ \E s \in 2 .. i : intervals[s - 1].time = B[k].start /\ Hard(intervals, s)
    <3>1. k \in 1 .. n
      BY <2>1
    <3>2. PICK s \in 2 .. i - 1 : intervals[s - 1].time = A[k].start /\ Hard(intervals, s)
      BY <1>w, <3>1
    <3>3. s \in 2 .. i
      BY <1>4
    <3>4. B[k].start <= B[k].end /\ B[k].end <= time
      <4>1. A[k].start <= A[k].end
        BY <1>w, <3>1
      <4> QED BY <1>5, <2>1, <2>2, <3>1, <4>1
    <3> QED BY <2>2, <3>1, <3>2, <3>3, <3>4
  <2>5. ASSUME NEW a \in 1 .. i, NEW b \in 1 .. i, Brakes!HardFrom(intervals, a, b)
        PROVE  \E k \in 1 .. m : B[k].start <= intervals[a].time /\ B[k].end >= intervals[b].time
    <3>1. a < b /\ \A k \in a + 1 .. b : Hard(intervals, k)
      BY <2>5 DEF Brakes!HardFrom, Hard
    <3>2. intervals[a].time \in Int /\ intervals[b].time \in Int
      BY <1>3, <1>4
    <3>3. CASE b < i
      <4>1. a \in 1 .. i - 1 /\ b \in 1 .. i - 1
        BY <1>4, <3>1, <3>3
      <4>2. PICK k \in 1 .. n : A[k].start <= intervals[a].time /\ A[k].end >= intervals[b].time
        BY <1>w, <2>5, <4>1
      <4>3. B[k].start <= intervals[a].time /\ B[k].end >= intervals[b].time
        BY <1>5, <2>1, <2>2, <3>2, <4>2
      <4> QED BY <2>1, <4>3
    <3>4. CASE b = i /\ a = i - 1
      <4>1. n \in 1 .. n /\ A[n].start <= A[n].end /\ A[n].end <= at
        BY <1>5, <1>w, <2>1
      <4>2. B[n].start <= intervals[a].time /\ B[n].end >= intervals[b].time
        BY <1>4, <1>5, <2>1, <3>4, <4>1
      <4> QED BY <2>1, <4>1, <4>2
    <3>5. CASE b = i /\ a < i - 1
      <4>1. Hard(intervals, i - 1) /\ i - 1 > 1 /\ a \in 1 .. i - 1 /\ i - 1 \in 1 .. i - 1
        BY <1>4, <3>1, <3>5
      <4>2. Brakes!HardFrom(intervals, a, i - 1)
        BY <1>4, <3>1, <3>5 DEF Brakes!HardFrom, Hard
      <4>3. PICK k \in 1 .. n : A[k].start <= intervals[a].time /\ A[k].end >= at
        BY <1>w, <4>1, <4>2
      <4>4. k = n
        <5>1. SUFFICES ASSUME k # n PROVE FALSE
          OBVIOUS
        <5>2. n \in 1 .. n /\ k < n
          BY <1>5, <2>1, <5>1
        <5>3. A[n].start - A[k].end > MERGE /\ A[n].start <= A[n].end /\ A[n].end = at
          BY <1>w, <4>1, <5>2
        <5>4. A[k].end \in Int /\ A[n].start \in Int /\ A[n].end \in Int /\ A[k].end >= at
          BY <1>5, <4>3, <5>2
        <5> QED BY <1>4, <5>3, <5>4 DEF Brakes!BrakingAssumption
      <4>5. B[n].start <= intervals[a].time /\ B[n].end >= intervals[b].time
        BY <1>4, <2>1, <3>5, <4>3, <4>4
      <4> QED BY <2>1, <4>4, <4>5
    <3> QED BY <1>4, <3>1, <3>3, <3>4, <3>5
  <2>6. Hard(intervals, i) => new.open # None /\ B[m].end = time
    <3>1. Hard(intervals, i) => intervals[i].decel >= EXIT
      BY <1>3, <1>4, <1>7 DEF Hard, Brakes!BrakingAssumption
    <3> QED BY <1>7, <2>1, <3>1
  <2> QED BY <2>3, <2>4, <2>5, <2>6 DEF WholeUpTo, B, m, new
<1>8. CASE /\ intervals[i].decel # None
           /\ st.open = None => intervals[i].decel >= ENTER
           /\ intervals[i].decel >= EXIT => new.open # None
           /\ Begins(st, new, at, time)
  <2>1. /\ m = n + 1 /\ \A k \in 1 .. n : B[k] = A[k]
        /\ B[n + 1].start = at /\ B[n + 1].end = time
        /\ st.open = None
        /\ n > 0 => at - A[n].end > MERGE
    BY <1>8 DEF Begins, A, B, n, m
  <2>2. Hard(intervals, i)
    BY <1>8, <2>1 DEF Hard
  <2>3. ASSUME NEW k \in 1 .. n
        PROVE  at - A[k].end > MERGE
    <3>1. CASE k = n
      BY <1>5, <2>1, <3>1
    <3>2. CASE k # n
      <4>1. k < n /\ n \in 1 .. n /\ n > 0
        BY <1>5, <3>2
      <4>2. A[n].start - A[k].end > MERGE /\ A[n].start <= A[n].end
        BY <1>w, <4>1
      <4>3. A[k].end \in Int /\ A[n].start \in Int /\ A[n].end \in Int /\ at - A[n].end > MERGE
        BY <1>5, <2>1, <4>1
      <4>4. at \in Int /\ MERGE \in Nat
        BY <1>4 DEF Brakes!BrakingAssumption
      <4> HIDE DEF at
      <4> QED BY <4>2, <4>3, <4>4
    <3> QED BY <3>1, <3>2
  <2>4. ASSUME NEW j \in 1 .. m, NEW k \in 1 .. m, j < k
        PROVE  B[k].start - B[j].end > MERGE
    <3>1. j \in 1 .. n
      BY <1>5, <2>1, <2>4
    <3>2. CASE k = n + 1
      BY <2>1, <2>3, <3>1, <3>2
    <3>3. CASE k # n + 1
      <4>1. k \in 1 .. n
        BY <1>5, <2>1, <3>3
      <4> QED BY <1>w, <2>1, <2>4, <3>1, <4>1
    <3> QED BY <3>2, <3>3
  <2>5. ASSUME NEW k \in 1 .. m
        PROVE  /\ B[k].start <= B[k].end /\ B[k].end <= time
               /\ \E s \in 2 .. i : intervals[s - 1].time = B[k].start /\ Hard(intervals, s)
    <3>1. CASE k = n + 1
      <4>1. i \in 2 .. i
        BY <1>4
      <4> QED BY <1>4, <2>1, <2>2, <3>1, <4>1
    <3>2. CASE k # n + 1
      <4>1. k \in 1 .. n
        BY <1>5, <2>1, <3>2
      <4>2. PICK s \in 2 .. i - 1 : intervals[s - 1].time = A[k].start /\ Hard(intervals, s)
        BY <1>w, <4>1
      <4>3. s \in 2 .. i
        BY <1>4
      <4>4. A[k].start <= A[k].end /\ A[k].end <= time
        BY <1>4, <1>5, <1>w, <4>1
      <4> QED BY <2>1, <4>1, <4>2, <4>3, <4>4
    <3> QED BY <3>1, <3>2
  <2>6. ASSUME NEW a \in 1 .. i, NEW b \in 1 .. i, Brakes!HardFrom(intervals, a, b)
        PROVE  \E k \in 1 .. m : B[k].start <= intervals[a].time /\ B[k].end >= intervals[b].time
    <3>1. a < b /\ \A k \in a + 1 .. b : Hard(intervals, k)
      BY <2>6 DEF Brakes!HardFrom, Hard
    <3>3. CASE b < i
      <4>1. a \in 1 .. i - 1 /\ b \in 1 .. i - 1
        BY <1>4, <3>1, <3>3
      <4>2. PICK k \in 1 .. n : A[k].start <= intervals[a].time /\ A[k].end >= intervals[b].time
        BY <1>w, <2>6, <4>1
      <4>3. k \in 1 .. m
        BY <1>5, <2>1
      <4> QED BY <2>1, <4>2, <4>3
    <3>4. CASE b = i /\ a = i - 1
      <4>1. m \in 1 .. m /\ B[m].start <= intervals[a].time /\ B[m].end >= intervals[b].time
        BY <1>4, <1>5, <2>1, <3>4
      <4> QED BY <4>1
    <3>5. CASE b = i /\ a < i - 1
      <4>1. Hard(intervals, i - 1) /\ i - 1 > 1
        BY <1>4, <3>1, <3>5
      <4> QED BY <1>w, <2>1, <4>1
    <3> QED BY <1>4, <3>1, <3>3, <3>4, <3>5
  <2>7. new.open # None /\ B[m].end = time
    <3>1. intervals[i].decel >= EXIT
      BY <1>3, <1>4, <2>2 DEF Hard, Brakes!BrakingAssumption
    <3> QED BY <1>8, <2>1, <3>1
  <2> QED BY <2>4, <2>5, <2>6, <2>7 DEF WholeUpTo, B, m, new
<1> QED BY <1>1, <1>6, <1>7, <1>8 DEF Moves

LEMMA ZonesAreWhole ==
  ASSUME Brakes!BrakingAssumption, NEW intervals \in Seq(Interval), InOrder(intervals), intervals # <<>>
  PROVE  \E st \in State : Brakes!Zones(intervals) = Brakes!All(st) /\ WholeUpTo(st, intervals, Len(intervals))
<1> DEFINE n == Len(intervals)
           start == [zones |-> <<>>, open |-> None]
           g == [p \in (1 .. n) \X State |-> IF p[1] = 1 THEN start ELSE Brakes!Step(p[2], intervals, p[1])]
           Def(f) == [i \in 0 .. n |-> IF i <= 1 THEN start ELSE Brakes!Step(f[i - 1], intervals, i)]
           state == CHOOSE f : f = Def(f)
<1>1. n \in Nat /\ n > 0
  OBVIOUS
<1>2. start \in State
  BY DEF State
<1>3. g \in [(1 .. n) \X State -> State]
  <2>1. ASSUME NEW i \in 1 .. n, NEW st \in State, i # 1
        PROVE  Brakes!Step(st, intervals, i) \in State
    <3>1. i \in 2 .. Len(intervals)
      BY <2>1
    <3> QED BY <3>1, StepOf
  <2> HIDE DEF start, n
  <2> QED BY <1>2, <2>1
<1>4. PICK f : Iterates(f, n, State, start, g)
  <2> HIDE DEF g, n, start
  <2> QED BY <1>1, <1>2, <1>3, Recursion
<1>f. f \in [0 .. n -> State] /\ f[0] = start /\ \A i \in 1 .. n : f[i] = g[<<i, f[i - 1]>>]
  <2> HIDE DEF g, n, start
  <2> QED BY <1>4 DEF Iterates
<1>5. f[1] = start /\ \A i \in 2 .. n : f[i] = Brakes!Step(f[i - 1], intervals, i)
  <2>1. ASSUME NEW i \in 1 .. n
        PROVE  f[i] = IF i = 1 THEN start ELSE Brakes!Step(f[i - 1], intervals, i)
    <3>1. <<i, f[i - 1]>> \in (1 .. n) \X State
      <4>1. i - 1 \in 0 .. n
        BY <1>1
      <4> QED BY <1>f, <4>1
    <3>2. f[i] = g[<<i, f[i - 1]>>]
      BY <1>f
    <3> HIDE DEF n, start
    <3> QED BY <3>1, <3>2
  <2>2. 1 \in 1 .. n /\ \A i \in 2 .. n : i \in 1 .. n /\ i # 1
    BY <1>1
  <2> HIDE DEF n, start
  <2> QED BY <2>1, <2>2
<1>6. f = Def(f)
  <2>1. ASSUME NEW i \in 0 .. n
        PROVE  f[i] = IF i <= 1 THEN start ELSE Brakes!Step(f[i - 1], intervals, i)
    <3>1. i = 0 \/ i = 1 \/ i \in 2 .. n
      BY <1>1
    <3>2. i \in 2 .. n => ~(i <= 1)
      OBVIOUS
    <3> HIDE DEF n, start
    <3> QED BY <1>f, <1>5, <3>1, <3>2
  <2> HIDE DEF n, start
  <2> QED BY <1>f, <2>1
<1>7. state = Def(state)
  <2> HIDE DEF Def
  <2> QED BY <1>6
<1>8. Brakes!Zones(intervals) = Brakes!All(state[n])
  BY DEF Brakes!Zones
<1> DEFINE K == {i \in 0 .. n : i = 0 \/ (state[i] \in State /\ WholeUpTo(state[i], intervals, i))}
<1> HIDE DEF state, g
<1>9. /\ state[1] = start
      /\ \A i \in 2 .. n : state[i] = Brakes!Step(state[i - 1], intervals, i)
  <2>1. 1 \in 0 .. n /\ \A i \in 2 .. n : i \in 0 .. n /\ ~(i <= 1)
    BY <1>1
  <2>2. \A i \in 0 .. n : state[i] = IF i <= 1 THEN start ELSE Brakes!Step(state[i - 1], intervals, i)
    <3> HIDE DEF n, start
    <3> QED BY <1>7
  <2>3. 1 <= 1
    OBVIOUS
  <2> HIDE DEF n, start
  <2> QED BY <2>1, <2>2, <2>3
<1>10. ASSUME NEW i \in 0 .. n - 1, i \in K
       PROVE  i + 1 \in K
  <2>1. CASE i = 0
    <3>1. WholeUpTo(start, intervals, 1)
      <4>1. Brakes!All(start) = <<>>
        BY DEF Brakes!All
      <4>2. \A a, b \in 1 .. 1 : ~Brakes!HardFrom(intervals, a, b)
        BY DEF Brakes!HardFrom
      <4> QED BY <4>1, <4>2 DEF WholeUpTo
    <3> QED BY <1>1, <1>2, <1>9, <2>1, <3>1
  <2>2. CASE i # 0
    <3>1. i + 1 \in 2 .. n /\ (i + 1) - 1 = i
      BY <1>1, <2>2
    <3>2. state[i] \in State /\ WholeUpTo(state[i], intervals, i)
      BY <1>10, <2>2
    <3>3. state[i + 1] = Brakes!Step(state[i], intervals, i + 1)
      BY <1>9, <3>1
    <3>4. WholeUpTo(Brakes!Step(state[i], intervals, i + 1), intervals, i + 1)
      BY <3>1, <3>2, StepKeepsWhole
    <3>5. Brakes!Step(state[i], intervals, i + 1) \in State
      BY <3>1, <3>2, StepOf
    <3> QED BY <3>1, <3>3, <3>4, <3>5
  <2> QED BY <2>1, <2>2
<1>11. 0 .. n \subseteq K
  <2>1. 0 \in K
    BY <1>1
  <2> HIDE DEF K, n
  <2> QED BY <1>1, <1>10, <2>1, Reaches
<1>12. n \in K /\ n # 0
  BY <1>1, <1>11
<1> QED BY <1>8, <1>12

LEMMA NoZones ==
  Brakes!Zones(<<>>) = <<>>
<1> DEFINE start == [zones |-> <<>>, open |-> None]
           Def(f) == [i \in 0 .. Len(<<>>) |-> IF i <= 1 THEN start ELSE Brakes!Step(f[i - 1], <<>>, i)]
           state == CHOOSE f : f = Def(f)
           f == [i \in 0 .. 0 |-> start]
<1>1. f = Def(f)
  OBVIOUS
<1>2. state = Def(state)
  <2> HIDE DEF Def, f
  <2> QED BY <1>1
<1>3. state[0] = start
  <2>1. Def(state)[0] = start
    OBVIOUS
  <2> HIDE DEF Def, state, start
  <2> QED BY <1>2, <2>1
<1>4. Brakes!Zones(<<>>) = Brakes!All(state[0])
  <2>1. Len(<<>>) = 0
    OBVIOUS
  <2>2. Brakes!Zones(<<>>) = Brakes!All(state[Len(<<>>)])
    BY DEF Brakes!Zones
  <2> HIDE DEF state
  <2> QED BY <2>1, <2>2
<1>5. Brakes!All(start) = <<>>
  BY DEF Brakes!All
<1> HIDE DEF state, start
<1> QED BY <1>3, <1>4, <1>5

Lasting(A) == {k \in DOMAIN A : A[k].end - A[k].start >= MIN_BRAKING}

LEMMA LastingZones ==
  ASSUME NEW A \in Seq(Brakes!Zone)
  PROVE  \E n, p : Lists(p, n, Lasting(A)) /\ Brakes!Picked(A, Lasting(A)) = [k \in 1 .. n |-> A[p[k]]]
<1>1. Len(A) \in Nat /\ DOMAIN A = 1 .. Len(A)
  OBVIOUS
<1>2. Lasting(A) \in SUBSET (1 .. Len(A))
  BY <1>1 DEF Lasting
<1>3. PICK m \in Nat : m = Len(A)
  BY <1>1
<1> DEFINE S == Lasting(A)
<1>a. S \in SUBSET (1 .. m)
  BY <1>2, <1>3
<1> HIDE DEF S
<1>4. \E n, p : Lists(p, n, S) /\ Picked(A, S) = [k \in 1 .. n |-> A[p[k]]]
  BY <1>a, PickedLists
<1>5. Brakes!Picked(A, S) = Picked(A, S)
  <2>1. \A T : Brakes!Cardinality(T) = Cardinality(T)
    BY DEF Cardinality, Brakes!Cardinality
  <2>2. \A i : Brakes!Rank(i, S) = Rank(i, S)
    BY <2>1 DEF Rank, Brakes!Rank
  <2>3. \A k : (CHOOSE i \in S : Brakes!Rank(i, S) = k) = (CHOOSE i \in S : Rank(i, S) = k)
    BY <2>2
  <2>4. Brakes!Cardinality(S) = Cardinality(S)
    BY <2>1
  <2> DEFINE At(k) == A[CHOOSE i \in S : Rank(i, S) = k]
             BrakesAt(k) == A[CHOOSE i \in S : Brakes!Rank(i, S) = k]
  <2>5. ASSUME NEW k
        PROVE  BrakesAt(k) = At(k)
    <3>1. (CHOOSE i \in S : Brakes!Rank(i, S) = k) = (CHOOSE i \in S : Rank(i, S) = k)
      BY <2>3
    <3> QED BY <3>1
  <2>6. Brakes!Picked(A, S) = [k \in 1 .. Brakes!Cardinality(S) |-> BrakesAt(k)]
    BY DEF Brakes!Picked
  <2>7. Picked(A, S) = [k \in 1 .. Cardinality(S) |-> At(k)]
    BY DEF Picked
  <2> HIDE DEF At, BrakesAt
  <2> QED BY <2>4, <2>5, <2>6, <2>7
<1> QED BY <1>4, <1>5 DEF S

THEOREM BrakesAreWholeAlways ==
  ASSUME Brakes!BrakingAssumption, NEW intervals \in Seq(Interval), InOrder(intervals)
  PROVE  Brakes!BrakesAreWhole(intervals)
<1>1. PICK A : A = Brakes!Zones(intervals)
  OBVIOUS
<1>2. /\ A \in Seq(Brakes!Zone)
      /\ \A j, k \in 1 .. Len(A) : j < k => A[k].start - A[j].end > MERGE
      /\ \A k \in 1 .. Len(A) :
           \E i \in 2 .. Len(intervals) : intervals[i - 1].time = A[k].start /\ Hard(intervals, i)
      /\ \A a, b \in 1 .. Len(intervals) : Brakes!HardFrom(intervals, a, b) =>
           \E k \in 1 .. Len(A) : A[k].start <= intervals[a].time /\ A[k].end >= intervals[b].time
  <2>1. CASE intervals = <<>>
    <3>1. A = <<>> /\ Len(intervals) = 0
      BY <1>1, <2>1, NoZones
    <3> QED BY <3>1
  <2>2. CASE intervals # <<>>
    <3>1. PICK st \in State : A = Brakes!All(st) /\ WholeUpTo(st, intervals, Len(intervals))
      BY <1>1, <2>2, ZonesAreWhole
    <3>2. A \in Seq(Brakes!Zone)
      BY <3>1, LastZone
    <3> QED BY <3>1, <3>2 DEF WholeUpTo
  <2> QED BY <2>1, <2>2
<1> DEFINE zones == Brakes!DetectBrakingPoints(intervals)
<1>3. PICK n, p : Lists(p, n, Lasting(A)) /\ Brakes!Picked(A, Lasting(A)) = [k \in 1 .. n |-> A[p[k]]]
  BY <1>2, LastingZones
<1>4. zones = [k \in 1 .. n |-> A[p[k]]]
  BY <1>1, <1>3 DEF Brakes!DetectBrakingPoints, Lasting
<1>5. /\ n \in Nat /\ Len(zones) = n /\ DOMAIN zones = 1 .. n
      /\ \A k \in 1 .. n : zones[k] = A[p[k]] /\ p[k] \in 1 .. Len(A)
      /\ \A k, l \in 1 .. n : k < l => p[k] < p[l]
      /\ \A i \in Lasting(A) : \E k \in 1 .. n : p[k] = i
  <2>1. n \in Nat /\ p \in [1 .. n -> Lasting(A)]
    BY <1>3 DEF Lists
  <2>2. Lasting(A) \subseteq 1 .. Len(A)
    BY <1>2 DEF Lasting
  <2> HIDE DEF zones
  <2> QED BY <1>3, <1>4, <2>1, <2>2 DEF Lists
<1>6. \A k \in 1 .. Len(intervals) : intervals[k].time \in Int
  <2> TAKE k \in 1 .. Len(intervals)
  <2>1. intervals[k] \in Interval
    OBVIOUS
  <2> QED BY <2>1 DEF Interval
<1>7. \A k \in 1 .. Len(A) : A[k].start \in Int /\ A[k].end \in Int
  <2> TAKE k \in 1 .. Len(A)
  <2>1. A[k] \in Brakes!Zone
    BY <1>2
  <2> QED BY <2>1 DEF Brakes!Zone
<1>8. ASSUME NEW i \in 1 .. Len(intervals), NEW j \in 1 .. Len(intervals), Brakes!HardFrom(intervals, i, j),
             intervals[j].time - intervals[i].time >= MIN_BRAKING
      PROVE  \E k \in 1 .. n : zones[k].start <= intervals[i].time /\ zones[k].end >= intervals[j].time
  <2>1. PICK l \in 1 .. Len(A) : A[l].start <= intervals[i].time /\ A[l].end >= intervals[j].time
    BY <1>2, <1>8
  <2>2. A[l].end - A[l].start >= MIN_BRAKING
    <3>1. /\ A[l].start \in Int /\ A[l].end \in Int /\ intervals[i].time \in Int /\ intervals[j].time \in Int
          /\ MIN_BRAKING \in Int
      BY <1>6, <1>7 DEF Brakes!BrakingAssumption
    <3> QED BY <1>8, <2>1, <3>1
  <2>3. l \in Lasting(A)
    BY <1>2, <2>2 DEF Lasting
  <2> HIDE DEF zones
  <2>4. PICK k \in 1 .. n : p[k] = l
    BY <1>5, <2>3
  <2> QED BY <1>5, <2>1, <2>4
<1> HIDE DEF zones
<1>9. \A k \in 2 .. n : zones[k].start - zones[k - 1].end > MERGE
  <2> TAKE k \in 2 .. n
  <2>1. k \in 1 .. n /\ k - 1 \in 1 .. n /\ k - 1 < k
    BY <1>5
  <2>2. p[k - 1] < p[k] /\ p[k] \in 1 .. Len(A) /\ p[k - 1] \in 1 .. Len(A)
    BY <1>5, <2>1
  <2>3. A[p[k]].start - A[p[k - 1]].end > MERGE
    BY <1>2, <2>2
  <2> QED BY <1>5, <2>1, <2>3
<1>10. \A k \in 1 .. n : \E i \in 2 .. Len(intervals) :
         intervals[i - 1].time = zones[k].start /\ intervals[i].decel # None /\ intervals[i].decel >= ENTER
  <2> TAKE k \in 1 .. n
  <2>1. zones[k] = A[p[k]] /\ p[k] \in 1 .. Len(A)
    BY <1>5
  <2>2. PICK i \in 2 .. Len(intervals) : intervals[i - 1].time = A[p[k]].start /\ Hard(intervals, i)
    BY <1>2, <2>1
  <2> QED BY <2>1, <2>2 DEF Hard
<1>11. DOMAIN intervals = 1 .. Len(intervals)
  OBVIOUS
<1> QED BY <1>5, <1>8, <1>9, <1>10, <1>11 DEF Brakes!BrakesAreWhole, zones

-----------------------------------------------------------------------------
(* The optimal lap. *)

(* The sums of the first elements of a sequence are one recursion. *)
LEMMA SumIs ==
  ASSUME NEW n \in Nat, NEW s, \A i \in 1 .. n : s[i] \in Nat
  PROVE  /\ UpTo(s, 0) = 0 /\ \A k \in 0 .. n : UpTo(s, k) \in Nat
         /\ \A k \in 1 .. n : UpTo(s, k) = UpTo(s, k - 1) + s[k]
<1> DEFINE Def(h, k) == [i \in 0 .. k |-> IF i = 0 THEN 0 ELSE h[i - 1] + s[i]]
           sum(k) == CHOOSE h : h = Def(h, k)
           g == [p \in (1 .. n) \X Nat |-> p[2] + s[p[1]]]
<1>1. \A k : UpTo(s, k) = sum(k)[k]
  BY DEF UpTo
<1>2. PICK f : Iterates(f, n, Nat, 0, g)
  <2>1. g \in [(1 .. n) \X Nat -> Nat]
    OBVIOUS
  <2> HIDE DEF g
  <2> QED BY <2>1, Recursion
<1>3. /\ f \in [0 .. n -> Nat] /\ f[0] = 0
      /\ \A i \in 1 .. n : f[i] = f[i - 1] + s[i]
  <2>1. f \in [0 .. n -> Nat] /\ f[0] = 0 /\ \A i \in 1 .. n : f[i] = g[<<i, f[i - 1]>>]
    BY <1>2 DEF Iterates
  <2>2. ASSUME NEW i \in 1 .. n
        PROVE  f[i] = f[i - 1] + s[i]
    <3>1. f[i - 1] \in Nat
      BY <2>1
    <3>2. <<i, f[i - 1]>> \in (1 .. n) \X Nat
      BY <3>1
    <3>3. g[<<i, f[i - 1]>>] = f[i - 1] + s[i]
      BY <3>2
    <3> QED BY <2>1, <3>3
  <2> QED BY <2>1, <2>2
<1>4. ASSUME NEW k \in 0 .. n
      PROVE  UpTo(s, k) = f[k]
  <2> DEFINE h == [i \in 0 .. k |-> f[i]]
  <2>1. h = Def(h, k)
    <3>1. ASSUME NEW i \in 0 .. k
          PROVE  f[i] = IF i = 0 THEN 0 ELSE h[i - 1] + s[i]
      <4>1. CASE i = 0
        BY <1>3, <4>1
      <4>2. CASE i # 0
        <5>1. i \in 1 .. n /\ i - 1 \in 0 .. k
          BY <4>2
        <5>2. h[i - 1] = f[i - 1]
          BY <5>1
        <5> HIDE DEF h
        <5> QED BY <1>3, <4>2, <5>1, <5>2
      <4> QED BY <4>1, <4>2
    <3> QED BY <3>1
  <2> HIDE DEF h, Def
  <2>2. sum(k) = Def(sum(k), k)
    BY <2>1
  <2>3. PICK c : c = sum(k)
    OBVIOUS
  <2>4. c = Def(c, k)
    BY <2>2, <2>3
  <2> HIDE DEF sum
  <2> DEFINE K == {i \in 0 .. k : c[i] = f[i]}
  <2>5. 0 \in K
    BY <1>3, <2>4 DEF Def
  <2>6. ASSUME NEW i \in 0 .. k - 1, i \in K
        PROVE  i + 1 \in K
    <3>1. i + 1 \in 0 .. k /\ i + 1 \in 1 .. n /\ (i + 1) - 1 = i /\ i + 1 # 0
      OBVIOUS
    <3>2. c[i + 1] = c[(i + 1) - 1] + s[i + 1]
      BY <2>4, <3>1 DEF Def
    <3>3. f[i + 1] = f[(i + 1) - 1] + s[i + 1]
      BY <1>3, <3>1
    <3>4. c[i] = f[i]
      BY <2>6
    <3> QED BY <3>1, <3>2, <3>3, <3>4
  <2>7. 0 .. k \subseteq K
    <3> HIDE DEF K
    <3> QED BY <2>5, <2>6, Reaches
  <2>8. k \in K
    BY <2>7
  <2> QED BY <1>1, <2>3, <2>8
<1> HIDE DEF g
<1>5. /\ 0 \in 0 .. n
      /\ \A k \in 1 .. n : k \in 0 .. n /\ k - 1 \in 0 .. n
  OBVIOUS
<1>6. \A k \in 1 .. n : UpTo(s, k) = UpTo(s, k - 1) + s[k]
  BY <1>3, <1>4, <1>5
<1> QED BY <1>3, <1>4, <1>5, <1>6

LEMMA SumGrows ==
  ASSUME NEW n \in Nat, NEW s, NEW t, \A i \in 1 .. n : s[i] \in Nat /\ t[i] \in Nat /\ s[i] <= t[i]
  PROVE  UpTo(s, n) <= UpTo(t, n)
<1> DEFINE K == {k \in 0 .. n : UpTo(s, k) <= UpTo(t, k)}
<1>1. /\ UpTo(s, 0) = 0 /\ \A k \in 0 .. n : UpTo(s, k) \in Nat
      /\ \A k \in 1 .. n : UpTo(s, k) = UpTo(s, k - 1) + s[k]
  BY SumIs
<1>2. /\ UpTo(t, 0) = 0 /\ \A k \in 0 .. n : UpTo(t, k) \in Nat
      /\ \A k \in 1 .. n : UpTo(t, k) = UpTo(t, k - 1) + t[k]
  BY SumIs
<1>3. 0 \in K
  BY <1>1, <1>2
<1>4. ASSUME NEW k \in 0 .. n - 1, k \in K
      PROVE  k + 1 \in K
  <2>1. k \in 0 .. n /\ k + 1 \in 1 .. n /\ k + 1 \in 0 .. n /\ (k + 1) - 1 = k
    OBVIOUS
  <2>2. PICK a \in Nat, b \in Nat, x \in Nat, y \in Nat :
          a = UpTo(s, k) /\ b = UpTo(t, k) /\ x = s[k + 1] /\ y = t[k + 1]
    BY <1>1, <1>2, <2>1
  <2>3. a <= b /\ x <= y
    BY <1>4, <2>1, <2>2
  <2>4. UpTo(s, k + 1) = a + x /\ UpTo(t, k + 1) = b + y
    BY <1>1, <1>2, <2>1, <2>2
  <2> QED BY <2>1, <2>3, <2>4
<1>5. 0 .. n \subseteq K
  <2> HIDE DEF K
  <2> QED BY <1>3, <1>4, Reaches
<1>6. n \in K
  BY <1>5
<1> QED BY <1>6

LEMMA SumAscends ==
  ASSUME NEW n \in Nat, NEW s, \A i \in 1 .. n : s[i] \in Nat, NEW j \in 0 .. n, NEW k \in 0 .. n, j <= k
  PROVE  UpTo(s, j) <= UpTo(s, k)
<1> DEFINE K == {i \in 0 .. n : j <= i => UpTo(s, j) <= UpTo(s, i)}
<1>1. /\ UpTo(s, 0) = 0 /\ \A i \in 0 .. n : UpTo(s, i) \in Nat
      /\ \A i \in 1 .. n : UpTo(s, i) = UpTo(s, i - 1) + s[i]
  BY SumIs
<1>2. 0 \in K
  BY <1>1
<1>3. ASSUME NEW i \in 0 .. n - 1, i \in K
      PROVE  i + 1 \in K
  <2>1. i \in 0 .. n /\ i + 1 \in 1 .. n /\ i + 1 \in 0 .. n /\ (i + 1) - 1 = i
    OBVIOUS
  <2>2. PICK a \in Nat, b \in Nat, x \in Nat : a = UpTo(s, j) /\ b = UpTo(s, i) /\ x = s[i + 1]
    BY <1>1, <2>1
  <2>3. UpTo(s, i + 1) = b + x
    BY <1>1, <2>1, <2>2
  <2>4. j <= i => a <= b
    BY <1>3, <2>2
  <2>5. j <= i + 1 => a <= b + x
    <3>1. j <= i + 1 => j <= i \/ j = i + 1
      OBVIOUS
    <3> QED BY <2>2, <2>3, <2>4, <3>1
  <2> QED BY <2>1, <2>2, <2>3, <2>5
<1>4. 0 .. n \subseteq K
  <2> HIDE DEF K
  <2> QED BY <1>2, <1>3, Reaches
<1>5. k \in K
  BY <1>4
<1> QED BY <1>5

-----------------------------------------------------------------------------
LEMMA EligibleAre ==
  ASSUME SectorAssumption, NEW all \in Seq(Driven)
  PROVE  \A x \in ToSet(Eligible(all)) :
           /\ x \in Driven /\ (\E k \in 1 .. Len(all) : x = all[k])
           /\ IsComplete(x) /\ Len(x.sectors) = SECTOR_COUNT /\ \A i \in Sector : x.sectors[i] \in Nat
<1> DEFINE T == {k \in DOMAIN all : IsComplete(all[k])}
<1>1. Len(all) \in Nat /\ DOMAIN all = 1 .. Len(all) /\ \A k \in 1 .. Len(all) : all[k] \in Driven
  OBVIOUS
<1>2. T \in SUBSET (1 .. Len(all)) /\ \A k \in T : IsComplete(all[k])
  BY <1>1
<1>3. Eligible(all) = Picked(all, T)
  BY DEF Eligible
<1> HIDE DEF T
<1>a. PICK l \in Nat : T \in SUBSET (1 .. l)
  BY <1>1, <1>2
<1>4. PICK n, p : Lists(p, n, T) /\ Picked(all, T) = [k \in 1 .. n |-> all[p[k]]]
  BY <1>a, PickedLists
<1>5. ASSUME NEW x \in ToSet(Eligible(all))
      PROVE  /\ x \in Driven /\ (\E k \in 1 .. Len(all) : x = all[k])
             /\ IsComplete(x) /\ Len(x.sectors) = SECTOR_COUNT /\ \A i \in Sector : x.sectors[i] \in Nat
  <2>1. PICK k \in 1 .. n : x = all[p[k]]
    BY <1>3, <1>4 DEF ToSet
  <2>2. p[k] \in T
    BY <1>4 DEF Lists
  <2>3. x \in Driven /\ IsComplete(x) /\ p[k] \in 1 .. Len(all)
    BY <1>1, <1>2, <2>1, <2>2
  <2>4. x.sectors \in Seq(Nat) /\ Len(x.sectors) = SECTOR_COUNT
    BY <2>3 DEF IsComplete, Driven
  <2>5. \A i \in Sector : x.sectors[i] \in Nat
    BY <2>4 DEF Sector
  <2> QED BY <2>1, <2>3, <2>4, <2>5
<1> QED BY <1>5

(* There is a lap that none beats in a sector. *)
LEMMA BestExists ==
  ASSUME NEW E, E # {}, NEW i, \A x \in E : x.number \in Nat /\ x.sectors[i] \in Nat
  PROVE  \E x \in E : \A y \in E : ~Beats(y, x, i)
<1> DEFINE T == {x.sectors[i] : x \in E}
<1>1. PICK m \in T : \A t \in T : m <= t
  <2>1. T \subseteq Nat /\ T # {}
    OBVIOUS
  <2> HIDE DEF T
  <2> QED BY <2>1, NatMin
<1> DEFINE U == {x.number : x \in {y \in E : y.sectors[i] = m}}
<1>2. PICK l \in U : \A u \in U : l <= u
  <2>1. U \subseteq Nat /\ U # {}
    BY <1>1
  <2> HIDE DEF U, T
  <2> QED BY <2>1, NatMin
<1>3. PICK x \in E : x.sectors[i] = m /\ x.number = l
  BY <1>2
<1>4. ASSUME NEW y \in E
      PROVE  ~Beats(y, x, i)
  <2>1. m \in Nat /\ l \in Nat /\ y.sectors[i] \in Nat /\ y.number \in Nat
    BY <1>3
  <2>2. m <= y.sectors[i]
    BY <1>1
  <2>3. y.sectors[i] = m => l <= y.number
    BY <1>2
  <2> QED BY <1>3, <2>1, <2>2, <2>3 DEF Beats
<1> QED BY <1>4

LEMMA PlanIs ==
  ASSUME SectorAssumption, NEW all \in Seq(Driven), PickBestSectors(all) # None
  PROVE  \E best \in [Sector -> ToSet(Eligible(all))] :
           /\ PickBestSectors(all) = PlanOf(best)
           /\ \A i \in Sector, y \in ToSet(Eligible(all)) : best[i].sectors[i] <= y.sectors[i]
<1> DEFINE E == ToSet(Eligible(all))
           best == [i \in Sector |-> CHOOSE x \in E : \A y \in E : ~Beats(y, x, i)]
<1>1. ~(Len(Eligible(all)) < 2) /\ PickBestSectors(all) = PlanOf(best)
  BY DEF PickBestSectors, BestOf
<1>2. E # {}
  <2> DEFINE T == {k \in DOMAIN all : IsComplete(all[k])}
  <2>1. Eligible(all) = Picked(all, T)
    BY DEF Eligible
  <2>a. Len(all) \in Nat /\ T \in SUBSET (1 .. Len(all))
    OBVIOUS
  <2> HIDE DEF T
  <2>2. PICK n, p : Lists(p, n, T) /\ Picked(all, T) = [k \in 1 .. n |-> all[p[k]]]
    BY <2>a, PickedLists
  <2>3. n \in Nat /\ Len(Eligible(all)) = n /\ DOMAIN Eligible(all) = 1 .. n
    BY <2>1, <2>2 DEF Lists
  <2>4. 1 \in DOMAIN Eligible(all)
    BY <1>1, <2>3
  <2> QED BY <2>4 DEF ToSet
<1>3. \A x \in E : x \in Driven /\ \A i \in Sector : x.sectors[i] \in Nat
  BY EligibleAre
<1> HIDE DEF E
<1>4. ASSUME NEW i \in Sector
      PROVE  best[i] \in E /\ \A y \in E : ~Beats(y, best[i], i)
  <2>1. \A x \in E : x.number \in Nat /\ x.sectors[i] \in Nat
    BY <1>3 DEF Driven
  <2>2. \E x \in E : \A y \in E : ~Beats(y, x, i)
    BY <1>2, <2>1, BestExists
  <2> QED BY <2>2
<1>5. best \in [Sector -> E]
  BY <1>4
<1> HIDE DEF best
<1>6. ASSUME NEW i \in Sector, NEW y \in E
      PROVE  best[i].sectors[i] <= y.sectors[i]
  <2>1. best[i].sectors[i] \in Nat /\ y.sectors[i] \in Nat
    BY <1>3, <1>5
  <2> QED BY <1>4, <2>1 DEF Beats
<1> QED BY <1>1, <1>5, <1>6 DEF E

LEMMA PlanIsFastest ==
  ASSUME SectorAssumption, NEW all \in Seq(Driven),
         NEW best \in [Sector -> ToSet(Eligible(all))],
         \A i \in Sector, y \in ToSet(Eligible(all)) : best[i].sectors[i] <= y.sectors[i]
  PROVE  IsFastest(PlanOf(best), ToSet(Eligible(all)))
<1> DEFINE E == ToSet(Eligible(all))
<1>1. \A x \in E, i \in Sector : x.sectors[i] \in Nat
  BY EligibleAre
<1>2. SUFFICES ASSUME NEW choice \in [Sector -> E]
      PROVE  PlanOf(best).time <= Sum([i \in Sector |-> choice[i].sectors[i]])
  BY DEF IsFastest
<1> DEFINE s == [i \in Sector |-> best[i].sectors[i]]
           t == [i \in Sector |-> choice[i].sectors[i]]
<1>3. /\ Sector = 1 .. SECTOR_COUNT /\ SECTOR_COUNT \in Nat
      /\ Len(s) = SECTOR_COUNT /\ Len(t) = SECTOR_COUNT
  BY DEF Sector, SectorAssumption
<1>4. PlanOf(best).time = UpTo(s, SECTOR_COUNT) /\ Sum(t) = UpTo(t, SECTOR_COUNT)
  BY <1>3 DEF PlanOf, Sum
<1>5. \A i \in Sector : s[i] \in Nat /\ t[i] \in Nat /\ s[i] <= t[i]
  BY <1>1
<1> HIDE DEF s, t
<1>6. UpTo(s, SECTOR_COUNT) <= UpTo(t, SECTOR_COUNT)
  BY <1>3, <1>5, SumGrows
<1> QED BY <1>4, <1>6 DEF t

-----------------------------------------------------------------------------
(* One sequence after the other. *)
Joins(f, ss, n, S) ==
  /\ \A i \in 1 .. n : f[i] \in Seq(S)
  /\ f[1] = ss[1] /\ \A i \in 1 .. n - 1 : f[i + 1] = f[i] \o ss[i + 1]
  /\ FlattenSeq(ss) = f[n]

LEMMA FlattenIs ==
  ASSUME NEW n \in Nat \ {0}, NEW S, NEW ss, Len(ss) = n, \A i \in 1 .. n : ss[i] \in Seq(S)
  PROVE  \E f : Joins(f, ss, n, S)
<1> DEFINE Def(h) == [i \in 1 .. n |-> IF i = 1 THEN ss[i] ELSE h[i - 1] \o ss[i]]
           flat == CHOOSE h : h = Def(h)
           g == [p \in (1 .. n) \X Seq(S) |-> p[2] \o ss[p[1]]]
<1>1. FlattenSeq(ss) = flat[n]
  BY DEF FlattenSeq
<1>2. g \in [(1 .. n) \X Seq(S) -> Seq(S)]
  OBVIOUS
<1>3. <<>> \in Seq(S)
  OBVIOUS
<1>4. PICK f : Iterates(f, n, Seq(S), <<>>, g)
  <2> HIDE DEF g
  <2> QED BY <1>2, <1>3, Recursion
<1>5. /\ f \in [0 .. n -> Seq(S)] /\ f[0] = <<>>
      /\ \A i \in 1 .. n : f[i] = f[i - 1] \o ss[i]
  <2>1. f \in [0 .. n -> Seq(S)] /\ f[0] = <<>> /\ \A i \in 1 .. n : f[i] = g[<<i, f[i - 1]>>]
    BY <1>4 DEF Iterates
  <2>2. ASSUME NEW i \in 1 .. n
        PROVE  f[i] = f[i - 1] \o ss[i]
    <3>1. i - 1 \in 0 .. n
      OBVIOUS
    <3>2. <<i, f[i - 1]>> \in (1 .. n) \X Seq(S)
      BY <2>1, <3>1
    <3>3. g[<<i, f[i - 1]>>] = f[i - 1] \o ss[i]
      BY <3>2
    <3> QED BY <2>1, <3>3
  <2> QED BY <2>1, <2>2
<1> HIDE DEF g
<1> DEFINE h == [i \in 1 .. n |-> f[i]]
<1>6. h = Def(h)
  <2>1. ASSUME NEW i \in 1 .. n
        PROVE  h[i] = IF i = 1 THEN ss[i] ELSE h[i - 1] \o ss[i]
    <3>1. h[i] = f[i] /\ f[i] = f[i - 1] \o ss[i]
      BY <1>5
    <3>2. CASE i = 1
      <4>1. f[i - 1] = <<>> /\ ss[i] \in Seq(S)
        BY <1>5, <3>2
      <4>2. <<>> \o ss[i] = ss[i]
        BY <4>1
      <4> HIDE DEF h
      <4> QED BY <3>1, <3>2, <4>1, <4>2
    <3>3. CASE i # 1
      <4>1. i - 1 \in 1 .. n
        BY <3>3
      <4>2. h[i - 1] = f[i - 1]
        BY <4>1
      <4> HIDE DEF h
      <4> QED BY <3>1, <3>3, <4>2
    <3> QED BY <3>2, <3>3
  <2>2. h = [i \in 1 .. n |-> h[i]]
    OBVIOUS
  <2> HIDE DEF h
  <2> QED BY <2>1, <2>2
<1> HIDE DEF h, Def
<1>7. flat = Def(flat)
  BY <1>6
<1> HIDE DEF flat
<1>8. flat[1] = ss[1] /\ \A i \in 1 .. n - 1 : flat[i + 1] = flat[i] \o ss[i + 1]
  <2>1. flat[1] = ss[1]
    <3>1. 1 \in 1 .. n
      OBVIOUS
    <3> QED BY <1>7, <3>1 DEF Def
  <2>2. ASSUME NEW i \in 1 .. n - 1
        PROVE  flat[i + 1] = flat[i] \o ss[i + 1]
    <3>1. i + 1 \in 1 .. n /\ i + 1 # 1 /\ (i + 1) - 1 = i
      OBVIOUS
    <3>2. flat[i + 1] = flat[(i + 1) - 1] \o ss[i + 1]
      BY <1>7, <3>1 DEF Def
    <3> QED BY <3>1, <3>2
  <2> QED BY <2>1, <2>2
<1> DEFINE K == {i \in 0 .. n : i = 0 \/ flat[i] \in Seq(S)}
<1>9. ASSUME NEW i \in 0 .. n - 1, i \in K
      PROVE  i + 1 \in K
  <2>1. i + 1 \in 0 .. n /\ i + 1 \in 1 .. n
    OBVIOUS
  <2>2. CASE i = 0
    <3>1. i + 1 = 1
      BY <2>2
    <3> QED BY <1>8, <2>1, <3>1
  <2>3. CASE i # 0
    <3>1. i \in 1 .. n - 1 /\ flat[i] \in Seq(S) /\ ss[i + 1] \in Seq(S)
      BY <1>9, <2>1, <2>3
    <3>2. flat[i + 1] = flat[i] \o ss[i + 1]
      BY <1>8, <3>1
    <3>3. flat[i] \o ss[i + 1] \in Seq(S)
      BY <3>1
    <3> QED BY <2>1, <3>2, <3>3
  <2> QED BY <2>2, <2>3
<1>10. 0 .. n \subseteq K
  <2>1. 0 \in K
    OBVIOUS
  <2> HIDE DEF K
  <2> QED BY <1>9, <2>1, Reaches
<1>11. \A i \in 1 .. n : flat[i] \in Seq(S)
  <2> TAKE i \in 1 .. n
  <2>1. i \in K /\ i # 0
    BY <1>10
  <2> QED BY <2>1
<1>12. Joins(flat, ss, n, S)
  BY <1>1, <1>8, <1>11 DEF Joins
<1> QED BY <1>12

LEMMA IncreasingFar ==
  ASSUME NEW s \in Seq(Int), Increasing(s)
  PROVE  \A j, k \in 1 .. Len(s) : j < k => s[j] < s[k]
<1> DEFINE n == Len(s)
           K == {k \in 0 .. n : \A j \in 1 .. k - 1 : s[j] < s[k]}
<1>1. n \in Nat /\ \A k \in 1 .. n : s[k] \in Int
  OBVIOUS
<1>2. \A k \in 2 .. n : s[k - 1] < s[k]
  BY DEF Increasing
<1> HIDE DEF n
<1>3. ASSUME NEW k \in 0 .. n - 1, k \in K
      PROVE  k + 1 \in K
  <2>1. k + 1 \in 0 .. n /\ k + 1 \in 1 .. n /\ (k + 1) - 1 = k
    BY <1>1
  <2>2. ASSUME NEW j \in 1 .. (k + 1) - 1
        PROVE  s[j] < s[k + 1]
    <3>1. k \in 1 .. n /\ k + 1 \in 2 .. n /\ j \in 1 .. n /\ (j = k \/ j \in 1 .. k - 1)
      BY <1>1, <2>1
    <3>2. s[k] < s[k + 1]
      BY <1>2, <2>1, <3>1
    <3>3. j = k \/ s[j] < s[k]
      BY <1>3, <3>1
    <3>4. s[j] \in Int /\ s[k] \in Int /\ s[k + 1] \in Int
      BY <1>1, <2>1, <3>1
    <3> QED BY <3>2, <3>3, <3>4
  <2> QED BY <2>1, <2>2
<1>4. 0 .. n \subseteq K
  <2>1. 0 \in K
    BY <1>1
  <2> HIDE DEF K
  <2> QED BY <1>1, <1>3, <2>1, Reaches
<1>5. ASSUME NEW j \in 1 .. n, NEW k \in 1 .. n, j < k
      PROVE  s[j] < s[k]
  <2>1. k \in K /\ j \in 1 .. k - 1
    BY <1>1, <1>4, <1>5
  <2> QED BY <2>1
<1> QED BY <1>5 DEF n

LEMMA IncreasingConcat ==
  ASSUME NEW u \in Seq(Int), NEW v \in Seq(Int), NEW c \in Int, Increasing(u), Increasing(v),
         \A k \in 1 .. Len(u) : u[k] < c, \A k \in 1 .. Len(v) : c <= v[k]
  PROVE  Increasing(u \o v)
<1>1. Len(u) \in Nat /\ Len(v) \in Nat /\ Len(u \o v) = Len(u) + Len(v)
  OBVIOUS
<1>2. /\ \A k \in 1 .. Len(u) : (u \o v)[k] = u[k] /\ u[k] \in Int
      /\ \A k \in Len(u) + 1 .. Len(u) + Len(v) : (u \o v)[k] = v[k - Len(u)]
      /\ \A k \in 1 .. Len(v) : v[k] \in Int
  OBVIOUS
<1> SUFFICES ASSUME NEW i \in 2 .. Len(u) + Len(v) PROVE (u \o v)[i - 1] < (u \o v)[i]
  BY <1>1 DEF Increasing
<1>3. CASE i <= Len(u)
  <2>1. i \in 2 .. Len(u) /\ i \in 1 .. Len(u) /\ i - 1 \in 1 .. Len(u)
    BY <1>1, <1>3
  <2> QED BY <1>2, <2>1 DEF Increasing
<1>4. CASE i = Len(u) + 1
  <2>1. i - 1 \in 1 .. Len(u) /\ i - Len(u) = 1 /\ 1 \in 1 .. Len(v) /\ i \in Len(u) + 1 .. Len(u) + Len(v)
    BY <1>1, <1>4
  <2>2. (u \o v)[i - 1] = u[i - 1] /\ (u \o v)[i] = v[1]
    BY <1>2, <2>1
  <2>3. u[i - 1] < c /\ c <= v[1] /\ u[i - 1] \in Int /\ v[1] \in Int
    BY <1>2, <2>1
  <2> QED BY <2>2, <2>3
<1>5. CASE i > Len(u) + 1
  <2>1. /\ i \in Len(u) + 1 .. Len(u) + Len(v) /\ i - 1 \in Len(u) + 1 .. Len(u) + Len(v)
        /\ i - Len(u) \in 2 .. Len(v) /\ (i - 1) - Len(u) = (i - Len(u)) - 1
    BY <1>1, <1>5
  <2>2. v[(i - Len(u)) - 1] < v[i - Len(u)]
    BY <2>1 DEF Increasing
  <2> QED BY <1>2, <2>1, <2>2
<1> QED BY <1>1, <1>3, <1>4, <1>5

(* The braking points of a sector, put at `base`. *)
BrakesAt(lap, i, base) ==
  [k \in DOMAIN BrakesOf(lap, i) |-> base + BrakesOf(lap, i)[k] - (lap.dist \div SECTOR_COUNT) * (i - 1)]

LEMMA BrakesAtIs ==
  ASSUME SectorAssumption, NEW lap \in Driven, Increasing(lap.brakes), NEW i \in Sector,
         NEW base \in Nat
  PROVE  /\ BrakesAt(lap, i, base) \in Seq(Int) /\ Increasing(BrakesAt(lap, i, base))
         /\ \A k \in 1 .. Len(BrakesAt(lap, i, base)) :
              /\ base <= BrakesAt(lap, i, base)[k]
              /\ i < SECTOR_COUNT => BrakesAt(lap, i, base)[k] < base + lap.dist \div SECTOR_COUNT
<1>1. lap.brakes \in Seq(Nat) /\ lap.dist \in Nat
  BY DEF Driven
<1>2. PICK step \in Int : step = lap.dist \div SECTOR_COUNT
  <2>1. PICK d \in Nat, N \in Nat \ {0} : d = lap.dist /\ N = SECTOR_COUNT
    BY <1>1 DEF SectorAssumption
  <2>2. d \div N \in Nat
    BY QuotientIsNat
  <2> QED BY <2>1, <2>2
<1>3. PICK b : b = lap.brakes
  OBVIOUS
<1>4. /\ b \in Seq(Int) /\ Len(b) \in Nat /\ DOMAIN b = 1 .. Len(b) /\ Increasing(b)
      /\ \A k \in 1 .. Len(b) : b[k] \in Int
  BY <1>1, <1>3
<1>5. \A j, k \in 1 .. Len(b) : j < k => b[j] < b[k]
  BY <1>4, IncreasingFar
<1>6. PICK from \in Int : from = step * (i - 1)
  BY DEF Sector
<1>7. step * i = from + step
  BY <1>6 DEF Sector
<1> DEFINE T == {k \in DOMAIN b : b[k] >= from /\ (b[k] < from + step \/ (i = SECTOR_COUNT /\ b[k] = from + step))}
<1>8. PICK l \in Nat : l = Len(b)
  BY <1>4
<1>a. T \in SUBSET (1 .. l)
  BY <1>4, <1>8
<1>9. BrakesOf(lap, i) = Picked(b, T)
  BY <1>2, <1>3, <1>6, <1>7 DEF BrakesOf
<1>10. \A k \in T : k \in 1 .. Len(b) /\ b[k] \in Int /\ from <= b[k] /\ (i < SECTOR_COUNT => b[k] < from + step)
  BY <1>4 DEF Sector
<1> HIDE DEF T
<1>11. PICK n, p : Lists(p, n, T) /\ Picked(b, T) = [k \in 1 .. n |-> b[p[k]]]
  BY <1>a, PickedLists
<1>12. n \in Nat /\ (\A k \in 1 .. n : p[k] \in T) /\ \A j, k \in 1 .. n : j < k => p[j] < p[k]
  BY <1>11 DEF Lists
<1> DEFINE m == BrakesAt(lap, i, base)
<1>13. m = [k \in 1 .. n |-> base + b[p[k]] - from]
  BY <1>2, <1>6, <1>9, <1>11 DEF BrakesAt
<1> HIDE DEF m
<1>14. \A k \in 1 .. n : m[k] \in Int /\ base <= m[k] /\ (i < SECTOR_COUNT => m[k] < base + step)
  <2> TAKE k \in 1 .. n
  <2>1. PICK d \in Int : d = b[p[k]] /\ from <= d /\ (i < SECTOR_COUNT => d < from + step)
    BY <1>10, <1>12
  <2>2. m[k] = base + d - from
    BY <1>13, <2>1
  <2> QED BY <2>1, <2>2
<1>15. m \in Seq(Int) /\ Len(m) = n
  BY <1>12, <1>13, <1>14
<1>16. Increasing(m)
  <2> SUFFICES ASSUME NEW k \in 2 .. n PROVE m[k - 1] < m[k]
    BY <1>15 DEF Increasing
  <2>1. k - 1 \in 1 .. n /\ k \in 1 .. n /\ k - 1 < k
    BY <1>12
  <2>2. p[k - 1] \in T /\ p[k] \in T /\ p[k - 1] < p[k]
    BY <1>12, <2>1
  <2>3. b[p[k - 1]] < b[p[k]]
    BY <1>5, <1>10, <2>2
  <2>4. m[k - 1] = base + b[p[k - 1]] - from /\ m[k] = base + b[p[k]] - from
    BY <1>13, <2>1
  <2>5. b[p[k - 1]] \in Int /\ b[p[k]] \in Int
    BY <1>10, <2>2
  <2> QED BY <2>3, <2>4, <2>5
<1> QED BY <1>2, <1>14, <1>15, <1>16 DEF m

LEMMA BrakesAreInOrder ==
  ASSUME SectorAssumption, NEW plan, NEW best, plan.sectors = best,
         \A i \in Sector : best[i] \in Driven /\ Increasing(best[i].brakes)
  PROVE  Increasing(BrakingPoints(plan))
<1>a. PICK N \in Nat \ {0} : N = SECTOR_COUNT
  BY DEF SectorAssumption
<1> DEFINE step == [i \in Sector |-> best[i].dist \div N]
           ss == [i \in Sector |-> BrakesAt(best[i], i, UpTo(step, i - 1))]
<1>1. Sector = 1 .. N /\ N \in Nat /\ Len(ss) = N
  BY <1>a DEF Sector
<1>2. BrakingPoints(plan) = FlattenSeq(ss)
  BY <1>a DEF BrakingPoints, BrakesAt
<1>3. \A i \in 1 .. N : step[i] \in Nat /\ step[i] = best[i].dist \div N
  <2> TAKE i \in 1 .. N
  <2>1. best[i].dist \in Nat
    BY <1>1 DEF Driven
  <2>2. PICK d \in Nat : d = best[i].dist
    BY <2>1
  <2>3. d \div N \in Nat
    BY QuotientIsNat
  <2> QED BY <1>1, <2>2, <2>3
<1> HIDE DEF step
<1>4. /\ UpTo(step, 0) = 0 /\ \A k \in 0 .. N : UpTo(step, k) \in Nat
      /\ \A k \in 1 .. N : UpTo(step, k) = UpTo(step, k - 1) + step[k]
  BY <1>1, <1>3, SumIs
<1>5. ASSUME NEW i \in 1 .. N
      PROVE  /\ ss[i] \in Seq(Int) /\ Increasing(ss[i])
             /\ \A k \in 1 .. Len(ss[i]) :
                  UpTo(step, i - 1) <= ss[i][k] /\ (i < N => ss[i][k] < UpTo(step, i))
  <2>1. PICK base \in Nat : base = UpTo(step, i - 1)
    <3>1. i - 1 \in 0 .. N
      OBVIOUS
    <3> QED BY <1>4, <3>1
  <2>2. ss[i] = BrakesAt(best[i], i, base)
    BY <1>1, <2>1
  <2>3. UpTo(step, i) = base + best[i].dist \div N
    BY <1>3, <1>4, <2>1
  <2>4. best[i] \in Driven /\ Increasing(best[i].brakes) /\ i \in Sector
    BY <1>1
  <2>5. PICK m : m = BrakesAt(best[i], i, base)
    OBVIOUS
  <2>6. /\ m \in Seq(Int) /\ Increasing(m)
        /\ \A k \in 1 .. Len(m) : base <= m[k] /\ (i < N => m[k] < base + best[i].dist \div N)
    BY <1>a, <2>4, <2>5, BrakesAtIs
  <2>7. m = ss[i]
    BY <2>2, <2>5
  <2> HIDE DEF ss
  <2> QED BY <2>1, <2>3, <2>6, <2>7
<1> HIDE DEF ss
<1>6. PICK f : Joins(f, ss, N, Int)
  BY <1>1, <1>5, FlattenIs
<1>7. /\ \A i \in 1 .. N : f[i] \in Seq(Int)
      /\ f[1] = ss[1] /\ \A i \in 1 .. N - 1 : f[i + 1] = f[i] \o ss[i + 1]
      /\ FlattenSeq(ss) = f[N]
  BY <1>6 DEF Joins
<1> DEFINE Is(i) == Increasing(f[i]) /\ (i < N => \A k \in 1 .. Len(f[i]) : f[i][k] < UpTo(step, i))
           K == {i \in 0 .. N : i = 0 \/ Is(i)}
<1>8. ASSUME NEW i \in 0 .. N - 1, i \in K
      PROVE  i + 1 \in K
  <2>1. i + 1 \in 0 .. N /\ i + 1 \in 1 .. N /\ (i + 1) - 1 = i
    OBVIOUS
  <2>2. CASE i = 0
    <3>1. i + 1 = 1
      BY <2>2
    <3>2. Is(1)
      BY <1>5, <1>7, <2>1, <3>1
    <3> QED BY <2>1, <3>1, <3>2
  <2>3. CASE i # 0
    <3>1. i \in 1 .. N - 1 /\ i \in 1 .. N /\ i < N
      BY <2>3
    <3>2. PICK u \in Seq(Int), v \in Seq(Int), c \in Nat : u = f[i] /\ v = ss[i + 1] /\ c = UpTo(step, i)
      <4>1. i \in 0 .. N
        OBVIOUS
      <4> QED BY <1>4, <1>5, <1>7, <2>1, <3>1, <4>1
    <3>3. Increasing(u) /\ \A k \in 1 .. Len(u) : u[k] < c
      BY <1>8, <2>3, <3>1, <3>2
    <3>4. /\ Increasing(v)
          /\ \A k \in 1 .. Len(v) : c <= v[k] /\ (i + 1 < N => v[k] < UpTo(step, i + 1))
      BY <1>5, <2>1, <3>2
    <3>5. f[i + 1] = u \o v
      BY <1>7, <3>1, <3>2
    <3>6. Increasing(u \o v)
      <4>1. c \in Int /\ Increasing(u) /\ Increasing(v)
        BY <3>3, <3>4
      <4>2. (\A k \in 1 .. Len(u) : u[k] < c) /\ \A k \in 1 .. Len(v) : c <= v[k]
        BY <3>3, <3>4
      <4> HIDE DEF Is, K
      <4> QED BY <4>1, <4>2, IncreasingConcat
    <3>7. i + 1 < N => \A k \in 1 .. Len(u \o v) : (u \o v)[k] < UpTo(step, i + 1)
      <4> SUFFICES ASSUME i + 1 < N, NEW k \in 1 .. Len(u \o v) PROVE (u \o v)[k] < UpTo(step, i + 1)
        OBVIOUS
      <4>1. PICK e \in Nat : e = UpTo(step, i + 1)
        BY <1>4, <2>1
      <4>2. c <= e
        <5>1. UpTo(step, i + 1) = UpTo(step, i) + step[i + 1]
          BY <1>4, <2>1
        <5>2. step[i + 1] \in Nat
          BY <1>3, <2>1
        <5> QED BY <3>2, <4>1, <5>1, <5>2
      <4>3. Len(u) \in Nat /\ Len(v) \in Nat /\ Len(u \o v) = Len(u) + Len(v)
        OBVIOUS
      <4>4. CASE k <= Len(u)
        <5>1. k \in 1 .. Len(u) /\ (u \o v)[k] = u[k] /\ u[k] \in Int
          BY <4>3, <4>4
        <5>2. u[k] < c
          BY <3>3, <5>1
        <5> QED BY <4>1, <4>2, <5>1, <5>2
      <4>5. CASE k > Len(u)
        <5>1. k - Len(u) \in 1 .. Len(v) /\ (u \o v)[k] = v[k - Len(u)]
          BY <4>3, <4>5
        <5> QED BY <3>4, <4>1, <5>1
      <4> QED BY <4>3, <4>4, <4>5
    <3> QED BY <2>1, <3>5, <3>6, <3>7
  <2> QED BY <2>2, <2>3
<1>9. 0 .. N \subseteq K
  <2>1. 0 \in K
    BY <1>1
  <2> HIDE DEF K
  <2> QED BY <1>1, <1>8, <2>1, Reaches
<1>10. N \in K /\ N # 0
  BY <1>1, <1>9
<1> QED BY <1>2, <1>7, <1>10

(* No choice of a complete lap for each sector is faster than the optimal lap, and its braking
   points are in the order they are driven in (pickBestSectors, buildOptimalLap), for all laps
   whose own braking points are. *)
THEOREM OptimalIsBestAlways ==
  ASSUME SectorAssumption, NEW all \in Seq(Driven), \A k \in 1 .. Len(all) : Increasing(all[k].brakes)
  PROVE  OptimalIsBest(all)
<1> SUFFICES ASSUME PickBestSectors(all) # None
             PROVE  /\ IsFastest(PickBestSectors(all), ToSet(Eligible(all)))
                    /\ Increasing(BrakingPoints(PickBestSectors(all)))
  BY DEF OptimalIsBest
<1>1. PICK best \in [Sector -> ToSet(Eligible(all))] :
        /\ PickBestSectors(all) = PlanOf(best)
        /\ \A i \in Sector, y \in ToSet(Eligible(all)) : best[i].sectors[i] <= y.sectors[i]
  BY PlanIs
<1>2. IsFastest(PlanOf(best), ToSet(Eligible(all)))
  BY <1>1, PlanIsFastest
<1>3. PlanOf(best).sectors = best
  BY DEF PlanOf
<1>4. \A i \in Sector : best[i] \in Driven /\ Increasing(best[i].brakes)
  BY EligibleAre
<1>5. Increasing(BrakingPoints(PlanOf(best)))
  BY <1>3, <1>4, BrakesAreInOrder
<1> QED BY <1>1, <1>2, <1>5

-----------------------------------------------------------------------------
(* The line of the optimal lap. *)

(* What a trace holds on one axis where another is at a target. *)
Axis == {"dist", "elapsed"}
ValueAt(s, x, y, t) == Along(BracketBy(s, x, t), y)

(* The three answers of bracketBy. *)
BracketedAt(s, x, t, i) ==
  /\ i \in 2 .. Len(s) /\ s[i - 1][x] < t /\ t <= s[i][x]
  /\ BracketBy(s, x, t) = [a |-> s[i - 1], b |-> s[i], num |-> t - s[i - 1][x], den |-> s[i][x] - s[i - 1][x]]

ClampedAt(s, x, t, i) == BracketBy(s, x, t) = [a |-> s[i], b |-> s[i], num |-> 0, den |-> 1]

LEMMA AxesOf ==
  ASSUME NEW s, IsTrace(s), Len(s) >= 2, NEW x \in Axis
  PROVE  /\ Len(s) \in Nat /\ 1 \in 1 .. Len(s) /\ Len(s) \in 1 .. Len(s)
         /\ \A i \in 1 .. Len(s) : s[i][x] \in Nat
         /\ \A i, j \in 1 .. Len(s) : i <= j => s[i][x] <= s[j][x]
<1>1. Len(s) \in Nat /\ \A i \in 1 .. Len(s) : s[i].dist \in Nat /\ s[i].elapsed \in Nat
  BY ReadingsOf
<1>2. \A i \in 1 .. Len(s) : s[i][x] \in Nat
  BY <1>1 DEF Axis
<1>3. \A i, j \in 1 .. Len(s) : i < j => s[i][x] <= s[j][x]
  BY DEF IsTrace, Axis
<1>4. ASSUME NEW i \in 1 .. Len(s), NEW j \in 1 .. Len(s), i <= j
      PROVE  s[i][x] <= s[j][x]
  <2>1. i = j \/ i < j
    BY <1>4
  <2>2. s[i][x] \in Nat
    BY <1>2
  <2> QED BY <1>3, <2>1, <2>2
<1> QED BY <1>1, <1>2, <1>4

LEMMA BracketCases ==
  ASSUME NEW s, IsTrace(s), Len(s) >= 2, NEW x \in Axis, NEW t \in Nat
  PROVE  \/ t <= s[1][x] /\ ClampedAt(s, x, t, 1)
         \/ t > s[1][x] /\ t >= s[Len(s)][x] /\ ClampedAt(s, x, t, Len(s))
         \/ t > s[1][x] /\ t < s[Len(s)][x] /\ \E i : BracketedAt(s, x, t, i)
<1> DEFINE n == Len(s)
<1>1. /\ n \in Nat /\ 1 \in 1 .. n /\ n \in 1 .. n /\ n >= 2 /\ ~(n < 2)
      /\ \A i \in 1 .. n : s[i][x] \in Nat
  BY AxesOf
<1>2. CASE t <= s[1][x]
  BY <1>2 DEF BracketBy, ClampedAt
<1>3. CASE t > s[1][x] /\ t >= s[n][x]
  <2>1. ~(t <= s[1][x])
    BY <1>1, <1>3
  <2> QED BY <1>1, <1>3, <2>1 DEF BracketBy, ClampedAt
<1>4. CASE t > s[1][x] /\ t < s[n][x]
  <2>1. ~(t <= s[1][x]) /\ ~(t >= s[n][x])
    BY <1>1, <1>4
  <2> DEFINE Is(i) == /\ s[i][x] >= t
                      /\ \A j \in 2 .. i - 1 : s[j][x] < t
             c == CHOOSE i \in 2 .. n : Is(i)
             T == {i \in 2 .. n : s[i][x] >= t}
  <2>2. PICK m \in T : \A j \in T : m <= j
    <3>1. T \subseteq Nat /\ n \in T
      BY <1>1, <1>4
    <3> HIDE DEF T
    <3> QED BY <3>1, NatMin
  <2>3. m \in 2 .. n /\ Is(m)
    <3>1. ASSUME NEW j \in 2 .. m - 1
          PROVE  s[j][x] < t
      <4>1. j \in 2 .. n /\ j \in 1 .. n /\ ~(m <= j)
        BY <1>1, <2>2
      <4>2. ~(s[j][x] >= t) /\ s[j][x] \in Nat
        BY <1>1, <2>2, <4>1
      <4> QED BY <4>2
    <3> QED BY <2>2, <3>1
  <2>4. c \in 2 .. n /\ Is(c)
    <3> HIDE DEF Is
    <3> QED BY <2>3
  <2>5. BracketBy(s, x, t) = [a |-> s[c - 1], b |-> s[c], num |-> t - s[c - 1][x], den |-> s[c][x] - s[c - 1][x]]
    BY <1>1, <2>1 DEF BracketBy
  <2> HIDE DEF c
  <2>6. s[c - 1][x] < t
    <3>1. c - 1 = 1 \/ c - 1 \in 2 .. c - 1
      BY <1>1, <2>4
    <3> QED BY <1>4, <2>4, <3>1
  <2>7. t <= s[c][x]
    <3>1. c \in 1 .. n
      BY <2>4
    <3>2. s[c][x] \in Nat /\ s[c][x] >= t
      BY <1>1, <2>4, <3>1
    <3> QED BY <3>2
  <2>8. BracketedAt(s, x, t, c)
    BY <2>4, <2>5, <2>6, <2>7 DEF BracketedAt
  <2> QED BY <1>4, <2>8
<1>5. t \in Int /\ s[1][x] \in Int /\ s[n][x] \in Int
  BY <1>1
<1> QED BY <1>2, <1>3, <1>4, <1>5

(* A fraction of the way is between its ends. *)
LEMMA BetweenOf ==
  ASSUME NEW a \in Nat, NEW b \in Nat, a <= b, NEW den \in Nat \ {0}, NEW num \in Nat, num <= den
  PROVE  Between(a, b, num, den) \in a .. b
<1>1. PICK w \in Nat : w = b - a
  OBVIOUS
<1>2. (num * w) \div den \in 0 .. w
  BY ShareWithin
<1>3. PICK q \in Int : q = (num * w) \div den /\ 0 <= q /\ q <= w
  BY <1>2
<1>4. Between(a, b, num, den) = a + q
  BY <1>1, <1>3 DEF Between
<1> QED BY <1>1, <1>3, <1>4

LEMMA BetweenGrows ==
  ASSUME NEW a \in Nat, NEW b \in Nat, a <= b, NEW den \in Nat \ {0}, NEW m \in Nat, NEW n \in Nat, m <= n
  PROVE  Between(a, b, m, den) <= Between(a, b, n, den)
<1>1. PICK w \in Nat : w = b - a
  OBVIOUS
<1>2. PICK j \in Int, k \in Int : j = m * w /\ k = n * w
  OBVIOUS
<1>3. j <= k
  <2>1. PICK d \in Nat : n = m + d
    <3>1. n - m \in Nat /\ n = m + (n - m)
      OBVIOUS
    <3> QED BY <3>1
  <2>2. k = j + d * w
    BY <1>2, <2>1
  <2>3. d * w >= 0
    OBVIOUS
  <2>4. PICK e \in Int : e = d * w
    OBVIOUS
  <2> QED BY <2>2, <2>3, <2>4
<1>4. j \div den <= k \div den
  BY <1>3, QuotientGrows
<1>5. j \div den \in Int /\ k \div den \in Int
  BY Quotient
<1>6. Between(a, b, m, den) = a + j \div den /\ Between(a, b, n, den) = a + k \div den
  BY <1>1, <1>2 DEF Between
<1> QED BY <1>4, <1>5, <1>6

LEMMA BetweenNone ==
  ASSUME NEW a \in Nat
  PROVE  Between(a, a, 0, 1) = a
<1>1. (0 * (a - a)) \div 1 = 0
  OBVIOUS
<1> QED BY <1>1 DEF Between

(* What lies on the way to the target is on this side of the value, what lies behind on that. *)
LEMMA ValueIs ==
  ASSUME NEW s, IsTrace(s), Len(s) >= 2, NEW x \in Axis, NEW y \in Axis, NEW t \in Nat
  PROVE  /\ ValueAt(s, x, y, t) \in Nat
         /\ s[1][y] <= ValueAt(s, x, y, t) /\ ValueAt(s, x, y, t) <= s[Len(s)][y]
         /\ \A k \in 1 .. Len(s) : s[k][x] < t => s[k][y] <= ValueAt(s, x, y, t)
         /\ \A k \in 1 .. Len(s) : t < s[k][x] => ValueAt(s, x, y, t) <= s[k][y]
<1> DEFINE n == Len(s)
           v == ValueAt(s, x, y, t)
<1>1. n \in Nat /\ 1 \in 1 .. n /\ n \in 1 .. n
  BY AxesOf
<1>2. \A i \in 1 .. n : s[i][x] \in Nat /\ s[i][y] \in Nat
  BY AxesOf
<1>3. \A i, j \in 1 .. n : i <= j => s[i][x] <= s[j][x] /\ s[i][y] <= s[j][y]
  BY AxesOf
<1>4. \A k \in 1 .. n : s[1][y] <= s[k][y] /\ s[k][y] <= s[n][y] /\ s[1][x] <= s[k][x] /\ s[k][x] <= s[n][x]
  <2> TAKE k \in 1 .. n
  <2>1. 1 <= k /\ k <= n
    BY <1>1
  <2> QED BY <1>1, <1>3, <2>1
<1>5. ASSUME NEW i \in 1 .. n, ClampedAt(s, x, t, i)
      PROVE  v = s[i][y]
  BY <1>2, <1>5, BetweenNone DEF ValueAt, ClampedAt, Along
<1> HIDE DEF n, v
<1>6. CASE t <= s[1][x] /\ ClampedAt(s, x, t, 1)
  <2>1. v = s[1][y]
    BY <1>1, <1>5, <1>6
  <2>2. ASSUME NEW k \in 1 .. n
        PROVE  ~(s[k][x] < t)
    <3>1. s[1][x] <= s[k][x] /\ s[1][x] \in Nat /\ s[k][x] \in Nat
      BY <1>1, <1>2, <1>4
    <3> QED BY <1>6, <3>1
  <2>3. v \in Nat /\ v <= s[n][y] /\ s[1][y] <= v
    BY <1>1, <1>2, <1>4, <2>1
  <2> QED BY <1>4, <2>1, <2>2, <2>3 DEF n, v
<1>7. CASE t >= s[n][x] /\ ClampedAt(s, x, t, n)
  <2>1. v = s[n][y]
    BY <1>1, <1>5, <1>7
  <2>2. ASSUME NEW k \in 1 .. n
        PROVE  ~(t < s[k][x])
    <3>1. s[k][x] <= s[n][x] /\ s[n][x] \in Nat /\ s[k][x] \in Nat
      BY <1>1, <1>2, <1>4
    <3> QED BY <1>7, <3>1
  <2>3. v \in Nat /\ v <= s[n][y] /\ s[1][y] <= v
    BY <1>1, <1>2, <1>4, <2>1
  <2> QED BY <1>4, <2>1, <2>2, <2>3 DEF n, v
<1>8. CASE \E i : BracketedAt(s, x, t, i)
  <2>1. PICK i : BracketedAt(s, x, t, i)
    BY <1>8
  <2>2. /\ i \in 2 .. n /\ s[i - 1][x] < t /\ t <= s[i][x]
        /\ BracketBy(s, x, t) = [a |-> s[i - 1], b |-> s[i], num |-> t - s[i - 1][x], den |-> s[i][x] - s[i - 1][x]]
    BY <2>1 DEF BracketedAt, n
  <2>3. i \in 1 .. n /\ i - 1 \in 1 .. n /\ i - 1 <= i
    BY <1>1, <2>2
  <2>4. PICK p \in Nat, q \in Nat, len \in Nat, h \in Nat :
          p = s[i - 1][x] /\ q = s[i][x] /\ len = s[i - 1][y] /\ h = s[i][y]
    BY <1>2, <2>3
  <2>5. p < t /\ t <= q /\ len <= h
    BY <1>3, <2>2, <2>3, <2>4
  <2>6. v = Between(len, h, t - p, q - p)
    BY <2>2, <2>4 DEF v, ValueAt, Along
  <2>7. q - p \in Nat \ {0} /\ t - p \in Nat /\ t - p <= q - p
    BY <2>5
  <2>8. v \in len .. h
    BY <2>5, <2>6, <2>7, BetweenOf
  <2>9. v \in Nat /\ len <= v /\ v <= h
    BY <2>8
  <2>10. ASSUME NEW k \in 1 .. n, s[k][x] < t
         PROVE  s[k][y] <= v
    <3>1. ~(i <= k)
      <4> SUFFICES ASSUME i <= k PROVE FALSE
        OBVIOUS
      <4>1. q <= s[k][x] /\ s[k][x] \in Nat
        BY <1>2, <1>3, <2>3, <2>4
      <4> QED BY <2>5, <2>10, <4>1
    <3>2. k <= i - 1
      BY <2>3, <3>1
    <3>3. s[k][y] <= len /\ s[k][y] \in Nat
      BY <1>2, <1>3, <2>3, <2>4, <3>2
    <3> QED BY <2>9, <3>3
  <2>11. ASSUME NEW k \in 1 .. n, t < s[k][x]
         PROVE  v <= s[k][y]
    <3>1. ~(k <= i - 1)
      <4> SUFFICES ASSUME k <= i - 1 PROVE FALSE
        OBVIOUS
      <4>1. s[k][x] <= p /\ s[k][x] \in Nat
        BY <1>2, <1>3, <2>3, <2>4
      <4> QED BY <2>5, <2>11, <4>1
    <3>2. i <= k
      BY <2>3, <3>1
    <3>3. h <= s[k][y] /\ s[k][y] \in Nat
      BY <1>2, <1>3, <2>3, <2>4, <3>2
    <3> QED BY <2>9, <3>3
  <2>12. s[1][y] <= v /\ v <= s[n][y]
    <3>1. s[1][y] <= len /\ h <= s[n][y] /\ s[1][y] \in Nat /\ s[n][y] \in Nat
      BY <1>1, <1>2, <1>4, <2>3, <2>4
    <3> QED BY <2>9, <3>1
  <2> QED BY <2>9, <2>10, <2>11, <2>12 DEF n, v
<1> QED BY <1>6, <1>7, <1>8, BracketCases DEF n

(* And the further the target, the further the value. *)
LEMMA ValueGrows ==
  ASSUME NEW s, IsTrace(s), Len(s) >= 2, NEW x \in Axis, NEW y \in Axis,
         NEW t \in Nat, NEW u \in Nat, t <= u
  PROVE  ValueAt(s, x, y, t) <= ValueAt(s, x, y, u)
<1> DEFINE n == Len(s)
<1>1. n \in Nat /\ 1 \in 1 .. n /\ n \in 1 .. n
  BY AxesOf
<1>2. \A i \in 1 .. n : s[i][x] \in Nat /\ s[i][y] \in Nat
  BY AxesOf
<1>3. \A i, j \in 1 .. n : i <= j => s[i][x] <= s[j][x] /\ s[i][y] <= s[j][y]
  BY AxesOf
<1>4. PICK v \in Nat, w \in Nat : v = ValueAt(s, x, y, t) /\ w = ValueAt(s, x, y, u)
  BY ValueIs
<1>5. /\ s[1][y] <= v /\ v <= s[n][y] /\ s[1][y] <= w /\ w <= s[n][y]
      /\ \A k \in 1 .. n : s[k][x] < u => s[k][y] <= w
      /\ \A k \in 1 .. n : t < s[k][x] => v <= s[k][y]
  BY <1>4, ValueIs
<1>6. ASSUME NEW i \in 1 .. n
      PROVE  /\ ClampedAt(s, x, t, i) => v = s[i][y]
             /\ ClampedAt(s, x, u, i) => w = s[i][y]
  BY <1>2, <1>4, BetweenNone DEF ValueAt, ClampedAt, Along
<1>7. CASE t <= s[1][x] /\ ClampedAt(s, x, t, 1)
  BY <1>1, <1>4, <1>5, <1>6, <1>7
<1>8. CASE t > s[1][x] /\ t >= s[n][x]
  <2>1. u >= s[n][x] /\ ~(u <= s[1][x]) /\ ~(u < s[n][x])
    BY <1>1, <1>2, <1>8
  <2>2. ClampedAt(s, x, u, n)
    BY <2>1, BracketCases
  <2> QED BY <1>1, <1>4, <1>5, <1>6, <2>2
<1>9. CASE t > s[1][x] /\ t < s[n][x] /\ \E i : BracketedAt(s, x, t, i)
  <2>1. PICK i : BracketedAt(s, x, t, i)
    BY <1>9
  <2>2. /\ i \in 2 .. n /\ s[i - 1][x] < t /\ t <= s[i][x]
        /\ BracketBy(s, x, t) = [a |-> s[i - 1], b |-> s[i], num |-> t - s[i - 1][x], den |-> s[i][x] - s[i - 1][x]]
    BY <2>1 DEF BracketedAt
  <2>3. i \in 1 .. n /\ i - 1 \in 1 .. n /\ i - 1 <= i
    BY <1>1, <2>2
  <2>4. PICK p \in Nat, q \in Nat, len \in Nat, h \in Nat :
          p = s[i - 1][x] /\ q = s[i][x] /\ len = s[i - 1][y] /\ h = s[i][y]
    BY <1>2, <2>3
  <2>5. p < t /\ t <= q /\ len <= h
    BY <1>3, <2>2, <2>3, <2>4
  <2>6. v = Between(len, h, t - p, q - p)
    BY <1>4, <2>2, <2>4 DEF ValueAt, Along
  <2>7. q - p \in Nat \ {0} /\ t - p \in Nat /\ t - p <= q - p
    BY <2>5
  <2>8. v \in len .. h
    BY <2>5, <2>6, <2>7, BetweenOf
  <2>9. CASE q < u
    <3>1. h <= w
      BY <1>5, <2>3, <2>4, <2>9
    <3> QED BY <1>4, <2>8, <3>1
  <2>10. CASE u <= q
    <3>1. CASE u < s[n][x]
      <4>1. u > s[1][x]
        <5>1. s[1][x] \in Nat
          BY <1>1, <1>2
        <5> QED BY <1>9, <5>1
      <4>2. ~(u <= s[1][x]) /\ ~(u >= s[n][x])
        <5>1. s[1][x] \in Nat /\ s[n][x] \in Nat
          BY <1>1, <1>2
        <5> QED BY <3>1, <4>1, <5>1
      <4>3. PICK j : BracketedAt(s, x, u, j)
        BY <4>2, BracketCases
      <4>4. /\ j \in 2 .. n /\ s[j - 1][x] < u /\ u <= s[j][x]
            /\ BracketBy(s, x, u) = [a |-> s[j - 1], b |-> s[j], num |-> u - s[j - 1][x], den |-> s[j][x] - s[j - 1][x]]
        BY <4>3 DEF BracketedAt
      <4>5. j \in 1 .. n /\ j - 1 \in 1 .. n
        BY <1>1, <4>4
      <4>6. PICK e \in Nat, f \in Nat : e = s[j - 1][x] /\ f = s[j][x]
        BY <1>2, <4>5
      <4>7. e < u /\ u <= f
        BY <4>4, <4>6
      <4>8. ~(i <= j - 1)
        <5> SUFFICES ASSUME i <= j - 1 PROVE FALSE
          OBVIOUS
        <5>1. q <= e
          BY <1>3, <2>3, <2>4, <4>5, <4>6
        <5> QED BY <2>10, <4>7, <5>1
      <4>9. ~(j <= i - 1)
        <5> SUFFICES ASSUME j <= i - 1 PROVE FALSE
          OBVIOUS
        <5>1. f <= p
          BY <1>3, <2>3, <2>4, <4>5, <4>6
        <5> QED BY <2>5, <4>7, <5>1
      <4>10. j = i
        BY <2>3, <4>5, <4>8, <4>9
      <4>11. w = Between(len, h, u - p, q - p)
        BY <1>4, <2>4, <4>4, <4>10 DEF ValueAt, Along
      <4>12. u - p \in Nat /\ t - p <= u - p
        BY <2>5
      <4>13. Between(len, h, t - p, q - p) <= Between(len, h, u - p, q - p)
        BY <2>5, <2>7, <4>12, BetweenGrows
      <4> QED BY <1>4, <2>6, <4>11, <4>13
    <3>2. CASE ~(u < s[n][x])
      <4>1. s[1][x] \in Nat /\ s[n][x] \in Nat
        BY <1>1, <1>2
      <4>2. ~(u <= s[1][x]) /\ u >= s[n][x]
        BY <1>9, <3>2, <4>1
      <4>3. ClampedAt(s, x, u, n)
        BY <3>2, <4>2, BracketCases
      <4> QED BY <1>1, <1>4, <1>5, <1>6, <4>3
    <3> QED BY <3>1, <3>2
  <2> QED BY <2>4, <2>9, <2>10
<1> QED BY <1>7, <1>8, <1>9, BracketCases

(* The point of a trace at a distance within it. *)
LEMMA PointIs ==
  ASSUME NEW s, IsTrace(s), Len(s) >= 2, NEW d \in Nat, s[1].dist <= d, d <= s[Len(s)].dist
  PROVE  InterpolateTracePointAt(s, d) = [dist |-> d, elapsed |-> ValueAt(s, "dist", "elapsed", d)]
<1> DEFINE n == Len(s)
           x == "dist"
           y == "elapsed"
           b == BracketBy(s, x, d)
<1>1. x \in Axis /\ y \in Axis
  BY DEF Axis
<1>2. n \in Nat /\ 1 \in 1 .. n /\ n \in 1 .. n
  BY AxesOf, <1>1
<1>3. \A i \in 1 .. n : s[i].dist \in Nat /\ s[i].elapsed \in Nat /\ s[i] \in Reading
  BY ReadingsOf
<1>4. InterpolateTracePointAt(s, d) = IF b.a = b.b THEN b.a ELSE [dist |-> d, elapsed |-> ValueAt(s, x, y, d)]
  BY DEF InterpolateTracePointAt, InterpolatedAt, ByDistance, ByElapsed, ValueAt
<1>5. ASSUME NEW i \in 1 .. n, ClampedAt(s, x, d, i), d = s[i].dist
      PROVE  InterpolateTracePointAt(s, d) = [dist |-> d, elapsed |-> ValueAt(s, x, y, d)]
  <2>1. b = [a |-> s[i], b |-> s[i], num |-> 0, den |-> 1]
    BY <1>5 DEF ClampedAt
  <2>2. InterpolateTracePointAt(s, d) = s[i]
    BY <1>4, <2>1
  <2>3. ValueAt(s, x, y, d) = Between(s[i].elapsed, s[i].elapsed, 0, 1)
    BY <2>1 DEF ValueAt, Along
  <2>4. ValueAt(s, x, y, d) = s[i].elapsed
    BY <1>3, <2>3, BetweenNone
  <2>5. s[i] = [dist |-> s[i].dist, elapsed |-> s[i].elapsed]
    BY <1>3 DEF Reading
  <2> QED BY <1>5, <2>2, <2>4, <2>5
<1>6. CASE d <= s[1][x] /\ ClampedAt(s, x, d, 1)
  <2>1. d = s[1].dist
    <3>1. s[1].dist \in Nat
      BY <1>2, <1>3
    <3> QED BY <1>6, <3>1
  <2> QED BY <1>2, <1>5, <1>6, <2>1
<1>7. CASE d >= s[n][x] /\ ClampedAt(s, x, d, n)
  <2>1. d = s[n].dist
    <3>1. s[n].dist \in Nat
      BY <1>2, <1>3
    <3> QED BY <1>7, <3>1
  <2> QED BY <1>2, <1>5, <1>7, <2>1
<1>8. CASE \E i : BracketedAt(s, x, d, i)
  <2>1. PICK i : BracketedAt(s, x, d, i)
    BY <1>8
  <2>2. i \in 2 .. n /\ s[i - 1].dist < d /\ d <= s[i].dist /\ b.a = s[i - 1] /\ b.b = s[i]
    BY <2>1 DEF BracketedAt
  <2>3. i - 1 \in 1 .. n /\ i \in 1 .. n
    BY <1>2, <2>2
  <2>4. s[i - 1].dist \in Nat /\ s[i].dist \in Nat
    BY <1>3, <2>3
  <2>5. s[i - 1].dist # s[i].dist
    BY <2>2, <2>4
  <2> QED BY <1>4, <2>2, <2>5
<1> QED BY <1>1, <1>6, <1>7, <1>8, BracketCases

(* A sector of a trace, before it is moved. *)
Strictly(s, from, to) == {k \in DOMAIN s : s[k].dist > from /\ s[k].dist < to}

PicksOf(s, set) == \E n, p : Lists(p, n, set) /\ Picked(s, set) = [k \in 1 .. n |-> s[p[k]]]

LEMMA PicksAre ==
  ASSUME NEW s, NEW m \in Nat, NEW set \in SUBSET (1 .. m)
  PROVE  PicksOf(s, set)
BY PickedLists DEF PicksOf

Cut(s, from, to) ==
  <<InterpolateTracePointAt(s, from)>> \o Picked(s, Strictly(s, from, to)) \o <<InterpolateTracePointAt(s, to)>>

LEMMA CutIs ==
  ASSUME NEW s, IsTrace(s), Len(s) >= 2, NEW from \in Nat, NEW to \in Nat,
         s[1].dist <= from, from <= to, to <= s[Len(s)].dist
  PROVE  /\ IsTrace(Cut(s, from, to)) /\ Len(Cut(s, from, to)) >= 2
         /\ Cut(s, from, to)[1].dist = from /\ Cut(s, from, to)[Len(Cut(s, from, to))].dist = to
         /\ from < to => EndsMoving(Cut(s, from, to))
<1> DEFINE len == Len(s)
           P(d) == ValueAt(s, "dist", "elapsed", d)
<1>1. /\ "dist" \in Axis /\ "elapsed" \in Axis
      /\ len \in Nat /\ \A i \in 1 .. len : s[i].dist \in Nat /\ s[i].elapsed \in Nat /\ s[i] \in Reading
  BY ReadingsOf DEF Axis
<1>2. DOMAIN s = 1 .. len /\ 1 \in 1 .. len /\ len \in 1 .. len
  BY <1>1 DEF IsTrace
<1>3. s[1].dist \in Nat /\ s[len].dist \in Nat
  BY <1>1, <1>2
<1>4. PICK e \in Nat, f \in Nat : e = P(from) /\ f = P(to)
  BY <1>1, ValueIs
<1>5. e <= f
  BY <1>1, <1>4, ValueGrows
<1>6. InterpolateTracePointAt(s, from) = [dist |-> from, elapsed |-> e]
  <2>1. from <= s[len].dist
    BY <1>3
  <2> QED BY <1>4, <2>1, PointIs
<1>7. InterpolateTracePointAt(s, to) = [dist |-> to, elapsed |-> f]
  <2>1. s[1].dist <= to
    BY <1>3
  <2> QED BY <1>4, <2>1, PointIs
<1>8. ASSUME NEW k \in Strictly(s, from, to)
      PROVE  k \in 1 .. len /\ from < s[k].dist /\ s[k].dist < to /\ e <= s[k].elapsed /\ s[k].elapsed <= f
  <2>1. k \in 1 .. len /\ s[k].dist > from /\ s[k].dist < to
    BY <1>2 DEF Strictly
  <2>2. from < s[k].dist
    BY <1>1, <2>1
  <2>3. P(from) <= s[k]["elapsed"]
    BY <1>1, <2>1, <2>2, ValueIs
  <2>4. s[k]["elapsed"] <= P(to)
    BY <1>1, <2>1, <2>2, ValueIs
  <2> QED BY <1>4, <2>1, <2>2, <2>3, <2>4
<1> HIDE DEF P
<1>9. PICK n, p : Lists(p, n, Strictly(s, from, to)) /\ Picked(s, Strictly(s, from, to)) = [k \in 1 .. n |-> s[p[k]]]
  <2>1. PICK m \in Nat : m = len
    BY <1>1
  <2> DEFINE T == Strictly(s, from, to)
  <2>2. T \in SUBSET (1 .. m)
    BY <1>8, <2>1
  <2> HIDE DEF T, len
  <2>3. PicksOf(s, T)
    BY <2>2, PicksAre
  <2> QED BY <2>3 DEF T, PicksOf
<1>10. /\ n \in Nat /\ \A k \in 1 .. n : p[k] \in Strictly(s, from, to)
       /\ \A j, k \in 1 .. n : j < k => p[j] < p[k]
  BY <1>9 DEF Lists
<1> DEFINE mid == [k \in 1 .. n |-> s[p[k]]]
           a == [dist |-> from, elapsed |-> e]
           b == [dist |-> to, elapsed |-> f]
           c == Cut(s, from, to)
<1>11. a \in Reading /\ b \in Reading /\ \A k \in 1 .. n : s[p[k]] \in Reading
  <2>1. \A k \in 1 .. n : s[p[k]] \in Reading
    BY <1>1, <1>8, <1>10
  <2> QED BY <2>1 DEF Reading
<1>12. c = <<a>> \o mid \o <<b>>
  BY <1>6, <1>7, <1>9 DEF Cut
<1> HIDE DEF c
<1>13. mid \in Seq(Reading) /\ Len(mid) = n
  BY <1>10, <1>11
<1>14. /\ c \in Seq(Reading) /\ Len(c) = n + 2
       /\ c[1] = a /\ c[n + 2] = b /\ \A k \in 2 .. n + 1 : c[k] = mid[k - 1]
  <2> HIDE DEF mid, a, b
  <2>1. PICK u : u = <<a>> \o mid
    OBVIOUS
  <2>2. u \in Seq(Reading) /\ Len(u) = n + 1 /\ u[1] = a /\ \A k \in 2 .. n + 1 : u[k] = mid[k - 1]
    BY <1>10, <1>11, <1>13, <2>1
  <2>3. c = u \o <<b>>
    BY <1>12, <2>1
  <2>4. c \in Seq(Reading) /\ Len(c) = n + 2 /\ c[n + 2] = b /\ \A k \in 1 .. n + 1 : c[k] = u[k]
    BY <1>10, <1>11, <2>2, <2>3
  <2>5. 1 \in 1 .. n + 1 /\ \A k \in 2 .. n + 1 : k \in 1 .. n + 1
    BY <1>10
  <2> QED BY <2>2, <2>4, <2>5
<1>15. ASSUME NEW k \in 2 .. n + 1
       PROVE  /\ from < c[k].dist /\ c[k].dist < to /\ e <= c[k].elapsed /\ c[k].elapsed <= f
              /\ c[k] = s[p[k - 1]] /\ k - 1 \in 1 .. n
  <2>1. k - 1 \in 1 .. n
    BY <1>10
  <2>2. c[k] = s[p[k - 1]]
    BY <1>14, <2>1
  <2>3. p[k - 1] \in Strictly(s, from, to)
    BY <1>10, <2>1
  <2> QED BY <1>8, <2>1, <2>2, <2>3
<1>16. a.dist = from /\ a.elapsed = e /\ b.dist = to /\ b.elapsed = f
  OBVIOUS
<1> HIDE DEF mid, a, b
<1>17. ASSUME NEW i \in 1 .. n + 2, NEW j \in 1 .. n + 2, i < j
       PROVE  c[i].dist <= c[j].dist /\ c[i].elapsed <= c[j].elapsed
  <2>1. i = 1 \/ i \in 2 .. n + 1
    BY <1>10, <1>17
  <2>2. j = n + 2 \/ j \in 2 .. n + 1
    BY <1>10, <1>17
  <2>3. CASE i = 1 /\ j = n + 2
    BY <1>5, <1>14, <1>16, <2>3
  <2>4. CASE i = 1 /\ j \in 2 .. n + 1
    <3>1. c[j].dist \in Nat
      BY <1>1, <1>8, <1>10, <1>15, <2>4
    <3> QED BY <1>14, <1>15, <1>16, <2>4, <3>1
  <2>5. CASE i \in 2 .. n + 1 /\ j = n + 2
    <3>1. c[i].dist \in Nat
      BY <1>1, <1>8, <1>10, <1>15, <2>5
    <3> QED BY <1>14, <1>15, <1>16, <2>5, <3>1
  <2>6. CASE i \in 2 .. n + 1 /\ j \in 2 .. n + 1
    <3>1. i - 1 \in 1 .. n /\ j - 1 \in 1 .. n /\ i - 1 < j - 1 /\ c[i] = s[p[i - 1]] /\ c[j] = s[p[j - 1]]
      BY <1>15, <1>17, <2>6
    <3>2. p[i - 1] < p[j - 1] /\ p[i - 1] \in 1 .. len /\ p[j - 1] \in 1 .. len
      BY <1>8, <1>10, <3>1
    <3> QED BY <3>1, <3>2 DEF IsTrace
  <2> QED BY <2>1, <2>2, <2>3, <2>4, <2>5, <2>6
<1>18. IsTrace(c) /\ Len(c) >= 2
  BY <1>10, <1>14, <1>17 DEF IsTrace
<1>19. c[1].dist = from /\ c[Len(c)].dist = to
  BY <1>14, <1>16
<1>20. ASSUME from < to PROVE EndsMoving(c)
  <2>1. c[n + 1].dist < to
    <3>1. n + 1 = 1 \/ n + 1 \in 2 .. n + 1
      BY <1>10
    <3> QED BY <1>14, <1>15, <1>16, <1>20, <3>1
  <2>2. Len(c) - 1 = n + 1 /\ Len(c) >= 2
    BY <1>10, <1>14
  <2> QED BY <1>19, <2>1, <2>2 DEF EndsMoving
<1> QED BY <1>18, <1>19, <1>20 DEF c

(* Moved to where the sector is due, and stretched to its time. *)
ScaledTo(r, c, dist, elapsed, time) ==
  /\ IsTrace(r) /\ Len(r) = Len(c)
  /\ r[1] = [dist |-> dist, elapsed |-> elapsed]
  /\ r[Len(r)].dist = dist + c[Len(c)].dist - c[1].dist
  /\ r[Len(r)].elapsed <= elapsed + time
  /\ EndsMoving(c) => EndsMoving(r)

LEMMA ScaledIs ==
  ASSUME NEW c, IsTrace(c), Len(c) >= 2, NEW from, from = c[1].dist,
         NEW dist \in Nat, NEW elapsed \in Nat, NEW time \in Nat,
         NEW r, r = ScaledFrom(c, from, dist, elapsed, time)
  PROVE  ScaledTo(r, c, dist, elapsed, time)
<1>1. PICK n \in Nat : n = Len(c) /\ n >= 2
  BY ReadingsOf
<1>2. /\ \A i \in 1 .. n : c[i].dist \in Nat /\ c[i].elapsed \in Nat
      /\ DOMAIN c = 1 .. n /\ 1 \in 1 .. n /\ n \in 1 .. n
  BY <1>1, ReadingsOf DEF IsTrace
<1>3. \A i, j \in 1 .. n : i <= j => c[i].dist <= c[j].dist /\ c[i].elapsed <= c[j].elapsed
  <2>1. "dist" \in Axis /\ "elapsed" \in Axis
    BY DEF Axis
  <2> QED BY <1>1, <2>1, AxesOf
<1>4. PICK e \in Nat, f \in Nat : e = c[1].elapsed /\ f = c[n].elapsed
  BY <1>2
<1>5. PICK span \in Nat \ {0} : span = IF f - e = 0 THEN 1 ELSE f - e
  <2>1. e <= f
    BY <1>1, <1>2, <1>3, <1>4
  <2>2. (IF f - e = 0 THEN 1 ELSE f - e) \in Nat \ {0}
    BY <2>1
  <2> QED BY <2>2
<1> DEFINE Q(i) == ((c[i].elapsed - e) * time) \div span
<1>6. r = [k \in 1 .. n |-> [dist |-> dist + c[k].dist - from, elapsed |-> elapsed + Q(k)]]
  BY <1>1, <1>2, <1>4, <1>5 DEF ScaledFrom
<1>7. ASSUME NEW k \in 1 .. n
      PROVE  Q(k) \in 0 .. time /\ from <= c[k].dist /\ c[k].dist \in Nat
  <2>1. e <= c[k].elapsed /\ c[k].elapsed <= f /\ from <= c[k].dist
    BY <1>1, <1>2, <1>3, <1>4
  <2>2. PICK m \in Nat : m = c[k].elapsed - e
    BY <1>2, <2>1
  <2>3. m <= span
    <3>1. PICK t \in Nat : t = c[k].elapsed /\ e <= t /\ t <= f
      BY <1>2, <2>1
    <3>2. m = t - e
      BY <2>2, <3>1
    <3>3. span >= f - e
      BY ONLY <1>5, e \in Nat, f \in Nat
    <3> QED BY ONLY <3>1, <3>2, <3>3, e \in Nat, f \in Nat, t \in Nat, span \in Nat \ {0}
  <2>4. m \in Int /\ 0 <= m
    OBVIOUS
  <2>5. (m * time) \div span \in 0 .. time
    BY ONLY <2>3, <2>4, span \in Nat \ {0}, time \in Nat, ShareWithin
  <2> QED BY <1>2, <2>1, <2>2, <2>5
<1>8. ASSUME NEW i \in 1 .. n, NEW j \in 1 .. n, i < j
      PROVE  Q(i) <= Q(j) /\ c[i].dist <= c[j].dist
  <2>1. c[i].elapsed <= c[j].elapsed /\ c[i].dist <= c[j].dist /\ e <= c[i].elapsed
    BY <1>1, <1>2, <1>3, <1>4, <1>8
  <2>2. PICK m \in Nat, d \in Nat : m = c[i].elapsed - e /\ d = c[j].elapsed - c[i].elapsed
    BY <1>2, <2>1
  <2>3. m + d = c[j].elapsed - e
    BY <1>2, <2>2
  <2>4. PICK g \in Int, h \in Int, w \in Nat : g = m * time /\ h = (m + d) * time /\ w = d * time
    OBVIOUS
  <2>5. h = g + w
    BY <2>4
  <2>6. g \div span <= h \div span
    BY <2>4, <2>5, QuotientGrows
  <2> QED BY <2>1, <2>2, <2>3, <2>4, <2>6
<1>9. Q(1) = 0
  <2>1. (0 * time) \div span = 0
    <3>1. (0 * span) \div span = 0
      BY QuotientOfProduct
    <3> QED BY <3>1
  <2> QED BY <1>4, <2>1
<1> HIDE DEF Q
<1>10. ASSUME NEW k \in 1 .. n
       PROVE  /\ r[k] \in Reading
              /\ r[k].dist = dist + c[k].dist - from /\ r[k].elapsed = elapsed + Q(k)
  <2>1. r[k] = [dist |-> dist + c[k].dist - from, elapsed |-> elapsed + Q(k)]
    BY <1>6
  <2>2. PICK q \in Nat : q = Q(k) /\ q <= time
    BY <1>7
  <2>3. PICK g \in Nat : g = c[k].dist /\ from <= g
    BY <1>7
  <2>4. from \in Nat
    BY <1>2
  <2>5. dist + g - from \in Nat
    BY ONLY <2>3, <2>4, dist \in Nat
  <2>6. elapsed + q \in Nat
    BY ONLY <2>2, elapsed \in Nat
  <2> QED BY <2>1, <2>2, <2>3, <2>5, <2>6 DEF Reading
<1>11. r \in Seq(Reading) /\ Len(r) = n
  BY <1>6, <1>10
<1>12. from \in Nat /\ \A k \in 1 .. n : Q(k) \in Nat /\ Q(k) <= time
  <2>1. from \in Nat
    BY <1>2
  <2>2. \A q \in 0 .. time : q \in Nat /\ q <= time
    OBVIOUS
  <2> QED BY <1>7, <2>1, <2>2
<1>13. ASSUME NEW i \in 1 .. n, NEW j \in 1 .. n, i < j
       PROVE  r[i].dist <= r[j].dist /\ r[i].elapsed <= r[j].elapsed
  <2>1. PICK g \in Nat, h \in Nat, p \in Nat, q \in Nat : g = c[i].dist /\ h = c[j].dist /\ p = Q(i) /\ q = Q(j)
    BY <1>2, <1>12
  <2>2. g <= h /\ p <= q
    BY <1>8, <1>13, <2>1
  <2>3. r[i].dist = dist + g - from /\ r[j].dist = dist + h - from
    BY <1>10, <2>1
  <2>4. r[i].elapsed = elapsed + p /\ r[j].elapsed = elapsed + q
    BY <1>10, <2>1
  <2>5. dist + g - from <= dist + h - from
    BY ONLY <1>12, <2>1, <2>2, dist \in Nat
  <2>6. elapsed + p <= elapsed + q
    BY ONLY <2>1, <2>2, elapsed \in Nat
  <2> QED BY <2>3, <2>4, <2>5, <2>6
<1>14. IsTrace(r)
  BY <1>11, <1>13 DEF IsTrace
<1>15. r[1] = [dist |-> dist, elapsed |-> elapsed]
  <2>1. r[1] = [dist |-> dist + c[1].dist - from, elapsed |-> elapsed + Q(1)]
    BY <1>2, <1>6
  <2>2. dist + c[1].dist - from = dist /\ elapsed + Q(1) = elapsed
    BY <1>9, <1>12
  <2> QED BY <2>1, <2>2
<1>16. r[n].dist = dist + c[n].dist - from /\ r[n].elapsed <= elapsed + time
  <2>1. PICK q \in Nat : q = Q(n) /\ q <= time
    BY <1>2, <1>12
  <2> QED BY <1>2, <1>10, <2>1
<1>17. ASSUME EndsMoving(c) PROVE EndsMoving(r)
  <2>1. n - 1 \in 1 .. n /\ c[n - 1].dist < c[n].dist
    BY <1>1, <1>17 DEF EndsMoving
  <2>2. PICK g \in Nat, h \in Nat : g = c[n - 1].dist /\ h = c[n].dist /\ g < h
    BY <1>2, <2>1
  <2>3. r[n - 1].dist = dist + g - from /\ r[n].dist = dist + h - from
    BY <1>2, <1>10, <2>1, <2>2
  <2>4. dist + g - from < dist + h - from
    BY ONLY <1>12, <2>2, dist \in Nat
  <2>5. r[n - 1].dist < r[n].dist
    BY <2>3, <2>4
  <2> QED BY <1>1, <1>11, <2>5 DEF EndsMoving
<1> QED BY <1>1, <1>11, <1>14, <1>15, <1>16, <1>17 DEF ScaledTo

(* One trace after another. *)
LEMMA TracesJoin ==
  ASSUME NEW u, NEW v, IsTrace(u), IsTrace(v), Len(u) >= 1, Len(v) >= 1,
         u[Len(u)].dist <= v[1].dist, u[Len(u)].elapsed <= v[1].elapsed
  PROVE  IsTrace(u \o v)
<1>1. PICK m \in Nat, n \in Nat : m = Len(u) /\ n = Len(v) /\ m >= 1 /\ n >= 1
  BY ReadingsOf
<1>2. /\ \A i \in 1 .. m : u[i].dist \in Nat /\ u[i].elapsed \in Nat
      /\ \A i \in 1 .. n : v[i].dist \in Nat /\ v[i].elapsed \in Nat
  BY <1>1, ReadingsOf
<1>3. u \in Seq(Reading) /\ v \in Seq(Reading)
  BY DEF IsTrace
<1>4. /\ \A i, j \in 1 .. m : i < j => u[i].dist <= u[j].dist /\ u[i].elapsed <= u[j].elapsed
      /\ \A i, j \in 1 .. n : i < j => v[i].dist <= v[j].dist /\ v[i].elapsed <= v[j].elapsed
  BY <1>1 DEF IsTrace
<1>5. PICK c : c = u \o v
  OBVIOUS
<1>6. /\ c \in Seq(Reading) /\ Len(c) = m + n
      /\ \A i \in 1 .. m : c[i] = u[i]
      /\ \A i \in m + 1 .. m + n : c[i] = v[i - m]
  BY <1>1, <1>3, <1>5
<1>7. ASSUME NEW i \in 1 .. m + n, NEW j \in 1 .. m + n, i < j
      PROVE  c[i].dist <= c[j].dist /\ c[i].elapsed <= c[j].elapsed
  <2>1. CASE j <= m
    <3>1. i \in 1 .. m /\ j \in 1 .. m
      BY <1>7, <2>1
    <3> QED BY <1>4, <1>6, <1>7, <3>1
  <2>2. CASE i > m
    <3>1. i \in m + 1 .. m + n /\ j \in m + 1 .. m + n /\ i - m \in 1 .. n /\ j - m \in 1 .. n /\ i - m < j - m
      BY <1>7, <2>2
    <3> QED BY <1>4, <1>6, <3>1
  <2>3. CASE i <= m /\ j > m
    <3>1. i \in 1 .. m /\ m \in 1 .. m /\ j \in m + 1 .. m + n /\ j - m \in 1 .. n /\ 1 \in 1 .. n
      BY <1>1, <2>3
    <3>2. u[i].dist <= u[m].dist /\ u[i].elapsed <= u[m].elapsed
      <4>1. i = m \/ i < m
        BY <3>1
      <4>2. u[i].dist \in Nat /\ u[i].elapsed \in Nat
        BY <1>2, <3>1
      <4>3. CASE i = m
        BY ONLY <4>2, <4>3
      <4>4. CASE i < m
        BY <1>4, <3>1, <4>4
      <4> QED BY <4>1, <4>3, <4>4
    <3>3. v[1].dist <= v[j - m].dist /\ v[1].elapsed <= v[j - m].elapsed
      <4>1. j - m = 1 \/ 1 < j - m
        BY <3>1
      <4> QED BY <1>2, <1>4, <3>1, <4>1
    <3>4. c[i] = u[i] /\ c[j] = v[j - m]
      BY <1>6, <3>1
    <3>5. u[m].dist <= v[1].dist /\ u[m].elapsed <= v[1].elapsed
      BY <1>1
    <3>6. /\ u[i].dist \in Nat /\ u[m].dist \in Nat /\ v[1].dist \in Nat /\ v[j - m].dist \in Nat
          /\ u[i].elapsed \in Nat /\ u[m].elapsed \in Nat /\ v[1].elapsed \in Nat /\ v[j - m].elapsed \in Nat
      BY <1>2, <3>1
    <3>7. u[i].dist <= v[j - m].dist
      BY ONLY <3>2, <3>3, <3>5, <3>6
    <3>8. u[i].elapsed <= v[j - m].elapsed
      BY ONLY <3>2, <3>3, <3>5, <3>6
    <3> QED BY <3>4, <3>7, <3>8
  <2> QED BY <2>1, <2>2, <2>3
<1> QED BY <1>5, <1>6, <1>7 DEF IsTrace

(* Where the sectors of a lap meet along its trace. *)
BoundsOf(s, splits) ==
  /\ \A k \in 0 .. SECTOR_COUNT :
       /\ BoundaryM(s, splits, k) \in Nat
       /\ s[1].dist <= BoundaryM(s, splits, k) /\ BoundaryM(s, splits, k) <= s[Len(s)].dist
  /\ \A k \in 1 .. SECTOR_COUNT : BoundaryM(s, splits, k - 1) <= BoundaryM(s, splits, k)
  /\ BoundaryM(s, splits, SECTOR_COUNT) = s[Len(s)].dist

LEMMA BoundsAre ==
  ASSUME SectorAssumption, NEW s, IsTrace(s), Len(s) >= 2, NEW splits \in Seq(Nat), Len(splits) = SECTOR_COUNT
  PROVE  BoundsOf(s, splits)
<1>1. PICK N \in Nat \ {0} : N = SECTOR_COUNT
  BY DEF SectorAssumption
<1>2. PICK n : n = Len(s)
  OBVIOUS
<1>3. /\ "dist" \in Axis /\ "elapsed" \in Axis /\ n \in Nat /\ 1 \in 1 .. n /\ n \in 1 .. n
      /\ s[1].dist \in Nat /\ s[n].dist \in Nat /\ s[1].dist <= s[n].dist
  <2>1. "dist" \in Axis /\ "elapsed" \in Axis
    BY DEF Axis
  <2>2. n \in Nat /\ 1 \in 1 .. n /\ n \in 1 .. n /\ 1 <= n
    BY <1>2, <2>1, AxesOf
  <2> QED BY <1>2, <2>1, <2>2, AxesOf
<1> DEFINE B(k) == BoundaryM(s, splits, k)
           V(k) == ValueAt(s, "elapsed", "dist", UpTo(splits, k))
<1>4. B(0) = s[1].dist /\ B(N) = s[n].dist
  BY <1>1, <1>2 DEF BoundaryM
<1>5. \A k \in 1 .. N - 1 : B(k) = V(k)
  BY <1>1 DEF BoundaryM, DistanceAtElapsed, ValueAt, ByDistance, ByElapsed
<1>6. \A i \in 1 .. N : splits[i] \in Nat
  BY <1>1
<1>7. \A k \in 0 .. N : UpTo(splits, k) \in Nat
  BY <1>6, SumIs
<1>8. ASSUME NEW k \in 1 .. N - 1
      PROVE  V(k) \in Nat /\ s[1].dist <= V(k) /\ V(k) <= s[n].dist
  <2>1. PICK t \in Nat : t = UpTo(splits, k)
    BY <1>7
  <2>2. PICK v : v = ValueAt(s, "elapsed", "dist", t)
    OBVIOUS
  <2>3. v \in Nat /\ s[1]["dist"] <= v /\ v <= s[n]["dist"]
    BY <1>2, <1>3, <2>2, ValueIs
  <2> QED BY <2>1, <2>2, <2>3
<1>9. ASSUME NEW k \in 2 .. N - 1
      PROVE  V(k - 1) <= V(k)
  <2>1. k - 1 \in 0 .. N /\ k \in 0 .. N /\ k - 1 <= k
    BY <1>1
  <2>2. PICK t \in Nat, u \in Nat : t = UpTo(splits, k - 1) /\ u = UpTo(splits, k)
    BY <1>7, <2>1
  <2>3. t <= u
    BY <1>6, <2>1, <2>2, SumAscends
  <2>4. ValueAt(s, "elapsed", "dist", t) <= ValueAt(s, "elapsed", "dist", u)
    BY <1>3, <2>3, ValueGrows
  <2> QED BY <2>2, <2>4
<1> HIDE DEF B, V
<1>10. ASSUME NEW k \in 0 .. N
       PROVE  B(k) \in Nat /\ s[1].dist <= B(k) /\ B(k) <= s[n].dist
  <2>1. k = 0 \/ k = N \/ k \in 1 .. N - 1
    BY <1>1
  <2> QED BY <1>3, <1>4, <1>5, <1>8, <2>1
<1>11. ASSUME NEW k \in 1 .. N
       PROVE  B(k - 1) <= B(k)
  <2>1. k - 1 \in 0 .. N /\ k \in 0 .. N
    BY <1>1
  <2>2. CASE k = 1
    <3>1. k - 1 = 0
      BY <2>2
    <3> QED BY <1>4, <1>10, <2>1, <3>1
  <2>3. CASE k = N
    BY <1>4, <1>10, <2>1, <2>3
  <2>4. CASE k # 1 /\ k # N
    <3>1. k \in 2 .. N - 1 /\ k \in 1 .. N - 1 /\ k - 1 \in 1 .. N - 1
      BY <1>1, <2>4
    <3> QED BY <1>5, <1>9, <3>1
  <2> QED BY <2>2, <2>3, <2>4
<1> QED BY <1>1, <1>2, <1>4, <1>10, <1>11 DEF B, BoundsOf

(* A sector in its place: D and E are where sectors end on the two axes. *)
SliceOf(v, D, E, i) ==
  /\ IsTrace(v) /\ Len(v) >= 2
  /\ v[1] = [dist |-> D[i - 1], elapsed |-> E[i - 1]]
  /\ v[Len(v)].dist = D[i] /\ v[Len(v)].elapsed <= E[i]

(* The first i sectors. *)
SlicesTo(w, D, E, i) ==
  /\ IsTrace(w) /\ Len(w) >= 2
  /\ w[1] = [dist |-> D[0], elapsed |-> E[0]]
  /\ w[Len(w)].dist = D[i] /\ w[Len(w)].elapsed <= E[i]
  /\ \A j \in 1 .. i - 1 : \E k \in 1 .. Len(w) - 1 : w[k] = [dist |-> D[j], elapsed |-> E[j]]

LEMMA SliceIs ==
  ASSUME NEW s, IsTrace(s), Len(s) >= 2, NEW from \in Nat, NEW to \in Nat,
         s[1].dist <= from, from <= to, to <= s[Len(s)].dist,
         NEW D, NEW E, NEW i, D[i - 1] \in Nat, E[i - 1] \in Nat, NEW time \in Nat,
         D[i] = D[i - 1] + (to - from), E[i] = E[i - 1] + time
  PROVE  /\ SliceOf(Slice(s, from, to, D[i - 1], E[i - 1], time), D, E, i)
         /\ from < to => EndsMoving(Slice(s, from, to, D[i - 1], E[i - 1], time))
<1>1. PICK c : c = Cut(s, from, to)
  OBVIOUS
<1>2. /\ IsTrace(c) /\ Len(c) >= 2 /\ c[1].dist = from /\ c[Len(c)].dist = to
      /\ from < to => EndsMoving(c)
  BY ONLY <1>1, CutIs, IsTrace(s), Len(s) >= 2, from \in Nat, to \in Nat,
          s[1].dist <= from, from <= to, to <= s[Len(s)].dist
<1>3. PICK d \in Nat, e \in Nat : d = D[i - 1] /\ e = E[i - 1]
  OBVIOUS
<1>4. PICK r : r = ScaledFrom(c, from, d, e, time)
  OBVIOUS
<1>5. r = Slice(s, from, to, D[i - 1], E[i - 1], time)
  BY <1>1, <1>3, <1>4 DEF Slice, Cut, Strictly
<1>6. /\ IsTrace(r) /\ Len(r) = Len(c)
      /\ r[1] = [dist |-> d, elapsed |-> e]
      /\ r[Len(r)].dist = d + c[Len(c)].dist - from /\ r[Len(r)].elapsed <= e + time
      /\ EndsMoving(c) => EndsMoving(r)
  <2>1. IsTrace(c) /\ Len(c) >= 2 /\ from = c[1].dist
    BY <1>2
  <2>2. ScaledTo(r, c, d, e, time)
    BY <1>4, <2>1, ScaledIs
  <2> QED BY <2>1, <2>2 DEF ScaledTo
<1>7. r[Len(r)].dist = D[i] /\ r[Len(r)].elapsed <= E[i]
  <2>1. d + to - from = d + (to - from)
    OBVIOUS
  <2> QED BY <1>2, <1>3, <1>6, <2>1
<1>8. SliceOf(r, D, E, i)
  BY <1>2, <1>3, <1>6, <1>7 DEF SliceOf
<1> QED BY <1>2, <1>5, <1>6, <1>8

LEMMA SliceJoins ==
  ASSUME NEW D, NEW E, NEW i \in Nat \ {0}, NEW u, NEW v, SlicesTo(u, D, E, i), SliceOf(v, D, E, i + 1)
  PROVE  SlicesTo(u \o v, D, E, i + 1) /\ (EndsMoving(v) => EndsMoving(u \o v))
<1>1. /\ IsTrace(u) /\ Len(u) >= 2 /\ u[1] = [dist |-> D[0], elapsed |-> E[0]]
      /\ u[Len(u)].dist = D[i] /\ u[Len(u)].elapsed <= E[i]
      /\ \A j \in 1 .. i - 1 : \E k \in 1 .. Len(u) - 1 : u[k] = [dist |-> D[j], elapsed |-> E[j]]
  BY DEF SlicesTo
<1>2. /\ IsTrace(v) /\ Len(v) >= 2 /\ v[1] = [dist |-> D[i], elapsed |-> E[i]]
      /\ v[Len(v)].dist = D[i + 1] /\ v[Len(v)].elapsed <= E[i + 1]
  <2>1. (i + 1) - 1 = i
    OBVIOUS
  <2> QED BY <2>1 DEF SliceOf
<1>3. PICK m \in Nat, n \in Nat : m = Len(u) /\ n = Len(v) /\ m >= 2 /\ n >= 2
  BY <1>1, <1>2, ReadingsOf
<1>4. u \in Seq(Reading) /\ v \in Seq(Reading)
  BY <1>1, <1>2 DEF IsTrace
<1>5. PICK c : c = u \o v
  OBVIOUS
<1>6. /\ Len(c) = m + n
      /\ \A k \in 1 .. m : c[k] = u[k]
      /\ \A k \in m + 1 .. m + n : c[k] = v[k - m]
  BY <1>3, <1>4, <1>5
<1>7. IsTrace(c)
  <2>1. m >= 1 /\ n >= 1
    BY <1>3
  <2>2. 1 \in 1 .. n /\ m \in 1 .. m
    BY <1>3
  <2>3. v[1].dist = D[i] /\ v[1].elapsed = E[i] /\ v[1].dist \in Nat /\ u[m].dist \in Nat
    BY <1>1, <1>2, <1>3, <2>2, ReadingsOf
  <2>4. u[m].dist <= v[1].dist /\ u[m].elapsed <= v[1].elapsed
    BY <1>1, <1>3, <2>3
  <2> QED BY <1>1, <1>2, <1>3, <1>5, <2>1, <2>4, TracesJoin
<1>8. c[1] = u[1] /\ c[m + n] = v[n] /\ c[m + 1] = v[1] /\ c[m + n - 1] = v[n - 1]
  <2>1. 1 \in 1 .. m /\ m + n \in m + 1 .. m + n /\ m + 1 \in m + 1 .. m + n /\ m + n - 1 \in m + 1 .. m + n
    BY <1>3
  <2>2. (m + n) - m = n /\ (m + 1) - m = 1 /\ (m + n - 1) - m = n - 1
    BY <1>3
  <2> QED BY <1>6, <2>1, <2>2
<1>9. ASSUME NEW j \in 1 .. (i + 1) - 1
      PROVE  \E k \in 1 .. Len(c) - 1 : c[k] = [dist |-> D[j], elapsed |-> E[j]]
  <2>1. CASE j = i
    <3>1. m + 1 \in 1 .. Len(c) - 1
      BY <1>3, <1>6
    <3> QED BY <1>2, <1>8, <2>1, <3>1
  <2>2. CASE j # i
    <3>1. j \in 1 .. i - 1
      BY <2>2
    <3>2. PICK k \in 1 .. m - 1 : u[k] = [dist |-> D[j], elapsed |-> E[j]]
      BY <1>1, <1>3, <3>1
    <3>3. k \in 1 .. m /\ k \in 1 .. Len(c) - 1
      BY <1>3, <1>6
    <3> QED BY <1>6, <3>2, <3>3
  <2> QED BY <2>1, <2>2
<1>10. SlicesTo(c, D, E, i + 1)
  <2>1. Len(c) >= 2 /\ c[Len(c)] = v[n] /\ c[1] = u[1]
    BY <1>3, <1>6, <1>8
  <2> QED BY <1>1, <1>2, <1>3, <1>7, <1>9, <2>1 DEF SlicesTo
<1>11. ASSUME EndsMoving(v) PROVE EndsMoving(c)
  <2>1. v[n - 1].dist < v[n].dist
    BY <1>3, <1>11 DEF EndsMoving
  <2> QED BY <1>3, <1>6, <1>8, <2>1 DEF EndsMoving
<1> QED BY <1>5, <1>10, <1>11

(* The last point put at a later time. *)
LastPut(c, w, x) ==
  /\ IsTrace(c) /\ Len(c) = Len(w) /\ c[Len(c)] = x
  /\ \A k \in 1 .. Len(w) - 1 : c[k] = w[k]
  /\ EndsMoving(w) => EndsMoving(c)

LEMMA LastReplaced ==
  ASSUME NEW w, IsTrace(w), Len(w) >= 2, NEW x \in Reading,
         x.dist = w[Len(w)].dist, w[Len(w)].elapsed <= x.elapsed,
         NEW c, c = [w EXCEPT ![Len(w)] = x]
  PROVE  LastPut(c, w, x)
<1>1. PICK n \in Nat : n = Len(w) /\ n >= 2
  BY ReadingsOf
<1>2. w \in Seq(Reading) /\ \A k \in 1 .. n : w[k].dist \in Nat /\ w[k].elapsed \in Nat
  BY <1>1, ReadingsOf DEF IsTrace
<1>3. /\ c \in Seq(Reading) /\ Len(c) = n /\ c[n] = x
      /\ \A k \in 1 .. n - 1 : c[k] = w[k]
  BY <1>1, <1>2
<1>4. x.dist \in Nat /\ x.elapsed \in Nat
  BY DEF Reading
<1>5. ASSUME NEW i \in 1 .. n, NEW j \in 1 .. n, i < j
      PROVE  c[i].dist <= c[j].dist /\ c[i].elapsed <= c[j].elapsed
  <2>1. w[i].dist <= w[j].dist /\ w[i].elapsed <= w[j].elapsed
    BY <1>1, <1>5 DEF IsTrace
  <2>2. i \in 1 .. n - 1 /\ (j = n \/ j \in 1 .. n - 1)
    BY <1>5
  <2>3. CASE j \in 1 .. n - 1
    BY <1>3, <2>1, <2>2, <2>3
  <2>4. CASE j = n
    <3>1. c[i] = w[i] /\ c[j] = x /\ w[j].elapsed <= x.elapsed /\ w[j].dist = x.dist
      BY <1>1, <1>3, <2>2, <2>4
    <3>2. w[i].elapsed \in Nat /\ w[j].elapsed \in Nat
      BY <1>2
    <3> QED BY <1>4, <2>1, <3>1, <3>2
  <2> QED BY <2>2, <2>3, <2>4
<1>6. IsTrace(c)
  BY <1>3, <1>5 DEF IsTrace
<1>7. ASSUME EndsMoving(w) PROVE EndsMoving(c)
  <2>1. w[n - 1].dist < w[n].dist /\ n - 1 \in 1 .. n - 1
    BY <1>1, <1>7 DEF EndsMoving
  <2> QED BY <1>1, <1>3, <2>1 DEF EndsMoving
<1> QED BY <1>1, <1>3, <1>6, <1>7 DEF LastPut

(* The sectors of the traces, one after another. *)
Cuttable(tr, bd, times, N) ==
  /\ \A i \in 1 .. N :
       /\ IsTrace(tr[i]) /\ Len(tr[i]) >= 2 /\ bd[i][1] \in Nat /\ bd[i][2] \in Nat
       /\ tr[i][1].dist <= bd[i][1] /\ bd[i][1] <= bd[i][2] /\ bd[i][2] <= tr[i][Len(tr[i])].dist
       /\ times[i] \in Nat
  /\ Len(times) = N

IsJoined(whole, bd, times) ==
  /\ IsTrace(whole.line) /\ Len(whole.line) >= 2
  /\ whole.line[1] = [dist |-> 0, elapsed |-> 0]
  /\ whole.line[Len(whole.line)].elapsed = Sum(times)
  /\ DOMAIN whole.seams = 1 .. SECTOR_COUNT - 1
  /\ \A i \in 1 .. SECTOR_COUNT - 1 : \E k \in DOMAIN whole.line :
       whole.line[k] = [dist |-> whole.seams[i], elapsed |-> UpTo(times, i)]
  /\ bd[SECTOR_COUNT][1] < bd[SECTOR_COUNT][2] => EndsMoving(whole.line)

LEMMA JoinedIs ==
  ASSUME SectorAssumption, NEW tr, NEW bd, NEW times, Cuttable(tr, bd, times, SECTOR_COUNT),
         NEW whole, whole = Joined(tr, bd, times)
  PROVE  IsJoined(whole, bd, times)
<1>1. PICK N \in Nat \ {0} : N = SECTOR_COUNT
  BY DEF SectorAssumption
<1>2. /\ \A i \in 1 .. N :
           /\ IsTrace(tr[i]) /\ Len(tr[i]) >= 2 /\ bd[i][1] \in Nat /\ bd[i][2] \in Nat
           /\ tr[i][1].dist <= bd[i][1] /\ bd[i][1] <= bd[i][2] /\ bd[i][2] <= tr[i][Len(tr[i])].dist
           /\ times[i] \in Nat
      /\ Len(times) = N
  BY <1>1 DEF Cuttable
<1> DEFINE dists == [i \in 1 .. N |-> bd[i][2] - bd[i][1]]
           D == [i \in 0 .. N |-> UpTo(dists, i)]
           E == [i \in 0 .. N |-> UpTo(times, i)]
           ss == [i \in 1 .. N |-> Slice(tr[i], bd[i][1], bd[i][2], D[i - 1], E[i - 1], times[i])]
           flat == FlattenSeq(ss)
<1>3. Sector = 1 .. N /\ Len(dists) = N
  BY <1>1 DEF Sector
<1>4. \A i \in 1 .. N : dists[i] \in Nat /\ dists[i] = bd[i][2] - bd[i][1]
  BY <1>2
<1>5. /\ whole.line = [flat EXCEPT ![Len(flat)] = [dist |-> Sum(dists), elapsed |-> Sum(times)]]
      /\ whole.seams = [i \in 1 .. N - 1 |-> UpTo(dists, i)]
  <2>1. ss = [i \in Sector |-> Slice(tr[i], bd[i][1], bd[i][2], UpTo(dists, i - 1), UpTo(times, i - 1), times[i])]
    <3>1. \A i \in 1 .. N : i - 1 \in 0 .. N
      BY <1>1
    <3>2. \A i \in 1 .. N : D[i - 1] = UpTo(dists, i - 1) /\ E[i - 1] = UpTo(times, i - 1)
      BY <3>1
    <3> HIDE DEF D, E, dists
    <3> QED BY <1>3, <3>2
  <2>2. dists = [i \in Sector |-> bd[i][2] - bd[i][1]]
    BY <1>3
  <2> HIDE DEF ss, dists
  <2> QED BY <1>1, <2>1, <2>2 DEF Joined
<1> HIDE DEF dists
<1>6. /\ D[0] = 0 /\ \A k \in 0 .. N : D[k] \in Nat
      /\ \A k \in 1 .. N : D[k] = D[k - 1] + dists[k]
  <2>1. /\ UpTo(dists, 0) = 0 /\ \A k \in 0 .. N : UpTo(dists, k) \in Nat
        /\ \A k \in 1 .. N : UpTo(dists, k) = UpTo(dists, k - 1) + dists[k]
    BY <1>1, <1>4, SumIs
  <2>2. \A k \in 1 .. N : k \in 0 .. N /\ k - 1 \in 0 .. N
    BY <1>1
  <2>3. 0 \in 0 .. N
    BY <1>1
  <2> QED BY <2>1, <2>2, <2>3
<1>7. /\ E[0] = 0 /\ \A k \in 0 .. N : E[k] \in Nat
      /\ \A k \in 1 .. N : E[k] = E[k - 1] + times[k]
  <2>1. /\ UpTo(times, 0) = 0 /\ \A k \in 0 .. N : UpTo(times, k) \in Nat
        /\ \A k \in 1 .. N : UpTo(times, k) = UpTo(times, k - 1) + times[k]
    BY <1>1, <1>2, SumIs
  <2>2. \A k \in 1 .. N : k \in 0 .. N /\ k - 1 \in 0 .. N
    BY <1>1
  <2>3. 0 \in 0 .. N
    BY <1>1
  <2> QED BY <2>1, <2>2, <2>3
<1>8. N \in 0 .. N /\ Sum(dists) = D[N] /\ Sum(times) = E[N]
  BY <1>1, <1>2, <1>3 DEF Sum
<1>9. \A i \in 1 .. N - 1 : D[i] = UpTo(dists, i) /\ E[i] = UpTo(times, i)
  BY <1>1
<1> HIDE DEF D, E
<1>10. ASSUME NEW i \in 1 .. N
       PROVE  /\ SliceOf(ss[i], D, E, i) /\ ss[i] \in Seq(Reading)
              /\ bd[i][1] < bd[i][2] => EndsMoving(ss[i])
  <2>1. i - 1 \in 0 .. N
    BY <1>1
  <2>a. bd[i][1] \in Nat /\ bd[i][2] \in Nat /\ times[i] \in Nat
    BY <1>2
  <2> HIDE DEF ss, flat
  <2>b. PICK from \in Nat, to \in Nat : from = bd[i][1] /\ to = bd[i][2]
    BY <2>a
  <2>c. PICK time \in Nat : time = times[i]
    BY <2>a
  <2>d. PICK s : s = tr[i]
    OBVIOUS
  <2>2. s = tr[i] /\ from = bd[i][1] /\ to = bd[i][2] /\ time = times[i]
    BY <2>b, <2>c, <2>d
  <2>3. /\ IsTrace(s) /\ Len(s) >= 2 /\ s[1].dist <= from /\ from <= to /\ to <= s[Len(s)].dist
    BY <1>2, <2>2
  <2>4. D[i - 1] \in Nat /\ E[i - 1] \in Nat /\ D[i] = D[i - 1] + (to - from) /\ E[i] = E[i - 1] + time
    BY <1>4, <1>6, <1>7, <2>1, <2>2
  <2>5. ss[i] = Slice(s, from, to, D[i - 1], E[i - 1], time)
    BY <2>2 DEF ss
  <2>6. SliceOf(ss[i], D, E, i) /\ (from < to => EndsMoving(ss[i]))
    BY <2>3, <2>4, <2>5, SliceIs
  <2>7. ss[i] \in Seq(Reading)
    BY <2>6 DEF SliceOf, IsTrace
  <2> QED BY <2>2, <2>6, <2>7
<1>11. Len(ss) = N
  BY <1>1
<1> HIDE DEF ss
<1>12. PICK f : Joins(f, ss, N, Reading)
  BY <1>10, <1>11, FlattenIs
<1>13. /\ f[1] = ss[1] /\ \A i \in 1 .. N - 1 : f[i + 1] = f[i] \o ss[i + 1]
       /\ flat = f[N]
  BY <1>12 DEF Joins
<1> HIDE DEF flat
<1> DEFINE Is(i) == SlicesTo(f[i], D, E, i) /\ (bd[i][1] < bd[i][2] => EndsMoving(f[i]))
           K == {i \in 0 .. N : i = 0 \/ Is(i)}
<1>14. ASSUME NEW i \in 0 .. N - 1, i \in K
       PROVE  i + 1 \in K
  <2>1. i + 1 \in 0 .. N /\ i + 1 \in 1 .. N
    BY <1>1
  <2>2. CASE i = 0
    <3>1. i + 1 = 1
      BY <2>2
    <3>2. SliceOf(f[1], D, E, 1) /\ (bd[1][1] < bd[1][2] => EndsMoving(f[1]))
      BY <1>10, <1>13, <2>1, <3>1
    <3>3. SlicesTo(f[1], D, E, 1)
      <4>1. 1 - 1 = 0 /\ 1 .. 0 = {}
        OBVIOUS
      <4> QED BY <3>2, <4>1 DEF SlicesTo, SliceOf
    <3> QED BY <2>1, <3>1, <3>2, <3>3
  <2>3. CASE i # 0
    <3>1. i \in 1 .. N - 1 /\ i \in Nat \ {0}
      BY <1>1, <2>3
    <3>2. SlicesTo(f[i], D, E, i) /\ SliceOf(ss[i + 1], D, E, i + 1)
      BY <1>10, <1>14, <2>1, <2>3
    <3>3. /\ SlicesTo(f[i] \o ss[i + 1], D, E, i + 1)
          /\ EndsMoving(ss[i + 1]) => EndsMoving(f[i] \o ss[i + 1])
      <4> HIDE DEF Is, K
      <4> QED BY <3>1, <3>2, SliceJoins
    <3>4. f[i + 1] = f[i] \o ss[i + 1]
      BY <1>13, <3>1
    <3>5. bd[i + 1][1] < bd[i + 1][2] => EndsMoving(ss[i + 1])
      BY <1>10, <2>1
    <3> QED BY <2>1, <3>3, <3>4, <3>5
  <2> QED BY <2>2, <2>3
<1>15. SlicesTo(flat, D, E, N) /\ (bd[N][1] < bd[N][2] => EndsMoving(flat))
  <2>1. 0 \in K
    BY <1>1
  <2>2. 0 .. N \subseteq K
    <3> HIDE DEF K
    <3> QED BY <1>1, <1>14, <2>1, Reaches
  <2>3. N \in K /\ N # 0
    BY <1>1, <2>2
  <2> QED BY <1>13, <2>3
<1> HIDE DEF Is, K
<1>16. /\ IsTrace(flat) /\ Len(flat) >= 2
       /\ flat[1] = [dist |-> 0, elapsed |-> 0]
       /\ flat[Len(flat)].dist = D[N] /\ flat[Len(flat)].elapsed <= E[N]
       /\ \A j \in 1 .. N - 1 : \E k \in 1 .. Len(flat) - 1 : flat[k] = [dist |-> D[j], elapsed |-> E[j]]
  BY <1>6, <1>7, <1>15 DEF SlicesTo
<1>17. PICK x : x = [dist |-> D[N], elapsed |-> E[N]]
  OBVIOUS
<1>18. x \in Reading /\ x.dist = D[N] /\ x.elapsed = E[N]
  BY <1>6, <1>7, <1>8, <1>17 DEF Reading
<1>19. PICK c : c = whole.line
  OBVIOUS
<1>20. c = [flat EXCEPT ![Len(flat)] = x]
  BY <1>5, <1>8, <1>17, <1>19
<1>21. /\ IsTrace(c) /\ Len(c) = Len(flat) /\ c[Len(c)] = x
       /\ \A k \in 1 .. Len(flat) - 1 : c[k] = flat[k]
       /\ EndsMoving(flat) => EndsMoving(c)
  <2>1. x.dist = flat[Len(flat)].dist /\ flat[Len(flat)].elapsed <= x.elapsed
    BY <1>16, <1>18
  <2>2. PICK w : w = flat
    OBVIOUS
  <2>3. IsTrace(w) /\ Len(w) >= 2
    BY <1>16, <2>2
  <2>4. x.dist = w[Len(w)].dist /\ w[Len(w)].elapsed <= x.elapsed /\ c = [w EXCEPT ![Len(w)] = x]
    BY <1>20, <2>1, <2>2
  <2>5. LastPut(c, w, x)
    BY <1>18, <2>3, <2>4, LastReplaced
  <2> QED BY <2>2, <2>5 DEF LastPut
<1>22. PICK n \in Nat : n = Len(c) /\ n >= 2
  BY <1>16, <1>21, ReadingsOf
<1>23. c[1] = [dist |-> 0, elapsed |-> 0]
  <2>1. 1 \in 1 .. Len(flat) - 1
    BY <1>21, <1>22
  <2> QED BY <1>16, <1>21, <2>1
<1>24. DOMAIN c = 1 .. n
  BY <1>21, <1>22 DEF IsTrace
<1>25. ASSUME NEW i \in 1 .. N - 1
       PROVE  \E k \in DOMAIN c : c[k] = [dist |-> whole.seams[i], elapsed |-> UpTo(times, i)]
  <2>1. PICK k \in 1 .. n - 1 : flat[k] = [dist |-> D[i], elapsed |-> E[i]]
    BY <1>16, <1>21, <1>22
  <2>2. c[k] = flat[k] /\ k \in DOMAIN c
    BY <1>21, <1>22, <1>24
  <2>3. whole.seams[i] = D[i] /\ UpTo(times, i) = E[i]
    BY <1>5, <1>9
  <2> QED BY <2>1, <2>2, <2>3
<1>26. DOMAIN whole.seams = 1 .. N - 1
  BY <1>5
<1> QED BY <1>1, <1>8, <1>15, <1>18, <1>19, <1>21, <1>22, <1>23, <1>25, <1>26 DEF IsJoined

(* A thinned trace keeps both ends. *)
KeepsEnds(c, w) ==
  /\ IsTrace(c) /\ Len(c) >= 2 /\ c[1] = w[1] /\ c[Len(c)] = w[Len(w)]
  /\ EndsMoving(w) => EndsMoving(c)

LEMMA PickedKeepsEnds ==
  ASSUME NEW w, IsTrace(w), Len(w) >= 2, NEW set \in SUBSET (1 .. Len(w)), 1 \in set, Len(w) \in set
  PROVE  KeepsEnds(Picked(w, set), w)
<1>1. PICK m \in Nat : m = Len(w) /\ m >= 2
  BY ReadingsOf
<1>2. \A i \in 1 .. m : w[i] \in Reading /\ w[i].dist \in Nat
  BY <1>1, ReadingsOf
<1>3. \A i, j \in 1 .. m : i < j => w[i].dist <= w[j].dist /\ w[i].elapsed <= w[j].elapsed
  BY <1>1 DEF IsTrace
<1>4. set \in SUBSET (1 .. m) /\ 1 \in set /\ m \in set
  BY <1>1
<1>5. PicksOf(w, set)
  BY <1>4, PicksAre
<1>6. PICK n, p : Lists(p, n, set) /\ Picked(w, set) = [k \in 1 .. n |-> w[p[k]]]
  BY <1>5 DEF PicksOf
<1>7. /\ n \in Nat /\ \A k \in 1 .. n : p[k] \in 1 .. m
      /\ \A i \in set : \E k \in 1 .. n : p[k] = i
      /\ \A j, k \in 1 .. n : j < k => p[j] < p[k]
  BY <1>4, <1>6 DEF Lists
<1>8. PICK first \in 1 .. n, final \in 1 .. n : p[first] = 1 /\ p[final] = m
  BY <1>4, <1>7
<1>9. first = 1
  <2>1. 1 \in 1 .. n /\ p[1] \in 1 .. m
    BY <1>7, <1>8
  <2>2. ~(1 < first)
    BY <1>7, <1>8, <2>1
  <2> QED BY <1>7, <1>8, <2>2
<1>10. final = n
  <2>1. n \in 1 .. n /\ p[n] \in 1 .. m
    BY <1>7, <1>8
  <2>2. ~(final < n)
    BY <1>7, <1>8, <2>1
  <2> QED BY <1>7, <1>8, <2>2
<1>11. n >= 2
  <2>1. n # 1
    BY <1>1, <1>8, <1>9, <1>10
  <2> QED BY <1>7, <1>8, <2>1
<1>12. PICK c : c = [k \in 1 .. n |-> w[p[k]]]
  OBVIOUS
<1>13. c \in Seq(Reading) /\ Len(c) = n /\ \A k \in 1 .. n : c[k] = w[p[k]]
  <2>1. n \in Nat /\ \A k \in 1 .. n : w[p[k]] \in Reading
    BY <1>2, <1>7
  <2>2. c \in [1 .. n -> Reading]
    BY <1>12, <2>1
  <2>3. c \in Seq(Reading) /\ Len(c) = n
    BY ONLY <2>1, <2>2
  <2> QED BY <1>12, <2>3
<1>14. ASSUME NEW i \in 1 .. n, NEW j \in 1 .. n, i < j
       PROVE  c[i].dist <= c[j].dist /\ c[i].elapsed <= c[j].elapsed
  <2>1. p[i] \in 1 .. m /\ p[j] \in 1 .. m /\ p[i] < p[j]
    BY <1>7, <1>14
  <2> QED BY <1>3, <1>13, <2>1
<1>15. IsTrace(c)
  BY <1>13, <1>14 DEF IsTrace
<1>16. c[1] = w[1] /\ c[n] = w[m]
  BY <1>8, <1>9, <1>10, <1>13
<1>17. ASSUME EndsMoving(w) PROVE EndsMoving(c)
  <2>1. w[m - 1].dist < w[m].dist
    BY <1>1, <1>17 DEF EndsMoving
  <2>2. n - 1 \in 1 .. n /\ n \in 1 .. n /\ n - 1 < n
    BY <1>7, <1>11
  <2>3. p[n - 1] \in 1 .. m /\ p[n - 1] < m
    BY <1>7, <1>8, <1>10, <2>2
  <2>4. m - 1 \in 1 .. m /\ (p[n - 1] = m - 1 \/ p[n - 1] < m - 1)
    BY <1>1, <2>3
  <2>5. w[p[n - 1]].dist \in Nat /\ w[m - 1].dist \in Nat /\ w[m].dist \in Nat
    BY <1>1, <1>2, <2>3, <2>4
  <2>6. w[p[n - 1]].dist <= w[m - 1].dist
    BY <1>3, <2>3, <2>4, <2>5
  <2>7. c[n - 1].dist < c[n].dist
    <3>1. c[n - 1] = w[p[n - 1]] /\ c[n] = w[m]
      BY <1>13, <1>16, <2>2
    <3>2. PICK x \in Nat, y \in Nat, z \in Nat :
            x = w[p[n - 1]].dist /\ y = w[m - 1].dist /\ z = w[m].dist
      BY <2>5
    <3>3. x <= y /\ y < z
      BY <2>1, <2>6, <3>2
    <3>4. x < z
      BY ONLY <3>3, x \in Nat, y \in Nat, z \in Nat
    <3> QED BY <3>1, <3>2, <3>4
  <2> QED BY <1>11, <1>13, <2>7 DEF EndsMoving
<1> QED BY <1>1, <1>6, <1>11, <1>12, <1>13, <1>15, <1>16, <1>17 DEF KeepsEnds

LEMMA ThinnedIs ==
  ASSUME NEW w, IsTrace(w), Len(w) >= 2, NEW maxPoints
  PROVE  KeepsEnds(DecimateByDistance(w, maxPoints), w)
<1>1. KeepsEnds(w, w)
  BY DEF KeepsEnds
<1> DEFINE total == w[Len(w)].dist
           Cleared(i) == (w[i].dist * (maxPoints - 1)) \div total
           kept == {i \in 1 .. Len(w) : i \in {1, Len(w)} \/ Cleared(i) > Cleared(i - 1)}
<1>2. DecimateByDistance(w, maxPoints) = IF Len(w) <= maxPoints \/ maxPoints < 2 THEN w ELSE Picked(w, kept)
  BY DEF DecimateByDistance
<1>3. kept \in SUBSET (1 .. Len(w)) /\ 1 \in kept /\ Len(w) \in kept
  <2>1. Len(w) \in Nat /\ 1 \in 1 .. Len(w) /\ Len(w) \in 1 .. Len(w)
    BY ReadingsOf
  <2> HIDE DEF Cleared
  <2> QED BY <2>1
<1> HIDE DEF kept
<1>4. KeepsEnds(Picked(w, kept), w)
  BY <1>3, PickedKeepsEnds
<1> QED BY <1>1, <1>2, <1>4

(* A share of less than all is less than all. *)
LEMMA ShareShort ==
  ASSUME NEW n \in Nat, NEW d \in Nat \ {0}, NEW w \in Nat \ {0}, n < d
  PROVE  (n * w) \div d < w
<1>1. PICK m \in Int : m = n * w
  OBVIOUS
<1>2. PICK e \in Nat \ {0} : d = n + e
  <2>1. d - n \in Nat \ {0} /\ d = n + (d - n)
    OBVIOUS
  <2> QED BY <2>1
<1>3. PICK k \in Int : k = e * w /\ k >= 1
  OBVIOUS
<1>4. d * w = m + k
  BY <1>1, <1>2, <1>3
<1>5. PICK q \in Int : q = m \div d /\ d * q <= m /\ m < d * q + d
  BY <1>1, Quotient
<1>6. ASSUME q >= w PROVE FALSE
  <2>1. PICK r \in Nat : q = w + r
    <3>1. q - w \in Nat /\ q = w + (q - w)
      BY <1>6
    <3> QED BY <3>1
  <2>2. d * q = d * w + d * r /\ d * r >= 0
    BY <2>1
  <2>3. PICK a \in Int, b \in Int, c \in Int : a = d * q /\ b = d * w /\ c = d * r
    OBVIOUS
  <2> QED BY <1>3, <1>4, <1>5, <2>2, <2>3
<1> QED BY <1>1, <1>5, <1>6

(* The time into a lap by which its trace is short of its end. *)
LEMMA ValueShort ==
  ASSUME NEW s, IsTrace(s), EndsMoving(s), NEW t \in Nat, t < s[Len(s)].elapsed
  PROVE  ValueAt(s, "elapsed", "dist", t) < s[Len(s)].dist
<1>1. PICK n \in Nat : n = Len(s) /\ n >= 2
  BY ReadingsOf DEF EndsMoving
<1>a. PICK v : v = ValueAt(s, "elapsed", "dist", t)
  OBVIOUS
<1> SUFFICES v < s[n].dist
  BY <1>1, <1>a
<1>2. /\ "elapsed" \in Axis /\ "dist" \in Axis /\ 1 \in 1 .. n /\ n \in 1 .. n /\ n - 1 \in 1 .. n
      /\ s[n - 1].dist < s[n].dist
      /\ \A i \in 1 .. n : s[i].dist \in Nat /\ s[i].elapsed \in Nat
  BY <1>1, ReadingsOf DEF Axis, EndsMoving
<1>3. \A i, j \in 1 .. n : i <= j => s[i].dist <= s[j].dist
  BY <1>1, <1>2, AxesOf
<1>4. PICK b : b = BracketBy(s, "elapsed", t)
  OBVIOUS
<1>5. v = Between(b.a.dist, b.b.dist, b.num, b.den)
  BY <1>4, <1>a DEF ValueAt, Along
<1>6. \A i \in 1 .. n - 1 : s[i].dist < s[n].dist
  <2> TAKE i \in 1 .. n - 1
  <2>1. i \in 1 .. n /\ i <= n - 1
    BY <1>1
  <2>2. s[i].dist <= s[n - 1].dist /\ s[i].dist \in Nat /\ s[n - 1].dist \in Nat /\ s[n].dist \in Nat
    BY <1>2, <1>3, <2>1
  <2> QED BY <1>2, <2>2
<1>7. CASE t <= s[1]["elapsed"] /\ ClampedAt(s, "elapsed", t, 1)
  <2>1. b.a = s[1] /\ b.b = s[1] /\ b.num = 0 /\ b.den = 1
    BY <1>4, <1>7 DEF ClampedAt
  <2>2. 1 \in 1 .. n - 1
    BY <1>1
  <2>3. PICK d \in Nat : d = s[1].dist
    BY <1>2
  <2>4. Between(d, d, 0, 1) = d
    BY BetweenNone
  <2> QED BY <1>5, <1>6, <2>1, <2>2, <2>3, <2>4
<1>8. CASE t >= s[n]["elapsed"]
  BY <1>1, <1>2, <1>8
<1>9. CASE \E i : BracketedAt(s, "elapsed", t, i)
  <2>1. PICK i : BracketedAt(s, "elapsed", t, i)
    BY <1>9
  <2>2. /\ i \in 2 .. n /\ s[i - 1].elapsed < t /\ t <= s[i].elapsed
        /\ b = [a |-> s[i - 1], b |-> s[i], num |-> t - s[i - 1].elapsed, den |-> s[i].elapsed - s[i - 1].elapsed]
    BY <1>1, <1>4, <2>1 DEF BracketedAt
  <2>3. i \in 1 .. n /\ i - 1 \in 1 .. n - 1 /\ i - 1 \in 1 .. n /\ i - 1 <= i
    BY <2>2
  <2>4. PICK a \in Nat, z \in Nat, g \in Nat, h \in Nat :
          a = s[i - 1].dist /\ z = s[i].dist /\ g = s[i - 1].elapsed /\ h = s[i].elapsed
    BY <1>2, <2>3
  <2>5. a <= z /\ g < t /\ t <= h
    BY <1>3, <2>2, <2>3, <2>4
  <2>6. PICK num \in Nat, den \in Nat \ {0} : num = t - g /\ den = h - g
    BY <2>5
  <2>7. v = Between(a, z, num, den)
    BY <1>5, <2>2, <2>4, <2>6
  <2>8. PICK y \in Nat : y = s[n].dist
    BY <1>2
  <2>9. num <= den
    BY <2>5, <2>6
  <2>10. Between(a, z, num, den) \in a .. z
    BY <2>5, <2>9, BetweenOf
  <2>11. CASE i # n
    <3>1. i \in 1 .. n - 1
      BY <2>3, <2>11
    <3>2. z < y
      BY <1>6, <2>4, <2>8, <3>1
    <3>3. PICK q \in Int : q = Between(a, z, num, den) /\ q <= z
      BY <2>10
    <3> QED BY <2>7, <2>8, <3>2, <3>3
  <2>12. CASE i = n
    <3>1. z = y /\ a < y /\ t < h
      BY <1>1, <1>6, <2>3, <2>4, <2>8, <2>12
    <3>2. PICK w \in Nat \ {0} : w = z - a
      <4>1. z - a \in Nat \ {0}
        BY <3>1
      <4> QED BY <4>1
    <3>3. num < den
      BY <2>5, <2>6, <3>1
    <3>4. (num * w) \div den < w
      BY ONLY <3>3, num \in Nat, den \in Nat \ {0}, w \in Nat \ {0}, ShareShort
    <3>5. PICK q \in Int : q = (num * w) \div den
      BY Quotient
    <3>6. Between(a, z, num, den) = a + q
      BY <3>2, <3>5 DEF Between
    <3>7. a + q < a + w /\ a + w = y
      BY <3>1, <3>2, <3>4, <3>5
    <3> QED BY <2>7, <2>8, <3>6, <3>7
  <2> QED BY <2>11, <2>12
<1>10. \/ t <= s[1]["elapsed"] /\ ClampedAt(s, "elapsed", t, 1)
       \/ t >= s[n]["elapsed"]
       \/ \E i : BracketedAt(s, "elapsed", t, i)
  BY <1>1, <1>2, BracketCases
<1> QED BY <1>7, <1>8, <1>9, <1>10

(* A lap for each sector, and the trace of each. *)
Traced(best, traceOf) ==
  /\ best \in [Sector -> Driven]
  /\ \A i \in Sector : Len(best[i].sectors) = SECTOR_COUNT /\ IsTrace(traceOf[best[i].number])

(* A line from the start to the optimal time that passes the seams. *)
IsStitched(whole, plan) ==
  /\ IsTrace(whole.line) /\ Len(whole.line) >= 2
  /\ whole.line[1] = [dist |-> 0, elapsed |-> 0]
  /\ whole.line[Len(whole.line)].elapsed = plan.time
  /\ PassesSeams(whole, plan)

LEMMA StitchedIs ==
  ASSUME SectorAssumption, NEW best, NEW traceOf, Traced(best, traceOf),
         \A i \in Sector : ~(Len(traceOf[best[i].number]) < 2),
         NEW whole, whole = Stitched(PlanOf(best), traceOf)
  PROVE  /\ IsStitched(whole, PlanOf(best))
         /\ EndsLate(best[SECTOR_COUNT], traceOf[best[SECTOR_COUNT].number]) => EndsMoving(whole.line)
<1>1. PICK N \in Nat \ {0} : N = SECTOR_COUNT
  BY DEF SectorAssumption
<1>2. Sector = 1 .. N /\ N \in Sector
  BY <1>1 DEF Sector
<1> DEFINE plan == PlanOf(best)
           tr == [i \in Sector |-> traceOf[best[i].number]]
           bd == [i \in Sector |-> SectorBoundsM(tr[i], best[i].sectors, i)]
           times == [i \in Sector |-> best[i].sectors[i]]
<1>3. plan.sectors = best /\ plan.time = Sum(times)
  BY DEF PlanOf
<1>4. whole = Joined(tr, bd, times)
  BY <1>3 DEF Stitched, JoinedLaps
<1>5. ASSUME NEW i \in 1 .. N
      PROVE  /\ IsTrace(tr[i]) /\ Len(tr[i]) >= 2
             /\ best[i].sectors \in Seq(Nat) /\ Len(best[i].sectors) = N
             /\ times[i] \in Nat
             /\ bd[i] = <<BoundaryM(tr[i], best[i].sectors, i - 1), BoundaryM(tr[i], best[i].sectors, i)>>
  <2>1. IsTrace(tr[i]) /\ ~(Len(tr[i]) < 2)
    BY <1>2 DEF Traced
  <2>2. Len(tr[i]) >= 2
    BY <2>1, ReadingsOf
  <2>3. best[i] \in Driven /\ Len(best[i].sectors) = N
    BY <1>1, <1>2 DEF Traced
  <2>4. best[i].sectors \in Seq(Nat)
    BY <2>3 DEF Driven
  <2>5. times[i] \in Nat
    BY <1>2, <2>3, <2>4
  <2>6. bd[i] = <<BoundaryM(tr[i], best[i].sectors, i - 1), BoundaryM(tr[i], best[i].sectors, i)>>
    BY <1>1, <1>2, <2>3 DEF SectorBoundsM
  <2> QED BY <2>1, <2>2, <2>3, <2>4, <2>5, <2>6
<1>6. Len(times) = N
  BY <1>1, <1>2
<1> HIDE DEF tr, bd, times, plan
<1>7. ASSUME NEW i \in 1 .. N
      PROVE  /\ bd[i][1] \in Nat /\ bd[i][2] \in Nat
             /\ tr[i][1].dist <= bd[i][1] /\ bd[i][1] <= bd[i][2] /\ bd[i][2] <= tr[i][Len(tr[i])].dist
             /\ bd[i][1] = BoundaryM(tr[i], best[i].sectors, i - 1)
             /\ bd[i][2] = BoundaryM(tr[i], best[i].sectors, i)
  <2>1. PICK s, splits : s = tr[i] /\ splits = best[i].sectors
    OBVIOUS
  <2>2. IsTrace(s) /\ Len(s) >= 2 /\ splits \in Seq(Nat) /\ Len(splits) = SECTOR_COUNT
    BY <1>1, <1>5, <2>1
  <2>3. BoundsOf(s, splits)
    BY <2>2, BoundsAre
  <2>4. i \in 0 .. SECTOR_COUNT /\ i - 1 \in 0 .. SECTOR_COUNT /\ i \in 1 .. SECTOR_COUNT
    BY <1>1
  <2>5. PICK x, y : x = BoundaryM(s, splits, i - 1) /\ y = BoundaryM(s, splits, i)
    OBVIOUS
  <2>6. x \in Nat /\ y \in Nat /\ s[1].dist <= x /\ x <= y /\ y <= s[Len(s)].dist
    BY <2>3, <2>4, <2>5 DEF BoundsOf
  <2>7. bd[i] = <<x, y>>
    BY <1>5, <2>1, <2>5
  <2> QED BY <2>1, <2>5, <2>6, <2>7
<1>8. Cuttable(tr, bd, times, SECTOR_COUNT)
  BY <1>1, <1>5, <1>6, <1>7 DEF Cuttable
<1>9. IsJoined(whole, bd, times)
  BY <1>4, <1>8, JoinedIs
<1>10. PassesSeams(whole, plan)
  <2>1. [s \in Sector |-> plan.sectors[s].sectors[s]] = times
    BY <1>3 DEF times
  <2> QED BY <1>9, <2>1 DEF PassesSeams, IsJoined
<1>11. IsStitched(whole, plan)
  BY <1>3, <1>9, <1>10 DEF IsStitched, IsJoined
<1>12. ASSUME EndsLate(best[SECTOR_COUNT], traceOf[best[SECTOR_COUNT].number])
       PROVE  EndsMoving(whole.line)
  <2>1. PICK s, splits : s = tr[N] /\ splits = best[N].sectors
    OBVIOUS
  <2>2. s = traceOf[best[N].number]
    BY <1>2, <2>1 DEF tr
  <2>3. EndsMoving(s) /\ UpTo(splits, N - 1) < s[Len(s)].elapsed
    BY <1>1, <1>12, <2>1, <2>2 DEF EndsLate
  <2>4. N \in 1 .. N /\ IsTrace(s) /\ Len(s) >= 2 /\ splits \in Seq(Nat) /\ Len(splits) = N
    BY <1>1, <1>5, <2>1
  <2>5. bd[N][1] = BoundaryM(s, splits, N - 1) /\ bd[N][2] = s[Len(s)].dist
    BY <1>1, <1>7, <2>1, <2>4 DEF BoundaryM
  <2>6. bd[N][1] < bd[N][2]
    <3>1. CASE N = 1
      <4>1. bd[N][1] = s[1].dist
        BY <1>1, <2>5, <3>1 DEF BoundaryM
      <4>2. PICK n \in Nat : n = Len(s) /\ n >= 2 /\ s[n - 1].dist < s[n].dist
        BY <2>3, <2>4, ReadingsOf DEF EndsMoving
      <4>3. 1 \in 1 .. n /\ n - 1 \in 1 .. n /\ n \in 1 .. n /\ (1 = n - 1 \/ 1 < n - 1)
        BY <4>2
      <4>4. s[1].dist \in Nat /\ s[n - 1].dist \in Nat /\ s[n].dist \in Nat
        BY <2>4, <4>2, <4>3, ReadingsOf
      <4>5. s[1].dist <= s[n - 1].dist
        BY <2>4, <4>2, <4>3, <4>4 DEF IsTrace
      <4> QED BY <2>5, <4>1, <4>2, <4>4, <4>5
    <3>2. CASE N # 1
      <4>1. N - 1 # 0 /\ N - 1 # SECTOR_COUNT /\ N - 1 \in 0 .. N
        BY <1>1, <3>2
      <4>2. \A i \in 1 .. N : splits[i] \in Nat
        BY <2>4
      <4>3. PICK t \in Nat : t = UpTo(splits, N - 1)
        BY <4>1, <4>2, SumIs
      <4>4. bd[N][1] = ValueAt(s, "elapsed", "dist", t)
        BY <2>5, <4>1, <4>3 DEF BoundaryM, DistanceAtElapsed, ValueAt, ByDistance, ByElapsed
      <4>5. t < s[Len(s)].elapsed
        BY <2>3, <4>3
      <4>6. ValueAt(s, "elapsed", "dist", t) < s[Len(s)].dist
        BY <2>3, <2>4, <4>5, ValueShort
      <4> QED BY <2>5, <4>4, <4>6
    <3> QED BY <3>1, <3>2
  <2> QED BY <1>1, <1>9, <2>6 DEF IsJoined
<1> QED BY <1>11, <1>12 DEF plan

(* The lap that sets a sector is one of the laps. *)
LEMMA BestAreTraced ==
  ASSUME SectorAssumption, NEW all \in Seq(Driven), NEW traceOf,
         \A k \in 1 .. Len(all) : IsTrace(traceOf[all[k].number]),
         NEW best \in [Sector -> ToSet(Eligible(all))]
  PROVE  Traced(best, traceOf) /\ \A i \in Sector : \E k \in 1 .. Len(all) : best[i] = all[k]
<1>1. ASSUME NEW i \in Sector
      PROVE  /\ best[i] \in Driven /\ Len(best[i].sectors) = SECTOR_COUNT
             /\ \E k \in 1 .. Len(all) : best[i] = all[k]
  BY EligibleAre
<1>2. \A i \in Sector : IsTrace(traceOf[best[i].number])
  BY <1>1
<1> QED BY <1>1, <1>2 DEF Traced

(* StitchedLapIsWhole *)
THEOREM StitchedLapIsWholeAlways ==
  ASSUME SectorAssumption, NEW all \in Seq(Driven), NEW traceOf,
         \A k \in 1 .. Len(all) : IsTrace(traceOf[all[k].number]), NEW maxPoints
  PROVE  StitchedLapIsWhole(all, traceOf, maxPoints)
<1> SUFFICES ASSUME PickBestSectors(all) # None
             PROVE  IF \E i \in Sector : Len(traceOf[PickBestSectors(all).sectors[i].number]) < 2
                    THEN StitchOptimalTrace(PickBestSectors(all), traceOf, maxPoints) = <<>>
                    ELSE /\ IsWholeLap(StitchOptimalTrace(PickBestSectors(all), traceOf, maxPoints),
                                       PickBestSectors(all).time)
                         /\ PassesSeams(Stitched(PickBestSectors(all), traceOf), PickBestSectors(all))
  BY DEF StitchedLapIsWhole
<1>1. PICK best \in [Sector -> ToSet(Eligible(all))] : PickBestSectors(all) = PlanOf(best)
  BY PlanIs
<1>2. Traced(best, traceOf)
  BY BestAreTraced
<1>3. PlanOf(best).sectors = best
  BY DEF PlanOf
<1>4. PICK whole : whole = Stitched(PlanOf(best), traceOf)
  OBVIOUS
<1>5. CASE \E i \in Sector : Len(traceOf[best[i].number]) < 2
  <2>1. whole.line = <<>>
    BY <1>3, <1>4, <1>5 DEF Stitched
  <2> QED BY <1>1, <1>3, <1>4, <1>5, <2>1 DEF StitchOptimalTrace, Thinned
<1>6. CASE ~\E i \in Sector : Len(traceOf[best[i].number]) < 2
  <2>1. IsStitched(whole, PlanOf(best))
    BY <1>2, <1>4, <1>6, StitchedIs
  <2>2. PICK w : w = whole.line
    OBVIOUS
  <2>3. IsTrace(w) /\ Len(w) >= 2 /\ w # <<>>
    <3>1. IsTrace(w) /\ Len(w) >= 2
      BY <2>1, <2>2 DEF IsStitched
    <3>2. Len(<<>>) = 0
      OBVIOUS
    <3> QED BY <3>1, <3>2
  <2>4. PICK c : c = DecimateByDistance(w, maxPoints)
    OBVIOUS
  <2>5. KeepsEnds(c, w)
    BY <2>3, <2>4, ThinnedIs
  <2>6. StitchOptimalTrace(PlanOf(best), traceOf, maxPoints) = c
    BY <1>4, <2>2, <2>3, <2>4 DEF StitchOptimalTrace, Thinned
  <2>7. IsWholeLap(c, PlanOf(best).time)
    <3>1. /\ IsTrace(c) /\ c[1] = [dist |-> 0, elapsed |-> 0]
          /\ c[Len(c)].elapsed = PlanOf(best).time
      BY <2>1, <2>2, <2>5 DEF KeepsEnds, IsStitched
    <3>2. PICK n \in Nat : n = Len(c)
      BY <3>1, ReadingsOf
    <3>3. ASSUME NEW i \in 2 .. n
          PROVE  c[i - 1].dist <= c[i].dist /\ c[i - 1].elapsed <= c[i].elapsed
      <4>1. i - 1 \in 1 .. n /\ i \in 1 .. n /\ i - 1 < i
        BY <3>2
      <4> QED BY <3>1, <3>2, <4>1 DEF IsTrace
    <3> QED BY <3>1, <3>2, <3>3 DEF IsWholeLap
  <2> QED BY <1>1, <1>3, <1>4, <1>6, <2>1, <2>6, <2>7 DEF IsStitched
<1> QED BY <1>5, <1>6

(* What is answered is a trace that ends on the move, or none. *)
Answers(answer) == answer = NotFound \/ (IsTrace(answer) /\ answer # NotFound /\ EndsMoving(answer))

LEMMA OptimalAnswers ==
  ASSUME SectorAssumption, NEW all \in Seq(Driven), NEW traceOf, WellTraced(all, traceOf)
  PROVE  \/ \A m : OptimalTraceFor(all, traceOf, m) = NotFound
         \/ \A m : OptimalTraceFor(all, traceOf, m) # NotFound /\ Answers(OptimalTraceFor(all, traceOf, m))
<1>1. CASE PickBestSectors(all) = None
  BY <1>1 DEF OptimalTraceFor, PlannedTraceFor
<1>2. CASE PickBestSectors(all) # None
  <2>1. PICK best \in [Sector -> ToSet(Eligible(all))] : PickBestSectors(all) = PlanOf(best)
    BY <1>2, PlanIs
  <2>2. \A k \in 1 .. Len(all) : IsTrace(traceOf[all[k].number])
    BY DEF WellTraced
  <2>3. Traced(best, traceOf)
    BY <2>2, BestAreTraced
  <2>4. PICK plan : plan = PlanOf(best)
    OBVIOUS
  <2>5. plan.sectors = best
    BY <2>4 DEF PlanOf
  <2>6. PICK whole : whole = Stitched(plan, traceOf)
    OBVIOUS
  <2>7. \A m : OptimalTraceFor(all, traceOf, m) = Found(Thinned(whole.line, m))
    BY <1>2, <2>1, <2>4, <2>6 DEF OptimalTraceFor, PlannedTraceFor, StitchOptimalTrace
  <2>8. CASE \E i \in Sector : Len(traceOf[best[i].number]) < 2
    <3>1. whole.line = <<>>
      BY <2>5, <2>6, <2>8 DEF Stitched
    <3> QED BY <2>7, <3>1 DEF Found, Thinned
  <2>9. CASE ~\E i \in Sector : Len(traceOf[best[i].number]) < 2
    <3>1. /\ IsStitched(whole, plan)
          /\ EndsLate(best[SECTOR_COUNT], traceOf[best[SECTOR_COUNT].number]) => EndsMoving(whole.line)
      BY <2>3, <2>4, <2>6, <2>9, StitchedIs
    <3>2. SECTOR_COUNT \in Sector
      BY DEF SectorAssumption, Sector
    <3>3. PICK k \in 1 .. Len(all) : best[SECTOR_COUNT] = all[k] /\ IsComplete(all[k])
      BY <3>2, EligibleAre
    <3>4. Len(traceOf[all[k].number]) >= 2
      <4>1. ~(Len(traceOf[all[k].number]) < 2)
        BY <2>9, <3>2, <3>3
      <4> QED BY <2>2, <4>1, ReadingsOf
    <3>5. EndsMoving(whole.line)
      BY <3>1, <3>3, <3>4 DEF WellTraced
    <3>6. PICK w : w = whole.line
      OBVIOUS
    <3>7. IsTrace(w) /\ Len(w) >= 2 /\ EndsMoving(w) /\ w # <<>>
      <4>1. IsTrace(w) /\ Len(w) >= 2
        BY <3>1, <3>6 DEF IsStitched
      <4>2. Len(<<>>) = 0
        OBVIOUS
      <4> QED BY <3>5, <3>6, <4>1, <4>2
    <3>8. ASSUME NEW m
          PROVE  OptimalTraceFor(all, traceOf, m) # NotFound /\ Answers(OptimalTraceFor(all, traceOf, m))
      <4>1. PICK c : c = DecimateByDistance(w, m)
        OBVIOUS
      <4>2. KeepsEnds(c, w)
        BY <3>7, <4>1, ThinnedIs
      <4>3. IsTrace(c) /\ Len(c) >= 2 /\ EndsMoving(c)
        BY <3>7, <4>2 DEF KeepsEnds
      <4>4. c # <<>> /\ c # NotFound
        <5>1. PICK q \in Nat : q = Len(c) /\ q >= 2
          BY <4>3, ReadingsOf
        <5>2. c = <<>> => q = 0
          BY <5>1
        <5>3. c = NotFound => q = 1
          BY <5>1 DEF NotFound
        <5> QED BY <5>1, <5>2, <5>3
      <4>5. OptimalTraceFor(all, traceOf, m) = c
        BY <2>7, <3>6, <3>7, <4>1, <4>4 DEF Thinned, Found
      <4> QED BY <4>3, <4>4, <4>5 DEF Answers
    <3> QED BY <3>8
  <2> QED BY <2>8, <2>9
<1> QED BY <1>1, <1>2

LEMMA ComparedIsFound ==
  ASSUME NEW a, NEW b, IsTrace(a), IsTrace(b), NEW steps \in Nat, steps >= 2
  PROVE  CompareLaps(a, b, steps) # NotFound
<1>1. \A c : c = NotFound => Len(c) = 1
  BY DEF NotFound
<1>2. CASE Len(a) < 2 \/ Len(b) < 2
  <2>1. CompareLaps(a, b, steps) = <<>>
    BY <1>2 DEF CompareLaps
  <2>2. Len(<<>>) = 0
    OBVIOUS
  <2> QED BY <1>1, <2>1, <2>2
<1>3. CASE ~(Len(a) < 2 \/ Len(b) < 2)
  <2>1. Len(a) >= 2 /\ Len(b) >= 2
    BY <1>3, ReadingsOf
  <2>2. Len(CompareLaps(a, b, steps)) = steps
    BY <2>1, ComparisonIs
  <2>3. steps # 1
    OBVIOUS
  <2> QED BY <1>1, <2>2, <2>3
<1> QED BY <1>2, <1>3

(* OptimalIsCompared *)
THEOREM OptimalIsComparedAlways ==
  ASSUME SectorAssumption, NEW all \in Seq(Driven), NEW traceOf, WellTraced(all, traceOf),
         NEW n, n # OPTIMAL, NEW steps \in Nat, steps >= 2
  PROVE  OptimalIsCompared(all, traceOf, n, steps)
<1>1. PICK A, S, B : /\ A = OptimalTraceFor(all, traceOf, NoLimit)
                     /\ S = OptimalTraceFor(all, traceOf, 4)
                     /\ B = LapTraceFor(all, traceOf, n)
  OBVIOUS
<1>2. TraceForRef(all, traceOf, OPTIMAL) = A /\ TraceForRef(all, traceOf, n) = B
  BY <1>1 DEF TraceForRef
<1>3. PICK compared : compared = Compared(A, B, steps)
  OBVIOUS
<1>4. OptimalIsCompared(all, traceOf, n, steps) = AsShown(compared, S, A, B, steps)
  BY <1>1, <1>2, <1>3 DEF OptimalIsCompared, Compare
<1>5. (A = NotFound) <=> (S = NotFound)
  BY <1>1, OptimalAnswers
<1>6. Answers(A)
  BY <1>1, OptimalAnswers DEF Answers
<1>7. B = NotFound \/ (IsTrace(B) /\ B # NotFound /\ (Len(B) >= 2 => EndsMoving(B)))
  <2>1. CASE \E i \in DOMAIN all : all[i].number = n
    <3>1. PICK i \in DOMAIN all : all[i].number = n
      BY <2>1
    <3>2. i \in 1 .. Len(all)
      BY <3>1
    <3>3. B = traceOf[all[i].number]
      BY <1>1, <2>1, <3>1 DEF LapTraceFor
    <3> QED BY <3>2, <3>3 DEF WellTraced
  <2>2. CASE ~\E i \in DOMAIN all : all[i].number = n
    BY <1>1, <2>2 DEF LapTraceFor
  <2> QED BY <2>1, <2>2
<1>8. CASE NotFound \in {A, B}
  <2>1. compared = NotFound
    BY <1>3, <1>8 DEF Compared
  <2> QED BY <1>4, <1>5, <1>8, <2>1 DEF AsShown
<1>9. CASE NotFound \notin {A, B}
  <2>1. compared = CompareLaps(A, B, steps)
    BY <1>3, <1>9 DEF Compared
  <2>2. IsTrace(A) /\ EndsMoving(A) /\ IsTrace(B) /\ (Len(B) >= 2 => EndsMoving(B))
    BY <1>6, <1>7, <1>9 DEF Answers
  <2>3. compared # NotFound
    BY <2>1, <2>2, ComparedIsFound
  <2>4. DeltasAreInterpolated(A, B, steps)
    BY <2>2, DeltasAreInterpolatedAlways
  <2> QED BY <1>4, <1>5, <1>9, <2>3, <2>4 DEF AsShown
<1> QED BY <1>8, <1>9

-----------------------------------------------------------------------------
(* What is answered of a request. The one that is answered is one there may be, and the
   theorems above speak of each. *)
CaseInv == case = None \/ case \in Cases

LEMMA CaseInvariant == AnalysisSpec => []CaseInv
<1>1. AnalysisInit => CaseInv
  BY DEF AnalysisInit, CaseInv
<1>2. CaseInv /\ [AnalysisStep]_case => CaseInv'
  BY DEF AnalysisStep, CaseInv
<1> QED BY <1>1, <1>2, PTL DEF AnalysisSpec

(* Each trace of a session is in order, and ends on the move if it has length. *)
LEMMA SessionIs ==
  ASSUME NEW all, NEW traceOf, IsSession(all, traceOf)
  PROVE  /\ all \in Seq(Driven) /\ WellTraced(all, traceOf) /\ DOMAIN all = 1 .. Len(all)
         /\ \A k \in 1 .. Len(all) :
              /\ all[k].number = k /\ Increasing(all[k].brakes) /\ k # OPTIMAL
              /\ IsTrace(traceOf[k]) /\ (Len(traceOf[k]) >= 2 => EndsMoving(traceOf[k]))
<1>1. all \in Seq(Driven) /\ WellTraced(all, traceOf) /\ DOMAIN all = 1 .. Len(all)
  BY DEF IsSession
<1>2. ASSUME NEW k \in 1 .. Len(all)
      PROVE  /\ all[k].number = k /\ Increasing(all[k].brakes) /\ k # OPTIMAL
             /\ IsTrace(traceOf[k]) /\ (Len(traceOf[k]) >= 2 => EndsMoving(traceOf[k]))
  <2>1. all[k].number = k /\ Increasing(all[k].brakes)
    BY DEF IsSession
  <2>2. k # OPTIMAL
    BY DEF OPTIMAL
  <2>3. IsTrace(traceOf[all[k].number]) /\ (Len(traceOf[all[k].number]) >= 2 => EndsMoving(traceOf[all[k].number]))
    BY <1>1 DEF WellTraced
  <2> QED BY <2>1, <2>2, <2>3
<1> QED BY <1>1, <1>2

(* The optimal lap is the best there is, and stitched whole (pickBestSectors,
   stitchOptimalTrace), for every session. *)
THEOREM OptimalIsSoundAlways == AnalysisSpec => []OptimalIsSound
<1>1. CaseInv => OptimalIsSound
  <2> SUFFICES ASSUME case \in Cases, case.kind = "optimal"
               PROVE  /\ OptimalIsBest(case.laps)
                      /\ \A m \in {4, 12} : StitchedLapIsWhole(case.laps, case.traces, m)
    BY DEF CaseInv, OptimalIsSound, Asked
  <2>1. PICK all, traceOf : all = case.laps /\ traceOf = case.traces
    OBVIOUS
  <2>2. SectorAssumption /\ IsSession(all, traceOf)
    BY <2>1, CaseAssumption
  <2>3. /\ all \in Seq(Driven) /\ \A k \in 1 .. Len(all) : Increasing(all[k].brakes)
        /\ \A k \in 1 .. Len(all) : IsTrace(traceOf[all[k].number])
    BY <2>2, SessionIs
  <2>4. OptimalIsBest(all)
    BY <2>2, <2>3, OptimalIsBestAlways
  <2>5. \A m : StitchedLapIsWhole(all, traceOf, m)
    BY <2>2, <2>3, StitchedLapIsWholeAlways
  <2> QED BY <2>1, <2>4, <2>5
<1> QED BY <1>1, CaseInvariant, PTL

(* Any two laps, and a lap and the optimal one, are compared at equal distances (compareLaps,
   compare), for every session. *)
THEOREM ComparisonIsSoundAlways == AnalysisSpec => []ComparisonIsSound
<1>1. CaseInv => ComparisonIsSound
  <2> SUFFICES ASSUME case \in Cases, case.kind = "optimal", NEW n \in DOMAIN case.laps
               PROVE  /\ \A m \in DOMAIN case.laps :
                           DeltasAreInterpolated(case.traces[m], case.traces[n], 4)
                      /\ OptimalIsCompared(case.laps, case.traces, n, 4)
    BY DEF CaseInv, ComparisonIsSound, Asked
  <2>1. PICK all, traceOf : all = case.laps /\ traceOf = case.traces
    OBVIOUS
  <2>2. SectorAssumption /\ IsSession(all, traceOf)
    BY <2>1, CaseAssumption
  <2>3. /\ all \in Seq(Driven) /\ WellTraced(all, traceOf) /\ DOMAIN all = 1 .. Len(all)
        /\ \A k \in 1 .. Len(all) :
             k # OPTIMAL /\ IsTrace(traceOf[k]) /\ (Len(traceOf[k]) >= 2 => EndsMoving(traceOf[k]))
    BY <2>2, SessionIs
  <2>4. ASSUME NEW m \in 1 .. Len(all), NEW k \in 1 .. Len(all)
        PROVE  DeltasAreInterpolated(traceOf[m], traceOf[k], 4)
    <3>1. 4 \in Nat /\ 4 >= 2
      OBVIOUS
    <3> QED BY <2>3, <3>1, DeltasAreInterpolatedAlways
  <2>5. OptimalIsCompared(all, traceOf, n, 4)
    <3>1. 4 \in Nat /\ 4 >= 2 /\ n # OPTIMAL
      BY <2>1, <2>3
    <3> QED BY <2>2, <2>3, <3>1, OptimalIsComparedAlways
  <2> QED BY <2>1, <2>3, <2>4, <2>5
<1> QED BY <1>1, CaseInvariant, PTL

(* Every braking zone is one whole zone (detectBrakingPoints), for the points of any lap. *)
THEOREM BrakingIsWholeAlways == AnalysisSpec => []BrakesAreWhole
<1>1. CaseInv => BrakesAreWhole
  BY CaseAssumption, BrakesAreWholeAlways DEF CaseInv, BrakesAreWhole, Asked
<1> QED BY <1>1, CaseInvariant, PTL
=============================================================================
