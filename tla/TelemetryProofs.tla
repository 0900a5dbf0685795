---------------------------- MODULE TelemetryProofs ----------------------------
(***************************************************************************)
(* Theorems about BehavioralMonitor.tla, for any hooks, values and         *)
(* thresholds, whatever overlaps, and about CoordinationScorer.tla, for    *)
(* any windows and limits: types, what the stored baseline is the baseline *)
(* of, how far off a sample can look, when a pair is in breach and when    *)
(* an agent is degraded.                                                   *)
(*                                                                         *)
(* Both models add up the values of functions (MapThenSumSet): what is     *)
(* needed to know of such sums comes first.                                *)
(***************************************************************************)
EXTENDS MCTelemetry, TLAPS, FiniteSetTheorems, SequenceTheorems, WellFoundedInduction

-------------------------------------------------------------------------------
(* Induction, over sets of those the claim holds of.                           *)

LEMMA LeastNumber ==
    ASSUME NEW S \in SUBSET Nat, S # {}
    PROVE  \E n \in S : \A m \in S : n <= m
<1> DEFINE R == OpToRel(<, Nat)
<1>1. IsWellFoundedOn(R, Nat)
  BY NatLessThanWellFounded
<1>2. PICK n \in S : \A m \in S : ~(<<m, n>> \in R)
  <2> HIDE DEF R
  <2> QED BY <1>1, WFMin
<1>3. ASSUME NEW m \in S PROVE n <= m
  <2>1. ~(m < n)
    BY <1>2, <1>3 DEF OpToRel
  <2> QED BY <2>1
<1> QED BY <1>3

LEMMA AllNumbers ==
    ASSUME NEW Q \in SUBSET Nat, 0 \in Q, \A n \in Q : n + 1 \in Q
    PROVE  Q = Nat
<1>1. SUFFICES ASSUME Nat \ Q # {} PROVE FALSE
  OBVIOUS
<1>2. PICK n \in Nat \ Q : \A m \in Nat \ Q : n <= m
  BY <1>1, LeastNumber
<1>3. n - 1 \in Nat /\ n - 1 \in Q
  BY <1>2
<1> QED BY <1>2, <1>3

\* The element of s that a sum over s adds first.
Chosen(s) == CHOOSE x \in s : TRUE

LEMMA ChosenIn == ASSUME NEW s, s # {} PROVE Chosen(s) \in s
BY DEF Chosen

LEMMA WithoutChosen ==
    ASSUME NEW s, IsFiniteSet(s), s # {}
    PROVE  /\ IsFiniteSet(s \ {Chosen(s)})
           /\ Cardinality(s) \in Nat /\ Cardinality(s \ {Chosen(s)}) = Cardinality(s) - 1
BY ChosenIn, FS_RemoveElement, FS_CardinalityType

LEMMA AllSubsets ==
    ASSUME NEW S, IsFiniteSet(S), NEW Q \in SUBSET SUBSET S, {} \in Q,
           \A s \in SUBSET S : s # {} /\ s \ {Chosen(s)} \in Q => s \in Q
    PROVE  Q = SUBSET S
<1> DEFINE P == {n \in Nat : \A s \in SUBSET S : Cardinality(s) = n => s \in Q}
<1>1. \A s \in SUBSET S : IsFiniteSet(s) /\ Cardinality(s) \in Nat
  BY FS_Subset, FS_CardinalityType
<1>2. 0 \in P
  BY <1>1, FS_EmptySet
<1>3. ASSUME NEW n \in P PROVE n + 1 \in P
  <2> SUFFICES ASSUME NEW s \in SUBSET S, Cardinality(s) = n + 1 PROVE s \in Q
    OBVIOUS
  <2>1. s # {}
    BY <1>3, FS_EmptySet
  <2>2. s \ {Chosen(s)} \in SUBSET S /\ Cardinality(s \ {Chosen(s)}) = n
    BY <1>1, <2>1, WithoutChosen
  <2> QED BY <2>1, <2>2
<1>4. P = Nat
  <2> HIDE DEF P
  <2>1. P \in SUBSET Nat
    BY DEF P
  <2> QED BY <1>2, <1>3, <2>1, AllNumbers
<1> QED BY <1>1, <1>4

-------------------------------------------------------------------------------
(* Sums.  MapThenSumSet is a recursive function on the subsets of a set; such  *)
(* a function is here any g with Adds(g, f, S).                                *)

Adds(g, f, S) ==
    g = [s \in SUBSET S |-> IF s = {} THEN 0 ELSE f[Chosen(s)] + g[s \ {Chosen(s)}]]

LEMMA AddsAt ==
    ASSUME NEW g, NEW f, NEW S, Adds(g, f, S)
    PROVE  /\ g[{}] = 0
           /\ \A s \in SUBSET S : s # {} => /\ Chosen(s) \in S /\ s \ {Chosen(s)} \in SUBSET S
                                           /\ g[s] = f[Chosen(s)] + g[s \ {Chosen(s)}]
BY ChosenIn DEF Adds

\* There is such a function: up to every size of s, and so for all s.
LEMMA AddsExists ==
    ASSUME NEW S, IsFiniteSet(S), NEW f \in [S -> Int]
    PROVE  \E g : Adds(g, f, S)
<1> DEFINE SumAt(g, s) == IF s = {} THEN 0 ELSE f[Chosen(s)] + g[s \ {Chosen(s)}]
           UpTo(g, n) == \A s \in SUBSET S : Cardinality(s) <= n => g[s] = SumAt(g, s)
           Q == {n \in Nat : \E g \in [SUBSET S -> Int] : UpTo(g, n)}
<1>1. \A s \in SUBSET S : IsFiniteSet(s) /\ Cardinality(s) \in Nat /\ Cardinality(s) <= Cardinality(S)
  BY FS_Subset, FS_CardinalityType
<1>2. \A s \in SUBSET S : s # {} => /\ Chosen(s) \in S /\ s \ {Chosen(s)} \in SUBSET S
                                   /\ Cardinality(s \ {Chosen(s)}) = Cardinality(s) - 1
  BY <1>1, ChosenIn, WithoutChosen
<1>3. 0 \in Q
  <2> DEFINE g == [s \in SUBSET S |-> 0]
  <2>1. g \in [SUBSET S -> Int]
    OBVIOUS
  <2>2. UpTo(g, 0)
    BY <1>1, FS_EmptySet
  <2> QED BY <2>1, <2>2
<1>4. ASSUME NEW n \in Q PROVE n + 1 \in Q
  <2>1. PICK g \in [SUBSET S -> Int] : UpTo(g, n)
    OBVIOUS
  <2> DEFINE h == [s \in SUBSET S |-> IF Cardinality(s) <= n THEN g[s] ELSE SumAt(g, s)]
  <2>2. h \in [SUBSET S -> Int]
    BY <1>2
  <2>3. ASSUME NEW s \in SUBSET S, Cardinality(s) <= n + 1 PROVE h[s] = SumAt(h, s)
    <3>1. h[s] = SumAt(g, s)
      BY <2>1
    <3>2. CASE s = {}
      BY <3>1, <3>2
    <3>3. CASE s # {}
      <4>1. s \ {Chosen(s)} \in SUBSET S /\ Cardinality(s \ {Chosen(s)}) <= n
        BY <1>1, <1>2, <1>4, <2>3, <3>3
      <4>2. h[s \ {Chosen(s)}] = g[s \ {Chosen(s)}]
        BY <4>1
      <4> HIDE DEF h
      <4> QED BY <3>1, <3>3, <4>2
    <3> QED BY <3>2, <3>3
  <2> HIDE DEF h
  <2>4. UpTo(h, n + 1)
    BY <2>3
  <2> HIDE DEF UpTo
  <2>5. n + 1 \in Nat
    BY <1>4
  <2> QED BY <2>2, <2>4, <2>5
<1>5. Cardinality(S) \in Q
  <2>1. Q \in SUBSET Nat
    OBVIOUS
  <2> HIDE DEF Q
  <2>2. Q = Nat
    BY <1>3, <1>4, <2>1, AllNumbers
  <2> QED BY <2>2, FS_CardinalityType
<1>6. PICK g \in [SUBSET S -> Int] : UpTo(g, Cardinality(S))
  BY <1>5
<1>7. \A s \in SUBSET S : g[s] = SumAt(g, s)
  BY <1>1, <1>6
<1>8. g = [s \in SUBSET S |-> SumAt(g, s)]
  BY <1>7
<1> QED BY <1>8 DEF Adds

LEMMA SumIsInt ==
    ASSUME NEW S, IsFiniteSet(S), NEW f \in [S -> Int], NEW g, Adds(g, f, S)
    PROVE  \A s \in SUBSET S : g[s] \in Int
<1> DEFINE Q == {s \in SUBSET S : g[s] \in Int}
<1>1. {} \in Q
  BY AddsAt
<1>2. ASSUME NEW s \in SUBSET S, s # {}, s \ {Chosen(s)} \in Q PROVE s \in Q
  BY <1>2, AddsAt
<1>3. Q \in SUBSET SUBSET S
  OBVIOUS
<1> HIDE DEF Q
<1>4. Q = SUBSET S
  BY <1>1, <1>2, <1>3, AllSubsets
<1> QED BY <1>4 DEF Q

\* The terms e are the terms f, but for d more at v.
More(e, f, v, d, S) ==
    /\ IsFiniteSet(S) /\ f \in [S -> Int] /\ e \in [S -> Int] /\ v \in S /\ d \in Int
    /\ \A u \in S : e[u] = f[u] + (IF u = v THEN d ELSE 0)

\* Two sums whose terms differ by d at v.
LEMMA SumWithMore ==
    ASSUME NEW S, NEW f, NEW e, NEW v, NEW d, More(e, f, v, d, S),
           NEW g, Adds(g, f, S), NEW h, Adds(h, e, S)
    PROVE  h[S] = g[S] + d
<1>a. /\ IsFiniteSet(S) /\ f \in [S -> Int] /\ e \in [S -> Int] /\ v \in S /\ d \in Int
      /\ \A u \in S : e[u] = f[u] + (IF u = v THEN d ELSE 0)
  BY DEF More
<1> DEFINE Q == {s \in SUBSET S : h[s] = g[s] + (IF v \in s THEN d ELSE 0)}
<1>0. /\ \A s \in SUBSET S : g[s] \in Int /\ h[s] \in Int
      /\ \A u \in S : f[u] \in Int
  BY <1>a, SumIsInt
<1>1. {} \in Q
  BY <1>a, AddsAt
<1>2. ASSUME NEW s \in SUBSET S, s # {}, s \ {Chosen(s)} \in Q PROVE s \in Q
  <2>1. PICK x \in S, r \in SUBSET S :
            /\ x \in s /\ r = s \ {x} /\ r \in Q
            /\ g[s] = f[x] + g[r] /\ h[s] = e[x] + h[r]
    <3>1. Chosen(s) \in s
      BY <1>2, ChosenIn
    <3>2. g[s] = f[Chosen(s)] + g[s \ {Chosen(s)}]
      BY <1>2, AddsAt
    <3>3. h[s] = e[Chosen(s)] + h[s \ {Chosen(s)}]
      BY <1>2, AddsAt
    <3>4. Chosen(s) \in S /\ s \ {Chosen(s)} \in SUBSET S
      BY <3>1
    <3> HIDE DEF Q
    <3> QED BY <1>2, <3>1, <3>2, <3>3, <3>4
  <2>2. h[r] = g[r] + (IF v \in r THEN d ELSE 0)
    BY <2>1
  <2>3. e[x] = f[x] + (IF x = v THEN d ELSE 0)
    BY <1>a, <2>1
  <2>4. v \in r <=> v \in s /\ v # x
    BY <2>1
  <2>5. h[s] = g[s] + (IF v \in s THEN d ELSE 0)
    BY <1>0, <1>a, <2>1, <2>2, <2>3, <2>4
  <2> QED BY <2>5
<1>3. Q \in SUBSET SUBSET S
  OBVIOUS
<1> HIDE DEF Q
<1>4. Q = SUBSET S
  BY <1>a, <1>1, <1>2, <1>3, AllSubsets
<1>5. S \in Q
  BY <1>4
<1> QED BY <1>a, <1>5 DEF Q

\* A sum of multiples, term by term no greater.
NoGreater(k, f, m, e, S) ==
    /\ IsFiniteSet(S) /\ f \in [S -> Int] /\ e \in [S -> Int] /\ k \in Int /\ m \in Int
    /\ \A u \in S : k * f[u] <= m * e[u]

LEMMA SumNoGreater ==
    ASSUME NEW S, NEW f, NEW e, NEW k, NEW m, NoGreater(k, f, m, e, S),
           NEW g, Adds(g, f, S), NEW h, Adds(h, e, S)
    PROVE  k * g[S] <= m * h[S]
<1>a. /\ IsFiniteSet(S) /\ f \in [S -> Int] /\ e \in [S -> Int] /\ k \in Int /\ m \in Int
      /\ \A u \in S : k * f[u] <= m * e[u]
  BY DEF NoGreater
<1> DEFINE Q == {s \in SUBSET S : k * g[s] <= m * h[s]}
<1>0. /\ \A s \in SUBSET S : g[s] \in Int /\ h[s] \in Int
      /\ \A u \in S : f[u] \in Int /\ e[u] \in Int
  BY <1>a, SumIsInt
<1>1. {} \in Q
  <2>1. g[{}] = 0 /\ h[{}] = 0
    BY AddsAt
  <2> QED BY <1>a, <2>1
<1>2. ASSUME NEW s \in SUBSET S, s # {}, s \ {Chosen(s)} \in Q PROVE s \in Q
  <2>1. PICK x \in S, r \in SUBSET S : g[s] = f[x] + g[r] /\ h[s] = e[x] + h[r] /\ r \in Q
    BY <1>2, AddsAt
  <2>2. k * f[x] <= m * e[x] /\ k * g[r] <= m * h[r]
    BY <1>a, <2>1
  <2>3. k * (f[x] + g[r]) <= m * (e[x] + h[r])
    BY <1>0, <1>a, <2>2
  <2> QED BY <2>1, <2>3
<1>3. Q \in SUBSET SUBSET S
  OBVIOUS
<1> HIDE DEF Q
<1>4. Q = SUBSET S
  BY <1>a, <1>1, <1>2, <1>3, AllSubsets
<1>5. S \in Q
  BY <1>4
<1> QED BY <1>5 DEF Q

-------------------------------------------------------------------------------
(* The algorithm. *)

\* A baseline with the sum of squares q.
Squares(b, q) == b.spread = b.count * q - b.sum * b.sum

\* Some samples have this baseline, as far as its spread is concerned.
Sound(b) == b.spread >= 0 /\ \E q \in Int : Squares(b, q)

\* v is no further from the mean of b than one of its samples can be.
Capped(b, v) == Deviation(b, v) * Deviation(b, v) <= (b.count - 1) * b.spread

LEMMA NoneIsNone == NoBaseline \notin Baseline
BY NoBaselineAssumption DEF Baseline

\* The division that keeps the spread has no remainder.
LEMMA DivisionExact ==
    ASSUME NEW n \in Nat \ {0}, NEW k \in Int
    PROVE  (n * k) \div n = k
OBVIOUS

LEMMA SignOfFactor ==
    ASSUME NEW n \in Nat \ {0}, NEW k \in Int, n * k >= 0
    PROVE  k >= 0
OBVIOUS

LEMMA SquareOfZero ==
    ASSUME NEW k \in Int, 0 >= k * k
    PROVE  k = 0
OBVIOUS

\* n and n+1 times the spreads before and after, written out.
LEMMA SpreadIdentity ==
    ASSUME NEW n \in Int, NEW q \in Int, NEW s \in Int, NEW v \in Int
    PROVE  (n + 1) * (n * q - s * s) + (n * v - s) * (n * v - s)
               = n * ((n + 1) * (q + v * v) - (s + v) * (s + v))
OBVIOUS

\* Welford's update of a sound baseline: the spread is what the squares of all samples
\* give, and grows by the square of the deviation.
LEMMA WelfordExact ==
    ASSUME NEW b \in Baseline, NEW v \in Int, Sound(b)
    PROVE  LET n == Welford(b, v) IN
           /\ n \in Baseline /\ Sound(n)
           /\ n.count = b.count + 1 /\ n.sum = b.sum + v
           /\ b.count * n.spread = (b.count + 1) * b.spread + Deviation(b, v) * Deviation(b, v)
<1>1. b.count \in Nat \ {0} /\ b.sum \in Int /\ b.spread \in Int
  BY DEF Baseline
<1>2. PICK q \in Int : b.spread = b.count * q - b.sum * b.sum
  BY DEF Sound, Squares
<1>3. b.spread >= 0
  BY DEF Sound
<1> DEFINE k == (b.count + 1) * (q + v * v) - (b.sum + v) * (b.sum + v)
           d == Deviation(b, v)
           grown == (b.count + 1) * b.spread + d * d
<1>4. k \in Int /\ d \in Int /\ grown \in Int
  BY <1>1, <1>2 DEF Deviation
<1>5. grown = b.count * k
  BY <1>1, <1>2, SpreadIdentity DEF Deviation
<1> HIDE DEF k, d, grown
<1>6. grown \div b.count = k
  BY <1>1, <1>4, <1>5, DivisionExact
<1>7. Welford(b, v) = [count |-> b.count + 1, sum |-> b.sum + v, spread |-> k]
  BY <1>6 DEF Welford, grown, d
<1>8. Welford(b, v) \in Baseline
  BY <1>1, <1>4, <1>7 DEF Baseline
<1>9. k >= 0
  <2>1. d * d >= 0
    BY <1>4
  <2>2. (b.count + 1) * b.spread >= 0
    BY <1>1, <1>3
  <2>3. grown >= 0
    BY <1>1, <1>4, <2>1, <2>2 DEF grown
  <2> QED BY <1>1, <1>4, <1>5, <2>3, SignOfFactor
<1>10. Sound(Welford(b, v))
  <2>1. q + v * v \in Int
    BY <1>2
  <2> QED BY <1>7, <1>9, <2>1 DEF Sound, Squares, k
<1> QED BY <1>5, <1>7, <1>8, <1>10 DEF grown, d

\* A baseline caps every sample that has just been added to it.
LEMMA UpdateCaps ==
    ASSUME NEW b \in Baseline \cup {NoBaseline}, NEW v \in Int, b # NoBaseline => Sound(b)
    PROVE  Updated(b, v) \in Baseline /\ Sound(Updated(b, v)) /\ Capped(Updated(b, v), v)
<1>1. CASE b = NoBaseline
  <2>1. Updated(b, v) = [count |-> 1, sum |-> v, spread |-> 0]
    BY <1>1 DEF Updated
  <2>2. 0 = 1 * (v * v) - v * v /\ v * v \in Int
    OBVIOUS
  <2>3. (1 * v - v) * (1 * v - v) <= (1 - 1) * 0
    OBVIOUS
  <2> QED BY <2>1, <2>2, <2>3 DEF Baseline, Sound, Squares, Capped, Deviation
<1>2. CASE b # NoBaseline
  <2>1. b \in Baseline /\ Sound(b) /\ Updated(b, v) = Welford(b, v)
    BY <1>2 DEF Updated
  <2> DEFINE n == Welford(b, v)
  <2>2. /\ n \in Baseline /\ Sound(n)
        /\ n.count = b.count + 1 /\ n.sum = b.sum + v
        /\ b.count * n.spread = (b.count + 1) * b.spread + Deviation(b, v) * Deviation(b, v)
    BY <2>1, WelfordExact
  <2> HIDE DEF n
  <2>3. /\ b.count \in Nat \ {0} /\ b.sum \in Int /\ b.spread \in Int /\ b.spread >= 0
        /\ n.spread \in Int
    BY <2>1, <2>2 DEF Baseline, Sound
  <2>4. Deviation(n, v) = Deviation(b, v) /\ Deviation(b, v) \in Int
    BY <2>2, <2>3 DEF Deviation
  <2>5. (n.count - 1) * n.spread = (b.count + 1) * b.spread + Deviation(b, v) * Deviation(b, v)
    BY <2>2, <2>3
  <2>6. (b.count + 1) * b.spread >= 0 /\ (b.count + 1) * b.spread \in Int
    BY <2>3
  <2>7. Deviation(b, v) * Deviation(b, v) \in Int
    BY <2>4
  <2>8. Capped(n, v)
    BY <2>4, <2>5, <2>6, <2>7 DEF Capped
  <2> QED BY <2>1, <2>2, <2>8 DEF n
<1> QED BY <1>1, <1>2

\* Such a sample is beyond four standard deviations from the eighteenth on only.
LEMMA CriticalLate ==
    ASSUME NEW b \in Baseline, NEW v \in Int, Sound(b), Capped(b, v),
           ZToSeverity(b, v) = "CRITICAL"
    PROVE  b.count >= 18
<1> DEFINE d == Deviation(b, v) * Deviation(b, v)
<1>1. b.count \in Nat \ {0} /\ b.spread \in Int /\ b.spread >= 0 /\ d \in Int
  BY DEF Baseline, Sound, Deviation
<1>2. Beyond(b, v, 8)
  BY DEF ZToSeverity
<1>3. 4 * d > 64 * b.spread
  <2>1. 4 * Deviation(b, v) * Deviation(b, v) > 8 * 8 * b.spread
    BY <1>2 DEF Beyond
  <2>2. Deviation(b, v) \in Int
    BY DEF Baseline, Deviation
  <2> QED BY <1>1, <2>1, <2>2
<1>4. d <= (b.count - 1) * b.spread
  BY DEF Capped
<1> HIDE DEF d
<1>5. ASSUME b.count < 18 PROVE FALSE
  <2>1. (b.count - 1) * b.spread <= 16 * b.spread
    BY <1>1, <1>5
  <2> QED BY <1>1, <1>3, <1>4, <2>1
<1> QED BY <1>1, <1>5

\* A sample of a sound baseline stays one when another is added.
LEMMA CappedStays ==
    ASSUME NEW b \in Baseline, NEW v \in Int, NEW w \in Int, Sound(b), Capped(b, v)
    PROVE  Capped(Welford(b, w), v)
<1> DEFINE n == Welford(b, w)
<1>1. b.count \in Nat \ {0} /\ b.sum \in Int /\ b.spread \in Int /\ b.spread >= 0
  BY DEF Baseline, Sound
<1>2. PICK q \in Int : b.spread = b.count * q - b.sum * b.sum
  BY DEF Sound, Squares
<1>3. /\ n \in Baseline
      /\ n.count = b.count + 1 /\ n.sum = b.sum + w
      /\ b.count * n.spread = (b.count + 1) * b.spread + Deviation(b, w) * Deviation(b, w)
  BY WelfordExact
<1>4. n.spread \in Int
  BY <1>3 DEF Baseline
<1> HIDE DEF n
\* The spread of the samples but v, one fewer than c.
<1> DEFINE c == b.count
           r == (c - 1) * (q - v * v) - (b.sum - v) * (b.sum - v)
           e == (c - 1) * w - (b.sum - v)
           t == c * (q - v * v + w * w) - (b.sum - v + w) * (b.sum - v + w)
<1>5. r \in Int /\ e \in Int /\ t \in Int /\ c \in Nat \ {0}
  BY <1>1, <1>2
<1>6. (c - 1) * b.spread - Deviation(b, v) * Deviation(b, v) = c * r
  BY <1>1, <1>2 DEF Deviation
<1>7. n.spread = (c + 1) * (q + w * w) - (b.sum + w) * (b.sum + w)
  <2>1. c * n.spread = c * ((c + 1) * (q + w * w) - (b.sum + w) * (b.sum + w))
    BY <1>1, <1>2, <1>3, SpreadIdentity DEF Deviation
  <2> DEFINE k == (c + 1) * (q + w * w) - (b.sum + w) * (b.sum + w)
  <2>2. k \in Int
    BY <1>1, <1>2
  <2> HIDE DEF k
  <2>3. n.spread = (c * n.spread) \div c /\ k = (c * k) \div c
    BY <1>4, <1>5, <2>2, DivisionExact
  <2>4. c * n.spread = c * k
    BY <2>1 DEF k
  <2> QED BY <2>3, <2>4 DEF k
<1>8. (n.count - 1) * n.spread - Deviation(n, v) * Deviation(n, v) = (c + 1) * t
  <2>1. n.count = c + 1
    BY <1>3
  <2>2. c * ((c + 1) * (q + w * w) - (b.sum + w) * (b.sum + w))
            - ((c + 1) * v - (b.sum + w)) * ((c + 1) * v - (b.sum + w))
        = (c + 1) * t
    BY <1>1, <1>2
  <2> QED BY <1>1, <1>3, <1>7, <2>1, <2>2 DEF Deviation
<1>9. r >= 0
  <2>1. c * r >= 0
    <3>1. Deviation(b, v) * Deviation(b, v) <= (c - 1) * b.spread
      BY DEF Capped
    <3>2. Deviation(b, v) * Deviation(b, v) \in Int /\ (c - 1) * b.spread \in Int
      BY <1>1 DEF Deviation
    <3> QED BY <1>6, <3>1, <3>2
  <2> HIDE DEF r, c
  <2> QED BY <1>5, <2>1, SignOfFactor
<1>10. t >= 0
  <2>1. CASE c = 1
    <3>1. r = -((b.sum - v) * (b.sum - v))
      BY <1>1, <1>2, <2>1
    <3>2. b.sum = v
      <4> DEFINE d == b.sum - v
      <4>1. d \in Int /\ 0 >= d * d
        BY <1>1, <1>9, <3>1
      <4>2. d = 0
        <5> HIDE DEF d
        <5> QED BY <4>1, SquareOfZero
      <4> QED BY <1>1, <4>2
    <3>3. q = v * v \/ q - v * v >= 0
      <4>1. b.spread = q - v * v
        BY <1>1, <1>2, <2>1, <3>2
      <4> QED BY <1>1, <4>1
    <3>4. t = q - v * v
      BY <1>1, <1>2, <2>1, <3>2
    <3> QED BY <1>2, <3>3, <3>4
  <2>2. CASE c # 1
    <3>1. (c - 1) * t = c * r + e * e
      BY <1>1, <1>2
    <3>2. c - 1 \in Nat \ {0}
      BY <1>1, <2>2
    <3> HIDE DEF r, e, t, c
    <3>3. c * r >= 0 /\ e * e >= 0 /\ c * r \in Int /\ e * e \in Int
      BY <1>5, <1>9
    <3>4. (c - 1) * t >= 0
      BY <3>1, <3>3
    <3> DEFINE d == c - 1
    <3>5. d \in Nat \ {0} /\ d * t >= 0
      BY <3>2, <3>4
    <3> HIDE DEF d
    <3> QED BY <1>5, <3>5, SignOfFactor
  <2> QED BY <2>1, <2>2
<1>11. (c + 1) * t >= 0 /\ (c + 1) * t \in Int
  <2> HIDE DEF t, c
  <2> QED BY <1>5, <1>10
<1>12. Deviation(n, v) * Deviation(n, v) \in Int /\ (n.count - 1) * n.spread \in Int
  BY <1>1, <1>3, <1>4 DEF Deviation
<1>13. Capped(n, v)
  <2> HIDE DEF t, c
  <2> QED BY <1>8, <1>11, <1>12 DEF Capped
<1> QED BY <1>13 DEF n

-------------------------------------------------------------------------------
(* Types. *)

\* What a hook read was stored: it is kept, or overwritten.
BasisStored == \A h \in Hook : step[h] = "store" => \A v \in Value : basis[h][v] <= kept[v] + lost[v]

MonitorTypeInv == MonitorTypeOK /\ BasisStored

LEMMA NoValueIsValue == NoValue \in Value
BY MetricAssumption DEF NoValue

LEMMA EmptyIsBag == Empty \in Bag
BY DEF Empty, Bag

\* Any hook may die.
LEMMA ExitTypes ==
    ASSUME MonitorTypeInv, NEW h \in Hook, Exit(h), UNCHANGED <<stored, kept, lost>>
    PROVE  MonitorTypeInv'
<1>1. /\ step' \in [Hook -> {"idle", "store", "check", "report"}]
      /\ value' \in [Hook -> Value]
      /\ copy' \in [Hook -> Baseline \cup {NoBaseline}]
      /\ judgedBy' \in [Hook -> Baseline \cup {NoBaseline}]
  BY NoValueIsValue DEF MonitorTypeInv, MonitorTypeOK, Exit
<1>2. basis' \in [Hook -> Bag]
  BY EmptyIsBag DEF MonitorTypeInv, MonitorTypeOK, Exit
<1>3. BasisStored'
  BY DEF MonitorTypeInv, MonitorTypeOK, BasisStored, Exit
<1> QED BY <1>1, <1>2, <1>3 DEF MonitorTypeInv, MonitorTypeOK

\* What a store does to the samples: one more is stored, and those stored since the
\* load are overwritten.
LEMMA StoredSamples ==
    ASSUME MonitorTypeInv, NEW h \in Hook, Store(h)
    PROVE  /\ kept' \in Bag /\ lost' \in Bag
           /\ \A v \in Value : /\ kept'[v] = basis[h][v] + (IF v = value[h] THEN 1 ELSE 0)
                              /\ kept'[v] + lost'[v]
                                     = kept[v] + lost[v] + (IF v = value[h] THEN 1 ELSE 0)
<1>1. basis[h] \in [Value -> Nat] /\ kept \in [Value -> Nat] /\ lost \in [Value -> Nat] /\ value[h] \in Value
  BY DEF MonitorTypeInv, MonitorTypeOK, Bag
<1>2. kept' \in [Value -> Nat]
  BY <1>1 DEF Store
<1>3. \A v \in Value : kept'[v] = basis[h][v] + (IF v = value[h] THEN 1 ELSE 0)
  BY <1>1 DEF Store
<1>4. \A v \in Value : lost'[v] = lost[v] + kept[v] - basis[h][v]
  BY DEF Store
<1>5. \A v \in Value : basis[h][v] <= kept[v] + lost[v]
  BY DEF MonitorTypeInv, BasisStored, Store
<1>6. lost' \in [Value -> Nat]
  <2>1. \A v \in Value : lost[v] + kept[v] - basis[h][v] \in Nat
    BY <1>1, <1>5
  <2> QED BY <2>1 DEF Store
<1>7. ASSUME NEW v \in Value
      PROVE  kept'[v] + lost'[v] = kept[v] + lost[v] + (IF v = value[h] THEN 1 ELSE 0)
  <2>1. basis[h][v] \in Nat /\ kept[v] \in Nat /\ lost[v] \in Nat
    BY <1>1
  <2> QED BY <1>3, <1>4, <2>1
<1> QED BY <1>2, <1>3, <1>6, <1>7 DEF Bag

LEMMA UpdatedIsBaseline ==
    ASSUME NEW b \in Baseline \cup {NoBaseline}, NEW v \in Value
    PROVE  Updated(b, v) \in Baseline
<1>1. v \in Int
  BY MetricAssumption
<1>2. CASE b = NoBaseline
  BY <1>1, <1>2 DEF Updated, Baseline
<1>3. CASE b # NoBaseline
  <2>1. b.count \in Nat \ {0} /\ b.sum \in Int /\ b.spread \in Int
    BY <1>3 DEF Baseline
  <2> DEFINE grown == (b.count + 1) * b.spread + Deviation(b, v) * Deviation(b, v)
  <2>2. grown \in Int
    BY <1>1, <2>1 DEF Deviation
  <2>3. Updated(b, v) = [count |-> b.count + 1, sum |-> b.sum + v, spread |-> grown \div b.count]
    BY <1>3 DEF Updated, Welford
  <2> HIDE DEF grown
  <2>4. grown \div b.count \in Int
    BY <2>1, <2>2
  <2> QED BY <1>1, <2>1, <2>3, <2>4 DEF Baseline
<1> QED BY <1>2, <1>3

LEMMA StoreTypes ==
    ASSUME MonitorTypeInv, NEW h \in Hook, Store(h)
    PROVE  MonitorTypeInv'
<1>1. kept' \in Bag /\ lost' \in Bag
  BY StoredSamples
<1>2. stored' \in Baseline
  BY UpdatedIsBaseline DEF MonitorTypeInv, MonitorTypeOK, Store
<1>3. step' \in [Hook -> {"idle", "store", "check", "report"}]
  BY DEF MonitorTypeInv, MonitorTypeOK, Store
<1>4. BasisStored'
  <2> SUFFICES ASSUME NEW g \in Hook, step'[g] = "store", NEW v \in Value
               PROVE  basis'[g][v] <= kept'[v] + lost'[v]
    BY DEF BasisStored
  <2>1. step[g] = "store" /\ basis' = basis
    BY DEF MonitorTypeInv, MonitorTypeOK, Store
  <2>2. basis[g][v] <= kept[v] + lost[v]
    BY <2>1 DEF MonitorTypeInv, BasisStored
  <2>3. kept'[v] + lost'[v] = kept[v] + lost[v] + (IF v = value[h] THEN 1 ELSE 0)
    BY StoredSamples
  <2>4. basis[g][v] \in Nat /\ kept[v] \in Nat /\ lost[v] \in Nat
    BY DEF MonitorTypeInv, MonitorTypeOK, Bag
  <2> QED BY <2>1, <2>2, <2>3, <2>4
<1> QED BY <1>1, <1>2, <1>3, <1>4 DEF MonitorTypeInv, MonitorTypeOK, Store

LEMMA LoadTypes ==
    ASSUME MonitorTypeInv, NEW h \in Hook, NEW v \in Value, Load(h, v)
    PROVE  MonitorTypeInv'
<1>1. MonitorTypeOK'
  BY DEF MonitorTypeInv, MonitorTypeOK, Load
<1>2. BasisStored'
  <2> SUFFICES ASSUME NEW g \in Hook, step'[g] = "store", NEW u \in Value
               PROVE  basis'[g][u] <= kept[u] + lost[u]
    BY DEF BasisStored, Load
  <2>1. kept[u] \in Nat /\ lost[u] \in Nat
    BY DEF MonitorTypeInv, MonitorTypeOK, Bag
  <2>2. CASE g = h
    <3>1. basis'[g] = kept
      BY <2>2 DEF MonitorTypeInv, MonitorTypeOK, Load
    <3> QED BY <2>1, <3>1
  <2>3. CASE g # h
    <3>1. step[g] = "store" /\ basis'[g] = basis[g]
      BY <2>3 DEF MonitorTypeInv, MonitorTypeOK, Load
    <3> QED BY <3>1 DEF MonitorTypeInv, BasisStored
  <2> QED BY <2>2, <2>3
<1> QED BY <1>1, <1>2 DEF MonitorTypeInv

LEMMA CheckTypes ==
    ASSUME MonitorTypeInv, NEW h \in Hook, Check(h)
    PROVE  MonitorTypeInv'
<1>1. CASE Anomalous(stored, value[h])
  <2>1. MonitorTypeOK'
    BY <1>1 DEF MonitorTypeInv, MonitorTypeOK, Check
  <2>2. BasisStored'
    BY <1>1 DEF MonitorTypeInv, MonitorTypeOK, BasisStored, Check
  <2> QED BY <2>1, <2>2 DEF MonitorTypeInv
<1>2. CASE ~Anomalous(stored, value[h])
  BY <1>2, ExitTypes DEF Check
<1> QED BY <1>1, <1>2

LEMMA MonitorTypeInit == Init => MonitorTypeInv
<1> SUFFICES ASSUME Init PROVE MonitorTypeInv
  OBVIOUS
<1>1. value \in [Hook -> Value]
  BY NoValueIsValue DEF Init
<1>2. kept \in Bag /\ lost \in Bag /\ basis \in [Hook -> Bag]
  BY EmptyIsBag DEF Init
<1>3. /\ step \in [Hook -> {"idle", "store", "check", "report"}]
      /\ copy \in [Hook -> Baseline \cup {NoBaseline}]
      /\ judgedBy \in [Hook -> Baseline \cup {NoBaseline}]
      /\ stored \in Baseline \cup {NoBaseline}
      /\ BasisStored
  BY DEF Init, BasisStored
<1> QED BY <1>1, <1>2, <1>3 DEF MonitorTypeInv, MonitorTypeOK

LEMMA MonitorTypeStep == MonitorTypeInv /\ [Next]_monitor => MonitorTypeInv'
<1> SUFFICES ASSUME MonitorTypeInv, [Next]_monitor PROVE MonitorTypeInv'
  OBVIOUS
<1>1. ASSUME NEW h \in Hook, Store(h) PROVE MonitorTypeInv'
  BY <1>1, StoreTypes
<1>2. ASSUME NEW h \in Hook, Check(h) PROVE MonitorTypeInv'
  BY <1>2, CheckTypes
<1>3. ASSUME NEW h \in Hook, End(h) PROVE MonitorTypeInv'
  BY <1>3, ExitTypes DEF End
<1>4. ASSUME NEW h \in Hook, NEW v \in Value, Load(h, v) PROVE MonitorTypeInv'
  BY <1>4, LoadTypes
<1>5. CASE UNCHANGED monitor
  BY <1>5 DEF monitor, MonitorTypeInv, MonitorTypeOK, BasisStored
<1> QED BY <1>1, <1>2, <1>3, <1>4, <1>5 DEF Next

\* Whatever hooks overlap, the stored baseline is one, and no count of samples is negative
\* (record_metric).
THEOREM MonitorTypeCorrect == Spec => []MonitorTypeOK
<1>1. MonitorTypeInv => MonitorTypeOK
  BY DEF MonitorTypeInv
<1> QED BY MonitorTypeInit, MonitorTypeStep, <1>1, PTL DEF Spec

-------------------------------------------------------------------------------
(* How far off a sample can look. *)

\* The baseline b caps each sample of the bag.
CapsAll(b, bag) ==
    /\ b # NoBaseline => Sound(b)
    /\ \A v \in Value : bag[v] > 0 => b # NoBaseline /\ Capped(b, v)

NoneLost == \A v \in Value : lost[v] = 0

StoredCaps == CapsAll(stored, kept)
CopyCaps == \A h \in Hook : step[h] = "store" => CapsAll(copy[h], basis[h])

\* A hook that has read all the samples there are has seen none overwritten.
CopyComplete ==
    \A h \in Hook : step[h] = "store" /\ (\A v \in Value : basis[h][v] = kept[v] + lost[v]) => NoneLost

OwnStored == \A h \in Hook : step[h] = "check" => kept[value[h]] + lost[value[h]] > 0

JudgedCaps ==
    \A h \in Hook : step[h] = "report" =>
        /\ judgedBy[h] \in Baseline /\ Sound(judgedBy[h])
        /\ NoneLost => Capped(judgedBy[h], value[h])

CapInv == StoredCaps /\ CopyCaps /\ CopyComplete /\ OwnStored /\ JudgedCaps

LEMMA UpdatedCapsAll ==
    ASSUME NEW b \in Baseline \cup {NoBaseline}, NEW bag \in Bag, CapsAll(b, bag), NEW v \in Value,
           NEW more \in Bag, \A u \in Value : more[u] = bag[u] + (IF u = v THEN 1 ELSE 0)
    PROVE  CapsAll(Updated(b, v), more)
<1>1. Updated(b, v) \in Baseline /\ Sound(Updated(b, v)) /\ Capped(Updated(b, v), v)
  BY UpdateCaps, MetricAssumption DEF CapsAll
<1>2. ASSUME NEW u \in Value, more[u] > 0 PROVE Capped(Updated(b, v), u)
  <2>1. CASE u = v
    BY <1>1, <2>1
  <2>2. CASE u # v
    <3>1. bag[u] > 0
      BY <1>2, <2>2 DEF Bag
    <3>2. b \in Baseline /\ Sound(b) /\ Capped(b, u) /\ Updated(b, v) = Welford(b, v)
      BY <3>1 DEF CapsAll, Updated
    <3> QED BY <3>2, CappedStays, MetricAssumption
  <2> QED BY <2>1, <2>2
<1> QED BY <1>1, <1>2, NoneIsNone DEF CapsAll

LEMMA CapInit == Init => CapInv
<1> SUFFICES ASSUME Init PROVE CapInv
  OBVIOUS
<1>1. /\ stored = NoBaseline /\ \A h \in Hook : step[h] = "idle"
      /\ \A v \in Value : kept[v] = 0 /\ lost[v] = 0
  BY DEF Init, Empty
<1> QED BY <1>1 DEF CapInv, StoredCaps, CopyCaps, CopyComplete, OwnStored, JudgedCaps, CapsAll

LEMMA ExitCaps ==
    ASSUME MonitorTypeInv, CapInv, NEW h \in Hook, Exit(h), UNCHANGED <<stored, kept, lost>>
    PROVE  CapInv'
<1>1. \A g \in Hook : step'[g] # "idle" =>
          /\ step'[g] = step[g] /\ value'[g] = value[g] /\ copy'[g] = copy[g]
          /\ basis'[g] = basis[g] /\ judgedBy'[g] = judgedBy[g]
  BY DEF MonitorTypeInv, MonitorTypeOK, Exit
<1>2. StoredCaps' /\ CopyCaps'
  BY <1>1 DEF CapInv, StoredCaps, CopyCaps, CapsAll
<1>3. CopyComplete' /\ OwnStored'
  BY <1>1 DEF CapInv, CopyComplete, OwnStored, NoneLost
<1>4. JudgedCaps'
  BY <1>1 DEF CapInv, JudgedCaps, NoneLost
<1> QED BY <1>2, <1>3, <1>4 DEF CapInv

LEMMA LoadCaps ==
    ASSUME MonitorTypeInv, CapInv, NEW h \in Hook, NEW v \in Value, Load(h, v)
    PROVE  CapInv'
<1>1. /\ step'[h] = "store" /\ copy'[h] = stored /\ basis'[h] = kept
      /\ UNCHANGED <<stored, kept, lost>>
  BY DEF MonitorTypeInv, MonitorTypeOK, Load
<1>2. \A g \in Hook \ {h} :
          /\ step'[g] = step[g] /\ value'[g] = value[g] /\ copy'[g] = copy[g]
          /\ basis'[g] = basis[g] /\ judgedBy'[g] = judgedBy[g]
  BY DEF MonitorTypeInv, MonitorTypeOK, Load
<1>3. StoredCaps' /\ CopyCaps'
  BY <1>1, <1>2 DEF CapInv, StoredCaps, CopyCaps, CapsAll
<1>4. CopyComplete'
  <2> SUFFICES ASSUME NEW g \in Hook, step'[g] = "store",
                      \A u \in Value : basis'[g][u] = kept'[u] + lost'[u]
               PROVE  NoneLost'
    BY DEF CopyComplete
  <2>1. CASE g = h
    <3>1. \A u \in Value : kept[u] \in Nat /\ lost[u] \in Nat /\ kept[u] = kept[u] + lost[u]
      BY <1>1, <2>1 DEF MonitorTypeInv, MonitorTypeOK, Bag
    <3>2. \A u \in Value : lost[u] = 0
      BY <3>1
    <3> QED BY <1>1, <3>2 DEF NoneLost
  <2>2. CASE g # h
    BY <1>1, <1>2, <2>2 DEF CapInv, CopyComplete, NoneLost
  <2> QED BY <2>1, <2>2
<1>5. OwnStored'
  BY <1>1, <1>2 DEF CapInv, OwnStored
<1>6. JudgedCaps'
  BY <1>1, <1>2 DEF CapInv, JudgedCaps, NoneLost
<1> QED BY <1>3, <1>4, <1>5, <1>6 DEF CapInv

LEMMA CheckCaps ==
    ASSUME MonitorTypeInv, CapInv, NEW h \in Hook, Check(h)
    PROVE  CapInv'
<1>1. CASE ~Anomalous(stored, value[h])
  BY <1>1, ExitCaps DEF Check
<1>2. CASE Anomalous(stored, value[h])
  <2>1. /\ step'[h] = "report" /\ judgedBy'[h] = stored /\ stored # NoBaseline
        /\ UNCHANGED <<stored, value, copy, basis, kept, lost>>
    BY <1>2 DEF MonitorTypeInv, MonitorTypeOK, Check, Anomalous
  <2>2. \A g \in Hook \ {h} : step'[g] = step[g] /\ judgedBy'[g] = judgedBy[g]
    BY <1>2 DEF MonitorTypeInv, MonitorTypeOK, Check
  <2>3. StoredCaps' /\ CopyCaps'
    BY <2>1, <2>2 DEF CapInv, StoredCaps, CopyCaps, CapsAll
  <2>4. CopyComplete' /\ OwnStored'
    BY <2>1, <2>2 DEF CapInv, CopyComplete, OwnStored, NoneLost
  <2>5. stored \in Baseline /\ Sound(stored)
    BY <2>1 DEF MonitorTypeInv, MonitorTypeOK, CapInv, StoredCaps, CapsAll
  <2>6. NoneLost => Capped(stored, value[h])
    <3>1. value[h] \in Value /\ kept[value[h]] \in Nat
      BY DEF MonitorTypeInv, MonitorTypeOK, Bag
    <3>2. kept[value[h]] + lost[value[h]] > 0
      BY DEF CapInv, OwnStored, Check
    <3>3. NoneLost => kept[value[h]] > 0
      BY <3>1, <3>2 DEF NoneLost
    <3> QED BY <3>1, <3>3 DEF CapInv, StoredCaps, CapsAll
  <2>7. JudgedCaps'
    <3> SUFFICES ASSUME NEW g \in Hook, step'[g] = "report"
                 PROVE  /\ judgedBy'[g] \in Baseline /\ Sound(judgedBy'[g])
                        /\ NoneLost => Capped(judgedBy'[g], value[g])
      BY <2>1 DEF JudgedCaps, NoneLost
    <3>1. CASE g = h
      BY <2>1, <2>5, <2>6, <3>1
    <3>2. CASE g # h
      BY <2>2, <3>2 DEF CapInv, JudgedCaps
    <3> QED BY <3>1, <3>2
  <2> QED BY <2>3, <2>4, <2>7 DEF CapInv
<1> QED BY <1>1, <1>2

LEMMA StoreCaps ==
    ASSUME MonitorTypeInv, CapInv, NEW h \in Hook, Store(h)
    PROVE  CapInv'
<1> DEFINE One(v) == IF v = value[h] THEN 1 ELSE 0
<1>1. /\ step[h] = "store" /\ step'[h] = "check" /\ stored' = Updated(copy[h], value[h])
      /\ UNCHANGED <<value, copy, judgedBy, basis>>
      /\ \A g \in Hook \ {h} : step'[g] = step[g]
  BY DEF MonitorTypeInv, MonitorTypeOK, Store
<1>2. /\ value[h] \in Value /\ copy[h] \in Baseline \cup {NoBaseline} /\ basis[h] \in Bag
      /\ kept' \in Bag /\ lost' \in Bag
      /\ \A v \in Value : kept'[v] = basis[h][v] + One(v)
      /\ \A v \in Value : kept'[v] + lost'[v] = kept[v] + lost[v] + One(v)
  BY StoredSamples DEF MonitorTypeInv, MonitorTypeOK
<1>3. \A v \in Value : /\ basis[h][v] \in Nat /\ kept[v] \in Nat /\ lost[v] \in Nat
                       /\ kept'[v] \in Nat /\ lost'[v] \in Nat
  BY <1>2 DEF MonitorTypeInv, MonitorTypeOK, Bag
<1>4. StoredCaps'
  <2>1. CapsAll(copy[h], basis[h])
    BY <1>1 DEF CapInv, CopyCaps
  <2>2. CapsAll(Updated(copy[h], value[h]), kept')
    BY <1>2, <2>1, UpdatedCapsAll
  <2> QED BY <1>1, <2>2 DEF StoredCaps, CapsAll
<1>5. CopyCaps'
  <2> SUFFICES ASSUME NEW g \in Hook, step'[g] = "store" PROVE CapsAll(copy'[g], basis'[g])
    BY DEF CopyCaps, CapsAll
  <2> QED BY <1>1 DEF CapInv, CopyCaps, CapsAll
<1>6. CopyComplete'
  <2> SUFFICES ASSUME NEW g \in Hook, step'[g] = "store",
                      \A u \in Value : basis'[g][u] = kept'[u] + lost'[u]
               PROVE  FALSE
    BY DEF CopyComplete
  <2>1. step[g] = "store" /\ basis'[g] = basis[g]
    BY <1>1
  <2>2. basis[g][value[h]] <= kept[value[h]] + lost[value[h]]
    BY <1>2, <2>1 DEF MonitorTypeInv, BasisStored
  <2>3. basis[g][value[h]] = kept[value[h]] + lost[value[h]] + 1
    BY <1>2, <2>1
  <2> QED BY <1>2, <1>3, <2>2, <2>3
<1>7. OwnStored'
  <2> SUFFICES ASSUME NEW g \in Hook, step'[g] = "check" PROVE kept'[value[g]] + lost'[value[g]] > 0
    BY <1>1 DEF OwnStored
  <2>1. CASE g = h
    <3>1. kept'[value[h]] + lost'[value[h]] = kept[value[h]] + lost[value[h]] + 1
      BY <1>2
    <3> QED BY <1>2, <1>3, <2>1, <3>1
  <2>2. CASE g # h
    <3>1. value[g] \in Value
      BY DEF MonitorTypeInv, MonitorTypeOK
    <3>2. kept[value[g]] + lost[value[g]] > 0
      BY <1>1, <2>2 DEF CapInv, OwnStored
    <3>3. kept'[value[g]] + lost'[value[g]] = kept[value[g]] + lost[value[g]] + One(value[g])
      BY <1>2, <3>1
    <3>4. One(value[g]) \in {0, 1}
      OBVIOUS
    <3> HIDE DEF One
    <3> QED BY <1>3, <3>1, <3>2, <3>3, <3>4
  <2> QED BY <2>1, <2>2
\* Nothing is lost after the store only if nothing was before it.
<1>8. NoneLost' => NoneLost
  <2> SUFFICES ASSUME NoneLost' PROVE NoneLost
    OBVIOUS
  <2>1. ASSUME NEW v \in Value PROVE basis[h][v] = kept[v] + lost[v]
    <3>1. lost'[v] = 0
      BY DEF NoneLost
    <3>2. One(v) \in {0, 1}
      OBVIOUS
    <3>3. /\ kept'[v] = basis[h][v] + One(v)
          /\ kept'[v] + lost'[v] = kept[v] + lost[v] + One(v)
      BY <1>2
    <3> HIDE DEF One
    <3> QED BY <1>3, <3>1, <3>2, <3>3
  <2> QED BY <1>1, <2>1 DEF CapInv, CopyComplete
<1>9. JudgedCaps'
  <2> SUFFICES ASSUME NEW g \in Hook, step'[g] = "report"
               PROVE  /\ judgedBy[g] \in Baseline /\ Sound(judgedBy[g])
                      /\ NoneLost' => Capped(judgedBy[g], value[g])
    BY <1>1 DEF JudgedCaps
  <2>1. step[g] = "report"
    BY <1>1
  <2> QED BY <1>8, <2>1 DEF CapInv, JudgedCaps
<1> QED BY <1>4, <1>5, <1>6, <1>7, <1>9 DEF CapInv

\* However far off a sample is, it looks no further off than the samples before it allow,
\* and critical no earlier than the eighteenth (_update_baseline before check_anomaly).
THEOREM OutlierHolds == Spec => []OutlierCapped
<1>1. MonitorTypeInv /\ CapInv /\ [Next]_monitor => CapInv'
  <2> SUFFICES ASSUME MonitorTypeInv, CapInv, [Next]_monitor PROVE CapInv'
    OBVIOUS
  <2>1. ASSUME NEW h \in Hook, Store(h) PROVE CapInv'
    BY <2>1, StoreCaps
  <2>2. ASSUME NEW h \in Hook, Check(h) PROVE CapInv'
    BY <2>2, CheckCaps
  <2>3. ASSUME NEW h \in Hook, End(h) PROVE CapInv'
    BY <2>3, ExitCaps DEF End
  <2>4. ASSUME NEW h \in Hook, NEW v \in Value, Load(h, v) PROVE CapInv'
    BY <2>4, LoadCaps
  <2>5. CASE UNCHANGED monitor
    BY <2>5 DEF monitor, CapInv, StoredCaps, CopyCaps, CopyComplete, OwnStored, JudgedCaps,
                NoneLost, CapsAll
  <2> QED BY <2>1, <2>2, <2>3, <2>4, <2>5 DEF Next
<1>2. MonitorTypeInv /\ CapInv => OutlierCapped
  <2> SUFFICES ASSUME MonitorTypeInv, CapInv, lost = Empty, NEW h \in Hook, step[h] = "report"
               PROVE  /\ Capped(judgedBy[h], value[h])
                      /\ ZToSeverity(judgedBy[h], value[h]) = "CRITICAL" => judgedBy[h].count >= 18
    BY DEF OutlierCapped, Capped
  <2>1. NoneLost
    BY DEF NoneLost, Empty
  <2>2. judgedBy[h] \in Baseline /\ Sound(judgedBy[h]) /\ Capped(judgedBy[h], value[h])
    BY <2>1 DEF CapInv, JudgedCaps
  <2>3. value[h] \in Int
    BY MetricAssumption DEF MonitorTypeInv, MonitorTypeOK
  <2> QED BY <2>2, <2>3, CriticalLate
<1> QED BY MonitorTypeInit, MonitorTypeStep, CapInit, <1>1, <1>2, PTL DEF Spec

-------------------------------------------------------------------------------
(* The three sums of a bag of samples.                                         *)

Total(bag) == MapThenSumSet(LAMBDA v : bag[v] * v, Value)
TotalSquares(bag) == MapThenSumSet(LAMBDA v : bag[v] * v * v, Value)

Totals(bag) == [v \in Value |-> bag[v] * v]
Squared(bag) == [v \in Value |-> bag[v] * v * v]

LEMMA BagTerms ==
    ASSUME NEW bag \in Bag
    PROVE  /\ bag \in [Value -> Int] /\ Totals(bag) \in [Value -> Int]
           /\ Squared(bag) \in [Value -> Int]
BY MetricAssumption DEF Bag, Totals, Squared

\* What MapThenSumSet chooses is such a function, since there is one.
LEMMA SizeIsSum ==
    ASSUME NEW bag \in Bag
    PROVE  \E g : Adds(g, bag, Value) /\ Size(bag) = g[Value]
<1>1. \E g : Adds(g, bag, Value)
  BY AddsExists, BagTerms, MetricAssumption
<1>2. Size(bag) = (CHOOSE g : Adds(g, bag, Value))[Value]
  BY Zenon DEF Size, MapThenSumSet, MapThenFoldSet, Adds, Chosen
<1> QED BY <1>1, <1>2

LEMMA TotalIsSum ==
    ASSUME NEW bag \in Bag
    PROVE  \E g : Adds(g, Totals(bag), Value) /\ Total(bag) = g[Value]
<1> DEFINE P(g) == g = [s \in SUBSET Value |-> IF s = {} THEN 0 ELSE
                            bag[Chosen(s)] * Chosen(s) + g[s \ {Chosen(s)}]]
<1>1. \A g : P(g) <=> Adds(g, Totals(bag), Value)
  <2>1. \A s \in SUBSET Value : s # {} => Totals(bag)[Chosen(s)] = bag[Chosen(s)] * Chosen(s)
    BY ChosenIn DEF Totals
  <2> QED BY <2>1 DEF Adds
<1>0. \E g : Adds(g, Totals(bag), Value)
  BY AddsExists, BagTerms, MetricAssumption
<1>3. Total(bag) = (CHOOSE g : P(g))[Value]
  BY Zenon DEF Total, MapThenSumSet, MapThenFoldSet, Chosen
<1> HIDE DEF P
<1>2. \E g : P(g)
  BY <1>0, <1>1
<1>4. P(CHOOSE g : P(g))
  BY <1>2
<1> QED BY <1>1, <1>3, <1>4

LEMMA TotalSquaresIsSum ==
    ASSUME NEW bag \in Bag
    PROVE  \E g : Adds(g, Squared(bag), Value) /\ TotalSquares(bag) = g[Value]
<1> DEFINE P(g) == g = [s \in SUBSET Value |-> IF s = {} THEN 0 ELSE
                            bag[Chosen(s)] * Chosen(s) * Chosen(s) + g[s \ {Chosen(s)}]]
<1>1. \A g : P(g) <=> Adds(g, Squared(bag), Value)
  <2>1. \A s \in SUBSET Value : s # {} =>
            Squared(bag)[Chosen(s)] = bag[Chosen(s)] * Chosen(s) * Chosen(s)
    BY ChosenIn DEF Squared
  <2> QED BY <2>1 DEF Adds
<1>0. \E g : Adds(g, Squared(bag), Value)
  BY AddsExists, BagTerms, MetricAssumption
<1>3. TotalSquares(bag) = (CHOOSE g : P(g))[Value]
  BY Zenon DEF TotalSquares, MapThenSumSet, MapThenFoldSet, Chosen
<1> HIDE DEF P
<1>2. \E g : P(g)
  BY <1>0, <1>1
<1>4. P(CHOOSE g : P(g))
  BY <1>2
<1> QED BY <1>1, <1>3, <1>4

LEMMA BagSums ==
    ASSUME NEW bag \in Bag
    PROVE  Size(bag) \in Nat /\ Total(bag) \in Int /\ TotalSquares(bag) \in Int
<1>1. Size(bag) \in Int /\ Total(bag) \in Int /\ TotalSquares(bag) \in Int
  <2>1. Value \in SUBSET Value
    OBVIOUS
  <2>2. \A f \in [Value -> Int] : \A g : Adds(g, f, Value) => g[Value] \in Int
    BY <2>1, SumIsInt, MetricAssumption
  <2> QED BY <2>2, BagTerms, SizeIsSum, TotalIsSum, TotalSquaresIsSum
<1>2. 0 * Size(bag) <= 1 * Size(bag)
  <2>1. NoGreater(0, bag, 1, bag, Value)
    BY BagTerms, MetricAssumption DEF Bag, NoGreater
  <2>2. PICK g : Adds(g, bag, Value) /\ Size(bag) = g[Value]
    BY SizeIsSum
  <2> QED BY <2>1, <2>2, SumNoGreater
<1> QED BY <1>1, <1>2

\* A sum of zeros.
LEMMA SumOfZeros ==
    ASSUME NEW S, IsFiniteSet(S), NEW f \in [S -> Int], \A u \in S : f[u] = 0, NEW g, Adds(g, f, S)
    PROVE  g[S] = 0
<1>1. NoGreater(1, f, 0, f, S) /\ NoGreater(-1, f, 0, f, S)
  BY DEF NoGreater
<1>2. 1 * g[S] <= 0 * g[S]
  BY <1>1, SumNoGreater
<1>3. (-1) * g[S] <= 0 * g[S]
  BY <1>1, SumNoGreater
<1>4. g[S] \in Int
  BY SumIsInt
<1> QED BY <1>2, <1>3, <1>4

LEMMA EmptySums == Size(Empty) = 0 /\ Total(Empty) = 0 /\ TotalSquares(Empty) = 0
<1>1. Empty \in Bag /\ Empty \in [Value -> Int] /\ Totals(Empty) \in [Value -> Int]
      /\ Squared(Empty) \in [Value -> Int]
  BY EmptyIsBag, BagTerms
<1>2. \A v \in Value : Empty[v] = 0 /\ Totals(Empty)[v] = 0 /\ Squared(Empty)[v] = 0
  BY MetricAssumption DEF Empty, Totals, Squared
<1>3. Size(Empty) = 0
  BY <1>1, <1>2, SizeIsSum, SumOfZeros, MetricAssumption
<1>4. Total(Empty) = 0
  BY <1>1, <1>2, TotalIsSum, SumOfZeros, MetricAssumption
<1>5. TotalSquares(Empty) = 0
  BY <1>1, <1>2, TotalSquaresIsSum, SumOfZeros, MetricAssumption
<1> QED BY <1>3, <1>4, <1>5

\* One more sample of v.
LEMMA SumsWithMore ==
    ASSUME NEW bag \in Bag, NEW more \in Bag, NEW v \in Value,
           \A u \in Value : more[u] = bag[u] + (IF u = v THEN 1 ELSE 0)
    PROVE  /\ Size(more) = Size(bag) + 1
           /\ Total(more) = Total(bag) + v
           /\ TotalSquares(more) = TotalSquares(bag) + v * v
<1>0. v \in Int /\ v * v \in Int /\ IsFiniteSet(Value)
  BY MetricAssumption
<1>1. Size(more) = Size(bag) + 1
  <2>1. PICK g : Adds(g, bag, Value) /\ Size(bag) = g[Value]
    BY SizeIsSum
  <2>2. PICK h : Adds(h, more, Value) /\ Size(more) = h[Value]
    BY SizeIsSum
  <2>3. More(more, bag, v, 1, Value)
    BY <1>0, BagTerms DEF More
  <2> QED BY <2>1, <2>2, <2>3, SumWithMore
<1>2. Total(more) = Total(bag) + v
  <2>1. PICK g : Adds(g, Totals(bag), Value) /\ Total(bag) = g[Value]
    BY TotalIsSum
  <2>2. PICK h : Adds(h, Totals(more), Value) /\ Total(more) = h[Value]
    BY TotalIsSum
  <2>3. \A u \in Value : Totals(more)[u] = Totals(bag)[u] + (IF u = v THEN v ELSE 0)
    BY MetricAssumption DEF Totals, Bag
  <2>4. More(Totals(more), Totals(bag), v, v, Value)
    BY <1>0, <2>3, BagTerms DEF More
  <2> QED BY <2>1, <2>2, <2>4, SumWithMore
<1>3. TotalSquares(more) = TotalSquares(bag) + v * v
  <2>1. PICK g : Adds(g, Squared(bag), Value) /\ TotalSquares(bag) = g[Value]
    BY TotalSquaresIsSum
  <2>2. PICK h : Adds(h, Squared(more), Value) /\ TotalSquares(more) = h[Value]
    BY TotalSquaresIsSum
  <2>3. \A u \in Value : Squared(more)[u] = Squared(bag)[u] + (IF u = v THEN v * v ELSE 0)
    BY MetricAssumption DEF Squared, Bag
  <2>4. More(Squared(more), Squared(bag), v, v * v, Value)
    BY <1>0, <2>3, BagTerms DEF More
  <2> QED BY <2>1, <2>2, <2>4, SumWithMore
<1> QED BY <1>1, <1>2, <1>3

-------------------------------------------------------------------------------
(* The stored baseline is that of the samples it was made of.                  *)

LEMMA SizeOfSome ==
    ASSUME NEW bag \in Bag, bag # Empty
    PROVE  Size(bag) >= 1
<1>1. PICK v \in Value : bag[v] # 0
  BY DEF Bag, Empty
<1> DEFINE less == [u \in Value |-> IF u = v THEN bag[u] - 1 ELSE bag[u]]
<1>2. less \in Bag
  BY <1>1 DEF Bag
<1>3. \A u \in Value : bag[u] = less[u] + (IF u = v THEN 1 ELSE 0)
  BY <1>1 DEF Bag
<1> HIDE DEF less
<1>4. Size(bag) = Size(less) + 1
  BY <1>2, <1>3, SumsWithMore
<1> QED BY <1>2, <1>4, BagSums

LEMMA TextbookIs ==
    ASSUME NEW bag
    PROVE  Textbook(bag) = [count |-> Size(bag), sum |-> Total(bag),
                            spread |-> Size(bag) * TotalSquares(bag) - Total(bag) * Total(bag)]
BY Zenon DEF Textbook, Total, TotalSquares

\* The baseline of a bag of samples, by definition.
BaselineOf(bag) == IF bag = Empty THEN NoBaseline ELSE Textbook(bag)

\* Welford's algorithm computes the textbook's values.
LEMMA UpdateIsTextbook ==
    ASSUME NEW bag \in Bag, NEW more \in Bag, NEW v \in Value,
           \A u \in Value : more[u] = bag[u] + (IF u = v THEN 1 ELSE 0)
    PROVE  Updated(BaselineOf(bag), v) = BaselineOf(more)
<1>0. v \in Int /\ v * v \in Int
  BY MetricAssumption
<1>1. more # Empty
  <2>1. more[v] = bag[v] + 1 /\ bag[v] \in Nat
    BY DEF Bag
  <2> QED BY <2>1 DEF Empty
<1> DEFINE n == Size(bag)
           s == Total(bag)
           q == TotalSquares(bag)
<1>2. n \in Nat /\ s \in Int /\ q \in Int
  BY BagSums
<1>3. BaselineOf(more) = [count |-> n + 1, sum |-> s + v,
                          spread |-> (n + 1) * (q + v * v) - (s + v) * (s + v)]
  <2>1. Size(more) = n + 1 /\ Total(more) = s + v /\ TotalSquares(more) = q + v * v
    BY SumsWithMore
  <2> QED BY <1>1, <2>1, TextbookIs DEF BaselineOf
<1>4. CASE bag = Empty
  <2>1. n = 0 /\ s = 0 /\ q = 0
    BY <1>4, EmptySums
  <2>2. Updated(BaselineOf(bag), v) = [count |-> 1, sum |-> v, spread |-> 0]
    BY <1>4 DEF BaselineOf, Updated
  <2> HIDE DEF n, s, q
  <2>3. n + 1 = 1 /\ s + v = v /\ (n + 1) * (q + v * v) - (s + v) * (s + v) = 0
    BY <1>0, <2>1
  <2> QED BY <1>3, <2>2, <2>3
<1>5. CASE bag # Empty
  <2>1. n >= 1
    BY <1>5, SizeOfSome
  <2> DEFINE b == [count |-> n, sum |-> s, spread |-> n * q - s * s]
  <2>2. BaselineOf(bag) = b
    BY <1>5, TextbookIs DEF BaselineOf
  <2> HIDE DEF n, s, q
  <2>3. b \in Baseline
    BY <1>2, <2>1 DEF Baseline
  <2>4. Updated(b, v) = Welford(b, v)
    BY <2>3, NoneIsNone DEF Updated
  <2> DEFINE grown == (n + 1) * (q + v * v) - (s + v) * (s + v)
  <2>5. grown \in Int
    BY <1>0, <1>2
  <2>6. (n + 1) * (n * q - s * s) + (n * v - s) * (n * v - s) = n * grown
    BY <1>0, <1>2, SpreadIdentity
  <2>7. Welford(b, v) = [count |-> n + 1, sum |-> s + v,
            spread |-> ((n + 1) * (n * q - s * s) + (n * v - s) * (n * v - s)) \div n]
    BY DEF Welford, Deviation
  <2>8. (n * grown) \div n = grown
    <3> HIDE DEF grown
    <3> QED BY <1>2, <2>1, <2>5, DivisionExact
  <2> QED BY <1>3, <2>2, <2>4, <2>6, <2>7, <2>8
<1> QED BY <1>4, <1>5

\* What is stored is the baseline of the samples kept, and so is each copy of the samples
\* it was made of; without overlap these are still those kept when the copy is stored.
SamplesInv ==
    /\ stored = BaselineOf(kept)
    /\ \A h \in Hook : step[h] = "store" => copy[h] = BaselineOf(basis[h])
    /\ ~Overlap =>
          /\ lost = Empty
          /\ \A g, h \in Hook : Busy(g) /\ Busy(h) => g = h
          /\ \A h \in Hook : step[h] = "store" => basis[h] = kept

LEMMA SamplesInit == Init => SamplesInv
BY DEF Init, SamplesInv, BaselineOf, Busy

\* The process exits, whatever it was at.
LEMMA SamplesExit ==
    ASSUME MonitorTypeInv, SamplesInv, NEW h \in Hook, Exit(h), UNCHANGED <<stored, kept, lost>>
    PROVE  SamplesInv'
<1>1. /\ step'[h] = "idle"
      /\ \A g \in Hook : g # h => step'[g] = step[g] /\ copy'[g] = copy[g] /\ basis'[g] = basis[g]
  BY DEF MonitorTypeInv, MonitorTypeOK, Exit
<1>2. \A g \in Hook : Busy(g)' => Busy(g)
  BY <1>1 DEF Busy
<1> QED BY <1>1, <1>2 DEF SamplesInv, BaselineOf, Empty

LEMMA SamplesLoad ==
    ASSUME MonitorTypeInv, SamplesInv, NEW h \in Hook, NEW v \in Value, Load(h, v)
    PROVE  SamplesInv'
<1>1. /\ step'[h] = "store" /\ copy'[h] = stored /\ basis'[h] = kept
      /\ \A g \in Hook : g # h => step'[g] = step[g] /\ copy'[g] = copy[g] /\ basis'[g] = basis[g]
  BY DEF MonitorTypeInv, MonitorTypeOK, Load
<1>2. UNCHANGED <<stored, kept, lost>>
  BY DEF Load
<1>3. ~Overlap => \A g \in Hook : Busy(g)' => g = h
  BY <1>1 DEF Load, Busy
<1> QED BY <1>1, <1>2, <1>3 DEF SamplesInv, BaselineOf, Empty

LEMMA SamplesStore ==
    ASSUME MonitorTypeInv, SamplesInv, NEW h \in Hook, Store(h)
    PROVE  SamplesInv'
<1>1. /\ step[h] = "store" /\ step'[h] = "check" /\ copy' = copy /\ basis' = basis
      /\ \A g \in Hook : g # h => step'[g] = step[g]
  BY DEF MonitorTypeInv, MonitorTypeOK, Store
<1>2. stored' = BaselineOf(kept')
  <2>1. /\ kept' \in Bag /\ basis[h] \in Bag /\ value[h] \in Value
        /\ \A u \in Value : kept'[u] = basis[h][u] + (IF u = value[h] THEN 1 ELSE 0)
    BY StoredSamples DEF MonitorTypeInv, MonitorTypeOK
  <2>2. stored' = Updated(BaselineOf(basis[h]), value[h])
    BY <1>1 DEF SamplesInv, Store
  <2> QED BY <2>1, <2>2, UpdateIsTextbook
<1>3. ~Overlap => lost' = Empty
  <2> SUFFICES ASSUME ~Overlap PROVE lost' = Empty
    OBVIOUS
  <2>1. basis[h] = kept /\ lost = Empty
    BY <1>1 DEF SamplesInv
  <2>2. \A u \in Value : kept[u] \in Nat /\ lost[u] = 0
    BY <2>1 DEF MonitorTypeInv, MonitorTypeOK, Bag, Empty
  <2>3. lost' = [u \in Value |-> lost[u] + kept[u] - basis[h][u]]
    BY DEF Store
  <2> QED BY <2>1, <2>2, <2>3 DEF Empty
<1>4. \A g \in Hook : Busy(g)' => Busy(g)
  BY <1>1 DEF Busy
<1>5. ~Overlap => \A g \in Hook : step'[g] # "store"
  BY <1>1 DEF SamplesInv, Busy
<1> QED BY <1>1, <1>2, <1>3, <1>4, <1>5 DEF SamplesInv, BaselineOf, Empty

LEMMA SamplesStep == MonitorTypeInv /\ SamplesInv /\ [Next]_monitor => SamplesInv'
<1> SUFFICES ASSUME MonitorTypeInv, SamplesInv, [Next]_monitor PROVE SamplesInv'
  OBVIOUS
<1>1. ASSUME NEW h \in Hook, Check(h) PROVE SamplesInv'
  <2>1. CASE Anomalous(stored, value[h])
    <3>1. UNCHANGED <<stored, kept, lost, copy, basis>>
      BY <1>1, <2>1 DEF Check
    <3>2. \A g \in Hook : /\ step'[g] = "store" => step[g] = "store"
                          /\ Busy(g)' => Busy(g)
      BY <1>1, <2>1 DEF Check, Busy, MonitorTypeInv, MonitorTypeOK
    <3> QED BY <3>1, <3>2 DEF SamplesInv, BaselineOf, Empty
  <2>2. CASE ~Anomalous(stored, value[h])
    BY <1>1, <2>2, SamplesExit DEF Check
  <2> QED BY <2>1, <2>2
<1>2. ASSUME NEW h \in Hook, End(h) PROVE SamplesInv'
  BY <1>2, SamplesExit DEF End
<1>3. CASE UNCHANGED monitor
  BY <1>3 DEF SamplesInv, BaselineOf, Empty, Busy, monitor
<1> QED BY <1>1, <1>2, <1>3, SamplesStore, SamplesLoad DEF Next

\* Whatever hooks overlap and die, the stored baseline has exactly the count, sum and
\* spread of the samples not overwritten; and none is overwritten unless hooks overlap
\* (record_metric: _load_baseline, _update_baseline, _store_baseline).
THEOREM StoredIsTextbook == Spec => []BaselineOfSamples
<1>1. MonitorTypeInv /\ SamplesInv => BaselineOfSamples
  BY DEF SamplesInv, BaselineOf, BaselineOfSamples
<1> QED BY <1>1, SamplesInit, SamplesStep, MonitorTypeInit, MonitorTypeStep, PTL DEF Spec

-------------------------------------------------------------------------------
(* The coordination scorer: types. *)

LEMMA LastOfIs ==
    ASSUME NEW S, NEW list \in Seq(S), NEW n \in Nat \ {0}
    PROVE  LastOf(list, n) \in Seq(S) /\ Len(LastOf(list, n)) <= n
<1>1. CASE Len(list) <= n
  BY <1>1 DEF LastOf
<1>2. CASE ~(Len(list) <= n)
  <2> DEFINE m == Len(list) - n + 1
  <2>1. Len(list) \in Nat /\ m \in Int /\ m >= 1 /\ m <= Len(list)
    BY <1>2
  <2>2. \A i \in m .. Len(list) : list[i] \in S
    BY <2>1
  <2>3. LastOf(list, n) = SubSeq(list, m, Len(list))
    BY <1>2 DEF LastOf
  <2> HIDE DEF m
  <2>4. /\ SubSeq(list, m, Len(list)) \in Seq(S)
        /\ Len(SubSeq(list, m, Len(list))) = Len(list) - m + 1
    BY <2>1, <2>2, SubSeqProperties
  <2> QED BY <2>3, <2>4, <2>1 DEF m
<1> QED BY <1>1, <1>2

LEMMA KeptPositive == CallsKept \in Nat \ {0}
BY ScorerAssumption

LEMMA NoCalls == <<>> \in Seq(Call) /\ Len(<<>>) <= CallsKept
<1>1. Len(<<>>) = 0
  BY EmptySeq
<1>2. Len(<<>>) <= CallsKept
  BY <1>1, KeptPositive
<1> QED BY <1>2, EmptySeq

LEMMA ScorerTypeInit == ScorerInit => ScorerTypeOK
<1>1. <<>> \in Seq(BOOLEAN)
  BY EmptySeq
<1>2. NoInteractions \in [Interaction -> Nat]
  BY DEF NoInteractions
<1> QED BY <1>1, <1>2, NoCalls, Zenon DEF ScorerInit, ScorerTypeOK

LEMMA ScorerTypeStep ==
    ASSUME ScorerTypeOK, [UtilizationNext \/ SynergyNext]_scorer
    PROVE  ScorerTypeOK'
<1>1. ASSUME NEW c \in Call, RecordToolCall(c) PROVE ScorerTypeOK'
  <2>1. Append(toolCalls, c) \in Seq(Call)
    BY AppendProperties DEF ScorerTypeOK
  <2> QED BY <1>1, <2>1, KeptPositive, LastOfIs DEF RecordToolCall, ScorerTypeOK
<1>2. CASE ComputeTue
  <2>1. Low(LastOf(toolCalls, TueWindow)) \in BOOLEAN
    BY DEF Low
  <2>2. lows' \in Seq(BOOLEAN)
    <3> DEFINE low == Low(LastOf(toolCalls, TueWindow))
    <3>1. lows' = lows \/ lows' = Append(lows, low)
      BY <1>2 DEF ComputeTue
    <3>2. lows \in Seq(BOOLEAN)
      BY DEF ScorerTypeOK
    <3> HIDE DEF low
    <3>3. low \in BOOLEAN => Append(lows, low) \in Seq(BOOLEAN)
      BY <3>2, AppendProperties
    <3> QED BY <2>1, <3>1, <3>2, <3>3 DEF low
  <2>3. degraded' \in BOOLEAN
    <3>1. \E n : degraded' = (n >= LowInARow)
      BY <1>2, Zenon DEF ComputeTue
    <3> QED BY <3>1
  <2> QED BY <1>2, <2>2, <2>3 DEF ComputeTue, ScorerTypeOK
<1>3. CASE ScorerRestart
  <2>1. toolCalls' \in Seq(Call) /\ Len(toolCalls') <= CallsKept
    BY <1>3, NoCalls, Zenon DEF ScorerRestart
  <2>2. interactions' \in [Interaction -> Nat]
    BY <1>3 DEF ScorerRestart, NoInteractions
  <2> QED BY <1>3, <2>1, <2>2 DEF ScorerRestart, ScorerTypeOK
<1>4. CASE ComputeCss
  BY <1>4, ZenonT(30) DEF ComputeCss, ScorerTypeOK, BreachLevel
<1>5. ASSUME NEW i \in Interaction, RecordInteraction(i) PROVE ScorerTypeOK'
  <2>1. interactions' \in [Interaction -> Nat]
    <3>1. interactions \in [Interaction -> Nat]
      BY DEF ScorerTypeOK
    <3> QED BY <1>5, <3>1 DEF RecordInteraction
  <2> QED BY <1>5, <2>1 DEF RecordInteraction, ScorerTypeOK
<1>6. CASE UNCHANGED scorer
  BY <1>6 DEF ScorerTypeOK, scorer
<1> QED BY <1>1, <1>2, <1>3, <1>4, <1>5, <1>6 DEF UtilizationNext, SynergyNext

\* What the run explores is behaviour of both.
LEMMA TelemetrySteps ==
    [TelemetryNext]_<<monitor, scorer>> => [Next]_monitor /\ [UtilizationNext \/ SynergyNext]_scorer
BY DEF TelemetryNext

\* The variables of both have their types; no agent keeps more calls than it may
\* (record_tool_call).
THEOREM TelemetryTypeCorrect == TelemetrySpec => []TelemetryTypeOK
<1>1. TelemetryInit => MonitorTypeInv /\ ScorerTypeOK
  BY MonitorTypeInit, ScorerTypeInit DEF TelemetryInit
<1>2. MonitorTypeInv /\ ScorerTypeOK /\ [TelemetryNext]_<<monitor, scorer>>
          => MonitorTypeInv' /\ ScorerTypeOK'
  BY TelemetrySteps, MonitorTypeStep, ScorerTypeStep
<1>3. MonitorTypeInv /\ ScorerTypeOK => TelemetryTypeOK
  BY DEF MonitorTypeInv, TelemetryTypeOK
<1> QED BY <1>1, <1>2, <1>3, PTL DEF TelemetrySpec

-------------------------------------------------------------------------------
(* Component synergy: sums over interactions. *)

LEMMA InteractionsFinite == IsFiniteSet(Interaction)
<1> DEFINE P == {0, 30, 100} \X (BOOLEAN \X BOOLEAN)
           f == [p \in P |-> [quality |-> p[1], crossDomain |-> p[2][1], copied |-> p[2][2]]]
<1>1. IsFiniteSet(BOOLEAN) /\ IsFiniteSet({0, 30, 100})
  <2>1. BOOLEAN = {TRUE} \cup {FALSE} /\ {0, 30, 100} = ({0} \cup {30}) \cup {100}
    OBVIOUS
  <2>2. IsFiniteSet({TRUE}) /\ IsFiniteSet({0})
    BY FS_Singleton
  <2>3. IsFiniteSet({TRUE} \cup {FALSE}) /\ IsFiniteSet({0} \cup {30})
    BY <2>2, FS_AddElement
  <2>4. IsFiniteSet(({0} \cup {30}) \cup {100})
    BY <2>3, FS_AddElement
  <2> QED BY <2>1, <2>3, <2>4
<1>2. IsFiniteSet(P)
  BY <1>1, FS_Product
<1>3. f \in Surjection(P, Interaction)
  <2>1. f \in [P -> Interaction]
    BY DEF Interaction
  <2>2. ASSUME NEW i \in Interaction PROVE \E p \in P : f[p] = i
    <3>1. <<i.quality, <<i.crossDomain, i.copied>>>> \in P
      BY DEF Interaction
    <3>2. f[<<i.quality, <<i.crossDomain, i.copied>>>>] = i
      BY <3>1 DEF Interaction
    <3> QED BY <3>1, <3>2
  <2> HIDE DEF f, P
  <2> QED BY <2>1, <2>2 DEF Surjection
<1> QED BY <1>2, <1>3, FS_Surjection

\* The interactions of a pair.
InteractionBag == [Interaction -> Nat]

LEMMA MeetingsAreSum ==
    ASSUME NEW bag \in InteractionBag, NEW S \in SUBSET Interaction
    PROVE  \E g : Adds(g, [i \in S |-> bag[i]], S) /\ Meetings(bag, S) = g[S]
<1> DEFINE f == [i \in S |-> bag[i]]
           P(g) == g = [s \in SUBSET S |-> IF s = {} THEN 0 ELSE bag[Chosen(s)] + g[s \ {Chosen(s)}]]
<1>1. IsFiniteSet(S) /\ f \in [S -> Int]
  BY InteractionsFinite, FS_Subset DEF InteractionBag
<1>2. \E g : Adds(g, f, S)
  BY <1>1, AddsExists
<1>3. \A g : P(g) <=> Adds(g, f, S)
  <2>1. \A s \in SUBSET S : s # {} => f[Chosen(s)] = bag[Chosen(s)]
    BY ChosenIn
  <2> HIDE DEF f
  <2> QED BY <2>1 DEF Adds
<1>4. Meetings(bag, S) = (CHOOSE g : P(g))[S]
  BY Zenon DEF Meetings, MapThenSumSet, MapThenFoldSet, Chosen
<1> HIDE DEF P, f
<1>5. \E g : P(g)
  BY <1>2, <1>3
<1>6. P(CHOOSE g : P(g))
  BY <1>5
<1> QED BY <1>3, <1>4, <1>6 DEF f

LEMMA MeetingsAreInt ==
    ASSUME NEW bag \in InteractionBag, NEW S \in SUBSET Interaction
    PROVE  Meetings(bag, S) \in Int
<1>1. S \in SUBSET S /\ IsFiniteSet(S) /\ [i \in S |-> bag[i]] \in [S -> Int]
  BY InteractionsFinite, FS_Subset DEF InteractionBag
<1>2. PICK g : Adds(g, [i \in S |-> bag[i]], S) /\ Meetings(bag, S) = g[S]
  BY MeetingsAreSum
<1> QED BY <1>1, <1>2, SumIsInt

\* The qualities of the interactions, and with their weights.
Qualities(bag) == [i \in Interaction |-> bag[i] * i.quality]
Weighted(bag) == [i \in Interaction |-> bag[i] * i.quality * (IF i.crossDomain THEN 3 ELSE 2)]
QualitySum(bag) == MapThenSumSet(LAMBDA i : bag[i] * i.quality, Interaction)
WeightedSum(bag) ==
    MapThenSumSet(LAMBDA i : bag[i] * i.quality * (IF i.crossDomain THEN 3 ELSE 2), Interaction)

LEMMA TermsAreInt ==
    ASSUME NEW bag \in InteractionBag
    PROVE  /\ \A i \in Interaction : bag[i] \in Nat /\ i.quality \in Nat /\ bag[i] * i.quality \in Nat
           /\ Qualities(bag) \in [Interaction -> Int] /\ Weighted(bag) \in [Interaction -> Int]
<1>1. ASSUME NEW i \in Interaction PROVE bag[i] \in Nat /\ i.quality \in Nat
  <2>1. i.quality \in {0, 30, 100}
    BY DEF Interaction
  <2> QED BY <2>1 DEF InteractionBag
<1>2. \A i \in Interaction : bag[i] * i.quality \in Nat
  BY <1>1
<1>3. \A i \in Interaction : bag[i] * i.quality * (IF i.crossDomain THEN 3 ELSE 2) \in Int
  <2>1. \A k \in Nat : k * 3 \in Int /\ k * 2 \in Int
    OBVIOUS
  <2> QED BY <1>2, <2>1
<1> QED BY <1>1, <1>2, <1>3 DEF Qualities, Weighted

LEMMA QualitySumIs ==
    ASSUME NEW bag \in InteractionBag
    PROVE  \E g : Adds(g, Qualities(bag), Interaction) /\ QualitySum(bag) = g[Interaction]
<1> DEFINE P(g) == g = [s \in SUBSET Interaction |-> IF s = {} THEN 0 ELSE
                            bag[Chosen(s)] * Chosen(s).quality + g[s \ {Chosen(s)}]]
<1>1. \E g : Adds(g, Qualities(bag), Interaction)
  BY TermsAreInt, AddsExists, InteractionsFinite
<1>2. \A g : P(g) <=> Adds(g, Qualities(bag), Interaction)
  <2>1. \A s \in SUBSET Interaction : s # {} =>
            Qualities(bag)[Chosen(s)] = bag[Chosen(s)] * Chosen(s).quality
    BY ChosenIn DEF Qualities
  <2> QED BY <2>1 DEF Adds
<1>3. QualitySum(bag) = (CHOOSE g : P(g))[Interaction]
  BY Zenon DEF QualitySum, MapThenSumSet, MapThenFoldSet, Chosen
<1> HIDE DEF P
<1>4. \E g : P(g)
  BY <1>1, <1>2
<1>5. P(CHOOSE g : P(g))
  BY <1>4
<1> QED BY <1>2, <1>3, <1>5

LEMMA WeightedSumIs ==
    ASSUME NEW bag \in InteractionBag
    PROVE  \E g : Adds(g, Weighted(bag), Interaction) /\ WeightedSum(bag) = g[Interaction]
<1> DEFINE P(g) == g = [s \in SUBSET Interaction |-> IF s = {} THEN 0 ELSE
                            bag[Chosen(s)] * Chosen(s).quality * (IF Chosen(s).crossDomain THEN 3 ELSE 2)
                                + g[s \ {Chosen(s)}]]
<1>1. \E g : Adds(g, Weighted(bag), Interaction)
  BY TermsAreInt, AddsExists, InteractionsFinite
<1>2. \A g : P(g) <=> Adds(g, Weighted(bag), Interaction)
  <2>1. \A s \in SUBSET Interaction : s # {} =>
            Weighted(bag)[Chosen(s)]
                = bag[Chosen(s)] * Chosen(s).quality * (IF Chosen(s).crossDomain THEN 3 ELSE 2)
    BY ChosenIn DEF Weighted
  <2> QED BY <2>1 DEF Adds
<1>3. WeightedSum(bag) = (CHOOSE g : P(g))[Interaction]
  BY Zenon DEF WeightedSum, MapThenSumSet, MapThenFoldSet, Chosen
<1> HIDE DEF P
<1>4. \E g : P(g)
  BY <1>1, <1>2
<1>5. P(CHOOSE g : P(g))
  BY <1>4
<1> QED BY <1>2, <1>3, <1>5

\* There are no fewer than no interactions, and each weighs twice to thrice its quality.
LEMMA ScoreBounds ==
    ASSUME NEW bag \in InteractionBag
    PROVE  LET n == Meetings(bag, Interaction)
               q == QualitySum(bag)
               w == WeightedSum(bag)
           IN n \in Nat /\ q \in Nat /\ w \in Int /\ 2 * q <= w /\ w <= 3 * q
<1> DEFINE f == [i \in Interaction |-> bag[i]]
<1>1. PICK m : Adds(m, f, Interaction) /\ Meetings(bag, Interaction) = m[Interaction]
  BY MeetingsAreSum
<1>2. PICK g : Adds(g, Qualities(bag), Interaction) /\ QualitySum(bag) = g[Interaction]
  BY QualitySumIs
<1>3. PICK h : Adds(h, Weighted(bag), Interaction) /\ WeightedSum(bag) = h[Interaction]
  BY WeightedSumIs
<1>4. /\ f \in [Interaction -> Int] /\ Qualities(bag) \in [Interaction -> Int]
      /\ Weighted(bag) \in [Interaction -> Int]
  BY TermsAreInt
<1>5. ASSUME NEW i \in Interaction
      PROVE  /\ Qualities(bag)[i] \in Nat
             /\ Weighted(bag)[i] = Qualities(bag)[i] * (IF i.crossDomain THEN 3 ELSE 2)
  BY TermsAreInt DEF Qualities, Weighted
<1>6. /\ NoGreater(0, f, 1, f, Interaction)
      /\ NoGreater(0, Qualities(bag), 1, Qualities(bag), Interaction)
      /\ NoGreater(2, Qualities(bag), 1, Weighted(bag), Interaction)
      /\ NoGreater(1, Weighted(bag), 3, Qualities(bag), Interaction)
  <2>1. \A i \in Interaction : 0 * f[i] <= 1 * f[i]
    BY TermsAreInt
  <2>2. \A i \in Interaction : LET t == Qualities(bag)[i] IN
            0 * t <= 1 * t /\ 2 * t <= 1 * Weighted(bag)[i] /\ 1 * Weighted(bag)[i] <= 3 * t
    BY <1>5
  <2> HIDE DEF f
  <2> QED BY <1>4, <2>1, <2>2, InteractionsFinite DEF NoGreater
<1>7. /\ 0 * m[Interaction] <= 1 * m[Interaction]
      /\ 0 * g[Interaction] <= 1 * g[Interaction]
      /\ 2 * g[Interaction] <= 1 * h[Interaction]
      /\ 1 * h[Interaction] <= 3 * g[Interaction]
  <2> HIDE DEF f
  <2> QED BY <1>1, <1>2, <1>3, <1>6, SumNoGreater
<1>8. m[Interaction] \in Int /\ g[Interaction] \in Int /\ h[Interaction] \in Int
  <2> HIDE DEF f
  <2>1. \A e \in [Interaction -> Int] : \A s : Adds(s, e, Interaction) => s[Interaction] \in Int
    BY SumIsInt, InteractionsFinite
  <2> QED BY <1>1, <1>2, <1>3, <1>4, <2>1
<1> QED BY <1>1, <1>2, <1>3, <1>7, <1>8

LEMMA BreachBounds ==
    ASSUME NEW bag \in InteractionBag
    PROVE  LET n == Meetings(bag, Interaction)
               copied == Meetings(bag, {i \in Interaction : i.copied})
               q == QualitySum(bag)
           IN /\ 3 * q < 80 * n => BreachLevel(bag) # ""
              /\ q >= 40 * n /\ 2 * copied <= n => BreachLevel(bag) = ""
<1> DEFINE n == Meetings(bag, Interaction)
           copied == Meetings(bag, {i \in Interaction : i.copied})
           q == QualitySum(bag)
           w == WeightedSum(bag)
           s == Synergy(bag)
<1>1. n \in Nat /\ q \in Nat /\ w \in Int /\ 2 * q <= w /\ w <= 3 * q
  BY ScoreBounds
<1>2. copied \in Int
  BY MeetingsAreInt
<1>3. s = w * (IF Colluding(bag) THEN 7 ELSE 10)
  BY DEF Synergy, WeightedSum
<1>4. Colluding(bag) <=> 100 * copied > 60 * n
  BY DEF Colluding
<1>5. BreachLevel(bag) = CASE s < 400 * n -> "critical"
                           [] s \in 400 * n .. 800 * n - 1 -> "threshold"
                           [] OTHER -> ""
  BY DEF BreachLevel
<1> HIDE DEF n, copied, q, w, s
<1>6. s \in Int
  BY <1>1, <1>3
<1>7. ASSUME 3 * q < 80 * n PROVE BreachLevel(bag) # ""
  <2>1. s < 800 * n
    BY <1>1, <1>3, <1>7
  <2>2. s < 400 * n \/ s \in 400 * n .. 800 * n - 1
    BY <1>1, <1>6, <2>1
  <2>3. s < 400 * n => s \notin 400 * n .. 800 * n - 1
    BY <1>1, <1>6
  <2> QED BY <1>5, <2>2, <2>3, ZenonT(30)
<1>8. ASSUME q >= 40 * n, 2 * copied <= n PROVE BreachLevel(bag) = ""
  <2>1. ~Colluding(bag)
    BY <1>1, <1>2, <1>4, <1>8
  <2>2. s >= 800 * n
    BY <1>1, <1>3, <1>8, <2>1
  <2>3. ~(s < 400 * n) /\ s \notin 400 * n .. 800 * n - 1
    BY <1>1, <1>6, <2>2
  <2> QED BY <1>5, <2>3
<1> QED BY <1>7, <1>8 DEF n, copied, q

\* A pair is in breach for the quality of its outcomes, or for copying in more of its
\* interactions than not (compute_css).
THEOREM BreachHolds == TelemetrySpec => BreachByQuality
<1> DEFINE Judged == interactions # NoInteractions /\ ComputeCss =>
           LET n == Meetings(interactions, Interaction)
               copied == Meetings(interactions, {i \in Interaction : i.copied})
               quality == MapThenSumSet(LAMBDA i : interactions[i] * i.quality, Interaction)
           IN /\ 3 * quality < 80 * n => breach' # ""
              /\ quality >= 40 * n /\ 2 * copied <= n => breach' = ""
<1>1. ScorerTypeOK => Judged
  <2> SUFFICES ASSUME ScorerTypeOK, ComputeCss
               PROVE  LET n == Meetings(interactions, Interaction)
                          copied == Meetings(interactions, {i \in Interaction : i.copied})
                          quality == QualitySum(interactions)
                      IN /\ 3 * quality < 80 * n => breach' # ""
                         /\ quality >= 40 * n /\ 2 * copied <= n => breach' = ""
    BY Zenon DEF QualitySum
  <2>1. interactions \in InteractionBag /\ breach' = BreachLevel(interactions)
    BY DEF ScorerTypeOK, InteractionBag, ComputeCss
  <2> QED BY <2>1, BreachBounds
<1>2. TelemetrySpec => []ScorerTypeOK
  <2>1. TelemetryTypeOK => ScorerTypeOK
    BY DEF TelemetryTypeOK
  <2> QED BY <2>1, TelemetryTypeCorrect, PTL
<1>3. BreachByQuality <=> [][Judged]_scorer
  BY DEF BreachByQuality
<1> QED BY <1>1, <1>2, <1>3, PTL

-------------------------------------------------------------------------------
(* Tool utilization: lists of scores. *)

LEMMA PartFinite ==
    ASSUME NEW n \in Nat, NEW S \in SUBSET (1..n)
    PROVE  /\ IsFiniteSet(1..n) /\ Cardinality(1..n) = n
           /\ IsFiniteSet(S) /\ Cardinality(S) \in Nat
<1>1. IsFiniteSet(1..n) /\ Cardinality(1..n) = IF 1 > n THEN 0 ELSE n - 1 + 1
  BY FS_Interval
<1>2. IsFiniteSet(S)
  BY <1>1, FS_Subset
<1>3. Cardinality(S) \in Nat
  BY <1>2, FS_CardinalityType
<1> QED BY <1>1, <1>2, <1>3

\* An upper part of 1..n has k elements when the k-th from the top is in it.
LEMMA UpperPart ==
    ASSUME NEW n \in Nat, NEW S \in SUBSET (1..n), \A i \in S : \A j \in i..n : j \in S,
           NEW k \in Nat \ {0}
    PROVE  Cardinality(S) >= k <=> n - k + 1 \in S
<1>1. IsFiniteSet(S) /\ Cardinality(S) \in Nat
  BY PartFinite
<1>2. ASSUME n - k + 1 \in S PROVE Cardinality(S) >= k
  <2>1. (n - k + 1)..n \in SUBSET S
    BY <1>2
  <2>2. n - k + 1 \in Int /\ n - k + 1 <= n
    OBVIOUS
  <2>3. Cardinality((n - k + 1)..n) = k
    BY <2>2, FS_Interval
  <2>4. Cardinality((n - k + 1)..n) <= Cardinality(S)
    BY <1>1, <2>1, FS_Subset
  <2> QED BY <2>3, <2>4
<1>3. ASSUME n - k + 1 \notin S PROVE Cardinality(S) < k
  <2>1. S \in SUBSET ((n - k + 2)..n)
    <3> SUFFICES ASSUME NEW i \in S PROVE i >= n - k + 2
      OBVIOUS
    <3>1. i < n - k + 1 => n - k + 1 \in i..n
      OBVIOUS
    <3> QED BY <1>3, <3>1
  <2>2. n - k + 2 \in Int
    OBVIOUS
  <2>3. IsFiniteSet((n - k + 2)..n) /\ Cardinality((n - k + 2)..n) = k - 1
    BY <2>2, FS_Interval
  <2>4. Cardinality(S) <= Cardinality((n - k + 2)..n)
    BY <2>1, <2>3, FS_Subset
  <2> QED BY <1>1, <2>3, <2>4
<1> QED BY <1>1, <1>2, <1>3

LEMMA LowAtEndIs ==
    ASSUME NEW T, NEW list \in Seq(T), NEW k \in Nat \ {0}
    PROVE  LowAtEnd(list) >= k
               <=> Len(list) >= k /\ \A j \in Len(list) - k + 1 .. Len(list) : list[j]
<1> DEFINE n == Len(list)
           S == {i \in 1..n : \A j \in i..n : list[j]}
<1>1. n \in Nat /\ DOMAIN list = 1..n
  BY LenProperties
<1>2. LowAtEnd(list) = Cardinality(S)
  BY <1>1 DEF LowAtEnd
<1> HIDE DEF n
<1>3. S \in SUBSET (1..n) /\ \A i \in S : \A j \in i..n : j \in S
  BY <1>1
<1>4. n - k + 1 \in S <=> n >= k /\ \A j \in n - k + 1 .. n : list[j]
  BY <1>1
<1> HIDE DEF S
<1>5. Cardinality(S) >= k <=> n - k + 1 \in S
  BY <1>1, <1>3, UpperPart
<1> QED BY <1>2, <1>4, <1>5 DEF n

\* The greatest of some numbers.
LEMMA Greatest ==
    ASSUME NEW n \in Nat, NEW S \in SUBSET (1..n), S # {}
    PROVE  \E x \in S : \A y \in S : y <= x
<1> DEFINE R == {n - y : y \in S}
<1>1. R \in SUBSET Nat /\ R # {}
  <2>1. \A y \in S : n - y \in Nat
    OBVIOUS
  <2>2. \E y \in S : n - y \in R
    OBVIOUS
  <2> QED BY <2>1, <2>2
<1>2. PICK r \in R : \A t \in R : r <= t
  <2> HIDE DEF R
  <2> QED BY <1>1, LeastNumber
<1>3. PICK x \in S : r = n - x
  BY <1>2
<1>4. ASSUME NEW y \in S PROVE y <= x
  <2>1. r <= n - y
    BY <1>2
  <2> QED BY <1>3, <2>1
<1> QED BY <1>4

\* The place of a number among some.
Rank(S, i) == Cardinality({j \in S : j <= i})
AtRank(S, k) == CHOOSE i \in S : Rank(S, i) = k

LEMMA LastRanks ==
    ASSUME NEW n \in Nat, NEW S \in SUBSET (1..n), Cardinality(S) >= 2
    PROVE  LET m == Cardinality(S) IN
           AtRank(S, m) \in S /\ AtRank(S, m - 1) \in S /\ AtRank(S, m) # AtRank(S, m - 1)
<1> DEFINE m == Cardinality(S)
<1>1. IsFiniteSet(S) /\ m \in Nat
  BY PartFinite
<1>2. S # {}
  BY FS_EmptySet
<1>3. PICK x \in S : \A y \in S : y <= x
  BY <1>2, Greatest
<1>4. Rank(S, x) = m
  <2>1. {j \in S : j <= x} = S
    BY <1>3
  <2> QED BY <2>1 DEF Rank
<1>5. IsFiniteSet(S \ {x}) /\ Cardinality(S \ {x}) = m - 1
  BY <1>1, FS_RemoveElement
<1>6. S \ {x} \in SUBSET (1..n) /\ S \ {x} # {}
  BY <1>1, <1>5, FS_EmptySet
<1>7. PICK y \in S \ {x} : \A z \in S \ {x} : z <= y
  BY <1>6, Greatest
<1>8. Rank(S, y) = m - 1
  <2>1. y < x
    BY <1>3, <1>7
  <2>2. \A j \in S : j <= y <=> j # x
    <3>1. ~(x <= y)
      BY <2>1
    <3> QED BY <1>7, <3>1
  <2>3. {j \in S : j <= y} = S \ {x}
    BY <2>2
  <2> QED BY <1>5, <2>3 DEF Rank
<1> HIDE DEF m
<1>9. /\ AtRank(S, m) \in S /\ Rank(S, AtRank(S, m)) = m
      /\ AtRank(S, m - 1) \in S /\ Rank(S, AtRank(S, m - 1)) = m - 1
  BY <1>4, <1>8 DEF AtRank
<1> QED BY <1>1, <1>9 DEF m

LEMMA RankInAll ==
    ASSUME NEW n \in Nat, NEW k \in 1..n
    PROVE  AtRank(1..n, k) = k
<1>1. \A i \in 1..n : Rank(1..n, i) = i
  <2> TAKE i \in 1..n
  <2>1. {j \in 1..n : j <= i} = 1..i
    OBVIOUS
  <2>2. Cardinality(1..i) = i
    BY FS_Interval
  <2> QED BY <2>1, <2>2 DEF Rank
<1> QED BY <1>1 DEF AtRank

\* Some scores, in the order of time.
InOrder(scores, S) == [k \in 1..Cardinality(S) |-> scores[AtRank(S, k)]]

LEMMA RecentIs ==
    ASSUME NEW scores, NEW recent \in Recent(scores)
    PROVE  \E S \in SUBSET (DOMAIN scores) :
               /\ Cardinality(S) = Min({RecentLimit, Len(scores)})
               /\ recent = InOrder(scores, S)
BY Zenon DEF Recent, InOrder, AtRank, Rank

LEMMA AllAreRecent ==
    ASSUME NEW scores \in Seq(BOOLEAN), Len(scores) <= RecentLimit, NEW recent \in Recent(scores)
    PROVE  recent = scores
<1> DEFINE n == Len(scores)
<1>1. n \in Nat /\ DOMAIN scores = 1..n /\ scores \in [1..n -> BOOLEAN]
  BY LenProperties
<1>2. PICK S \in SUBSET (DOMAIN scores) :
          Cardinality(S) = Min({RecentLimit, n}) /\ recent = InOrder(scores, S)
  BY RecentIs
<1> HIDE DEF n
<1>3. Min({RecentLimit, n}) = n
  <2>1. RecentLimit \in Nat /\ n <= RecentLimit
    BY ScorerAssumption DEF n
  <2>2. \A x \in {RecentLimit, n} : (\A y \in {RecentLimit, n} : x <= y) <=> x = n
    BY <1>1, <2>1
  <2> QED BY <2>2 DEF Min
<1>4. S = 1..n
  <2>1. IsFiniteSet(1..n) /\ Cardinality(1..n) = n
    BY <1>1, PartFinite
  <2>2. S \in SUBSET (1..n) /\ Cardinality(1..n) = Cardinality(S)
    BY <1>1, <1>2, <1>3, <2>1
  <2> QED BY <2>1, <2>2, FS_Subset
<1>5. recent = [k \in 1..n |-> scores[AtRank(1..n, k)]]
  BY <1>2, <1>3, <1>4 DEF InOrder
<1>6. \A k \in 1..n : AtRank(1..n, k) = k
  BY <1>1, RankInAll
<1> QED BY <1>1, <1>5, <1>6

\* What three low ones in a row say of the list they are the end of.
LEMMA ThreeInARow ==
    ASSUME LowInARow = 3, NEW T, NEW recent \in Seq(T), NEW low \in BOOLEAN
    PROVE  ConsecutiveLow(recent, low) >= LowInARow
               <=> low /\ Len(recent) >= 2 /\ recent[Len(recent)] /\ recent[Len(recent) - 1]
<1> DEFINE list == Append(recent, low)
           m == Len(recent)
<1>1. m \in Nat
  BY LenProperties
<1>2. recent \in Seq(T \cup {low})
  BY SeqMonotonic
<1>3. /\ list \in Seq(T \cup {low}) /\ Len(list) = m + 1 /\ list[m + 1] = low
      /\ \A i \in 1..m : list[i] = recent[i]
  BY <1>2, AppendProperties
<1> HIDE DEF list, m
<1>4. LowAtEnd(list) >= 3 <=> Len(list) >= 3 /\ \A j \in Len(list) - 3 + 1 .. Len(list) : list[j]
  <2>1. 3 \in Nat \ {0}
    OBVIOUS
  <2> QED BY <1>3, <2>1, LowAtEndIs
<1>5. ASSUME m >= 2
      PROVE  (\A j \in Len(list) - 3 + 1 .. Len(list) : list[j]) <=> low /\ recent[m] /\ recent[m - 1]
  <2>1. Len(list) - 3 + 1 .. Len(list) = {m - 1, m, m + 1}
    BY <1>1, <1>3, <1>5
  <2>2. list[m] = recent[m] /\ list[m - 1] = recent[m - 1]
    BY <1>1, <1>3, <1>5
  <2> QED BY <1>3, <2>1, <2>2
<1>6. Len(list) >= 3 <=> m >= 2
  BY <1>1, <1>3
<1> QED BY <1>4, <1>5, <1>6 DEF ConsecutiveLow, list, m

\* A score that makes three low in a row with the recent ones has two others, or itself
\* and another, low in the store.
LEMMA TwoStored ==
    ASSUME NEW scores \in Seq(BOOLEAN), NEW S \in SUBSET (DOMAIN scores),
           LET recent == InOrder(scores, S)
               m == Cardinality(S)
           IN m >= 2 /\ recent[m] /\ recent[m - 1]
    PROVE  Cardinality({i \in DOMAIN scores : scores[i]}) >= 2
<1> DEFINE n == Len(scores)
           m == Cardinality(S)
           L == {i \in DOMAIN scores : scores[i]}
           a == AtRank(S, m)
           b == AtRank(S, m - 1)
<1>1. n \in Nat /\ DOMAIN scores = 1..n
  BY LenProperties
<1>2. m \in Nat
  BY <1>1, PartFinite
<1>3. a \in S /\ b \in S /\ a # b
  BY <1>1, LastRanks
<1>4. scores[a] /\ scores[b]
  BY <1>2 DEF InOrder
<1>5. IsFiniteSet(L)
  <2>1. L \in SUBSET (1..n)
    BY <1>1
  <2> HIDE DEF L, n
  <2> QED BY <1>1, <2>1, PartFinite
<1>6. {a, b} \in SUBSET L
  BY <1>3, <1>4
<1> HIDE DEF a, b, L
<1>7. Cardinality({a, b}) = 2
  <2>1. IsFiniteSet({a}) /\ Cardinality({a}) = 1
    BY FS_Singleton
  <2>2. Cardinality({a} \cup {b}) = IF b \in {a} THEN Cardinality({a}) ELSE Cardinality({a}) + 1
    BY <2>1, FS_AddElement
  <2>3. {a} \cup {b} = {a, b}
    OBVIOUS
  <2>4. b \notin {a}
    BY <1>3
  <2>5. Cardinality({a} \cup {b}) = 1 + 1
    BY <2>1, <2>2, <2>4, Zenon
  <2> QED BY <2>3, <2>5
<1>8. Cardinality({a, b}) <= Cardinality(L)
  BY <1>5, <1>6, FS_Subset
<1>9. Cardinality(L) \in Nat
  BY <1>5, FS_CardinalityType
<1> QED BY <1>7, <1>8, <1>9 DEF L

LEMMA DegradedStep ==
    ASSUME LowInARow = 3, ScorerTypeOK, ComputeTue
    PROVE  /\ ~blind /\ Len(lows') <= RecentLimit => (degraded' <=> LowLast(2))
           /\ degraded' => /\ ~blind /\ LowLast(1)
                           /\ Cardinality({i \in DOMAIN lows' : lows'[i]}) >= 2
<1> DEFINE low == Low(LastOf(toolCalls, TueWindow))
           scores == Append(lows, low)
           n == Len(scores)
<1>1. low \in BOOLEAN
  BY DEF Low
<1>2. PICK recent \in IF blind THEN {<<>>} ELSE Recent(lows') :
          degraded' = (ConsecutiveLow(recent, low) >= LowInARow)
  BY DEF ComputeTue
<1>3. ~blind => lows' = scores
  BY DEF ComputeTue
<1> HIDE DEF low
<1>4. scores \in Seq(BOOLEAN) /\ n \in Nat /\ n >= 1 /\ scores[n] = low /\ DOMAIN scores = 1..n
  <2>1. lows \in Seq(BOOLEAN) /\ Len(lows) \in Nat
    BY LenProperties DEF ScorerTypeOK
  <2>2. scores \in Seq(BOOLEAN) /\ n = Len(lows) + 1 /\ scores[Len(lows) + 1] = low
    BY <1>1, <2>1, AppendProperties
  <2> QED BY <2>1, <2>2, LenProperties
<1> HIDE DEF scores, n
<1>5. CASE blind
  <2>1. recent = <<>> /\ recent \in Seq(BOOLEAN) /\ Len(recent) = 0
    BY <1>2, <1>5, EmptySeq
  <2>2. ~(ConsecutiveLow(recent, low) >= LowInARow)
    <3>1. ConsecutiveLow(recent, low) >= LowInARow => Len(recent) >= 2
      <4>1. \A list \in Seq(BOOLEAN) : ConsecutiveLow(list, low) >= LowInARow => Len(list) >= 2
        BY <1>1, ThreeInARow
      <4> QED BY <2>1, <4>1
    <3> QED BY <2>1, <3>1
  <2> QED BY <1>2, <1>5, <2>2
<1>6. CASE ~blind
  <2>1. lows' = scores /\ recent \in Recent(scores)
    BY <1>2, <1>3, <1>6
  <2>2. PICK S \in SUBSET (DOMAIN scores) : recent = InOrder(scores, S)
    BY <2>1, RecentIs
  <2> DEFINE m == Cardinality(S)
             T == {recent[k] : k \in 1..m}
  <2>3. m \in Nat
    BY <1>4, PartFinite
  <2>4. recent \in Seq(T) /\ Len(recent) = m
    <3>1. DOMAIN recent = 1..m /\ recent = [k \in 1..m |-> recent[k]]
      BY <2>2 DEF InOrder
    <3>2. recent \in [1..m -> T]
      BY <3>1
    <3> HIDE DEF T, m
    <3>3. recent \in Seq(T)
      BY <2>3, <3>2, SeqDef
    <3>4. DOMAIN recent = 1..Len(recent) /\ Len(recent) \in Nat
      BY <3>3, LenProperties
    <3> QED BY <2>3, <3>1, <3>3, <3>4
  <2> HIDE DEF T, m
  <2>5. degraded' <=> low /\ m >= 2 /\ recent[m] /\ recent[m - 1]
    BY <1>1, <1>2, <2>4, ThreeInARow
  <2>6. ASSUME degraded'
        PROVE  LowLast(1) /\ Cardinality({i \in DOMAIN lows' : lows'[i]}) >= 2
    <3>1. LowLast(1)
      <4>1. n - 1 + 1 .. n = {n}
        BY <1>4
      <4> QED BY <1>4, <2>1, <2>5, <2>6, <4>1 DEF LowLast, n
    <3>2. Cardinality({i \in DOMAIN scores : scores[i]}) >= 2
      BY <1>4, <2>2, <2>5, <2>6, TwoStored DEF m
    <3> QED BY <2>1, <3>1, <3>2
  <2>7. ASSUME Len(lows') <= RecentLimit PROVE degraded' <=> LowLast(2)
    <3>1. recent = scores
      BY <1>4, <2>1, <2>7, AllAreRecent
    <3>2. m = n
      BY <2>4, <3>1 DEF n
    <3>3. LowLast(2) <=> n >= 2 /\ \A i \in n - 2 + 1 .. n : scores[i]
      BY <2>1 DEF LowLast, n
    <3>4. n - 2 + 1 .. n = {n - 1, n}
      BY <1>4
    <3> QED BY <1>4, <2>5, <3>1, <3>2, <3>3, <3>4
  <2> QED BY <1>6, <2>6, <2>7
<1> QED BY <1>5, <1>6

\* An agent is degraded by its second low utilization in a row, as the current one counts
\* twice, and never without a second low one in the store (compute_tue,
\* _check_consecutive_low_tue, with the code's three windows).
THEOREM DegradedHolds ==
    ASSUME LowInARow = 3
    PROVE  TelemetrySpec => DegradedAfterTwo
<1>1. TelemetrySpec => []ScorerTypeOK
  <2>1. TelemetryTypeOK => ScorerTypeOK
    BY DEF TelemetryTypeOK
  <2> QED BY <2>1, TelemetryTypeCorrect, PTL
<1> DEFINE Found == ComputeTue =>
           /\ ~blind /\ Len(lows') <= RecentLimit => (degraded' <=> LowLast(2))
           /\ degraded' => ~blind /\ LowLast(1)
                           /\ Cardinality({i \in DOMAIN lows' : lows'[i]}) >= 2
<1>2. ScorerTypeOK => Found
  BY DegradedStep
<1>3. DegradedAfterTwo <=> [][Found]_scorer
  BY DEF DegradedAfterTwo
<1> QED BY <1>1, <1>2, <1>3, PTL
================================================================================
