------------------------- MODULE WindowMetricsProofs -------------------------
(***************************************************************************)
(* What the sums over facts and over histograms are, for every finite set  *)
(* of facts, and that the percentiles taken from histograms are those of   *)
(* the requests themselves.  The library's induction theorems have an      *)
(* operator as a parameter; the inductions here are on a least             *)
(* counterexample, which is an element of a set.                           *)
(***************************************************************************)
EXTENDS WindowMetrics, FiniteSetTheorems, WellFoundedInduction, TLAPS

-----------------------------------------------------------------------------
(* Least elements                                                            *)

LEMMA LeastNumber ==
    ASSUME NEW T, T \subseteq Nat, T # {}
    PROVE  \E m \in T : \A n \in T : m <= n
<1>1. PICK m \in T : \A n \in T : <<n, m>> \notin OpToRel(<, Nat)
  BY WFMin, NatLessThanWellFounded, Zenon
<1>2. \A n \in T : ~(n < m)
  BY <1>1, Zenon DEF OpToRel
<1> QED
  BY <1>2

LEMMA LeastSubset ==
    ASSUME NEW S, IsFiniteSet(S), NEW P, P \subseteq SUBSET S, P # {}
    PROVE  \E T \in P : \A U \in P : U \subseteq T => U = T
<1>1. P \subseteq FiniteSubsetsOf(S)
  BY FS_Subset DEF FiniteSubsetsOf
<1>2. PICK T \in P : \A U \in P : <<U, T>> \notin StrictSubsetOrdering(S)
  BY <1>1, WFMin, FS_StrictSubsetOrderingWellFounded, Zenon
<1> QED
  BY <1>2 DEF StrictSubsetOrdering

-----------------------------------------------------------------------------
(* Sums over finite sets: MapThenSumSet takes the elements in an order that  *)
(* CHOOSE gives, and what it adds up does not depend on it.                  *)

Some(s) == CHOOSE x \in s : TRUE
SumStep(g, weight, s) == IF s = {} THEN 0 ELSE weight[Some(s)] + g[s \ {Some(s)}]
IsSum(g, weight, S) == g = [s \in SUBSET S |-> SumStep(g, weight, s)]
SumOver(weight, S) == (CHOOSE g : IsSum(g, weight, S))[S]

LEMMA SomeIsIn == ASSUME NEW s, s # {} PROVE Some(s) \in s
BY DEF Some

LEMMA SumsUnfold ==
    ASSUME NEW S, NEW g, NEW weight, IsSum(g, weight, S), NEW s \in SUBSET S
    PROVE  g[s] = SumStep(g, weight, s)
<1> DEFINE e == [t \in SUBSET S |-> SumStep(g, weight, t)]
<1>1. g = e
  BY DEF IsSum
<1>2. e[s] = SumStep(g, weight, s)
  OBVIOUS
<1> QED
  BY <1>1, <1>2, Zenon

LEMMA SumsAgree ==
    ASSUME NEW S, NEW T, NEW weight, NEW g, NEW h,
           IsSum(g, weight, S), IsSum(h, weight, T),
           NEW U, U \subseteq S, U \subseteq T, IsFiniteSet(U)
    PROVE  g[U] = h[U]
<1> DEFINE bad == {V \in SUBSET U : g[V] # h[V]}
<1> SUFFICES ASSUME bad # {} PROVE FALSE
  OBVIOUS
<1>0. bad \subseteq SUBSET U
  OBVIOUS
<1> HIDE DEF bad
<1>1. PICK V \in bad : \A W \in bad : W \subseteq V => W = V
  BY <1>0, LeastSubset
<1> USE DEF bad
<1>2. V \subseteq U /\ V \subseteq S /\ V \subseteq T /\ g[V] # h[V]
  OBVIOUS
<1>3. g[V] = SumStep(g, weight, V) /\ h[V] = SumStep(h, weight, V)
  BY <1>2, SumsUnfold
<1>4. V # {}
  BY <1>2, <1>3 DEF SumStep
<1>5. g[V \ {Some(V)}] = h[V \ {Some(V)}]
  BY <1>1, <1>4, SomeIsIn
<1> QED
  BY <1>2, <1>3, <1>5 DEF SumStep

LEMMA SumsExist ==
    ASSUME NEW S, IsFiniteSet(S), NEW weight
    PROVE  \E g : IsSum(g, weight, S)
<1> DEFINE bad == {T \in SUBSET S : ~\E g : IsSum(g, weight, T)}
<1> SUFFICES ASSUME bad # {} PROVE FALSE
  OBVIOUS
<1>0. bad \subseteq SUBSET S
  OBVIOUS
<1> HIDE DEF bad
<1>1. PICK T \in bad : \A U \in bad : U \subseteq T => U = T
  BY <1>0, LeastSubset
<1> USE DEF bad
<1> DEFINE sum(s) == CHOOSE g : IsSum(g, weight, s)
<1> DEFINE value == [s \in SUBSET T |-> sum(s)[s]]
<1> DEFINE total == [s \in SUBSET T |-> SumStep(value, weight, s)]
<1>2. ASSUME NEW s \in SUBSET T, s # T
      PROVE  IsSum(sum(s), weight, s) /\ IsFiniteSet(s)
  <2>1. \E g : IsSum(g, weight, s)
    BY <1>1, <1>2
  <2>2. IsFiniteSet(s)
    BY FS_Subset
  <2> QED
    BY <2>1, <2>2, Zenon
<1> HIDE DEF sum
<1>3. ASSUME NEW s \in SUBSET T, s # T
      PROVE  total[s] = value[s]
  <2>1. value[s] = SumStep(sum(s), weight, s)
    BY <1>2, <1>3, SumsUnfold
  <2>2. ASSUME s # {}
        PROVE  sum(s)[s \ {Some(s)}] = value[s \ {Some(s)}]
    <3> DEFINE r == s \ {Some(s)}
    <3>1. r \in SUBSET T /\ r # T /\ r \subseteq s
      BY <1>3
    <3>2. IsSum(sum(r), weight, r) /\ IsFiniteSet(r)
      BY <1>2, <3>1
    <3>3. sum(s)[r] = sum(r)[r]
      BY <1>2, <1>3, <3>1, <3>2, SumsAgree
    <3> QED
      BY <3>1, <3>3
  <2> QED
    BY <2>1, <2>2 DEF SumStep
<1>4. \A s \in SUBSET T : SumStep(value, weight, s) = SumStep(total, weight, s)
  <2> SUFFICES ASSUME NEW s \in SUBSET T, s # {}
               PROVE  value[s \ {Some(s)}] = total[s \ {Some(s)}]
    BY DEF SumStep
  <2>1. s \ {Some(s)} \in SUBSET T /\ s \ {Some(s)} # T
    BY SomeIsIn
  <2> QED
    BY <1>3, <2>1
<1> HIDE DEF value
<1>5. total = [s \in SUBSET T |-> SumStep(total, weight, s)]
  <2> DEFINE again == [s \in SUBSET T |-> SumStep(total, weight, s)]
  <2>1. \A s \in SUBSET T : total[s] = again[s]
    BY <1>4
  <2>2. total = [s \in SUBSET T |-> total[s]] /\ again = [s \in SUBSET T |-> again[s]]
    OBVIOUS
  <2> HIDE DEF total, again
  <2>3. total = again
    BY <2>1, <2>2
  <2> QED
    BY <2>3 DEF again
<1>6. IsSum(total, weight, T)
  BY <1>5, Zenon DEF IsSum
<1> QED
  BY <1>1, <1>6, Zenon

LEMMA SumIs ==
    ASSUME NEW S, NEW weight, NEW g, IsSum(g, weight, S), NEW T \in SUBSET S, IsFiniteSet(T)
    PROVE  SumOver(weight, T) = g[T]
<1>1. IsSum((CHOOSE h : IsSum(h, weight, T)), weight, T)
  BY SumsExist, Zenon
<1> DEFINE h == CHOOSE h : IsSum(h, weight, T)
<1> HIDE DEF h
<1>2. h[T] = g[T]
  BY <1>1, SumsAgree DEF h
<1> QED
  BY <1>2 DEF SumOver, h

LEMMA SumOfNone == ASSUME NEW weight PROVE SumOver(weight, {}) = 0
<1>1. PICK g : IsSum(g, weight, {})
  BY SumsExist, FS_EmptySet
<1>2. SumOver(weight, {}) = g[{}]
  BY <1>1, SumIs, FS_EmptySet
<1>3. g[{}] = SumStep(g, weight, {})
  BY <1>1, SumsUnfold
<1> QED
  BY <1>2, <1>3 DEF SumStep

LEMMA SumUnfolds ==
    ASSUME NEW S, IsFiniteSet(S), S # {}, NEW weight
    PROVE  SumOver(weight, S) = weight[Some(S)] + SumOver(weight, S \ {Some(S)})
<1>1. PICK g : IsSum(g, weight, S)
  BY SumsExist
<1>2. IsFiniteSet(S \ {Some(S)})
  BY FS_Subset
<1>3. SumOver(weight, S) = g[S] /\ SumOver(weight, S \ {Some(S)}) = g[S \ {Some(S)}]
  BY <1>1, <1>2, SumIs
<1>4. g[S] = SumStep(g, weight, S)
  BY <1>1, SumsUnfold
<1> QED
  BY <1>3, <1>4 DEF SumStep

LEMMA SumIsNatural ==
    ASSUME NEW S, IsFiniteSet(S), NEW weight, \A x \in S : weight[x] \in Nat
    PROVE  SumOver(weight, S) \in Nat
<1> DEFINE bad == {T \in SUBSET S : SumOver(weight, T) \notin Nat}
<1> SUFFICES ASSUME bad # {} PROVE FALSE
  OBVIOUS
<1>0. bad \subseteq SUBSET S
  OBVIOUS
<1> HIDE DEF bad
<1>1. PICK T \in bad : \A U \in bad : U \subseteq T => U = T
  BY <1>0, LeastSubset
<1> USE DEF bad
<1>2. T # {} /\ IsFiniteSet(T)
  <2>1. SumOver(weight, T) \notin Nat /\ T \subseteq S
    OBVIOUS
  <2>2. T # {}
    BY <2>1, SumOfNone
  <2> QED
    BY <2>1, <2>2, FS_Subset
<1>3. Some(T) \in T /\ SumOver(weight, T) = weight[Some(T)] + SumOver(weight, T \ {Some(T)})
  BY <1>2, SomeIsIn, SumUnfolds
<1>4. T \ {Some(T)} \notin bad
  BY <1>1, <1>3
<1> QED
  BY <1>3, <1>4

LEMMA SumTakesAny ==
    ASSUME NEW S, IsFiniteSet(S), NEW weight, \A x \in S : weight[x] \in Nat, NEW x \in S
    PROVE  SumOver(weight, S) = weight[x] + SumOver(weight, S \ {x})
<1> DEFINE bad == {T \in SUBSET S : \E y \in T : SumOver(weight, T) # weight[y] + SumOver(weight, T \ {y})}
<1> SUFFICES ASSUME bad # {} PROVE FALSE
  OBVIOUS
<1>0. bad \subseteq SUBSET S
  OBVIOUS
<1> HIDE DEF bad
<1>1. PICK T \in bad : \A U \in bad : U \subseteq T => U = T
  BY <1>0, LeastSubset
<1> USE DEF bad
<1>2. PICK y \in T : SumOver(weight, T) # weight[y] + SumOver(weight, T \ {y})
  OBVIOUS
<1> DEFINE z == Some(T)
<1>3. z \in T /\ SumOver(weight, T) = weight[z] + SumOver(weight, T \ {z})
  BY <1>2, SomeIsIn, SumUnfolds, FS_Subset
<1> HIDE DEF z
<1>4. y # z
  BY <1>2, <1>3
<1>5. SumOver(weight, T \ {z}) = weight[y] + SumOver(weight, (T \ {z}) \ {y})
  BY <1>1, <1>2, <1>3, <1>4
<1>6. SumOver(weight, T \ {y}) = weight[z] + SumOver(weight, (T \ {y}) \ {z})
  BY <1>1, <1>2, <1>3, <1>4
<1>7. (T \ {z}) \ {y} = (T \ {y}) \ {z}
  OBVIOUS
<1>8. SumOver(weight, (T \ {y}) \ {z}) \in Nat
  BY SumIsNatural, FS_Subset
<1>9. weight[y] \in Nat /\ weight[z] \in Nat
  BY <1>2, <1>3
<1> HIDE DEF bad
<1> QED
  BY <1>2, <1>3, <1>5, <1>6, <1>7, <1>8, <1>9

LEMMA SumOfUnion ==
    ASSUME NEW S, NEW T, IsFiniteSet(S), IsFiniteSet(T), S \cap T = {},
           NEW weight, \A x \in S \cup T : weight[x] \in Nat
    PROVE  SumOver(weight, S \cup T) = SumOver(weight, S) + SumOver(weight, T)
<1> DEFINE bad == {R \in SUBSET S : SumOver(weight, R \cup T) # SumOver(weight, R) + SumOver(weight, T)}
<1> SUFFICES ASSUME bad # {} PROVE FALSE
  OBVIOUS
<1>0. bad \subseteq SUBSET S
  OBVIOUS
<1> HIDE DEF bad
<1>1. PICK R \in bad : \A U \in bad : U \subseteq R => U = R
  BY <1>0, LeastSubset
<1> USE DEF bad
<1>2. SumOver(weight, T) \in Nat
  BY SumIsNatural
<1>3. R # {}
  <2> SUFFICES ASSUME R = {} PROVE FALSE
    OBVIOUS
  <2>1. R \cup T = T
    OBVIOUS
  <2> QED
    BY <1>2, <2>1, SumOfNone
<1>4. PICK x \in R : TRUE
  BY <1>3
<1> DEFINE left == R \ {x}
<1>5. IsFiniteSet(R) /\ IsFiniteSet(R \cup T) /\ IsFiniteSet(left)
  BY FS_Subset, FS_Union
<1>6. SumOver(weight, R) = weight[x] + SumOver(weight, left)
  BY <1>4, <1>5, SumTakesAny
<1>7. (R \cup T) \ {x} = left \cup T
  BY <1>4
<1>8. SumOver(weight, R \cup T) = weight[x] + SumOver(weight, left \cup T)
  BY <1>4, <1>5, <1>7, SumTakesAny
<1>9. SumOver(weight, left \cup T) = SumOver(weight, left) + SumOver(weight, T)
  BY <1>1, <1>4
<1>10. SumOver(weight, left) \in Nat /\ weight[x] \in Nat
  BY <1>4, <1>5, SumIsNatural
<1> QED
  BY <1>2, <1>6, <1>8, <1>9, <1>10

-----------------------------------------------------------------------------
(* Counts of requests                                                        *)

Counts == [f \in Fact |-> f.count]

LEMMA CountIsSum ==
    ASSUME NEW facts \in SUBSET Fact, IsFiniteSet(facts)
    PROVE  Count(facts) = SumOver(Counts, facts)
<1> DEFINE IsCount(g) ==
       g = [s \in SUBSET facts |-> IF s = {} THEN 0 ELSE LET x == CHOOSE x \in s : TRUE IN x.count + g[s \ {x}]]
<1> DEFINE chosen == CHOOSE g : IsCount(g)
<1>1. Count(facts) = chosen[facts]
  BY DEF Count, MapThenSumSet, MapThenFoldSet
<1>2. \A s \in SUBSET facts : s # {} => Counts[Some(s)] = (CHOOSE x \in s : TRUE).count
  BY SomeIsIn DEF Some, Counts
<1>3. \A g : IsCount(g) <=> IsSum(g, Counts, facts)
  BY SMT, <1>2 DEF IsSum, SumStep, Some
<1> HIDE DEF IsCount
<1>4. IsCount(chosen)
  <2>1. \E g : IsCount(g)
    BY <1>3, SumsExist
  <2> QED
    BY <2>1, Zenon
<1> HIDE DEF chosen
<1>5. SumOver(Counts, facts) = chosen[facts]
  BY <1>3, <1>4, SumIs
<1> QED
  BY <1>1, <1>5

LEMMA CountOfUnion ==
    ASSUME NEW S \in SUBSET Fact, NEW T \in SUBSET Fact, IsFiniteSet(S), IsFiniteSet(T), S \cap T = {}
    PROVE  /\ Count(S \cup T) = Count(S) + Count(T)
           /\ Count(S) \in Nat /\ Count(T) \in Nat
<1>1. \A f \in S \cup T : Counts[f] \in Nat
  BY DEF Counts, Fact
<1>2. SumOver(Counts, S \cup T) = SumOver(Counts, S) + SumOver(Counts, T)
  BY <1>1, SumOfUnion
<1>3. SumOver(Counts, S) \in Nat /\ SumOver(Counts, T) \in Nat
  BY <1>1, SumIsNatural
<1> QED
  BY <1>2, <1>3, CountIsSum, FS_Union

LEMMA CountOfNone == Count({}) = 0
BY CountIsSum, SumOfNone, FS_EmptySet

-----------------------------------------------------------------------------
(* Histograms                                                                *)

LEMMA CumulativeIsSum ==
    ASSUME NEW histogram, NEW b \in Nat
    PROVE  Cumulative(histogram, b) = SumOver(histogram, 1 .. b)
<1> DEFINE IsTotal(g) ==
       g = [s \in SUBSET (1 .. b) |->
              IF s = {} THEN 0 ELSE LET x == CHOOSE x \in s : TRUE IN histogram[x] + g[s \ {x}]]
<1> DEFINE chosen == CHOOSE g : IsTotal(g)
<1>1. Cumulative(histogram, b) = chosen[1 .. b]
  BY DEF Cumulative, MapThenSumSet, MapThenFoldSet
<1>2. \A g : IsTotal(g) <=> IsSum(g, histogram, 1 .. b)
  BY DEF IsSum, SumStep, Some
<1>3. IsFiniteSet(1 .. b)
  BY FS_Interval
<1> HIDE DEF IsTotal
<1>4. IsTotal(chosen)
  <2>1. \E g : IsTotal(g)
    BY <1>2, <1>3, SumsExist
  <2> QED
    BY <2>1, Zenon
<1> HIDE DEF chosen
<1>5. SumOver(histogram, 1 .. b) = chosen[1 .. b]
  BY <1>2, <1>3, <1>4, SumIs
<1> QED
  BY <1>1, <1>5

LEMMA CumulativeGrows ==
    ASSUME NEW histogram, NEW b \in Nat \ {0}, \A i \in 1 .. b : histogram[i] \in Nat
    PROVE  Cumulative(histogram, b) = Cumulative(histogram, b - 1) + histogram[b]
<1>1. b - 1 \in Nat /\ (1 .. b) \ {b} = 1 .. b - 1 /\ b \in 1 .. b
  OBVIOUS
<1>2. IsFiniteSet(1 .. b) /\ IsFiniteSet(1 .. b - 1)
  BY <1>1, FS_Interval
<1>3. SumOver(histogram, 1 .. b) = histogram[b] + SumOver(histogram, (1 .. b) \ {b})
  BY <1>1, <1>2, SumTakesAny
<1>4. SumOver(histogram, 1 .. b - 1) \in Nat /\ histogram[b] \in Nat
  <2>1. \A i \in 1 .. b - 1 : histogram[i] \in Nat
    OBVIOUS
  <2> QED
    BY <1>1, <1>2, <2>1, SumIsNatural
<1>5. /\ Cumulative(histogram, b) = SumOver(histogram, 1 .. b)
      /\ Cumulative(histogram, b - 1) = SumOver(histogram, 1 .. b - 1)
  BY <1>1, CumulativeIsSum
<1>6. Cumulative(histogram, b) = histogram[b] + Cumulative(histogram, b - 1)
  BY <1>1, <1>3, <1>5, Zenon
<1>7. Cumulative(histogram, b - 1) \in Nat
  BY <1>4, <1>5, Zenon
<1> QED
  BY <1>4, <1>6, <1>7

LEMMA BoundsAscend ==
    /\ Len(Bounds) = 16 /\ LatencyBucketCount = 17
    /\ \A i \in 1 .. 16 : Bounds[i] \in Nat
    /\ \A i, j \in 1 .. 16 : i < j => Bounds[i] < Bounds[j]
BY DEF Bounds, LatencyBucketCount

LEMMA LastBound == Bounds[16] = 600000
BY SMT DEF Bounds

\* A time is in one of the first b buckets exactly if the b-th bound is not below it.
LEMMA BucketsAreBounded ==
    ASSUME NEW ms \in Nat
    PROVE  /\ BucketOf(ms) \in 1 .. LatencyBucketCount
           /\ \A b \in 1 .. 16 : BucketOf(ms) <= b <=> ms <= Bounds[b]
<1> DEFINE below == {i \in 1 .. Len(Bounds) : Bounds[i] < ms}
<1>1. \A n \in Nat : IsFiniteSet(1 .. n) /\ Cardinality(1 .. n) = n
  BY FS_Interval
<1>2. IsFiniteSet(below) /\ Cardinality(below) \in 0 .. 16
  <2>1. below \subseteq 1 .. 16 /\ 16 \in Nat
    BY BoundsAscend
  <2>2. IsFiniteSet(1 .. 16) /\ Cardinality(1 .. 16) = 16
    BY <1>1, <2>1
  <2>3. IsFiniteSet(below) /\ Cardinality(below) <= 16
    BY <2>1, <2>2, FS_Subset
  <2> QED
    BY <2>3, FS_CardinalityType
<1>3. ASSUME NEW b \in 1 .. 16, ms <= Bounds[b]
      PROVE  Cardinality(below) <= b - 1
  <2>1. below \subseteq 1 .. b - 1 /\ b - 1 \in Nat
    BY <1>3, BoundsAscend
  <2> QED
    BY <1>1, <2>1, FS_Subset
<1>4. ASSUME NEW b \in 1 .. 16, ~(ms <= Bounds[b])
      PROVE  Cardinality(below) >= b
  <2>1. 1 .. b \subseteq below /\ b \in Nat
    BY <1>4, BoundsAscend
  <2> QED
    BY <1>1, <1>2, <2>1, FS_Subset
<1>5. BucketOf(ms) = Cardinality(below) + 1
  BY DEF BucketOf
<1> HIDE DEF below
<1> QED
  BY <1>2, <1>3, <1>4, <1>5, BoundsAscend

Fields == {"ttft", "duration"}
UpToBucket(facts, field, b) == {f \in Timed(facts, field) : BucketOf(f[field]) <= b}

LEMMA TimesAreKnown ==
    ASSUME NEW facts \in SUBSET Fact, NEW field \in Fields
    PROVE  /\ Timed(facts, field) \in SUBSET Fact
           /\ \A f \in Timed(facts, field) : f[field] \in Nat
BY DEF Timed, Fact, Minutes, Fields, Unknown

\* What a histogram has up to a bucket are the requests of those buckets.
LEMMA HistogramsCount ==
    ASSUME NEW facts \in SUBSET Fact, IsFiniteSet(facts), NEW field \in Fields
    PROVE  \A b \in 0 .. LatencyBucketCount :
              Cumulative(Histogram(facts, field), b) = Count(UpToBucket(facts, field, b))
<1> DEFINE h == Histogram(facts, field)
<1> DEFINE upTo(b) == UpToBucket(facts, field, b)
<1> DEFINE in(b) == {f \in Timed(facts, field) : BucketOf(f[field]) = b}
<1> DEFINE bad == {b \in 0 .. LatencyBucketCount : Cumulative(h, b) # Count(upTo(b))}
<1>1. \A f \in Timed(facts, field) : BucketOf(f[field]) \in 1 .. LatencyBucketCount
  BY TimesAreKnown, BucketsAreBounded
<1>2. \A b : /\ upTo(b) \in SUBSET Fact /\ IsFiniteSet(upTo(b))
             /\ in(b) \in SUBSET Fact /\ IsFiniteSet(in(b))
  <2> SUFFICES ASSUME NEW b
               PROVE  /\ upTo(b) \in SUBSET Fact /\ IsFiniteSet(upTo(b))
                      /\ in(b) \in SUBSET Fact /\ IsFiniteSet(in(b))
    OBVIOUS
  <2>1. upTo(b) \subseteq facts /\ in(b) \subseteq facts
    BY DEF UpToBucket, Timed
  <2> QED
    BY <2>1, FS_Subset
<1>3. \A b \in 1 .. LatencyBucketCount : h[b] = Count(in(b)) /\ Count(in(b)) \in Nat
  <2>1. \A b : Count(in(b)) \in Nat
    BY <1>2, CountOfUnion, FS_EmptySet
  <2> QED
    BY <2>1 DEF Histogram
<1>4. LatencyBucketCount = 17
  BY BoundsAscend
<1> SUFFICES ASSUME bad # {} PROVE FALSE
  OBVIOUS
<1>5. PICK b \in bad : \A c \in bad : b <= c
  <2>1. bad \subseteq Nat
    BY <1>4
  <2> HIDE DEF bad
  <2> QED
    BY <2>1, LeastNumber
<1>6. b \in 0 .. 17 /\ Cumulative(h, b) # Count(upTo(b))
  BY <1>4
<1>7. b # 0
  <2> SUFFICES ASSUME b = 0 PROVE FALSE
    OBVIOUS
  <2>1. Cumulative(h, 0) = 0
    <3>1. 1 .. 0 = {} /\ 0 \in Nat
      OBVIOUS
    <3> QED
      BY <3>1, CumulativeIsSum, SumOfNone
  <2>2. upTo(0) = {}
    BY <1>1, <1>4 DEF UpToBucket
  <2> QED
    BY <1>6, <2>1, <2>2, CountOfNone
<1>8. Cumulative(h, b) = Cumulative(h, b - 1) + h[b]
  <2>1. b \in Nat \ {0} /\ \A i \in 1 .. b : i \in 1 .. LatencyBucketCount
    BY <1>4, <1>6, <1>7
  <2>2. \A i \in 1 .. b : h[i] \in Nat
    BY <1>3, <2>1
  <2> HIDE DEF h
  <2> QED
    BY <2>1, <2>2, CumulativeGrows
<1>9. Cumulative(h, b - 1) = Count(upTo(b - 1))
  <2>1. b - 1 \notin bad /\ b - 1 \in 0 .. LatencyBucketCount
    BY <1>4, <1>5, <1>6, <1>7
  <2> QED
    BY <2>1
<1>10. upTo(b) = upTo(b - 1) \cup in(b) /\ upTo(b - 1) \cap in(b) = {}
  BY <1>1, <1>4, <1>6, <1>7 DEF UpToBucket
<1>11. Count(upTo(b)) = Count(upTo(b - 1)) + Count(in(b))
  <2> HIDE DEF upTo, in
  <2> QED
    BY <1>2, <1>10, CountOfUnion
<1>12. h[b] = Count(in(b))
  <2>1. b \in 1 .. LatencyBucketCount
    BY <1>4, <1>6, <1>7
  <2> HIDE DEF h, in
  <2> QED
    BY <1>3, <2>1
<1> QED
  BY <1>6, <1>8, <1>9, <1>11, <1>12

-----------------------------------------------------------------------------
(* Percentiles                                                               *)

\* The rank is the least number that is not below the given part of the samples.
LEMMA RankIsLeast ==
    ASSUME NEW samples \in Nat, NEW percentile \in 1 .. 100
    PROVE  /\ PercentileRank(samples, percentile) \in 0 .. samples
           /\ \A k \in Nat : k >= PercentileRank(samples, percentile) <=> 100 * k >= percentile * samples
<1> DEFINE q == samples \div 100
<1> DEFINE r == samples % 100
<1>1. q \in Nat /\ r \in 0 .. 99 /\ samples = 100 * q + r
  OBVIOUS
<1> HIDE DEF q, r
<1>2. q * percentile \in Nat /\ r * percentile \in Nat /\ r * percentile <= 100 * r /\ q * percentile <= 100 * q
  BY <1>1
<1>3. percentile * samples = 100 * (q * percentile) + r * percentile
  BY <1>1
<1>4. PercentileRank(samples, percentile) = q * percentile + (r * percentile + 99) \div 100
  BY DEF PercentileRank, q, r
<1> QED
  BY <1>1, <1>2, <1>3, <1>4

LEMMA MinIsLeast ==
    ASSUME NEW S, S \subseteq Nat, S # {}
    PROVE  Min(S) \in S /\ \A x \in S : Min(S) <= x
<1>1. \E m \in S : \A n \in S : m <= n
  BY LeastNumber
<1> QED
  BY <1>1, Zenon DEF Min

\* The bucket of a percentile is the first up to which there are enough requests.
LEMMA PercentileIsLeast ==
    ASSUME NEW facts \in SUBSET Fact, IsFiniteSet(facts), NEW field \in Fields, NEW percentile \in 1 .. 100
    PROVE  LET b == Percentile(Histogram(facts, field), percentile)
               enough(i) == 100 * Count(UpToBucket(facts, field, i)) >= percentile * Count(Timed(facts, field))
           IN  /\ b \in 1 .. LatencyBucketCount
               /\ \A i \in 1 .. LatencyBucketCount : i >= b => enough(i)
               /\ \A i \in 1 .. b - 1 : ~enough(i)
<1> DEFINE upTo(i) == Count(UpToBucket(facts, field, i))
<1> DEFINE samples == Count(Timed(facts, field))
<1> DEFINE rank == PercentileRank(samples, percentile)
<1> DEFINE buckets == {i \in 1 .. LatencyBucketCount : upTo(i) >= rank}
<1>1. LatencyBucketCount = 17
  BY BoundsAscend
<1>2. UpToBucket(facts, field, 17) = Timed(facts, field)
  <2>1. \A f \in Timed(facts, field) : BucketOf(f[field]) <= 17
    BY <1>1, TimesAreKnown, BucketsAreBounded
  <2> QED
    BY <2>1 DEF UpToBucket
<1>3. \A i \in 0 .. 17 : /\ IsFiniteSet(UpToBucket(facts, field, i))
                         /\ UpToBucket(facts, field, i) \in SUBSET Fact
  <2>1. \A i \in 0 .. 17 : UpToBucket(facts, field, i) \subseteq facts
    BY DEF UpToBucket, Timed
  <2> QED
    BY <2>1, FS_Subset
<1>4. \A i \in 0 .. 17 : upTo(i) \in Nat
  BY <1>3, CountOfUnion, FS_EmptySet
<1>5. \A i \in 0 .. 17 : Cumulative(Histogram(facts, field), i) = upTo(i)
  BY <1>1, HistogramsCount
<1>6. samples = upTo(17) /\ samples \in Nat
  BY <1>2, <1>4
<1>7. rank \in 0 .. samples /\ \A k \in Nat : k >= rank <=> 100 * k >= percentile * samples
  BY <1>6, RankIsLeast
<1>8. Percentile(Histogram(facts, field), percentile) = Min(buckets)
  <2>1. Cumulative(Histogram(facts, field), LatencyBucketCount) = samples
    BY <1>1, <1>5, <1>6
  <2>2. {i \in 1 .. LatencyBucketCount : Cumulative(Histogram(facts, field), i) >= rank} = buckets
    BY <1>1, <1>5
  <2> HIDE DEF samples, buckets
  <2> QED
    BY <2>1, <2>2 DEF Percentile
<1>9. Min(buckets) \in buckets /\ \A i \in buckets : Min(buckets) <= i
  <2>1. 17 \in buckets
    BY <1>1, <1>6, <1>7
  <2>2. buckets \subseteq Nat
    BY <1>1
  <2> QED
    BY <2>1, <2>2, MinIsLeast
<1>10. \A i \in 1 .. 17 : i >= Min(buckets) => upTo(i) >= upTo(Min(buckets))
  <2> SUFFICES ASSUME NEW i \in 1 .. 17, i >= Min(buckets)
               PROVE  upTo(i) >= upTo(Min(buckets))
    OBVIOUS
  <2> DEFINE b == Min(buckets)
  <2> DEFINE all == UpToBucket(facts, field, i)
  <2> DEFINE few == UpToBucket(facts, field, b)
  <2>1. b \in 1 .. 17
    BY <1>1, <1>9
  <2> HIDE DEF b
  <2>2. few \subseteq all
    <3>1. \A f \in Timed(facts, field) : BucketOf(f[field]) \in 1 .. 17
      BY <1>1, TimesAreKnown, BucketsAreBounded
    <3>2. i >= b
      BY DEF b
    <3> QED
      BY <2>1, <3>1, <3>2 DEF UpToBucket
  <2>3. /\ few \in SUBSET Fact /\ IsFiniteSet(few)
        /\ all \ few \in SUBSET Fact /\ IsFiniteSet(all \ few)
    BY <1>3, <2>1, FS_Subset
  <2> HIDE DEF all, few
  <2>4. few \cup (all \ few) = all /\ few \cap (all \ few) = {}
    BY <2>2
  <2>5. Count(all) = Count(few) + Count(all \ few) /\ Count(few) \in Nat /\ Count(all \ few) \in Nat
    BY <2>3, <2>4, CountOfUnion
  <2>6. Count(all) >= Count(few)
    BY <2>5
  <2> QED
    BY <2>6 DEF all, few, b
<1> HIDE DEF upTo, samples, rank
<1>11. \A i \in 1 .. 17 : i \in buckets <=> 100 * upTo(i) >= percentile * samples
  BY <1>1, <1>4, <1>7
<1>12. \A i \in 1 .. 17 : i >= Min(buckets) => i \in buckets
  <2>1. Min(buckets) \in 1 .. 17 /\ upTo(Min(buckets)) >= rank
    BY <1>1, <1>9
  <2> QED
    BY <1>1, <1>4, <1>7, <1>10, <2>1
<1>13. Min(buckets) \in 1 .. 17 /\ \A i \in 1 .. Min(buckets) - 1 : i \in 1 .. 17 /\ i \notin buckets
  BY <1>1, <1>9
<1> HIDE DEF buckets
<1> QED
  BY <1>1, <1>8, <1>11, <1>12, <1>13 DEF upTo, samples

\* The latency of a percentile is the least bound that the given part of the
\* requests kept to, unless it is beyond all bounds (ReadPercentile's rank in a
\* histogram of scoring).
THEOREM LatencyIsNearestRank ==
    ASSUME NEW facts \in SUBSET Fact, IsFiniteSet(facts), NEW field \in Fields, NEW percentile \in 1 .. 100
    PROVE  NearestRank(facts, field, percentile)
<1> DEFINE b == Percentile(Histogram(facts, field), percentile)
<1> DEFINE upTo(t) == 100 * Count({f \in Timed(facts, field) : f[field] <= t})
<1> DEFINE enough == percentile * Count(Timed(facts, field))
<1>1. /\ b \in 1 .. LatencyBucketCount
      /\ 100 * Count(UpToBucket(facts, field, b)) >= enough
      /\ \A i \in 1 .. b - 1 : ~(100 * Count(UpToBucket(facts, field, i)) >= enough)
  BY PercentileIsLeast
<1> HIDE DEF b
<1>2. \A i \in 1 .. 16 : 100 * Count(UpToBucket(facts, field, i)) = upTo(Bounds[i])
  <2> SUFFICES ASSUME NEW i \in 1 .. 16
               PROVE  UpToBucket(facts, field, i) = {f \in Timed(facts, field) : f[field] <= Bounds[i]}
    OBVIOUS
  <2> QED
    BY TimesAreKnown, BucketsAreBounded DEF UpToBucket
<1>3. Latency(facts, field, percentile) = PercentileValue(b)
  BY DEF Latency, b
<1>4. ASSUME NEW i \in 1 .. 16
      PROVE  upTo(Bounds[i]) \in Int
  <2> DEFINE kept == {f \in Timed(facts, field) : f[field] <= Bounds[i]}
  <2>1. kept \subseteq facts
    BY DEF Timed
  <2> HIDE DEF kept
  <2>2. IsFiniteSet(kept) /\ kept \in SUBSET Fact
    BY <2>1, FS_Subset
  <2>3. Count(kept) \in Nat
    BY <2>2, CountOfUnion, FS_EmptySet
  <2>4. upTo(Bounds[i]) = 100 * Count(kept)
    BY DEF kept
  <2> QED
    BY <2>3, <2>4
<1>5. enough \in Int
  <2>1. Timed(facts, field) \subseteq facts
    BY DEF Timed
  <2>2. Count(Timed(facts, field)) \in Nat
    BY <2>1, FS_Subset, CountOfUnion, FS_EmptySet
  <2> QED
    BY <2>2
<1> HIDE DEF upTo, enough
<1> SUFFICES ASSUME PercentileValue(b) < 600000
             PROVE  /\ upTo(PercentileValue(b)) >= enough
                    /\ \A i \in 1 .. 16 : Bounds[i] < PercentileValue(b) => upTo(Bounds[i]) < enough
  BY SMT, <1>3, BoundsAscend, LastBound DEF NearestRank, upTo, enough
<1>6. b \in 1 .. 15 /\ PercentileValue(b) = Bounds[b]
  BY SMT, <1>1, BoundsAscend, LastBound DEF PercentileValue
<1>7. \A i \in 1 .. 16 : Bounds[i] < Bounds[b] => i \in 1 .. b - 1
  BY SMT, <1>6, BoundsAscend, LastBound
<1>8. upTo(Bounds[b]) >= enough
  BY <1>1, <1>2, <1>6
<1>9. \A i \in 1 .. 16 : Bounds[i] < Bounds[b] => upTo(Bounds[i]) < enough
  BY <1>1, <1>2, <1>4, <1>5, <1>7
<1> QED
  BY <1>6, <1>8, <1>9
-----------------------------------------------------------------------------
(***************************************************************************)
(* Scores: a metric is put between 0 and 100, so a weighted sum of metrics *)
(* whose weights are 100 percent is as well.                               *)
(***************************************************************************)
LEMMA GreatestNumber ==
    ASSUME NEW S, IsFiniteSet(S), \A x \in S : x \in Nat, S # {}
    PROVE  Max(S) \in S /\ \A x \in S : Max(S) >= x
<1> DEFINE bad == {T \in SUBSET S : T # {} /\ \A m \in T : \E n \in T : ~(m >= n)}
<1> SUFFICES ASSUME bad # {} PROVE FALSE
  <2>1. bad = {} => \E m \in S : \A n \in S : m >= n
    OBVIOUS
  <2> QED
    BY <2>1, Zenon DEF Max
<1>0. bad \subseteq SUBSET S
  OBVIOUS
<1> HIDE DEF bad
<1>1. PICK T \in bad : \A U \in bad : U \subseteq T => U = T
  BY <1>0, LeastSubset
<1> USE DEF bad
<1>2. T \subseteq Nat /\ \A m \in T : \E n \in T : ~(m >= n)
  OBVIOUS
<1>3. PICK x \in T : TRUE
  OBVIOUS
<1> DEFINE U == T \ {x}
<1>4. U # {}
  BY <1>2, <1>3
<1>5. U \notin bad /\ U \in SUBSET S
  BY <1>1, <1>3
<1>6. PICK m \in U : \A n \in U : m >= n
  BY <1>4, <1>5
<1>7. m \in T /\ (m >= x \/ x >= m) /\ x \in Nat /\ m \in Nat
  BY <1>2, <1>3
<1> QED
  BY <1>2, <1>3, <1>6, <1>7

LEMMA ImageIsFinite ==
    ASSUME NEW S, IsFiniteSet(S), NEW f
    PROVE  IsFiniteSet({f[x] : x \in S})
<1> DEFINE T == {f[x] : x \in S}
           g == [x \in S |-> f[x]]
<1>1. g \in Surjection(S, T)
  BY DEF Surjection
<1> HIDE DEF g
<1> QED
  BY <1>1, FS_Surjection

LEMMA TheLarger ==
    ASSUME NEW a \in Int, NEW b \in Int
    PROVE  /\ Max({a, b}) = IF a >= b THEN a ELSE b
           /\ Min({a, b}) = IF a <= b THEN a ELSE b
BY DEF Max, Min

\* A part of a positive whole, in hundredths.
LEMMA PartOfWhole ==
    ASSUME NEW whole \in Nat \ {0}, NEW part \in 0 .. whole
    PROVE  (10000 * part) \div whole \in Nat /\ (10000 * part) \div whole <= 10000
<1> DEFINE q == (10000 * part) \div whole
<1>1. q \in Int /\ q * whole <= 10000 * part /\ 10000 * part < (q + 1) * whole
  BY Z3
<1> HIDE DEF q
<1>2. ~(q > 10000)
  <2> SUFFICES ASSUME q > 10000 PROVE FALSE
    BY SMT
  <2>1. q * whole >= 10001 * whole
    BY SMT, <1>1, Z3
  <2> QED
    BY SMT, <1>1, <2>1
<1>3. ~(q < 0)
  <2> SUFFICES ASSUME q < 0 PROVE FALSE
    BY SMT
  <2>1. (q + 1) * whole <= 0
    BY SMT, <1>1, Z3
  <2> QED
    BY SMT, <1>1, <2>1
<1> QED
  BY SMT, <1>1, <1>2, <1>3 DEF q

Rules == {r \in [best : Nat, worst : Nat, weight : Nat] : r.best # r.worst}

LEMMA NormalizedIsInRange ==
    ASSUME NEW value \in Int, NEW rule \in Rules
    PROVE  Normalized(value, rule) \in Nat /\ Normalized(value, rule) <= 10000
<1> DEFINE range == IF rule.worst > rule.best THEN rule.worst - rule.best ELSE rule.best - rule.worst
           left == IF rule.worst > rule.best THEN rule.worst - value ELSE value - rule.worst
           kept == Within(0, range, left)
<1>1. range \in Nat \ {0} /\ left \in Int
  BY SMT DEF Rules
<1>2. Normalized(value, rule) = (10000 * kept) \div range
  BY SMT DEF Normalized
<1> HIDE DEF range, left
<1>3. kept = Max({0, IF range <= left THEN range ELSE left})
  <2>1. Min({range, left}) = IF range <= left THEN range ELSE left
    BY SMT, <1>1, TheLarger
  <2> QED
    BY SMT, <2>1, Zenon DEF Within
<1>4. kept \in 0 .. range
  BY SMT, <1>1, <1>3, TheLarger
<1> HIDE DEF kept
<1>5. (10000 * kept) \div range \in Nat /\ (10000 * kept) \div range <= 10000
  BY SMT, <1>1, <1>4, PartOfWhole
<1> QED
  BY SMT, <1>2, <1>5

LEMMA SumAdds ==
    ASSUME NEW S, IsFiniteSet(S), NEW x, x \notin S, NEW weight, \A y \in S \cup {x} : weight[y] \in Nat
    PROVE  /\ IsFiniteSet(S \cup {x})
           /\ SumOver(weight, S \cup {x}) = SumOver(weight, S) + weight[x]
<1> DEFINE more == S \cup {x}
<1>1. IsFiniteSet(more) /\ x \in more /\ more \ {x} = S /\ weight[x] \in Nat
  BY FS_AddElement
<1>2. \A y \in more : weight[y] \in Nat
  OBVIOUS
<1> HIDE DEF more
<1>3. SumOver(weight, more) = weight[x] + SumOver(weight, more \ {x})
  BY <1>1, <1>2, SumTakesAny
<1>4. SumOver(weight, S) \in Nat
  BY SumIsNatural
<1> QED
  BY <1>1, <1>3, <1>4 DEF more

\* The elements of a small set.  (A name for each keeps the lemmas on sums easy to apply.)
Three(a, b, c, S) == S = {a, b, c} /\ a # b /\ a # c /\ b # c
Four(a, b, c, d, S) == Three(a, b, c, S \ {d}) /\ d \in S
Five(a, b, c, d, e, S) == Four(a, b, c, d, S \ {e}) /\ e \in S
Six(a, b, c, d, e, f, S) == Five(a, b, c, d, e, S \ {f}) /\ f \in S

LEMMA SumOfThree ==
    ASSUME NEW a, NEW b, NEW c, NEW S, Three(a, b, c, S), NEW weight, \A y \in S : weight[y] \in Nat
    PROVE  IsFiniteSet(S) /\ SumOver(weight, S) = weight[a] + weight[b] + weight[c]
<1>0. S = {a, b, c} /\ a # b /\ a # c /\ b # c
  BY DEF Three
<1>1. IsFiniteSet({}) /\ SumOver(weight, {}) = 0
  BY SumOfNone, FS_EmptySet
<1>2. IsFiniteSet({a}) /\ SumOver(weight, {a}) = weight[a]
  <2>1. {} \cup {a} = {a} /\ a \notin {} /\ \A y \in {} \cup {a} : weight[y] \in Nat
    BY <1>0
  <2>2. IsFiniteSet({} \cup {a}) /\ SumOver(weight, {} \cup {a}) = SumOver(weight, {}) + weight[a]
    BY <1>1, <2>1, SumAdds
  <2> QED
    BY <1>1, <2>1, <2>2
<1>3. IsFiniteSet({a, b}) /\ SumOver(weight, {a, b}) = weight[a] + weight[b]
  <2>1. {a} \cup {b} = {a, b} /\ b \notin {a} /\ \A y \in {a} \cup {b} : weight[y] \in Nat
    BY <1>0
  <2>2. IsFiniteSet({a} \cup {b}) /\ SumOver(weight, {a} \cup {b}) = SumOver(weight, {a}) + weight[b]
    BY <1>2, <2>1, SumAdds
  <2> QED
    BY <1>2, <2>1, <2>2
<1>4. {a, b} \cup {c} = S /\ c \notin {a, b} /\ \A y \in {a, b} \cup {c} : weight[y] \in Nat
  BY <1>0
<1>5. IsFiniteSet({a, b} \cup {c}) /\ SumOver(weight, {a, b} \cup {c}) = SumOver(weight, {a, b}) + weight[c]
  BY <1>3, <1>4, SumAdds
<1> QED
  BY <1>3, <1>4, <1>5

LEMMA SumOfFour ==
    ASSUME NEW a, NEW b, NEW c, NEW d, NEW S, Four(a, b, c, d, S), NEW weight,
           \A y \in S : weight[y] \in Nat
    PROVE  IsFiniteSet(S) /\ SumOver(weight, S) = weight[a] + weight[b] + weight[c] + weight[d]
<1> DEFINE fewer == S \ {d}
<1>1. Three(a, b, c, fewer) /\ \A y \in fewer : weight[y] \in Nat
  BY DEF Four
<1>2. fewer \cup {d} = S /\ d \notin fewer
  BY DEF Four
<1> HIDE DEF fewer
<1>3. IsFiniteSet(fewer) /\ SumOver(weight, fewer) = weight[a] + weight[b] + weight[c]
  BY <1>1, SumOfThree
<1>4. IsFiniteSet(fewer \cup {d}) /\ SumOver(weight, fewer \cup {d}) = SumOver(weight, fewer) + weight[d]
  <2>1. \A y \in fewer \cup {d} : weight[y] \in Nat
    BY <1>2
  <2> QED
    BY <1>2, <1>3, <2>1, SumAdds
<1> QED
  BY <1>2, <1>3, <1>4

LEMMA SumOfFive ==
    ASSUME NEW a, NEW b, NEW c, NEW d, NEW e, NEW S, Five(a, b, c, d, e, S), NEW weight,
           \A y \in S : weight[y] \in Nat
    PROVE  IsFiniteSet(S) /\ SumOver(weight, S) = weight[a] + weight[b] + weight[c] + weight[d] + weight[e]
<1> DEFINE fewer == S \ {e}
<1>1. Four(a, b, c, d, fewer) /\ \A y \in fewer : weight[y] \in Nat
  BY DEF Five
<1>2. fewer \cup {e} = S /\ e \notin fewer
  BY DEF Five
<1> HIDE DEF fewer
<1>3. IsFiniteSet(fewer) /\ SumOver(weight, fewer) = weight[a] + weight[b] + weight[c] + weight[d]
  BY <1>1, SumOfFour
<1>4. IsFiniteSet(fewer \cup {e}) /\ SumOver(weight, fewer \cup {e}) = SumOver(weight, fewer) + weight[e]
  <2>1. \A y \in fewer \cup {e} : weight[y] \in Nat
    BY <1>2
  <2> QED
    BY <1>2, <1>3, <2>1, SumAdds
<1> QED
  BY <1>2, <1>3, <1>4

LEMMA SumOfSix ==
    ASSUME NEW a, NEW b, NEW c, NEW d, NEW e, NEW f, NEW S, Six(a, b, c, d, e, f, S), NEW weight,
           \A y \in S : weight[y] \in Nat
    PROVE  IsFiniteSet(S) /\ SumOver(weight, S) = weight[a] + weight[b] + weight[c] + weight[d] + weight[e] + weight[f]
<1> DEFINE fewer == S \ {f}
<1>1. Five(a, b, c, d, e, fewer) /\ \A y \in fewer : weight[y] \in Nat
  BY DEF Six
<1>2. fewer \cup {f} = S /\ f \notin fewer
  BY DEF Six
<1> HIDE DEF fewer
<1>3. IsFiniteSet(fewer) /\ SumOver(weight, fewer) = weight[a] + weight[b] + weight[c] + weight[d] + weight[e]
  BY <1>1, SumOfFive
<1>4. IsFiniteSet(fewer \cup {f}) /\ SumOver(weight, fewer \cup {f}) = SumOver(weight, fewer) + weight[f]
  <2>1. \A y \in fewer \cup {f} : weight[y] \in Nat
    BY <1>2
  <2> QED
    BY <1>2, <1>3, <2>1, SumAdds
<1> QED
  BY <1>2, <1>3, <1>4

LEMMA SumIsBounded ==
    ASSUME NEW S, IsFiniteSet(S), NEW points, NEW weight,
           \A x \in S : points[x] \in Nat /\ weight[x] \in Nat /\ points[x] <= 10000 * weight[x]
    PROVE  SumOver(points, S) \in Nat /\ SumOver(weight, S) \in Nat /\ SumOver(points, S) <= 10000 * SumOver(weight, S)
<1>1. SumOver(points, S) \in Nat /\ SumOver(weight, S) \in Nat
  BY SMT, SumIsNatural
<1> DEFINE bad == {T \in SUBSET S : ~(SumOver(points, T) <= 10000 * SumOver(weight, T))}
<1> SUFFICES ASSUME bad # {} PROVE FALSE
  BY SMT, <1>1
<1>2. bad \subseteq SUBSET S
  BY SMT
<1> HIDE DEF bad
<1>3. PICK T \in bad : \A U \in bad : U \subseteq T => U = T
  BY SMT, <1>2, LeastSubset
<1> USE DEF bad
<1>4. T # {}
  BY SMT, SumOfNone
<1>5. PICK x \in T : TRUE
  BY SMT, <1>4
<1> DEFINE U == T \ {x}
<1>6. IsFiniteSet(T) /\ IsFiniteSet(U)
  BY SMT, FS_Subset
<1>7. /\ SumOver(points, T) = points[x] + SumOver(points, U)
      /\ SumOver(weight, T) = weight[x] + SumOver(weight, U)
  BY SMT, <1>5, <1>6, SumTakesAny
<1>8. SumOver(points, U) <= 10000 * SumOver(weight, U)
  BY SMT, <1>3, <1>5
<1>9. SumOver(points, U) \in Nat /\ SumOver(weight, U) \in Nat
  BY SMT, <1>6, SumIsNatural
<1>10. points[x] \in Nat /\ weight[x] \in Nat /\ points[x] <= 10000 * weight[x]
  BY SMT, <1>5
<1>11. SumOver(points, T) <= 10000 * SumOver(weight, T)
  BY SMT, <1>7, <1>8, <1>9, <1>10
<1> QED
  BY SMT, <1>11

\* What ScoreDimension computes is in range.
WeightOf(metrics) == [m \in metrics |-> m[3].weight]

LEMMA ScoreIsInRange ==
    ASSUME NEW metrics, IsFiniteSet(metrics), \A m \in metrics : m[2] \in Int /\ m[3] \in Rules,
           SumOver(WeightOf(metrics), metrics) = 100
    PROVE  ScoreDimension(metrics) \in Nat /\ ScoreDimension(metrics) <= 10000
<1> DEFINE points == [m \in metrics |-> Normalized(m[2], m[3]) * m[3].weight]
           IsTotal(g) ==
       g = [s \in SUBSET metrics |->
              IF s = {} THEN 0 ELSE LET m == CHOOSE x \in s : TRUE IN Normalized(m[2], m[3]) * m[3].weight + g[s \ {m}]]
           chosen == CHOOSE g : IsTotal(g)
<1>1. ScoreDimension(metrics) = chosen[metrics] \div 100
  BY SMT DEF ScoreDimension, MapThenSumSet, MapThenFoldSet
<1>2. \A s \in SUBSET metrics : s # {} =>
        points[Some(s)] = Normalized((CHOOSE x \in s : TRUE)[2], (CHOOSE x \in s : TRUE)[3]) * (CHOOSE x \in s : TRUE)[3].weight
  BY SMT, SomeIsIn DEF Some
<1> HIDE DEF points
<1>3. \A g : IsTotal(g) <=> IsSum(g, points, metrics)
  BY SMT, <1>2 DEF IsSum, SumStep, Some
<1> HIDE DEF IsTotal
<1>4. IsTotal(chosen)
  <2>1. \E g : IsTotal(g)
    BY <1>3, SumsExist
  <2> QED
    BY SMT, <2>1, Zenon
<1> HIDE DEF chosen
<1>5. SumOver(points, metrics) = chosen[metrics]
  BY SMT, <1>3, <1>4, SumIs
<1>6. \A m \in metrics : /\ points[m] \in Nat /\ WeightOf(metrics)[m] \in Nat
                         /\ points[m] <= 10000 * WeightOf(metrics)[m]
  <2> SUFFICES ASSUME NEW m \in metrics
               PROVE  /\ points[m] \in Nat /\ WeightOf(metrics)[m] \in Nat
                      /\ points[m] <= 10000 * WeightOf(metrics)[m]
    BY SMT
  <2> USE DEF points
  <2> DEFINE n == Normalized(m[2], m[3])
             w == m[3].weight
  <2>1. m[2] \in Int /\ m[3] \in Rules /\ w \in Nat
    BY SMT DEF Rules
  <2>2. n \in Nat /\ n <= 10000
    BY SMT, <2>1, NormalizedIsInRange
  <2> DEFINE point == points[m]
             all == WeightOf(metrics)[m]
  <2>3. point = n * w /\ all = w
    BY SMT DEF WeightOf
  <2> HIDE DEF n, w, point, all
  <2>4. n * w \in Nat /\ n * w <= 10000 * w
    BY <2>1, <2>2, Z3
  <2>5. point \in Nat /\ all \in Nat /\ point <= 10000 * all
    BY SMT, <2>1, <2>3, <2>4
  <2> QED
    BY SMT, <2>5 DEF point, all
<1>7. /\ SumOver(points, metrics) \in Nat
      /\ SumOver(points, metrics) <= 10000 * SumOver(WeightOf(metrics), metrics)
  BY SMT, <1>6, SumIsBounded
<1> DEFINE total == SumOver(points, metrics)
           all == SumOver(WeightOf(metrics), metrics)
<1>8. total \in Nat /\ total <= 10000 * all /\ all = 100 /\ ScoreDimension(metrics) = total \div 100
  BY SMT, <1>1, <1>5, <1>7
<1> HIDE DEF total, all
<1>9. total <= 1000000
  BY SMT, <1>8
<1> QED
  BY SMT, <1>8, <1>9

-----------------------------------------------------------------------------
(* The scores of the dimensions                                              *)

KnownEvidence(e) == e \in EvidenceRecord /\ IsFiniteSet(e.facts) /\ IsFiniteSet(e.prices)

Ruled(metrics) == \A m \in metrics : m[2] \in Int /\ m[3] \in Rules

LEMMA ScoreOfThree ==
    ASSUME NEW a, NEW b, NEW c, NEW metrics, Three(a, b, c, metrics), Ruled(metrics),
           a[3].weight + b[3].weight + c[3].weight = 100
    PROVE  ScoreDimension(metrics) \in Nat /\ ScoreDimension(metrics) <= 10000
<1> DEFINE weight == WeightOf(metrics)
<1>1. \A m \in metrics : weight[m] = m[3].weight
  BY DEF WeightOf
<1>2. \A m \in metrics : weight[m] \in Nat
  BY <1>1 DEF Ruled, Rules
<1>3. {a, b, c} \subseteq metrics
  BY DEF Three
<1>4. weight[a] = a[3].weight /\ weight[b] = b[3].weight /\ weight[c] = c[3].weight
  BY <1>1, <1>3
<1> HIDE DEF weight
<1>5. IsFiniteSet(metrics) /\ SumOver(weight, metrics) = weight[a] + weight[b] + weight[c]
  BY <1>2, SumOfThree
<1>6. SumOver(weight, metrics) = 100
  BY SMT, <1>4, <1>5
<1> QED
  BY SMT, <1>5, <1>6, ScoreIsInRange DEF weight, Ruled

LEMMA ScoreOfFour ==
    ASSUME NEW a, NEW b, NEW c, NEW d, NEW metrics, Four(a, b, c, d, metrics), Ruled(metrics),
           a[3].weight + b[3].weight + c[3].weight + d[3].weight = 100
    PROVE  ScoreDimension(metrics) \in Nat /\ ScoreDimension(metrics) <= 10000
<1> DEFINE weight == WeightOf(metrics)
<1>1. \A m \in metrics : weight[m] = m[3].weight
  BY DEF WeightOf
<1>2. \A m \in metrics : weight[m] \in Nat
  BY <1>1 DEF Ruled, Rules
<1>3. {a, b, c, d} \subseteq metrics
  BY DEF Three, Four
<1>4. weight[a] = a[3].weight /\ weight[b] = b[3].weight /\ weight[c] = c[3].weight /\ weight[d] = d[3].weight
  BY <1>1, <1>3
<1> HIDE DEF weight
<1>5. IsFiniteSet(metrics) /\ SumOver(weight, metrics) = weight[a] + weight[b] + weight[c] + weight[d]
  BY <1>2, SumOfFour
<1>6. SumOver(weight, metrics) = 100
  BY SMT, <1>4, <1>5
<1> QED
  BY SMT, <1>5, <1>6, ScoreIsInRange DEF weight, Ruled

LEMMA ScoreOfFive ==
    ASSUME NEW a, NEW b, NEW c, NEW d, NEW e, NEW metrics, Five(a, b, c, d, e, metrics), Ruled(metrics),
           a[3].weight + b[3].weight + c[3].weight + d[3].weight + e[3].weight = 100
    PROVE  ScoreDimension(metrics) \in Nat /\ ScoreDimension(metrics) <= 10000
<1> DEFINE weight == WeightOf(metrics)
<1>1. \A m \in metrics : weight[m] = m[3].weight
  BY DEF WeightOf
<1>2. \A m \in metrics : weight[m] \in Nat
  BY <1>1 DEF Ruled, Rules
<1>3. {a, b, c, d, e} \subseteq metrics
  BY DEF Three, Four, Five
<1>4. weight[a] = a[3].weight /\ weight[b] = b[3].weight /\ weight[c] = c[3].weight /\ weight[d] = d[3].weight /\ weight[e] = e[3].weight
  BY <1>1, <1>3
<1> HIDE DEF weight
<1>5. IsFiniteSet(metrics) /\ SumOver(weight, metrics) = weight[a] + weight[b] + weight[c] + weight[d] + weight[e]
  BY <1>2, SumOfFive
<1>6. SumOver(weight, metrics) = 100
  BY SMT, <1>4, <1>5
<1> QED
  BY SMT, <1>5, <1>6, ScoreIsInRange DEF weight, Ruled

LEMMA ScoreOfSix ==
    ASSUME NEW a, NEW b, NEW c, NEW d, NEW e, NEW f, NEW metrics, Six(a, b, c, d, e, f, metrics), Ruled(metrics),
           a[3].weight + b[3].weight + c[3].weight + d[3].weight + e[3].weight + f[3].weight = 100
    PROVE  ScoreDimension(metrics) \in Nat /\ ScoreDimension(metrics) <= 10000
<1> DEFINE weight == WeightOf(metrics)
<1>1. \A m \in metrics : weight[m] = m[3].weight
  BY DEF WeightOf
<1>2. \A m \in metrics : weight[m] \in Nat
  BY <1>1 DEF Ruled, Rules
<1>3. {a, b, c, d, e, f} \subseteq metrics
  BY DEF Three, Four, Five, Six
<1>4. weight[a] = a[3].weight /\ weight[b] = b[3].weight /\ weight[c] = c[3].weight /\ weight[d] = d[3].weight /\ weight[e] = e[3].weight /\ weight[f] = f[3].weight
  BY <1>1, <1>3
<1> HIDE DEF weight
<1>5. IsFiniteSet(metrics) /\ SumOver(weight, metrics) = weight[a] + weight[b] + weight[c] + weight[d] + weight[e] + weight[f]
  BY <1>2, SumOfSix
<1>6. SumOver(weight, metrics) = 100
  BY SMT, <1>4, <1>5
<1> QED
  BY SMT, <1>5, <1>6, ScoreIsInRange DEF weight, Ruled

LEMMA CountsArePositive ==
    ASSUME NEW facts \in SUBSET Fact, IsFiniteSet(facts), facts # {}
    PROVE  Count(facts) \in Nat \ {0}
<1>1. PICK f \in facts : f \in Fact
  OBVIOUS
<1>2. \A x \in facts : Counts[x] \in Nat
  BY DEF Counts, Fact
<1>3. Counts[f] \in Nat \ {0}
  BY <1>1 DEF Counts, Fact
<1>4. IsFiniteSet(facts \ {f}) /\ \A x \in facts \ {f} : Counts[x] \in Nat
  BY <1>2, FS_Subset
<1>5. SumOver(Counts, facts) = Counts[f] + SumOver(Counts, facts \ {f})
  BY <1>1, <1>2, SumTakesAny
<1>6. SumOver(Counts, facts \ {f}) \in Nat
  BY <1>4, SumIsNatural
<1> QED
  BY <1>3, <1>5, <1>6, CountIsSum

LEMMA CountsOfParts ==
    ASSUME NEW facts \in SUBSET Fact, IsFiniteSet(facts), NEW part \in SUBSET facts
    PROVE  Count(part) \in Nat
<1>1. IsFiniteSet(part) /\ part \in SUBSET Fact
  BY FS_Subset
<1>2. Count({}) = 0
  BY CountOfNone
<1> QED
  BY <1>1, <1>2, CountsArePositive

LEMMA LatenciesAreBounds ==
    ASSUME NEW facts \in SUBSET Fact, IsFiniteSet(facts), NEW field \in Fields, NEW percentile \in 1 .. 100
    PROVE  Latency(facts, field, percentile) \in Nat \ {0}
<1> DEFINE b == Percentile(Histogram(facts, field), percentile)
<1>1. b \in 1 .. 17
  <2>1. /\ b \in 1 .. LatencyBucketCount
        /\ \A i \in 1 .. LatencyBucketCount : i >= b =>
             100 * Count(UpToBucket(facts, field, i)) >= percentile * Count(Timed(facts, field))
        /\ \A i \in 1 .. b - 1 :
             ~(100 * Count(UpToBucket(facts, field, i)) >= percentile * Count(Timed(facts, field)))
    BY PercentileIsLeast
  <2> QED
    BY <2>1, BoundsAscend
<1>2. \A i \in 1 .. 16 : Bounds[i] \in Nat \ {0}
  BY DEF Bounds
<1>3. Latency(facts, field, percentile) = PercentileValue(b)
  BY DEF Latency
<1> HIDE DEF b
<1> QED
  BY SMT, <1>1, <1>2, <1>3, BoundsAscend, LastBound DEF PercentileValue

LEMMA LatencyScoreIsInRange ==
    ASSUME NEW facts \in SUBSET Fact, IsFiniteSet(facts)
    PROVE  LatencyScore(facts) \in Nat /\ LatencyScore(facts) <= 10000
<1> DEFINE p50 == Latency(facts, "ttft", 50)
           p95 == Latency(facts, "ttft", 95)
           done50 == Latency(Succeeded(facts), "duration", 50)
           done95 == Latency(Succeeded(facts), "duration", 95)
           variability == (100 * p95) \div p50
           a == <<"ttft_p50", p50, Rule(500, 10000, 35)>>
           b == <<"ttft_p95", p95, Rule(1000, 20000, 25)>>
           c == <<"duration_p50", done50, Rule(1000, 60000, 15)>>
           d == <<"duration_p95", done95, Rule(3000, 120000, 15)>>
           e == <<"variability", variability, Rule(100, 500, 10)>>
           metrics == {a, b, c, d, e}
<1>1. LatencyScore(facts) = ScoreDimension(metrics)
  BY DEF LatencyScore
<1>2. p50 \in Nat \ {0} /\ p95 \in Nat \ {0} /\ done50 \in Nat \ {0} /\ done95 \in Nat \ {0}
  <2>1. Succeeded(facts) \in SUBSET Fact /\ IsFiniteSet(Succeeded(facts))
    BY FS_Subset DEF Succeeded
  <2>2. 50 \in 1 .. 100 /\ 95 \in 1 .. 100 /\ "ttft" \in Fields /\ "duration" \in Fields
    BY DEF Fields
  <2> QED
    BY <2>1, <2>2, LatenciesAreBounds
<1> HIDE DEF p50, p95, done50, done95
<1>3. variability \in Int
  BY SMT, <1>2
<1> HIDE DEF variability
<1>4. /\ a[2] \in Int /\ b[2] \in Int /\ c[2] \in Int /\ d[2] \in Int /\ e[2] \in Int
      /\ a # b /\ a # c /\ b # c /\ d \notin {a, b, c} /\ e \notin {a, b, c, d}
  BY SMT, <1>2, <1>3
<1>5. /\ a[3] \in Rules /\ b[3] \in Rules /\ c[3] \in Rules /\ d[3] \in Rules /\ e[3] \in Rules
      /\ a[3].weight = 35 /\ b[3].weight = 25 /\ c[3].weight = 15 /\ d[3].weight = 15 /\ e[3].weight = 10
  <2>1. /\ a[3] = Rule(500, 10000, 35) /\ b[3] = Rule(1000, 20000, 25) /\ c[3] = Rule(1000, 60000, 15)
        /\ d[3] = Rule(3000, 120000, 15) /\ e[3] = Rule(100, 500, 10)
    BY SMT
  <2> QED
    BY SMT, <2>1 DEF Rule, Rules
<1>6. metrics = {a, b, c, d, e}
  BY SMT
<1> HIDE DEF a, b, c, d, e, metrics
<1>7. Ruled(metrics)
  BY SMT, <1>4, <1>5, <1>6 DEF Ruled
<1>8. a[3].weight + b[3].weight + c[3].weight + d[3].weight + e[3].weight = 100
  BY SMT, <1>5
<1>9. Five(a, b, c, d, e, metrics)
  BY SMT, <1>4, <1>6 DEF Three, Four, Five
<1>10. ScoreDimension(metrics) \in Nat /\ ScoreDimension(metrics) <= 10000
  BY SMT, <1>7, <1>8, <1>9, ScoreOfFive
<1> QED
  BY SMT, <1>1, <1>10

LEMMA MagnitudesAreNatural ==
    ASSUME NEW e, KnownEvidence(e), NEW c \in PriceChanges(e)
    PROVE  Magnitude(c) \in Nat
<1> DEFINE a == c[1].cost
           b == c[2].cost
<1>1. a \in Nat /\ b \in Nat /\ a # b
  BY DEF PriceChanges, PreviousPrice, KnownEvidence, EvidenceRecord, PriceVersion
<1>2. Magnitude(c) = (100 * (Max({a, b}) - Min({a, b}))) \div Max({a, b})
  BY DEF Magnitude
<1> HIDE DEF a, b
<1>3. /\ Max({a, b}) = IF a >= b THEN a ELSE b
      /\ Min({a, b}) = IF a <= b THEN a ELSE b
  BY SMT, <1>1, TheLarger
<1> DEFINE high == Max({a, b})
           low == Min({a, b})
<1>4. high \in Nat \ {0} /\ low \in Nat /\ high >= low
  BY SMT, <1>1, <1>3
<1> HIDE DEF high, low
<1>5. (100 * (high - low)) \div high \in Nat
  BY SMT, <1>4
<1> QED
  BY SMT, <1>2, <1>5 DEF high, low

LEMMA PriceScoreIsInRange ==
    ASSUME NEW e, KnownEvidence(e)
    PROVE  PriceScore(e) \in Nat /\ PriceScore(e) <= 10000
<1> DEFINE changes == PriceChanges(e)
           magnitudes == {0} \cup {Magnitude(c) : c \in changes}
           a == <<"relative_cost", RelativeCost(e), Rule(100, 300, 70)>>
           b == <<"changes_per_day", Cardinality(changes), Rule(0, 4, 15)>>
           c == <<"change_magnitude", Max(magnitudes), Rule(0, 50, 15)>>
           metrics == {a, b, c}
<1>1. PriceScore(e) = ScoreDimension(metrics)
  BY DEF PriceScore
<1>2. IsFiniteSet(changes)
  <2>1. changes \subseteq e.prices \X e.prices
    BY DEF PriceChanges, PreviousPrice
  <2> QED
    BY <2>1, FS_Product, FS_Subset DEF KnownEvidence
<1>3. \A x \in magnitudes : x \in Nat
  BY MagnitudesAreNatural
<1>4. IsFiniteSet(magnitudes)
  <2> DEFINE f == [x \in changes |-> Magnitude(x)]
             image == {f[x] : x \in changes}
  <2>1. IsFiniteSet(image)
    BY <1>2, ImageIsFinite
  <2>2. magnitudes = image \cup {0}
    OBVIOUS
  <2> QED
    BY <2>1, <2>2, FS_AddElement
<1>5. Cardinality(changes) \in Nat
  BY <1>2, FS_CardinalityType
<1> HIDE DEF changes
<1>6. Max(magnitudes) \in Nat
  <2>1. magnitudes # {}
    OBVIOUS
  <2> HIDE DEF magnitudes
  <2> QED
    BY <1>3, <1>4, <2>1, GreatestNumber
<1> HIDE DEF magnitudes
<1>7. RelativeCost(e) \in Int
  <2>1. e.cost \in Nat /\ e.lowest \in Nat
    BY DEF KnownEvidence, EvidenceRecord
  <2> QED
    BY SMT, <2>1 DEF RelativeCost
<1>8. a[2] \in Int /\ b[2] \in Int /\ c[2] \in Int /\ a # b /\ a # c /\ b # c
  BY SMT, <1>5, <1>6, <1>7
<1>9. a[3] = Rule(100, 300, 70) /\ b[3] = Rule(0, 4, 15) /\ c[3] = Rule(0, 50, 15)
  BY SMT
<1>10. /\ a[3] \in Rules /\ b[3] \in Rules /\ c[3] \in Rules
       /\ a[3].weight + b[3].weight + c[3].weight = 100
  BY SMT, <1>9 DEF Rule, Rules
<1>11. metrics = {a, b, c}
  BY SMT
<1> HIDE DEF a, b, c, metrics
<1>12. Three(a, b, c, metrics) /\ Ruled(metrics)
  BY SMT, <1>8, <1>10, <1>11 DEF Three, Ruled
<1>13. ScoreDimension(metrics) \in Nat /\ ScoreDimension(metrics) <= 10000
  BY SMT, <1>10, <1>12, ScoreOfThree
<1> QED
  BY SMT, <1>1, <1>13

LEMMA RecoveryIsNatural ==
    ASSUME NEW facts \in SUBSET Fact, IsFiniteSet(facts)
    PROVE  Recovery(facts) \in Nat
<1> DEFINE failed == SupplierFailed(facts)
           wait == [f \in failed |-> f.age - RecoveredAt(facts, f)]
           waits == {wait[f] : f \in failed}
<1>1. failed \subseteq facts /\ IsFiniteSet(failed)
  BY FS_Subset DEF SupplierFailed
<1>2. ASSUME NEW f \in failed
      PROVE  f.age - RecoveredAt(facts, f) \in Nat
  <2> DEFINE later == {s \in Succeeded(facts) : s.age < f.age}
             age == [s \in later |-> s.age]
             ages == {age[s] : s \in later}
  <2>1. f.age \in Nat /\ \A s \in later : s.age \in Nat /\ s.age < f.age
    BY <1>1 DEF Fact, Succeeded
  <2>2. IsFiniteSet(later)
    BY FS_Subset DEF Succeeded
  <2>3. RecoveredAt(facts, f) = IF ages = {} THEN 0 ELSE Max(ages)
    <3>1. {s.age : s \in {s \in Succeeded(facts) : s.age < f.age}} = ages
      OBVIOUS
    <3> QED
      BY <3>1 DEF RecoveredAt
  <2>4. \A x \in ages : x \in Nat /\ x < f.age
    BY <2>1
  <2>5. IsFiniteSet(ages)
    BY <2>2, ImageIsFinite
  <2> HIDE DEF ages
  <2>6. ages # {} => Max(ages) \in ages
    BY <2>4, <2>5, GreatestNumber
  <2> QED
    BY SMT, <2>1, <2>3, <2>4, <2>6
<1>3. Recovery(facts) = Max(waits \cup {0})
  <2>1. {0} \cup {f.age - RecoveredAt(facts, f) : f \in SupplierFailed(facts)} = waits \cup {0}
    OBVIOUS
  <2> QED
    BY <2>1 DEF Recovery
<1>4. IsFiniteSet(waits)
  BY <1>1, ImageIsFinite
<1>5. \A x \in waits \cup {0} : x \in Nat
  BY <1>2
<1> HIDE DEF waits
<1>6. IsFiniteSet(waits \cup {0}) /\ waits \cup {0} # {}
  BY <1>4, FS_AddElement
<1> DEFINE all == waits \cup {0}
<1> HIDE DEF all
<1>7. Max(all) \in all
  BY <1>5, <1>6, GreatestNumber DEF all
<1> QED
  BY <1>3, <1>5, <1>7 DEF all

LEMMA SlaScoreIsInRange ==
    ASSUME NEW e, KnownEvidence(e), NEW facts \in SUBSET e.facts, Sla(facts) # {}
    PROVE  SlaScore(e, facts) \in Nat /\ SlaScore(e, facts) <= 10000
<1> DEFINE all == Count(Sla(facts))
           failed == Count(SupplierFailed(facts))
           throttled == Count(RateLimited(facts))
           streams == Count(Streams(facts))
           completed == Count(Completed(facts))
           streak == Count(FailureStreak(e))
           success == Ratio(all - failed, all)
           limited == Ratio(throttled, all)
           completion == IF streams = 0 THEN 10000 ELSE Ratio(completed, streams)
           a == <<"attempt_success", success, Rule(10000, 8000, 35)>>
           b == <<"rate_limit", limited, Rule(0, 2000, 20)>>
           c == <<"consecutive_failures", streak, Rule(0, 3, 15)>>
           d == <<"stream_completion", completion, Rule(10000, 8000, 10)>>
           f == <<"recovery", Recovery(facts), Rule(0, Hour, 10)>>
           g == <<"capacity", 10000 - limited, Rule(10000, 8000, 10)>>
           metrics == {a, b, c, d, f, g}
<1>1. SlaScore(e, facts) = ScoreDimension(metrics)
  BY SMT DEF SlaScore
<1>2. e.facts \in SUBSET Fact /\ IsFiniteSet(e.facts)
  BY DEF KnownEvidence, EvidenceRecord
<1>3. facts \in SUBSET Fact /\ IsFiniteSet(facts)
  BY <1>2, FS_Subset
<1>4. /\ Sla(facts) \in SUBSET facts /\ SupplierFailed(facts) \in SUBSET facts
      /\ RateLimited(facts) \in SUBSET facts /\ Streams(facts) \in SUBSET facts
      /\ Completed(facts) \in SUBSET facts /\ FailureStreak(e) \in SUBSET e.facts
  BY DEF Sla, Succeeded, SupplierFailed, RateLimited, Streams, Completed, FailureStreak
<1>5. all \in Nat \ {0}
  <2>1. Sla(facts) \in SUBSET Fact /\ IsFiniteSet(Sla(facts))
    BY <1>3, <1>4, FS_Subset
  <2> QED
    BY <2>1, CountsArePositive
<1>6. failed \in Nat /\ throttled \in Nat /\ streams \in Nat /\ completed \in Nat
  BY <1>3, <1>4, CountsOfParts
<1>7. streak \in Nat
  BY <1>2, <1>4, CountsOfParts
<1> HIDE DEF all, failed, throttled, streams, completed, streak
<1>8. success \in Int /\ limited \in Int /\ completion \in Int
  BY SMT, <1>5, <1>6 DEF Ratio
<1>9. Recovery(facts) \in Int
  BY <1>3, RecoveryIsNatural
<1> HIDE DEF success, limited, completion
<1>10. /\ a[2] \in Int /\ b[2] \in Int /\ c[2] \in Int /\ d[2] \in Int /\ f[2] \in Int /\ g[2] \in Int
       /\ a # b /\ a # c /\ b # c /\ d \notin {a, b, c} /\ f \notin {a, b, c, d} /\ g \notin {a, b, c, d, f}
  BY SMT, <1>7, <1>8, <1>9
<1>11. /\ a[3] = Rule(10000, 8000, 35) /\ b[3] = Rule(0, 2000, 20) /\ c[3] = Rule(0, 3, 15)
       /\ d[3] = Rule(10000, 8000, 10) /\ f[3] = Rule(0, Hour, 10) /\ g[3] = Rule(10000, 8000, 10)
  BY SMT
<1>12. /\ a[3] \in Rules /\ b[3] \in Rules /\ c[3] \in Rules /\ d[3] \in Rules /\ f[3] \in Rules /\ g[3] \in Rules
       /\ a[3].weight + b[3].weight + c[3].weight + d[3].weight + f[3].weight + g[3].weight = 100
  BY SMT, <1>11 DEF Rule, Rules, Hour
<1>13. metrics = {a, b, c, d, f, g}
  BY SMT
<1> HIDE DEF a, b, c, d, f, g, metrics
<1>14. Six(a, b, c, d, f, g, metrics) /\ Ruled(metrics)
  BY SMT, <1>10, <1>12, <1>13 DEF Three, Four, Five, Six, Ruled
<1>15. ScoreDimension(metrics) \in Nat /\ ScoreDimension(metrics) <= 10000
  BY SMT, <1>12, <1>14, ScoreOfSix
<1> QED
  BY SMT, <1>1, <1>15

LEMMA QualityScoreIsInRange ==
    ASSUME NEW e, KnownEvidence(e)
    PROVE  QualityScore(e) \in Nat /\ QualityScore(e) <= 10000
<1> DEFINE a == <<"authenticity", AuthenticityValue(e), Rule(100, 0, 40)>>
           b == <<"capability", e.capability.score, Rule(100, 0, 35)>>
           c == <<"stability", e.capability.confidence, Rule(100, 0, 10)>>
           d == <<"evidence", e.authenticity.confidence, Rule(100, 0, 15)>>
           metrics == {a, b, c, d}
<1>1. QualityScore(e) = ScoreDimension(metrics)
  BY DEF QualityScore
<1>2. AuthenticityValue(e) \in Int
  BY SMT DEF AuthenticityValue
<1>3. e.capability.score \in Int /\ e.capability.confidence \in Int /\ e.authenticity.confidence \in Int
  BY SMT DEF KnownEvidence, EvidenceRecord, Assessment
<1>4. /\ a[2] \in Int /\ b[2] \in Int /\ c[2] \in Int /\ d[2] \in Int
      /\ a # b /\ a # c /\ b # c /\ d \notin {a, b, c}
  BY SMT, <1>2, <1>3
<1>5. a[3] = Rule(100, 0, 40) /\ b[3] = Rule(100, 0, 35) /\ c[3] = Rule(100, 0, 10) /\ d[3] = Rule(100, 0, 15)
  BY SMT
<1>6. /\ a[3] \in Rules /\ b[3] \in Rules /\ c[3] \in Rules /\ d[3] \in Rules
      /\ a[3].weight + b[3].weight + c[3].weight + d[3].weight = 100
  BY SMT, <1>5 DEF Rule, Rules
<1>7. metrics = {a, b, c, d}
  BY SMT
<1> HIDE DEF a, b, c, d, metrics
<1>8. Four(a, b, c, d, metrics) /\ Ruled(metrics)
  BY SMT, <1>4, <1>6, <1>7 DEF Three, Four, Ruled
<1>9. ScoreDimension(metrics) \in Nat /\ ScoreDimension(metrics) <= 10000
  BY SMT, <1>6, <1>8, ScoreOfFour
<1> QED
  BY SMT, <1>1, <1>9

\* For whatever evidence a window is complete, every dimension is scored, and
\* between 0 and 100: no ratio is of nothing, no bucket is beyond the last, no
\* rule has its best equal to its worst, and the weights of every dimension's
\* metrics are 100 percent (buildWindowScore and scoreDimension, whose errors for
\* such values are never met).
THEOREM ScoresAreInRange ==
    ASSUME NEW e, KnownEvidence(e), NEW w \in Windows, Complete(e, w), NEW d \in Dimensions
    PROVE  Scores(e, w)[d] \in Nat /\ Scores(e, w)[d] <= 10000
<1> DEFINE facts == In(e, w)
<1>1. facts \in SUBSET e.facts
  BY DEF In
<1>2. facts \in SUBSET Fact /\ IsFiniteSet(facts)
  BY <1>1, FS_Subset DEF KnownEvidence, EvidenceRecord
<1>3. Sla(facts) # {}
  BY DEF Complete
<1>4. /\ Scores(e, w).price = PriceScore(e) /\ Scores(e, w).latency = LatencyScore(facts)
      /\ Scores(e, w).sla = SlaScore(e, facts) /\ Scores(e, w).quality = QualityScore(e)
  BY DEF Scores
<1> HIDE DEF facts
<1>5. CASE d = "price"
  BY SMT, <1>4, <1>5, PriceScoreIsInRange
<1>6. CASE d = "latency"
  BY SMT, <1>2, <1>4, <1>6, LatencyScoreIsInRange
<1>7. CASE d = "sla"
  BY SMT, <1>1, <1>3, <1>4, <1>7, SlaScoreIsInRange
<1>8. CASE d = "quality"
  BY SMT, <1>4, <1>8, QualityScoreIsInRange
<1> QED
  BY SMT, <1>5, <1>6, <1>7, <1>8 DEF Dimensions
=============================================================================
