----------------------------- MODULE DatasetProofs -----------------------------
(***************************************************************************)
(* Theorems about Dataset for every stream, window, buffer and forest: the *)
(* feature vectors are those their definitions ask for, the ones training  *)
(* reads from the CSV are those detection was made to score, an alert      *)
(* shows the gaps that were scored, and the model flags few of its own     *)
(* training rows.                                                          *)
(*                                                                         *)
(* First come facts about least elements, percentiles and reports, then    *)
(* those about dictionaries, windows, payloads and vectors, then Dataset's *)
(* inductive invariant and what follows from it.                           *)
(***************************************************************************)
EXTENDS Dataset, FiniteSetTheorems, SequenceTheorems, TLAPS

(* Every set of numbers that has an element has a least one: strict subset *)
(* is well-founded on the finite sets, and 1..m is a strict subset of      *)
(* 1..n.                                                                   *)
LEMMA LeastElement ==
    ASSUME NEW T \in SUBSET Nat, T # {}
    PROVE  \E n \in T : \A m \in T : n <= m
<1> DEFINE R == StrictSubsetOrdering(Nat)
           U == {1..n : n \in T}
<1>1. IsWellFoundedOn(R, FiniteSubsetsOf(Nat))
  BY FS_StrictSubsetOrderingWellFounded
<1>2. U \subseteq FiniteSubsetsOf(Nat)
  <2>1. ASSUME NEW n \in T PROVE IsFiniteSet(1..n) /\ 1..n \subseteq Nat
    BY FS_Interval
  <2> QED BY <2>1 DEF FiniteSubsetsOf
<1>3. U # {}
  OBVIOUS
<1>4. \E x \in U : \A y \in U : ~ (<<y, x>> \in R)
  <2> HIDE DEF U, R
  <2> QED BY <1>1, <1>2, <1>3, WFMin
<1>5. PICK n \in T : \A y \in U : ~ (<<y, 1..n>> \in R)
  BY <1>4
<1>6. ASSUME NEW m \in T, m < n PROVE FALSE
  <2>1. 1..m \subseteq 1..n /\ 1..m \subseteq Nat /\ 1..n \subseteq Nat
    BY <1>6
  <2>2. n \in 1..n /\ n \notin 1..m
    BY <1>6
  <2>3. <<1..m, 1..n>> \in R
    BY <2>1, <2>2 DEF StrictSubsetOrdering
  <2> QED BY <1>5, <2>3
<1> QED BY <1>6

(* So a property that is a set of numbers is inductive as usual.           *)
LEMMA Induction ==
    ASSUME NEW T, 0 \in T, \A n \in Nat : n \in T => n + 1 \in T
    PROVE  Nat \subseteq T
<1> SUFFICES ASSUME Nat \ T # {} PROVE FALSE
  OBVIOUS
<1>1. PICK n \in Nat \ T : \A m \in Nat \ T : n <= m
  BY LeastElement
<1>2. n # 0 /\ n - 1 \in Nat /\ n - 1 \in T
  BY <1>1
<1> QED BY <1>1, <1>2

(* A set of integers that is finite has a least element and a greatest.    *)
LEMMA Extremes ==
    ASSUME NEW S \in SUBSET Int, IsFiniteSet(S), S # {}
    PROVE  /\ \E s \in S : \A t \in S : s <= t
           /\ \E s \in S : \A t \in S : t <= s
<1> DEFINE Below(s) == {t \in S : t < s}
           Above(s) == {t \in S : t > s}
<1>1. ASSUME NEW s \in S
      PROVE  /\ IsFiniteSet(Below(s)) /\ Cardinality(Below(s)) \in Nat
             /\ IsFiniteSet(Above(s)) /\ Cardinality(Above(s)) \in Nat
  <2>1. Below(s) \in SUBSET S /\ Above(s) \in SUBSET S
    OBVIOUS
  <2>2. IsFiniteSet(Below(s)) /\ IsFiniteSet(Above(s))
    BY <2>1, FS_Subset
  <2> QED BY <2>2, FS_CardinalityType
<1>2. \E s \in S : \A t \in S : s <= t
  <2> DEFINE T == {Cardinality(Below(s)) : s \in S}
  <2>1. PICK n \in T : \A m \in T : n <= m
    <3>1. T \in SUBSET Nat /\ T # {}
      BY <1>1
    <3> HIDE DEF T
    <3> QED BY <3>1, LeastElement
  <2>2. PICK s \in S : n = Cardinality(Below(s))
    BY <2>1
  <2>3. ASSUME NEW t \in S, t < s PROVE FALSE
    <3>1. Below(t) \in SUBSET Below(s) /\ t \in Below(s) /\ t \notin Below(t)
      <4>1. \A u \in S : u \in Int
        OBVIOUS
      <4>2. \A u \in S : u < t => u < s
        BY <2>3, <4>1
      <4>3. Below(t) \in SUBSET Below(s)
        BY <4>2
      <4>4. t \in Below(s) /\ t \notin Below(t)
        BY <2>3, <4>1
      <4> QED BY <4>3, <4>4
    <3>2. Cardinality(Below(s)) <= Cardinality(Below(t))
      BY <2>1, <2>2
    <3>3. /\ Cardinality(Below(t)) <= Cardinality(Below(s))
          /\ Cardinality(Below(s)) = Cardinality(Below(t))
                 => Below(s) = Below(t)
      <4> HIDE DEF Below
      <4> QED BY <3>1, <1>1, FS_Subset
    <3>4. Cardinality(Below(s)) \in Nat /\ Cardinality(Below(t)) \in Nat
      BY <1>1
    <3>5. Cardinality(Below(s)) = Cardinality(Below(t))
      BY <3>2, <3>3, <3>4
    <3> QED BY <3>1, <3>3, <3>5
  <2> QED BY <2>3
<1>3. \E s \in S : \A t \in S : t <= s
  <2> DEFINE T == {Cardinality(Above(s)) : s \in S}
  <2>1. PICK n \in T : \A m \in T : n <= m
    <3>1. T \in SUBSET Nat /\ T # {}
      BY <1>1
    <3> HIDE DEF T
    <3> QED BY <3>1, LeastElement
  <2>2. PICK s \in S : n = Cardinality(Above(s))
    BY <2>1
  <2>3. ASSUME NEW t \in S, t > s PROVE FALSE
    <3>1. Above(t) \in SUBSET Above(s) /\ t \in Above(s) /\ t \notin Above(t)
      <4>1. \A u \in S : u \in Int
        OBVIOUS
      <4>2. \A u \in S : u > t => u > s
        BY <2>3, <4>1
      <4>3. Above(t) \in SUBSET Above(s)
        BY <4>2
      <4>4. t \in Above(s) /\ t \notin Above(t)
        BY <2>3, <4>1
      <4> QED BY <4>3, <4>4
    <3>2. Cardinality(Above(s)) <= Cardinality(Above(t))
      BY <2>1, <2>2
    <3>3. /\ Cardinality(Above(t)) <= Cardinality(Above(s))
          /\ Cardinality(Above(s)) = Cardinality(Above(t))
                 => Above(s) = Above(t)
      <4> HIDE DEF Above
      <4> QED BY <3>1, <1>1, FS_Subset
    <3>4. Cardinality(Above(s)) \in Nat /\ Cardinality(Above(t)) \in Nat
      BY <1>1
    <3>5. Cardinality(Above(s)) = Cardinality(Above(t))
      BY <3>2, <3>3, <3>4
    <3> QED BY <3>1, <3>3, <3>5
  <2> QED BY <2>3
<1> QED BY <1>2, <1>3

(* Some of the positions of a sequence are a finite set, and no more than  *)
(* all of them.                                                            *)
LEMMA Positions ==
    ASSUME NEW n \in Nat, NEW P \in SUBSET (1 .. n)
    PROVE  IsFiniteSet(P) /\ Cardinality(P) \in Nat /\ Cardinality(P) <= n
<1>1. IsFiniteSet(1 .. n) /\ Cardinality(1 .. n) = n
  BY FS_Interval
<1>2. IsFiniteSet(P) /\ Cardinality(P) <= n
  BY <1>1, FS_Subset
<1> QED BY <1>2, FS_CardinalityType

(* The score of each rank is there.                                        *)
LEMMA RankedScore ==
    ASSUME NEW n \in Nat \ {0}, NEW scores \in [1 .. n -> Int],
           NEW k \in 0 .. n - 1
    PROVE  /\ Ranked(scores, k) \in Int
           /\ Cardinality({i \in 1 .. n : scores[i] < Ranked(scores, k)}) <= k
           /\ Cardinality({i \in 1 .. n : scores[i] <= Ranked(scores, k)}) > k
<1> DEFINE S == {scores[i] : i \in 1 .. n}
           Under(s) == {i \in 1 .. n : scores[i] < s}
           UpTo(s) == {i \in 1 .. n : scores[i] <= s}
           A == {s \in S : Cardinality(UpTo(s)) > k}
<1>1. S \in SUBSET Int /\ IsFiniteSet(S) /\ S # {}
  <2>1. IsFiniteSet(S)
    <3>1. scores \in Surjection(1 .. n, S)
      BY DEF Surjection
    <3>2. IsFiniteSet(1 .. n)
      BY FS_Interval
    <3> QED BY <3>1, <3>2, FS_Surjection
  <2> QED BY <2>1
<1>2. A # {}
  <2>1. PICK s \in S : \A t \in S : t <= s
    BY <1>1, Extremes
  <2>2. UpTo(s) = 1 .. n
    BY <2>1
  <2>3. Cardinality(1 .. n) = n
    BY FS_Interval
  <2>4. Cardinality(UpTo(s)) > k
    <3> HIDE DEF UpTo
    <3> QED BY <2>2, <2>3
  <2> QED BY <2>4
<1>3. PICK s \in A : \A t \in A : s <= t
  <2>1. A \in SUBSET S /\ A \in SUBSET Int
    BY <1>1
  <2>2. IsFiniteSet(A)
    BY <1>1, <2>1, FS_Subset
  <2> HIDE DEF A
  <2> QED BY <1>2, <2>1, <2>2, Extremes
<1>4. Cardinality(Under(s)) <= k
  <2> DEFINE B == {t \in S : t < s}
  <2>1. CASE B = {}
    <3>1. Under(s) = {}
      BY <2>1
    <3>2. Cardinality(Under(s)) = 0
      BY <3>1, FS_EmptySet
    <3> QED BY <3>2
  <2>2. CASE B # {}
    <3>1. B \in SUBSET S /\ B \in SUBSET Int
      BY <1>1
    <3>2. IsFiniteSet(B)
      BY <1>1, <3>1, FS_Subset
    <3>3. PICK t \in B : \A u \in B : u <= t
      <4> HIDE DEF B
      <4> QED BY <2>2, <3>1, <3>2, Extremes
    <3>4. UpTo(t) = Under(s)
      <4>1. t < s /\ t \in Int /\ s \in Int
        BY <1>1
      <4>2. \A i \in 1 .. n : scores[i] < s => scores[i] \in B
        OBVIOUS
      <4>3. \A i \in 1 .. n : scores[i] <= t <=> scores[i] < s
        BY <3>3, <4>1, <4>2
      <4> QED BY <4>3
    <3>5. t \in S /\ t \notin A
      <4>1. t \in S /\ t < s /\ t \in Int /\ s \in Int
        BY <1>1
      <4> HIDE DEF A
      <4> QED BY <4>1, <1>3
    <3>6. Cardinality(UpTo(t)) \in Nat
      BY Positions
    <3>7. ~ (Cardinality(UpTo(t)) > k)
      BY <3>5
    <3> HIDE DEF UpTo, Under
    <3> QED BY <3>4, <3>6, <3>7
  <2> QED BY <2>1, <2>2
<1>5. /\ Ranked(scores, k) \in S
      /\ Cardinality(Under(Ranked(scores, k))) <= k
      /\ Cardinality(UpTo(Ranked(scores, k))) > k
  <2>1. DOMAIN scores = 1 .. n
    OBVIOUS
  <2>2. \E r \in S : Cardinality(Under(r)) <= k /\ Cardinality(UpTo(r)) > k
    BY <1>3, <1>4
  <2> QED BY <2>1, <2>2 DEF Ranked
<1> QED BY <1>1, <1>5

(* What a percentile interpolates between, in whole numbers: hundredths of *)
(* a rank, the rank below and the part of the way to the next one.         *)
LEMMA Interpolation ==
    ASSUME NEW n \in Nat \ {0}, NEW position,
           position = Contamination * (n - 1)
    PROVE  /\ position \div 100 \in 0 .. n - 1
           /\ position % 100 \in 0 .. 99
           /\ position % 100 # 0 => position \div 100 + 1 \in 0 .. n - 1
           /\ position % 100 = 0 => (position + 99) \div 100 = position \div 100
           /\ position % 100 # 0 =>
                 (position + 99) \div 100 = position \div 100 + 1
<1>1. Contamination \in Nat /\ Contamination <= 100
  BY EvaluationAssumption
<1>2. \A c, m \in Nat : c <= 100 => c * m \in Nat /\ c * m <= 100 * m
  OBVIOUS
<1>3. position \in Nat /\ position <= 100 * (n - 1)
  BY <1>1, <1>2
<1> QED BY <1>3

(* What is interpolated between two ranks is at most the upper one.        *)
LEMMA Between ==
    ASSUME NEW p \in 0 .. 99, NEW low \in Int, NEW high \in Int, low <= high
    PROVE  /\ (100 - p) * low + p * high \in Int
           /\ (100 - p) * low + p * high <= 100 * high
<1>1. \A c \in Nat, d \in Nat : c * d >= 0
  OBVIOUS
<1>2. (100 - p) * (high - low) >= 0
  BY <1>1
<1>3. (100 - p) * (high - low) = 100 * high - ((100 - p) * low + p * high)
  OBVIOUS
<1> QED BY <1>2, <1>3

(* The rows that a model flags on the data it was trained on.              *)
LEMMA FlaggedFew ==
    ASSUME NEW n \in Nat \ {0}, NEW scores \in [1 .. n -> Int],
           Len(scores) = n
    PROVE  LET preds == Predict(scores, Threshold(scores))
           IN  /\ preds \in [1 .. n -> {1, -1}]
               /\ Cardinality({i \in 1 .. n : preds[i] = -1})
                     <= (Contamination * (n - 1) + 99) \div 100
<1> DEFINE position == Contamination * (n - 1)
           below == position \div 100
           above == (position + 99) \div 100
           part  == position % 100
           low   == Ranked(scores, below)
           high  == Ranked(scores, below + 1)
           thr   == Threshold(scores)
           preds == Predict(scores, thr)
           Flagged == {i \in 1 .. n : preds[i] = -1}
           Under(s) == {i \in 1 .. n : scores[i] < s}
           UpTo(s) == {i \in 1 .. n : scores[i] <= s}
<1>1. /\ below \in 0 .. n - 1
      /\ part \in 0 .. 99
      /\ part # 0 => below + 1 \in 0 .. n - 1
      /\ part = 0 => above = below
      /\ part # 0 => above = below + 1
  BY Interpolation
<1>2. preds \in [1 .. n -> {1, -1}]
  BY DEF Predict
<1>3. Flagged = {i \in 1 .. n : ~ (100 * scores[i] >= thr)}
  BY DEF Predict
<1>4. Cardinality(Flagged) <= above
  <2>1. CASE part = 0
    <3>1. thr = 100 * low
      BY <2>1 DEF Threshold
    <3>2. /\ low \in Int
          /\ Cardinality(Under(low)) <= below
      BY <1>1, RankedScore
    <3>3. Flagged = Under(low)
      <4>1. \A i \in 1 .. n : ~ (100 * scores[i] >= thr) <=> scores[i] < low
        <5> HIDE DEF low, thr
        <5> QED BY <3>1, <3>2
      <4> HIDE DEF low, thr, Flagged
      <4> QED BY <1>3, <4>1
    <3>4. Cardinality(Under(low)) \in Nat
      BY Positions
    <3> HIDE DEF Flagged, Under, low, below, above, part
    <3> QED BY <2>1, <3>2, <3>3, <3>4, <1>1
  <2>2. CASE part # 0
    <3>1. thr = (100 - part) * low + part * high
      BY <2>2 DEF Threshold
    <3>2. /\ low \in Int
          /\ Cardinality(Under(low)) <= below
      BY <1>1, RankedScore
    <3>3. /\ high \in Int
          /\ Cardinality(Under(high)) <= below + 1
          /\ Cardinality(UpTo(high)) > below + 1
      <4> HIDE DEF below, part
      <4> QED BY <1>1, <2>2, RankedScore
    <3>4. low <= high
      <4>1. SUFFICES ASSUME high < low PROVE FALSE
        BY <3>2, <3>3
      <4>2. UpTo(high) \in SUBSET Under(low)
        <5> HIDE DEF low, high
        <5> QED BY <3>2, <3>3, <4>1
      <4>3. IsFiniteSet(Under(low)) /\ Cardinality(Under(low)) \in Nat
            /\ Cardinality(UpTo(high)) \in Nat
        <5>1. Under(low) \in SUBSET (1 .. n) /\ UpTo(high) \in SUBSET (1 .. n)
          OBVIOUS
        <5> HIDE DEF Under, UpTo
        <5> QED BY <5>1, Positions
      <4>4. Cardinality(UpTo(high)) <= Cardinality(Under(low))
        <5> HIDE DEF Under, UpTo
        <5> QED BY <4>2, <4>3, FS_Subset
      <4> HIDE DEF Under, UpTo, low, high, below
      <4> QED BY <3>2, <3>3, <4>3, <4>4, <1>1
    <3>5. thr \in Int /\ thr <= 100 * high
      <4> HIDE DEF part, low, high, thr
      <4> QED BY <1>1, <3>1, <3>2, <3>3, <3>4, Between
    <3>6. Flagged \in SUBSET Under(high)
      <4>1. \A i \in 1 .. n : ~ (100 * scores[i] >= thr) => scores[i] < high
        <5> HIDE DEF high, thr
        <5> QED BY <3>3, <3>5
      <4> HIDE DEF high, thr, Flagged
      <4> QED BY <1>3, <4>1
    <3>7. /\ IsFiniteSet(Under(high)) /\ Cardinality(Under(high)) \in Nat
          /\ Cardinality(Flagged) \in Nat
      <4>1. Under(high) \in SUBSET (1 .. n) /\ Flagged \in SUBSET (1 .. n)
        OBVIOUS
      <4> HIDE DEF Under, Flagged
      <4> QED BY <4>1, Positions
    <3>8. Cardinality(Flagged) <= Cardinality(Under(high))
      <4> HIDE DEF Under, Flagged
      <4> QED BY <3>6, <3>7, FS_Subset
    <3> HIDE DEF Flagged, Under, high, below, above, part
    <3> QED BY <2>2, <3>3, <3>7, <3>8, <1>1
  <2> QED BY <2>1, <2>2
<1> HIDE DEF Flagged
<1> QED BY <1>2, <1>4 DEF Flagged

(* Elements counted by what a function makes of each are all counted once: *)
(* every class has as many numbers as elements.                            *)
OfClass(P, label, l) == {i \in P : label[i] = l}
Numbered(L, number) == UNION {{l} \X (1 .. number[l]) : l \in L}

(* All classes together have as many elements as there are.                *)
LEMMA ClassesAddUp ==
    ASSUME NEW P, IsFiniteSet(P), NEW label, NEW L,
           \A i \in P : label[i] \in L,
           NEW number,
           \A l \in L : number[l] = Cardinality(OfClass(P, label, l))
    PROVE  Cardinality(Numbered(L, number)) = Cardinality(P)
<1> USE DEF OfClass
<1> DEFINE Class(l) == {i \in P : label[i] = l}
           Pairs == UNION {{l} \X (1 .. number[l]) : l \in L}
           pick == [l \in L |->
                      CHOOSE b \in Bijection(1 .. number[l], Class(l)) :
                         TRUE]
           g == [x \in Pairs |-> pick[x[1]][x[2]]]
<1>1. ASSUME NEW l \in L
      PROVE  pick[l] \in Bijection(1 .. number[l], Class(l))
  <2>1. Class(l) \in SUBSET P
    OBVIOUS
  <2>2. IsFiniteSet(Class(l))
    <3> HIDE DEF Class
    <3> QED BY <2>1, FS_Subset
  <2>3. ExistsBijection(1 .. Cardinality(Class(l)), Class(l))
    <3> HIDE DEF Class
    <3> QED BY <2>2, FS_CardinalityType
  <2>4. number[l] = Cardinality(Class(l))
    OBVIOUS
  <2>5. \E b \in Bijection(1 .. number[l], Class(l)) : TRUE
    <3> HIDE DEF Class
    <3> QED BY <2>3, <2>4 DEF ExistsBijection
  <2> HIDE DEF Class
  <2> QED BY <2>5
<1>2. ASSUME NEW x \in Pairs
      PROVE  x[1] \in L /\ x[2] \in 1 .. number[x[1]] /\ x = <<x[1], x[2]>>
  OBVIOUS
<1>3. ASSUME NEW l \in L, NEW m \in 1 .. number[l]
      PROVE  <<l, m>> \in Pairs
  OBVIOUS
<1>4. ASSUME NEW x \in Pairs
      PROVE  g[x] \in P /\ label[g[x]] = x[1]
  <2>1. pick[x[1]] \in [1 .. number[x[1]] -> Class(x[1])]
    <3> HIDE DEF pick, Class, Pairs
    <3> QED BY <1>1, <1>2 DEF Bijection, Injection
  <2>2. g[x] \in Class(x[1])
    <3> HIDE DEF pick, Class, Pairs
    <3> QED BY <2>1, <1>2
  <2> HIDE DEF g
  <2> QED BY <2>2
<1>5. g \in Injection(Pairs, P)
  <2>1. ASSUME NEW x \in Pairs, NEW y \in Pairs, g[x] = g[y] PROVE x = y
    <3>1. x[1] = y[1]
      <4> HIDE DEF g, Pairs
      <4> QED BY <1>4, <2>1
    <3>2. pick[x[1]][x[2]] = pick[x[1]][y[2]]
      <4> HIDE DEF pick, Pairs
      <4> QED BY <2>1, <3>1
    <3>3. x[2] = y[2]
      <4> HIDE DEF pick, Class, Pairs, g
      <4> DEFINE b == pick[x[1]]
      <4>1. /\ b \in [1 .. number[x[1]] -> Class(x[1])]
            /\ \A m, o \in 1 .. number[x[1]] : b[m] = b[o] => m = o
        <5>1. b \in Bijection(1 .. number[x[1]], Class(x[1]))
          BY <1>1, <1>2
        <5> HIDE DEF b
        <5>2. b \in [1 .. number[x[1]] -> Class(x[1])] /\ IsInjective(b)
          BY <5>1 DEF Bijection, Injection
        <5> QED BY <5>2 DEF IsInjective
      <4>2. x[2] \in 1 .. number[x[1]] /\ y[2] \in 1 .. number[x[1]]
        BY <1>2, <3>1
      <4> QED BY <4>1, <4>2, <3>2
    <3> HIDE DEF Pairs, g
    <3> QED BY <1>2, <3>1, <3>3
  <2>2. g \in [Pairs -> P]
    <3> HIDE DEF Pairs
    <3>1. \A x \in Pairs : g[x] \in P
      BY <1>4
    <3> QED BY <3>1
  <2> HIDE DEF g, Pairs
  <2> QED BY <2>1, <2>2 DEF Injection, IsInjective
<1>6. g \in Surjection(Pairs, P)
  <2>1. ASSUME NEW i \in P PROVE \E x \in Pairs : g[x] = i
    <3>1. i \in Class(label[i])
      OBVIOUS
    <3>2. PICK m \in 1 .. number[label[i]] : pick[label[i]][m] = i
      <4> HIDE DEF pick, Class
      <4> QED BY <1>1, <3>1 DEF Bijection, Surjection
    <3>3. <<label[i], m>> \in Pairs
      <4> HIDE DEF Pairs
      <4> QED BY <1>3
    <3>4. g[<<label[i], m>>] = i
      <4> HIDE DEF Pairs, pick
      <4> QED BY <3>2, <3>3
    <3> HIDE DEF g, Pairs
    <3> QED BY <3>3, <3>4
  <2>2. g \in [Pairs -> P]
    BY <1>5 DEF Injection
  <2> HIDE DEF g, Pairs
  <2> QED BY <2>1, <2>2 DEF Surjection
<1> HIDE DEF g, Pairs
<1>7. IsFiniteSet(Pairs) /\ Cardinality(Pairs) = Cardinality(P)
  BY <1>5, <1>6, FS_Injection
<1> QED BY <1>7 DEF Pairs, Numbered

(* A report of verdicts on rows: every row that is flagged is a true or a  *)
(* false positive, and the classes add up to the catches and the attacks.  *)
LEMMA ReportAddsUp ==
    ASSUME NEW n \in Nat, NEW labels, DOMAIN labels = 1 .. n,
           NEW preds \in [1 .. n -> {1, -1}]
    PROVE  LET r == Report(labels, preds)
               Sum(number) == Cardinality(
                  UNION {{label} \X (1 .. number[label]) :
                            label \in DOMAIN number})
           IN  /\ r.tp + r.fp = Cardinality({i \in 1 .. n : preds[i] = -1})
               /\ Sum([label \in DOMAIN r.classes |-> r.classes[label].caught])
                     = r.tp
               /\ Sum([label \in DOMAIN r.classes |-> r.classes[label].total])
                     = r.tp + r.fn
<1> DEFINE r == Report(labels, preds)
           L == {labels[i] : i \in 1 .. n} \ {"NORMAL"}
           Flagged == {i \in 1 .. n : preds[i] = -1}
           Attacks == {i \in 1 .. n : labels[i] # "NORMAL"}
           TP == {i \in 1 .. n : labels[i] # "NORMAL" /\ preds[i] = -1}
           FP == {i \in 1 .. n : labels[i] = "NORMAL" /\ preds[i] = -1}
           FN == {i \in 1 .. n : labels[i] # "NORMAL" /\ preds[i] = 1}
           Class(l) == {i \in 1 .. n : labels[i] = l}
           Caught(l) == {i \in Class(l) : preds[i] = -1}
           caught == [label \in DOMAIN r.classes |-> r.classes[label].caught]
           total == [label \in DOMAIN r.classes |-> r.classes[label].total]
<1>1. /\ r.tp = Cardinality(TP) /\ r.fp = Cardinality(FP)
      /\ r.fn = Cardinality(FN)
  <2>1. {i \in DOMAIN labels : (labels[i] # "NORMAL")
           = TRUE /\ preds[i] = -1} = TP
    OBVIOUS
  <2>2. {i \in DOMAIN labels : (labels[i] # "NORMAL")
           = FALSE /\ preds[i] = -1} = FP
    OBVIOUS
  <2>3. {i \in DOMAIN labels : (labels[i] # "NORMAL")
           = TRUE /\ preds[i] = 1} = FN
    OBVIOUS
  <2>4. /\ r.tp = Cardinality({i \in DOMAIN labels :
                        (labels[i] # "NORMAL") = TRUE /\ preds[i] = -1})
        /\ r.fp = Cardinality({i \in DOMAIN labels :
                        (labels[i] # "NORMAL") = FALSE /\ preds[i] = -1})
        /\ r.fn = Cardinality({i \in DOMAIN labels :
                        (labels[i] # "NORMAL") = TRUE /\ preds[i] = 1})
    BY DEF Report
  <2> HIDE DEF r, TP, FP, FN
  <2> QED BY <2>1, <2>2, <2>3, <2>4
<1>2. r.classes = [l \in L |-> [total |-> Cardinality(Class(l)),
                                caught |-> Cardinality(Caught(l))]]
  <2>1. {labels[i] : i \in DOMAIN labels} \ {"NORMAL"} = L
    OBVIOUS
  <2>2. \A l : {i \in DOMAIN labels : labels[i] = l} = Class(l)
    OBVIOUS
  <2>3. r.classes = [l \in {labels[i] : i \in DOMAIN labels} \ {"NORMAL"} |->
                      [total |-> Cardinality({i \in DOMAIN labels : labels[i]
                             = l}),
                       caught |-> Cardinality({i \in {j \in DOMAIN labels :
                              labels[j] = l} :
                                                 preds[i] = -1})]]
    BY DEF Report
  <2> QED BY <2>3
<1>3. /\ DOMAIN caught = L /\ DOMAIN total = L
      /\ \A l \in L : caught[l] = Cardinality(Caught(l))
      /\ \A l \in L : total[l] = Cardinality(Class(l))
  <2> HIDE DEF r, L, Class, Caught
  <2> QED BY <1>2
<1>4. /\ IsFiniteSet(TP) /\ Cardinality(TP) \in Nat
      /\ IsFiniteSet(FP) /\ Cardinality(FP) \in Nat
      /\ IsFiniteSet(FN) /\ Cardinality(FN) \in Nat
  <2>1. TP \in SUBSET (1 .. n) /\ FP \in SUBSET (1 .. n)
        /\ FN \in SUBSET (1 .. n)
    OBVIOUS
  <2> HIDE DEF TP, FP, FN
  <2> QED BY <2>1, Positions
<1>5. /\ Cardinality(TP \cup FP) = Cardinality(TP) + Cardinality(FP)
      /\ Cardinality(TP \cup FN) = Cardinality(TP) + Cardinality(FN)
      /\ IsFiniteSet(TP \cup FN)
  <2>1. TP \cap FP = {} /\ TP \cap FN = {}
    OBVIOUS
  <2>2. Cardinality({}) = 0
    BY FS_EmptySet
  <2> HIDE DEF TP, FP, FN
  <2>3. /\ Cardinality(TP \cup FP)
              = Cardinality(TP) + Cardinality(FP) - Cardinality(TP \cap FP)
        /\ Cardinality(TP \cup FN)
              = Cardinality(TP) + Cardinality(FN) - Cardinality(TP \cap FN)
        /\ IsFiniteSet(TP \cup FN)
    BY <1>4, FS_Union
  <2>4. Cardinality(TP \cap FP) = 0 /\ Cardinality(TP \cap FN) = 0
    BY <2>1, <2>2, Zenon
  <2> QED BY <1>4, <2>3, <2>4
<1>6. r.tp + r.fp = Cardinality(Flagged)
  <2>1. TP \cup FP = Flagged
    OBVIOUS
  <2> HIDE DEF r, TP, FP, Flagged
  <2> QED BY <1>1, <1>5, <2>1
<1>7. Cardinality(Numbered(L, caught)) = r.tp
  <2>1. \A i \in TP : labels[i] \in L
    OBVIOUS
  <2>2. \A l \in L : Caught(l) = OfClass(TP, labels, l)
    BY DEF OfClass
  <2>3. \A l \in L : caught[l] = Cardinality(OfClass(TP, labels, l))
    <3> HIDE DEF caught, L, TP, Caught
    <3> QED BY <1>3, <2>2
  <2> HIDE DEF r, caught, L, TP, Caught
  <2>4. Cardinality(Numbered(L, caught)) = Cardinality(TP)
    BY <1>4, <2>1, <2>3, ClassesAddUp
  <2> QED BY <1>1, <2>4
<1>8. Cardinality(Numbered(L, total)) = r.tp + r.fn
  <2>1. TP \cup FN = Attacks
    OBVIOUS
  <2>2. \A i \in Attacks : labels[i] \in L
    OBVIOUS
  <2>3. \A l \in L : Class(l) = OfClass(Attacks, labels, l)
    BY DEF OfClass
  <2>4. \A l \in L : total[l] = Cardinality(OfClass(Attacks, labels, l))
    <3> HIDE DEF total, L, Attacks, Class
    <3> QED BY <1>3, <2>3
  <2> HIDE DEF r, total, L, Attacks, TP, FN, Class
  <2>5. IsFiniteSet(Attacks)
    BY <1>5, <2>1
  <2>6. Cardinality(Numbered(L, total)) = Cardinality(Attacks)
    BY <2>2, <2>4, <2>5, ClassesAddUp
  <2> QED BY <1>1, <1>5, <2>1, <2>6
<1>9. /\ r.tp + r.fp = Cardinality(Flagged)
      /\ Cardinality(UNION {{l} \X (1 .. caught[l]) : l \in DOMAIN caught})
             = r.tp
      /\ Cardinality(UNION {{l} \X (1 .. total[l]) : l \in DOMAIN total})
            = r.tp + r.fn
  <2> HIDE DEF r, caught, total, L, Flagged
  <2> QED BY <1>3, <1>6, <1>7, <1>8 DEF Numbered
<1> HIDE DEF Flagged
<1> QED BY <1>9, Zenon DEF Flagged

-------------------------------------------------------------------------------
(* A function on the first numbers is a sequence.                          *)
LEMMA FunctionIsSeq ==
    ASSUME NEW n \in Nat, NEW S, NEW f \in [1 .. n -> S]
    PROVE  f \in Seq(S) /\ Len(f) = n
OBVIOUS

(* What both readers take from a frame, or from a row of the CSV.          *)
Readable(f) ==
    /\ f.id \in Nat
    /\ f.dlc \in 0 .. 8
    /\ f.data \in Seq(0 .. 255)
    /\ f.ts \in Nat

(* A payload is at most eight bytes.                                       *)
LEMMA PayloadBytes ==
    ASSUME NEW f, Readable(f)
    PROVE  Payload(f) \in Seq(0 .. 255) /\ Len(Payload(f)) <= 8
<1> DEFINE m == IF f.dlc < Len(f.data) THEN f.dlc ELSE Len(f.data)
<1>1. m \in 0 .. Len(f.data) /\ m <= 8
  BY DEF Readable
<1>2. Payload(f) = SubSeq(f.data, 1, m)
  BY DEF Payload
<1>3. SubSeq(f.data, 1, m) \in Seq(0 .. 255) /\ Len(SubSeq(f.data, 1, m)) = m
  <2> HIDE DEF m
  <2>1. \A i \in 1 .. m : f.data[i] \in 0 .. 255
    <3>1. \A i \in 1 .. m : i \in 1 .. Len(f.data)
      BY <1>1
    <3>2. \A i \in 1 .. Len(f.data) : f.data[i] \in 0 .. 255
      BY ElementOfSeq DEF Readable
    <3> QED BY <3>1, <3>2
  <2> QED BY <1>1, <2>1, SubSeqProperties
<1> QED BY <1>1, <1>2, <1>3

(* The dictionary d holds, for each id of the first n elements of q, the   *)
(* value of the last of them.                                              *)
Keeps(d, q, value, n) ==
    /\ DOMAIN d = {q[j].id : j \in 1 .. n}
    /\ \A j \in 1 .. n :
          (\A i \in j + 1 .. n : q[i].id # q[j].id) => d[q[j].id] = value[j]

(* An entry for the next element keeps the dictionary up to date.          *)
LEMMA KeepsPut ==
    ASSUME NEW n \in Nat, NEW q, NEW value, NEW d, Keeps(d, q, value, n)
    PROVE  Keeps(Put(d, q[n + 1].id, value[n + 1]), q, value, n + 1)
<1> DEFINE id == q[n + 1].id
           e  == Put(d, id, value[n + 1])
<1>1. DOMAIN e = {q[j].id : j \in 1 .. n + 1}
  <2>1. DOMAIN e = DOMAIN d \cup {id}
    BY DEF Put
  <2>2. 1 .. n + 1 = (1 .. n) \cup {n + 1}
    OBVIOUS
  <2> QED BY <2>1, <2>2 DEF Keeps
<1>2. ASSUME NEW j \in 1 .. n + 1, \A i \in j + 1 .. n + 1 : q[i].id # q[j].id
      PROVE  e[q[j].id] = value[j]
  <2>1. CASE j = n + 1
    BY <2>1 DEF Put
  <2>2. CASE j # n + 1
    <3>1. j \in 1 .. n /\ n + 1 \in j + 1 .. n + 1
      BY <2>2
    <3>2. q[j].id # id
      BY <1>2, <3>1
    <3>3. d[q[j].id] = value[j] /\ q[j].id \in DOMAIN d
      BY <1>2, <3>1 DEF Keeps
    <3> QED BY <3>2, <3>3 DEF Put
  <2> QED BY <2>1, <2>2
<1> HIDE DEF e
<1>3. Keeps(e, q, value, n + 1)
  BY <1>1, <1>2 DEF Keeps
<1> QED BY <1>3 DEF e

(* It depends on the elements alone.                                       *)
LEMMA KeepsSame ==
    ASSUME NEW n \in Nat, NEW q, NEW r, NEW v, NEW w, NEW d, Keeps(d, q, v, n),
           \A j \in 1 .. n : q[j] = r[j] /\ v[j] = w[j]
    PROVE  Keeps(d, r, w, n)
<1>1. {q[j].id : j \in 1 .. n} = {r[j].id : j \in 1 .. n}
  OBVIOUS
<1>2. ASSUME NEW j \in 1 .. n, \A i \in j + 1 .. n : r[i].id # r[j].id
      PROVE  d[r[j].id] = w[j]
  <2>1. \A i \in j + 1 .. n : i \in 1 .. n
    OBVIOUS
  <2> QED BY <1>2, <2>1 DEF Keeps
<1> QED BY <1>1, <1>2 DEF Keeps

(* What a lookup then finds.                                               *)
LEMMA KeepsLookup ==
    ASSUME NEW n \in Nat, NEW q, NEW value, NEW d, NEW id, Keeps(d, q, value, n)
    PROVE  /\ (\A j \in 1 .. n : q[j].id # id) => Lookup(d, id) = None
           /\ \A j \in 1 .. n :
                 q[j].id = id /\ (\A i \in j + 1 .. n : q[i].id # id)
                    => Lookup(d, id) = value[j]
<1>1. ASSUME \A j \in 1 .. n : q[j].id # id PROVE Lookup(d, id) = None
  BY <1>1 DEF Keeps, Lookup
<1>2. ASSUME NEW j \in 1 .. n, q[j].id = id, \A i \in j + 1 .. n : q[i].id # id
      PROVE  Lookup(d, id) = value[j]
  BY <1>2 DEF Keeps, Lookup
<1> QED BY <1>1, <1>2

(* Of the first n elements, none has the id or there is a last that has.   *)
IsLastOf(id, j, q, n) == q[j].id = id /\ \A i \in j + 1 .. n : q[i].id # id

(* There is a last element of an id, unless there is none.                 *)
LEMMA LastOfId ==
    ASSUME NEW n \in Nat, NEW q, NEW id
    PROVE  \/ \A j \in 1 .. n : q[j].id # id
           \/ \E j \in 1 .. n : IsLastOf(id, j, q, n)
<1> DEFINE D == {m \in Nat : m < n /\ q[n - m].id = id}
<1> SUFFICES ASSUME NEW j \in 1 .. n, q[j].id = id
             PROVE  \E k \in 1 .. n : IsLastOf(id, k, q, n)
  OBVIOUS
<1>1. n - j \in D
  <2>1. n - (n - j) = j
    OBVIOUS
  <2> QED BY <2>1
<1>2. PICK m \in D : \A o \in D : m <= o
  <2>1. D \in SUBSET Nat /\ D # {}
    BY <1>1
  <2> HIDE DEF D
  <2> QED BY <2>1, LeastElement
<1>3. ASSUME NEW i \in n - m + 1 .. n, q[i].id = id PROVE FALSE
  <2>1. n - (n - i) = i /\ n - i \in Nat /\ n - i < n
    OBVIOUS
  <2>2. n - i \in D
    BY <1>3, <2>1
  <2>3. m <= n - i
    BY <1>2, <2>2
  <2> QED BY <2>3
<1>4. IsLastOf(id, n - m, q, n) /\ n - m \in 1 .. n
  BY <1>2, <1>3 DEF IsLastOf
<1> QED BY <1>4

(* The window holds the ids of the last elements, as many as it has room   *)
(* for.                                                                    *)
Span(n, width) == IF n < width THEN n ELSE width

Recent(window, q, n, width) ==
    /\ window \in Seq(Nat)
    /\ Len(window) = Span(n, width)
    /\ \A i \in 1 .. Len(window) : window[i] = q[n - Len(window) + i].id

(* The deque slides by one element.                                        *)
LEMMA WindowSlides ==
    ASSUME NEW n \in Nat, NEW width \in Nat \ {0}, NEW q, q[n + 1].id \in Nat,
           NEW window, Recent(window, q, n, width)
    PROVE  Recent(Slide(window, q[n + 1].id, width), q, n + 1, width)
<1> DEFINE id == q[n + 1].id
           slid == Slide(window, id, width)
<1>1. id \in Nat /\ window \in Seq(Nat)
  BY DEF Recent
<1> HIDE DEF id
<1>2. CASE n < width
  <2>1. Len(window) = n /\ Span(n + 1, width) = n + 1
    BY <1>2 DEF Recent, Span
  <2>2. slid = Append(window, id)
    BY <1>2, <2>1 DEF Slide
  <2>3. /\ slid \in Seq(Nat) /\ Len(slid) = n + 1
        /\ \A i \in 1 .. n : slid[i] = window[i]
        /\ slid[n + 1] = id
    BY <1>1, <2>1, <2>2, AppendProperties
  <2>4. ASSUME NEW i \in 1 .. n + 1
        PROVE  slid[i] = q[n + 1 - (n + 1) + i].id
    <3>1. n + 1 - (n + 1) + i = i /\ n - n + i = i
      OBVIOUS
    <3>2. CASE i = n + 1
      BY <2>3, <3>1, <3>2 DEF id
    <3>3. CASE i # n + 1
      <4>1. i \in 1 .. n
        BY <3>3
      <4>2. slid[i] = window[i] /\ window[i] = q[n - n + i].id
        BY <2>1, <2>3, <4>1 DEF Recent
      <4> QED BY <3>1, <4>2
    <3> QED BY <3>2, <3>3
  <2> HIDE DEF slid
  <2>5. Recent(slid, q, n + 1, width)
    <3>1. \A i \in 1 .. Len(slid) : slid[i] = q[n + 1 - Len(slid) + i].id
      BY <2>3, <2>4
    <3>2. Len(slid) = Span(n + 1, width)
      BY <2>1, <2>3
    <3> QED BY <2>3, <3>1, <3>2 DEF Recent
  <2> QED BY <2>5 DEF slid, id
<1>3. CASE n >= width
  <2> DEFINE rest == Tail(window)
  <2>1. Len(window) = width /\ Span(n + 1, width) = width
    BY <1>3 DEF Recent, Span
  <2>2. slid = Append(rest, id)
    BY <2>1 DEF Slide
  <2>3. /\ rest \in Seq(Nat) /\ Len(rest) = width - 1
        /\ \A i \in 1 .. width - 1 : rest[i] = window[i + 1]
    <3>1. window # <<>>
      BY <2>1
    <3> QED BY <1>1, <2>1, <3>1, HeadTailProperties
  <2> HIDE DEF rest
  <2>4. /\ slid \in Seq(Nat) /\ Len(slid) = width
        /\ \A i \in 1 .. width - 1 : slid[i] = rest[i]
        /\ slid[width] = id
    <3>1. Len(rest) + 1 = width
      BY <2>3
    <3> QED BY <1>1, <2>2, <2>3, <3>1, AppendProperties
  <2>5. ASSUME NEW i \in 1 .. width
        PROVE  slid[i] = q[n + 1 - width + i].id
    <3>1. CASE i = width
      <4>1. n + 1 - width + i = n + 1
        BY <3>1
      <4> QED BY <2>4, <3>1, <4>1 DEF id
    <3>2. CASE i # width
      <4>1. i \in 1 .. width - 1 /\ i + 1 \in 1 .. width
            /\ n - width + (i + 1) = n + 1 - width + i
        BY <3>2
      <4>2. slid[i] = window[i + 1]
        BY <2>3, <2>4, <4>1
      <4>3. window[i + 1] = q[n - width + (i + 1)].id
        BY <2>1, <4>1 DEF Recent
      <4> QED BY <4>1, <4>2, <4>3
    <3> QED BY <3>1, <3>2
  <2> HIDE DEF slid
  <2>6. Recent(slid, q, n + 1, width)
    <3>1. \A i \in 1 .. Len(slid) : slid[i] = q[n + 1 - Len(slid) + i].id
      BY <2>4, <2>5
    <3>2. Len(slid) = Span(n + 1, width)
      BY <2>1, <2>4
    <3> QED BY <2>4, <3>1, <3>2 DEF Recent
  <2> QED BY <2>6 DEF slid, id
<1> QED BY <1>2, <1>3

InWindow(q, n, width, id) == {j \in 1 .. n : j > n - width /\ q[j].id = id}

(* And what it counts is the share of an id in the last elements.          *)
LEMMA WindowCounts ==
    ASSUME NEW n \in Nat, NEW width \in Nat \ {0}, NEW q, NEW id, NEW window,
           Recent(window, q, n, width)
    PROVE  Occurrences(window, id) = Cardinality(InWindow(q, n, width, id))
<1> DEFINE s == Len(window)
           A == {i \in 1 .. s : window[i] = id}
           B == {j \in 1 .. n : j > n - width /\ q[j].id = id}
           shift == [i \in A |-> n - s + i]
<1>1. s \in Nat /\ s <= n /\ (s = n \/ s = width) /\ s <= width
  BY DEF Recent, Span
<1>2. \A i \in 1 .. s : window[i] = q[n - s + i].id
  BY DEF Recent
<1>3. shift \in [A -> B]
  <2>1. ASSUME NEW i \in A PROVE n - s + i \in B
    <3>1. n - s + i \in 1 .. n /\ n - s + i > n - width
      BY <1>1
    <3>2. q[n - s + i].id = id
      BY <1>2
    <3> QED BY <3>1, <3>2
  <2> HIDE DEF A, B, s
  <2> QED BY <2>1
<1>4. shift \in Injection(A, B)
  <2>1. ASSUME NEW i \in A, NEW j \in A, shift[i] = shift[j] PROVE i = j
    BY <1>1, <2>1
  <2> HIDE DEF A, B, shift
  <2> QED BY <1>3, <2>1 DEF Injection, IsInjective
<1>5. shift \in Surjection(A, B)
  <2>1. ASSUME NEW j \in B PROVE \E i \in A : shift[i] = j
    <3> DEFINE i == j - (n - s)
    <3>1. i \in 1 .. s /\ n - s + i = j
      BY <1>1
    <3>2. i \in A
      BY <1>2, <3>1
    <3> HIDE DEF i, A, s
    <3> QED BY <3>1, <3>2
  <2> HIDE DEF A, B, shift
  <2> QED BY <1>3, <2>1 DEF Surjection
<1>6. IsFiniteSet(A)
  <2>1. A \in SUBSET (1 .. s)
    OBVIOUS
  <2> HIDE DEF A, s
  <2> QED BY <1>1, <2>1, Positions
<1>7. Cardinality(A) = Cardinality(B)
  <2> HIDE DEF A, B, shift
  <2> QED BY <1>4, <1>5, <1>6, FS_Bijection DEF Bijection, ExistsBijection
<1>8. Occurrences(window, id) = Cardinality(A)
  <2>1. DOMAIN window = 1 .. s
    BY DEF Recent
  <2> QED BY <2>1 DEF Occurrences
<1>9. InWindow(q, n, width, id) = B
  BY DEF InWindow
<1> HIDE DEF A, B
<1> QED BY <1>7, <1>8, <1>9

(* The change rate is the number of the eight places that hold another     *)
(* byte than before, or a byte where there was none.                       *)
Byte(s, i) == IF i <= Len(s) THEN s[i] ELSE None

Differing(s, t, n) == {i \in 1 .. n : s[i] # t[i]}
Changed(s, t)      == {i \in 1 .. 8 : Byte(s, i) # Byte(t, i)}

(* The bytes that both have and that differ, and those that only one has,  *)
(* are the places where two payloads differ.                               *)
LEMMA ChangedPlaces ==
    ASSUME NEW now, NEW before, NEW s \in Nat, NEW l \in Nat,
           s <= l, l <= 8,
           \/ Len(now) = s /\ Len(before) = l
           \/ Len(now) = l /\ Len(before) = s,
           \A i \in 1 .. Len(now) : now[i] # None,
           \A i \in 1 .. Len(before) : before[i] # None
    PROVE  Cardinality(Differing(now, before, s)) + (l - s)
              = Cardinality(Changed(now, before))
<1> DEFINE A == {i \in 1 .. s : now[i] # before[i]}
           B == s + 1 .. l
           C == {i \in 1 .. 8 : Byte(now, i) # Byte(before, i)}
<1>1. ASSUME NEW i \in 1 .. 8
      PROVE  Byte(now, i) # Byte(before, i) <=> i \in A \/ i \in B
  <2>1. CASE i <= s
    BY <2>1 DEF Byte
  <2>2. CASE i > s /\ i <= l
    BY <2>2 DEF Byte
  <2>3. CASE i > l
    BY <2>3 DEF Byte
  <2> QED BY <2>1, <2>2, <2>3
<1>2. C = A \cup B
  <2>1. A \in SUBSET (1 .. 8)
    OBVIOUS
  <2>2. B \in SUBSET (1 .. 8)
    OBVIOUS
  <2> HIDE DEF A, B
  <2> QED BY <1>1, <2>1, <2>2
<1>3. A \cap B = {}
  OBVIOUS
<1>4. IsFiniteSet(A) /\ Cardinality(A) \in Nat
  <2>1. A \in SUBSET (1 .. s)
    OBVIOUS
  <2> HIDE DEF A
  <2> QED BY <2>1, Positions
<1>5. IsFiniteSet(B) /\ Cardinality(B) = l - s
  <2>1. /\ IsFiniteSet(B)
        /\ Cardinality(B) = IF s + 1 > l THEN 0 ELSE l - (s + 1) + 1
    BY FS_Interval
  <2> HIDE DEF B
  <2> QED BY <2>1
<1> HIDE DEF A, B, C
<1>6. Cardinality(A \cap B) = 0
  BY <1>3, FS_EmptySet
<1>7. Cardinality(A \cup B)
         = Cardinality(A) + Cardinality(B) - Cardinality(A \cap B)
  BY <1>4, <1>5, FS_Union
<1>8. Cardinality(C) = Cardinality(A) + (l - s)
  BY <1>2, <1>4, <1>5, <1>6, <1>7
<1> QED BY <1>8 DEF A, C, Differing, Changed

(* So change_rate counts the changed bytes of two payloads.                *)
LEMMA ChangedBytes ==
    ASSUME NEW S, None \notin S, NEW now \in Seq(S), NEW before \in Seq(S),
           Len(now) <= 8, Len(before) <= 8, before # None
    PROVE  ChangeRate(now, before)
              = Cardinality(Changed(now, before))
<1>1. /\ \A i \in 1 .. Len(now) : now[i] # None
      /\ \A i \in 1 .. Len(before) : before[i] # None
  <2>1. \A i \in 1 .. Len(now) : now[i] \in S
    BY ElementOfSeq
  <2>2. \A i \in 1 .. Len(before) : before[i] \in S
    BY ElementOfSeq
  <2> QED BY <2>1, <2>2
<1>4. Len(now) \in Nat /\ Len(before) \in Nat
  BY LenProperties
<1>2. CASE Len(now) < Len(before)
  <2>1. ChangeRate(now, before)
           = Cardinality(Differing(now, before, Len(now)))
                + (Len(before) - Len(now))
    BY <1>2 DEF ChangeRate, Differing
  <2>2. Len(now) <= Len(before)
    BY <1>2, <1>4
  <2> QED BY <1>1, <1>4, <2>1, <2>2, ChangedPlaces
<1>3. CASE ~ (Len(now) < Len(before))
  <2>1. ChangeRate(now, before)
           = Cardinality(Differing(now, before, Len(before)))
                + (Len(now) - Len(before))
    BY <1>3 DEF ChangeRate, Differing
  <2>2. Len(before) <= Len(now)
    BY <1>3, <1>4
  <2> QED BY <1>1, <1>4, <2>1, <2>2, ChangedPlaces
<1> QED BY <1>2, <1>3

(* The state of an extractor, and of the parser's dictionary, after the    *)
(* first n frames, and the vector of the k-th.                             *)
Stamps(q)   == [j \in DOMAIN q |-> q[j].ts]
Payloads(q) == [j \in DOMAIN q |-> Payload(q[j])]

Knows(x, q, n, width) ==
    /\ Keeps(x.stamp, q, Stamps(q), n)
    /\ Keeps(x.payload, q, Payloads(q), n)
    /\ x.last = IF n = 0 THEN None ELSE q[n].ts
    /\ Recent(x.window, q, n, width)

IsVector(v, q, k, width) ==
    /\ v.id = q[k].id /\ v.dlc = q[k].dlc /\ v.bytes = Payload(q[k])
    /\ v.globalGap = Gap(q[k].ts, IF k = 1 THEN None ELSE q[k - 1].ts)
    /\ v.span = Span(k, width)
    /\ v.freq = Cardinality(InWindow(q, k, width, q[k].id))
    /\ (\A j \in 1 .. k - 1 : q[j].id # q[k].id) => v.gap = 0 /\ v.change = 0
    /\ \A j \in 1 .. k - 1 :
          /\ q[j].id = q[k].id
          /\ \A i \in j + 1 .. k - 1 : q[i].id # q[k].id
          => /\ v.gap = Gap(q[k].ts, q[j].ts)
             /\ v.change = ChangeRate(Payload(q[k]), Payload(q[j]))

(* A new extractor knows the first 0 elements.                             *)
LEMMA KnowsNothing ==
    ASSUME NEW q, NEW width \in Nat \ {0}
    PROVE  Knows(Extractor0, q, 0, width)
<1>1. \A v : Keeps(<<>>, q, v, 0)
  BY DEF Keeps
<1>2. Recent(<<>>, q, 0, width)
  BY DEF Recent, Span
<1> QED BY <1>1, <1>2 DEF Knows, Extractor0

(* One that knows n elements and is given the next knows n + 1.            *)
LEMMA KnowsStep ==
    ASSUME NEW n \in Nat, NEW width \in Nat \ {0}, NEW q, n + 1 \in DOMAIN q,
           q[n + 1].id \in Nat, NEW x, Knows(x, q, n, width)
    PROVE  Knows(Extract(x, q[n + 1], width), q, n + 1, width)
<1> DEFINE f == q[n + 1]
           y == Extract(x, f, width)
<1>1. /\ y.stamp = Put(x.stamp, f.id, f.ts)
      /\ y.payload = Put(x.payload, f.id, Payload(f))
      /\ y.last = f.ts
      /\ y.window = Slide(x.window, f.id, width)
  BY DEF Extract
<1>2. Stamps(q)[n + 1] = f.ts /\ Payloads(q)[n + 1] = Payload(f)
  BY DEF Stamps, Payloads
<1> HIDE DEF y
<1>3. Keeps(y.stamp, q, Stamps(q), n + 1)
  BY <1>1, <1>2, KeepsPut DEF Knows
<1>4. Keeps(y.payload, q, Payloads(q), n + 1)
  BY <1>1, <1>2, KeepsPut DEF Knows
<1>5. Recent(y.window, q, n + 1, width)
  BY <1>1, WindowSlides DEF Knows
<1>6. Knows(y, q, n + 1, width)
  BY <1>1, <1>3, <1>4, <1>5 DEF Knows
<1> QED BY <1>6 DEF y

(* And the vector it makes of that one is the one defined.                 *)
LEMMA KnowsVector ==
    ASSUME NEW n \in Nat, NEW width \in Nat \ {0}, NEW q, n + 1 \in DOMAIN q,
           1 .. n \subseteq DOMAIN q,
           q[n + 1].id \in Nat, NEW x, Knows(x, q, n, width)
    PROVE  IsVector(Vector(x, q[n + 1], width), q, n + 1, width)
<1> DEFINE f == q[n + 1]
           v == Vector(x, f, width)
           slid == Slide(x.window, f.id, width)
<1>1. /\ v.id = f.id /\ v.dlc = f.dlc /\ v.bytes = Payload(f)
      /\ v.gap = Gap(f.ts, Lookup(x.stamp, f.id))
      /\ v.globalGap = Gap(f.ts, x.last)
      /\ v.freq = Occurrences(slid, f.id)
      /\ v.span = Len(slid)
      /\ v.change = ChangeRate(Payload(f), Lookup(x.payload, f.id))
  BY DEF Vector
<1>2. Recent(slid, q, n + 1, width)
  BY WindowSlides DEF Knows
<1> HIDE DEF v, slid
<1>3. v.span = Span(n + 1, width)
  BY <1>1, <1>2 DEF Recent
<1>4. v.freq = Cardinality(InWindow(q, n + 1, width, f.id))
  BY <1>1, <1>2, WindowCounts
<1>5. v.globalGap = Gap(f.ts, IF n + 1 = 1 THEN None ELSE q[n].ts)
  BY <1>1 DEF Knows
<1>6. ASSUME \A j \in 1 .. n : q[j].id # f.id
      PROVE  v.gap = 0 /\ v.change = 0
  <2>1. Lookup(x.stamp, f.id) = None /\ Lookup(x.payload, f.id) = None
    BY <1>6, KeepsLookup DEF Knows
  <2> QED BY <1>1, <2>1 DEF Gap, ChangeRate
<1>7. ASSUME NEW j \in 1 .. n, q[j].id = f.id,
             \A i \in j + 1 .. n : q[i].id # f.id
      PROVE  /\ v.gap = Gap(f.ts, q[j].ts)
             /\ v.change = ChangeRate(Payload(f), Payload(q[j]))
  <2>1. Lookup(x.stamp, f.id) = Stamps(q)[j]
    BY <1>7, KeepsLookup DEF Knows
  <2>2. Lookup(x.payload, f.id) = Payloads(q)[j]
    BY <1>7, KeepsLookup DEF Knows
  <2>3. Stamps(q)[j] = q[j].ts /\ Payloads(q)[j] = Payload(q[j])
    BY DEF Stamps, Payloads
  <2> QED BY <1>1, <2>1, <2>2, <2>3
<1>8. n + 1 - 1 = n
  OBVIOUS
<1>9. IsVector(v, q, n + 1, width)
  <2>1. v.globalGap = Gap(f.ts, IF n + 1 = 1 THEN None ELSE q[n + 1 - 1].ts)
    BY <1>5, <1>8
  <2>2. (\A j \in 1 .. n + 1 - 1 : q[j].id # f.id) => v.gap = 0 /\ v.change = 0
    BY <1>6, <1>8
  <2>3. \A j \in 1 .. n + 1 - 1 :
           /\ q[j].id = f.id
           /\ \A i \in j + 1 .. n + 1 - 1 : q[i].id # f.id
           => /\ v.gap = Gap(f.ts, q[j].ts)
              /\ v.change = ChangeRate(Payload(f), Payload(q[j]))
    BY <1>7, <1>8
  <2> QED BY <1>1, <1>3, <1>4, <2>1, <2>2, <2>3 DEF IsVector
<1> QED BY <1>9 DEF v

(* Neither depends on anything but the first n frames.                     *)
LEMMA KnowsSame ==
    ASSUME NEW n \in Nat, NEW width \in Nat \ {0}, NEW q, NEW r, NEW x,
           1 .. n \subseteq DOMAIN q, 1 .. n \subseteq DOMAIN r,
           \A j \in 1 .. n : q[j] = r[j], Knows(x, q, n, width)
    PROVE  Knows(x, r, n, width)
<1>1. \A j \in 1 .. n : Stamps(q)[j]
         = Stamps(r)[j] /\ Payloads(q)[j] = Payloads(r)[j]
  BY DEF Stamps, Payloads
<1>2. Keeps(x.stamp, r, Stamps(r), n) /\ Keeps(x.payload, r, Payloads(r), n)
  BY <1>1, KeepsSame DEF Knows
<1>3. Recent(x.window, r, n, width)
  <2>1. /\ x.window \in Seq(Nat) /\ Len(x.window) = Span(n, width)
        /\ \A i \in 1 .. Len(x.window) : x.window[i]
               = q[n - Len(x.window) + i].id
    BY DEF Knows, Recent
  <2>2. \A i \in 1 .. Len(x.window) : n - Len(x.window) + i \in 1 .. n
    BY <2>1 DEF Span
  <2> QED BY <2>1, <2>2 DEF Recent
<1>4. x.last = IF n = 0 THEN None ELSE r[n].ts
  BY DEF Knows
<1> QED BY <1>2, <1>3, <1>4 DEF Knows

(* A vector depends on the elements it is made of alone.                   *)
LEMMA IsVectorSame ==
    ASSUME NEW k \in Nat \ {0}, NEW width \in Nat \ {0}, NEW q, NEW r, NEW v,
           \A j \in 1 .. k : q[j] = r[j], IsVector(v, q, k, width)
    PROVE  IsVector(v, r, k, width)
<1>1. InWindow(q, k, width, q[k].id) = InWindow(r, k, width, r[k].id)
  BY DEF InWindow
<1>2. q[k] = r[k] /\ (k # 1 => q[k - 1] = r[k - 1])
  OBVIOUS
<1>3. v.freq = Cardinality(InWindow(r, k, width, r[k].id))
  BY <1>1 DEF IsVector
<1>4. /\ v.id = r[k].id /\ v.dlc = r[k].dlc /\ v.bytes = Payload(r[k])
      /\ v.globalGap = Gap(r[k].ts, IF k = 1 THEN None ELSE r[k - 1].ts)
      /\ v.span = Span(k, width)
  BY <1>2 DEF IsVector
<1>5. (\A j \in 1 .. k - 1 : r[j].id # r[k].id) => v.gap = 0 /\ v.change = 0
  BY <1>2 DEF IsVector
<1>6. ASSUME NEW j \in 1 .. k - 1, r[j].id = r[k].id,
             \A i \in j + 1 .. k - 1 : r[i].id # r[k].id
      PROVE  /\ v.gap = Gap(r[k].ts, r[j].ts)
             /\ v.change = ChangeRate(Payload(r[k]), Payload(r[j]))
  <2>1. q[j] = r[j] /\ \A i \in j + 1 .. k - 1 : q[i] = r[i]
    OBVIOUS
  <2> QED BY <1>2, <1>6, <2>1 DEF IsVector
<1> QED BY <1>3, <1>4, <1>5, <1>6 DEF IsVector

(* Training's vectors are those of its rows, in order.                     *)
LEMMA MatrixVectors ==
    ASSUME NEW n \in Nat, NEW width \in Nat \ {0}, NEW rows,
           Len(rows) = n, DOMAIN rows = 1 .. n,
           \A k \in 1 .. n : rows[k].id \in Nat
    PROVE  /\ DOMAIN Matrix(rows, width) = 1 .. n
           /\ Len(Matrix(rows, width)) = n
           /\ \A k \in 1 .. n : IsVector(Matrix(rows, width)[k], rows, k, width)
<1> DEFINE Is(f, m) == f = [k \in 0 .. m |->
                              IF k = 0 THEN Extractor0
                              ELSE Extract(f[k - 1], rows[k], width)]
           after == CHOOSE f : Is(f, n)
           T == {m \in Nat : \E f : Is(f, m)}
           K == {m \in Nat : m <= n => Knows(after[m], rows, m, width)}
<1>1. Nat \subseteq T
  <2>1. 0 \in T
    <3>1. Is([k \in 0 .. 0 |-> Extractor0], 0)
      OBVIOUS
    <3> QED BY <3>1
  <2>2. ASSUME NEW m \in Nat, m \in T PROVE m + 1 \in T
    <3>1. PICK f : Is(f, m)
      BY <2>2
    <3> DEFINE g == [k \in 0 .. m + 1 |->
                        IF k <= m THEN f[k]
                        ELSE Extract(f[m], rows[m + 1], width)]
    <3>2. ASSUME NEW k \in 0 .. m + 1
          PROVE  g[k] = IF k = 0 THEN Extractor0
                        ELSE Extract(g[k - 1], rows[k], width)
      <4>1. CASE k = 0
        BY <3>1, <4>1
      <4>2. CASE k \in 1 .. m
        <5>1. k - 1 \in 0 .. m + 1 /\ k - 1 <= m /\ k \in 0 .. m
          BY <4>2
        <5>2. g[k] = f[k] /\ g[k - 1] = f[k - 1]
          BY <4>2, <5>1
        <5>3. f[k] = Extract(f[k - 1], rows[k], width)
          BY <3>1, <4>2, <5>1
        <5> HIDE DEF g
        <5> QED BY <4>2, <5>2, <5>3
      <4>3. CASE k = m + 1
        <5>1. k - 1 = m
          BY <4>3
        <5>2. g[k] = Extract(f[m], rows[m + 1], width) /\ g[m] = f[m]
          BY <4>3
        <5> HIDE DEF g
        <5> QED BY <4>3, <5>1, <5>2
      <4> QED BY <4>1, <4>2, <4>3
    <3>3. g = [k \in 0 .. m + 1 |-> g[k]]
      OBVIOUS
    <3>4. Is(g, m + 1)
      <4> HIDE DEF g
      <4> QED BY <3>2, <3>3
    <3> HIDE DEF g, Is
    <3> QED BY <3>4
  <2> HIDE DEF T
  <2> QED BY <2>1, <2>2, Induction
<1>2. Is(after, n)
  <2>1. \E f : Is(f, n)
    BY <1>1
  <2> HIDE DEF Is
  <2> QED BY <2>1
<1>3. Matrix(rows, width)
         = [k \in 1 .. n |-> Vector(after[k - 1], rows[k], width)]
  BY DEF Matrix
<1> HIDE DEF after
<1>4. after[0] = Extractor0
  BY <1>2
<1>5. ASSUME NEW k \in 1 .. n
      PROVE  after[k] = Extract(after[k - 1], rows[k], width)
  BY <1>2
<1>6. Nat \subseteq K
  <2>1. 0 \in K
    BY <1>4, KnowsNothing
  <2>2. ASSUME NEW m \in Nat, m \in K PROVE m + 1 \in K
    <3> SUFFICES ASSUME m + 1 <= n
                 PROVE  Knows(after[m + 1], rows, m + 1, width)
      OBVIOUS
    <3>1. m + 1 \in 1 .. n /\ m <= n /\ m + 1 - 1 = m
      OBVIOUS
    <3>2. Knows(after[m], rows, m, width)
      BY <2>2, <3>1
    <3>3. after[m + 1] = Extract(after[m], rows[m + 1], width)
      BY <1>5, <3>1
    <3> QED BY <3>1, <3>2, <3>3, KnowsStep
  <2> HIDE DEF K
  <2> QED BY <2>1, <2>2, Induction
<1>7. ASSUME NEW k \in 1 .. n
      PROVE  IsVector(Matrix(rows, width)[k], rows, k, width)
  <2>1. k - 1 \in Nat /\ k - 1 <= n /\ k - 1 + 1 = k
        /\ 1 .. k - 1 \subseteq 1 .. n
    OBVIOUS
  <2>2. Knows(after[k - 1], rows, k - 1, width)
    BY <1>6, <2>1
  <2>3. IsVector(Vector(after[k - 1], rows[k], width), rows, k, width)
    <3>1. IsVector(Vector(after[k - 1], rows[k - 1 + 1], width), rows,
                   k - 1 + 1, width)
      BY <2>1, <2>2, KnowsVector
    <3> QED BY <2>1, <3>1
  <2> QED BY <1>3, <2>3
<1> QED BY <1>3, <1>7

-------------------------------------------------------------------------------
(* Sequences of anything.                                                  *)
IsList(s) == \E S : s \in Seq(S)

(* What append and concatenation do to them.                               *)
LEMMA ListAppend ==
    ASSUME NEW s, NEW e, IsList(s)
    PROVE  /\ Len(s) \in Nat /\ DOMAIN s = 1 .. Len(s)
           /\ IsList(Append(s, e))
           /\ Len(Append(s, e)) = Len(s) + 1
           /\ \A i \in 1 .. Len(s) : Append(s, e)[i] = s[i]
           /\ Append(s, e)[Len(s) + 1] = e
<1>1. PICK S : s \in Seq(S)
  BY DEF IsList
<1> DEFINE U == S \cup {e}
<1>2. s \in Seq(U)
  <2>1. s \in [1 .. Len(s) -> S] /\ Len(s) \in Nat
    BY <1>1, LenProperties
  <2>2. s \in [1 .. Len(s) -> U]
    BY <2>1
  <2> HIDE DEF U
  <2> QED BY <2>1, <2>2, FunctionIsSeq
<1>3. e \in U
  OBVIOUS
<1> HIDE DEF U
<1>4. /\ Append(s, e) \in Seq(U)
      /\ Len(Append(s, e)) = Len(s) + 1
      /\ \A i \in 1 .. Len(s) : Append(s, e)[i] = s[i]
      /\ Append(s, e)[Len(s) + 1] = e
  BY <1>2, <1>3, AppendProperties
<1>5. Len(s) \in Nat /\ DOMAIN s = 1 .. Len(s)
  BY <1>2, LenProperties
<1>6. IsList(Append(s, e))
  BY <1>4 DEF IsList
<1> QED BY <1>4, <1>5, <1>6

(* The same for concatenation.                                             *)
LEMMA ListConcat ==
    ASSUME NEW s, NEW t, IsList(s), IsList(t)
    PROVE  /\ IsList(s \o t)
           /\ Len(s \o t) = Len(s) + Len(t)
           /\ \A i \in 1 .. Len(s) : (s \o t)[i] = s[i]
           /\ \A i \in 1 .. Len(t) : (s \o t)[Len(s) + i] = t[i]
<1>1. PICK S : s \in Seq(S)
  BY DEF IsList
<1>2. PICK T : t \in Seq(T)
  BY DEF IsList
<1> DEFINE U == S \cup T
<1>3. s \in Seq(U) /\ t \in Seq(U)
  <2>1. s \in [1 .. Len(s) -> S] /\ Len(s) \in Nat
    BY <1>1, LenProperties
  <2>2. t \in [1 .. Len(t) -> T] /\ Len(t) \in Nat
    BY <1>2, LenProperties
  <2>3. s \in [1 .. Len(s) -> U] /\ t \in [1 .. Len(t) -> U]
    BY <2>1, <2>2
  <2> HIDE DEF U
  <2> QED BY <2>1, <2>2, <2>3, FunctionIsSeq
<1> HIDE DEF U
<1>4. /\ s \o t \in Seq(U)
      /\ Len(s \o t) = Len(s) + Len(t)
      /\ \A i \in 1 .. Len(s) + Len(t) :
            (s \o t)[i] = IF i <= Len(s) THEN s[i] ELSE t[i - Len(s)]
  BY <1>3, ConcatProperties
<1>5. Len(s) \in Nat /\ Len(t) \in Nat
  BY <1>3, LenProperties
<1>6. \A i \in 1 .. Len(s) : (s \o t)[i] = s[i]
  BY <1>4, <1>5
<1>7. ASSUME NEW i \in 1 .. Len(t) PROVE (s \o t)[Len(s) + i] = t[i]
  <2>1. /\ Len(s) + i \in 1 .. Len(s) + Len(t)
        /\ ~ (Len(s) + i <= Len(s)) /\ Len(s) + i - Len(s) = i
    BY <1>5
  <2> QED BY <1>4, <2>1
<1>8. IsList(s \o t)
  BY <1>4 DEF IsList
<1> QED BY <1>4, <1>6, <1>7, <1>8

-------------------------------------------------------------------------------
(* What the readers have seen: all frames of the stream, and those that    *)
(* the detector has taken.                                                 *)
Heard == [i \in DOMAIN stream |-> stream[i].frame]
Accepted == [k \in DOMAIN live |-> stream[live[k].at].frame]

Frame == [id : Nat, dlc : 0 .. 8, data : Seq(0 .. 255), ts : Nat]
Event == [frame : Frame, label : Labels]

TypeInv ==
    /\ phase \in {"compose", "log", "closed", "aborted", "trained", "no data"}
    /\ stream \in Seq(Event)
    /\ next \in Nat \ {0}
    /\ next <= Len(stream) + 1
    /\ size \in Nat \ {0}
    /\ phase = "compose" =>
          /\ next = 1
          /\ parser = Parser0
          /\ extractor = Extractor0
          /\ live = <<>>
          /\ buffer = <<>>
          /\ file = <<>>

(* The detector has taken the frames that can be decoded, in order.        *)
LiveInv ==
    /\ IsList(live)
    /\ \A k \in 1 .. Len(live) :
          live[k].at \in 1 .. next - 1 /\ Decodes(stream[live[k].at].frame)
    /\ \A j, k \in 1 .. Len(live) : j < k => live[j].at < live[k].at
    /\ \A i \in 1 .. next - 1 :
          Decodes(stream[i].frame) => \E k \in 1 .. Len(live) : live[k].at = i

(* The parser knows all of the stream so far, and has measured from there. *)
IsParsed(p, q, i) ==
    /\ p.globalGap = Gap(q[i].ts, IF i = 1 THEN None ELSE q[i - 1].ts)
    /\ (\A j \in 1 .. i - 1 : q[j].id # q[i].id) => p.gap = 0
    /\ \A j \in 1 .. i - 1 :
          /\ q[j].id = q[i].id
          /\ \A o \in j + 1 .. i - 1 : q[o].id # q[i].id
          => p.gap = Gap(q[i].ts, q[j].ts)

ParserInv ==
    /\ Keeps(parser.seen, Heard, Stamps(Heard), next - 1)
    /\ parser.last = IF next = 1 THEN None ELSE Heard[next - 1].ts
    /\ \A k \in 1 .. Len(live) : IsParsed(live[k].parsed, Heard, live[k].at)

(* The extractor knows the frames that were taken, and so do the vectors.  *)
VectorInv ==
    /\ Knows(extractor, Accepted, Len(live), size)
    /\ \A k \in 1 .. Len(live) : IsVector(live[k].vector, Accepted, k, size)

(* The file and then the buffer hold the rows of the frames taken.         *)
CsvInv ==
    /\ IsList(file) /\ IsList(buffer)
    /\ Len(file) + Len(buffer) <= Len(live)
    /\ phase \in {"compose", "log", "closed"} =>
          Len(file) + Len(buffer) = Len(live)
    /\ phase \notin {"compose", "log"} => buffer = <<>>
    /\ \A i \in 1 .. Len(file) : file[i] = Row(stream[live[i].at])
    /\ \A i \in 1 .. Len(buffer) :
          buffer[i] = Row(stream[live[Len(file) + i].at])

(* The report is that of some scores of the rows.                          *)
ReportInv ==
    phase = "trained" =>
       /\ file # <<>>
       /\ \E scores \in [1 .. Len(file) -> Int] :
             report = Report([i \in 1 .. Len(file) |-> file[i].label],
                             Predict(scores, Threshold(scores)))

DatasetInv ==
    TypeInv /\ LiveInv /\ ParserInv /\ VectorInv /\ CsvInv /\ ReportInv

(* None is no time, no id, no payload and no byte.                         *)
LEMMA NoneIsNothing ==
    /\ None \notin Nat
    /\ None \notin Seq(0 .. 255)
BY DatasetAssumption

(* In particular no byte.                                                  *)
LEMMA NoByteIsNone == None \notin 0 .. 255
<1>1. 0 .. 255 \subseteq Nat
  OBVIOUS
<1> QED BY <1>1, NoneIsNothing, Zenon

(* What is composed is a frame.                                            *)
LEMMA FramesAreFrames ==
    ASSUME NEW frame \in Frames, NEW t \in Times
    PROVE  At(frame, t) \in Frame
<1>1. /\ frame \in [id : Nat, dlc : 0 .. 8, data : Seq(0 .. 255)]
      /\ t \in Nat
  BY DatasetAssumption
<1> QED BY <1>1 DEF At, Frame

(* What is heard is the stream.                                            *)
LEMMA HeardFrames ==
    ASSUME TypeInv
    PROVE  /\ DOMAIN stream = 1 .. Len(stream)
           /\ Len(stream) \in Nat
           /\ \A i \in 1 .. Len(stream) :
                 stream[i].frame \in Frame /\ Heard[i] = stream[i].frame
<1>1. stream \in Seq(Event)
  BY DEF TypeInv
<1>2. /\ DOMAIN stream = 1 .. Len(stream)
      /\ Len(stream) \in Nat
      /\ \A i \in 1 .. Len(stream) : stream[i] \in Event
  BY <1>1, LenProperties, ElementOfSeq
<1> QED BY <1>2 DEF Heard, Event

(* The invariant holds at first.                                           *)
LEMMA InitInv == Init => DatasetInv
<1> SUFFICES ASSUME Init PROVE DatasetInv
  OBVIOUS
<1>1. /\ phase = "compose" /\ stream = <<>> /\ next = 1 /\ size = CsvWindow
      /\ parser = Parser0 /\ extractor = Extractor0 /\ live = <<>>
      /\ buffer = <<>> /\ file = <<>>
  BY DEF Init
<1>2. TypeInv
  BY <1>1, DatasetAssumption DEF TypeInv
<1>3. LiveInv
  BY <1>1 DEF LiveInv, IsList
<1>4. ParserInv
  BY <1>1 DEF ParserInv, Parser0, Keeps
<1>5. VectorInv
  <2>1. CsvWindow \in Nat \ {0}
    BY DatasetAssumption
  <2> QED BY <1>1, <2>1, KnowsNothing DEF VectorInv
<1>6. CsvInv
  BY <1>1 DEF CsvInv, IsList
<1>7. ReportInv
  BY <1>1 DEF ReportInv
<1> QED BY <1>2, <1>3, <1>4, <1>5, <1>6, <1>7 DEF DatasetInv

(* While the stream is composed nothing has been read of it.               *)
LEMMA Composed ==
    ASSUME DatasetInv, phase = "compose",
           phase' \in {"compose", "log"}, stream' \in Seq(Event),
           size' \in Nat \ {0},
           UNCHANGED <<next, parser, extractor, live, buffer, file>>
    PROVE  DatasetInv'
<1>1. /\ next = 1 /\ parser = Parser0 /\ extractor = Extractor0
      /\ live = <<>> /\ buffer = <<>> /\ file = <<>>
  BY DEF DatasetInv, TypeInv
<1>2. TypeInv'
  <2>1. Len(stream') \in Nat
    BY LenProperties
  <2>2. next' <= Len(stream') + 1
    BY <1>1, <2>1
  <2>3. stream' \in Seq(Event) /\ size' \in Nat \ {0}
    OBVIOUS
  <2>4. /\ next' \in Nat \ {0} /\ next' = 1 /\ parser' = Parser0
        /\ extractor' = Extractor0 /\ live' = <<>> /\ buffer' = <<>>
        /\ file' = <<>>
    BY <1>1
  <2>5. phase' \in {"compose", "log", "closed", "aborted", "trained", "no data"}
    OBVIOUS
  <2> QED BY <2>2, <2>3, <2>4, <2>5, Zenon DEF TypeInv
<1>3. LiveInv'
  BY <1>1 DEF LiveInv, IsList
<1>4. ParserInv'
  BY <1>1 DEF ParserInv, Parser0, Keeps
<1>5. VectorInv'
  <2>1. Knows(Extractor0, Accepted', 0, size')
    BY KnowsNothing
  <2>2. extractor' = Extractor0 /\ live' = <<>>
    BY <1>1
  <2>3. Len(live') = 0
    BY <2>2
  <2> QED BY <2>1, <2>2, <2>3 DEF VectorInv
<1>6. CsvInv'
  BY <1>1 DEF CsvInv, IsList
<1>7. ReportInv'
  BY DEF ReportInv
<1> QED BY <1>2, <1>3, <1>4, <1>5, <1>6, <1>7 DEF DatasetInv

(* A generator or a bus adds a frame.                                      *)
LEMMA ComposeInv ==
    ASSUME DatasetInv, NEW frame \in Frames, NEW t \in Times,
           NEW label \in Labels, Compose(frame, t, label)
    PROVE  DatasetInv'
<1>1. [frame |-> At(frame, t), label |-> label] \in Event
  BY FramesAreFrames DEF Event
<1>2. stream' \in Seq(Event)
  <2>1. stream \in Seq(Event)
    BY DEF DatasetInv, TypeInv
  <2>2. stream' = Append(stream, [frame |-> At(frame, t), label |-> label])
    BY DEF Compose
  <2> QED BY <1>1, <2>1, <2>2, AppendProperties
<1>3. /\ phase = "compose" /\ phase' = phase /\ size' = size
      /\ UNCHANGED <<next, parser, extractor, live, buffer, file>>
  BY DEF Compose
<1>4. size' \in Nat \ {0}
  BY <1>3 DEF DatasetInv, TypeInv
<1> QED BY <1>2, <1>3, <1>4, Composed

(* The frames are sorted and reading starts; a rearrangement of events is  *)
(* a sequence of events.                                                   *)
LEMMA BeginInv ==
    ASSUME DatasetInv, NEW window \in Windows, Begin(window)
    PROVE  DatasetInv'
<1>1. stream' \in Seq(Event)
  <2>1. stream \in Seq(Event)
    BY DEF DatasetInv, TypeInv
  <2>2. Chronological(stream) \subseteq Seq(Event)
    BY <2>1 DEF Chronological
  <2> QED BY <2>1, <2>2 DEF Begin
<1>2. size' \in Nat \ {0}
  BY DatasetAssumption DEF Begin
<1>3. /\ phase = "compose" /\ phase' = "log"
      /\ UNCHANGED <<next, parser, extractor, live, buffer, file>>
  BY DEF Begin
<1> QED BY <1>1, <1>2, <1>3, Composed

(* What is accepted is part of what is heard.                              *)
LEMMA AcceptedFrames ==
    ASSUME TypeInv, LiveInv
    PROVE  /\ DOMAIN Accepted = 1 .. Len(live)
           /\ Len(live) \in Nat
           /\ \A k \in 1 .. Len(live) :
                 /\ live[k].at \in 1 .. Len(stream)
                 /\ Accepted[k] = stream[live[k].at].frame
                 /\ Accepted[k] \in Frame
                 /\ Accepted[k] = Heard[live[k].at]
<1>1. Len(live) \in Nat /\ DOMAIN live = 1 .. Len(live)
  BY ListAppend DEF LiveInv
<1>2. ASSUME NEW k \in 1 .. Len(live) PROVE live[k].at \in 1 .. Len(stream)
  <2>1. live[k].at \in 1 .. next - 1
    BY DEF LiveInv
  <2>2. next \in Nat /\ next <= Len(stream) + 1 /\ Len(stream) \in Nat
    BY HeardFrames DEF TypeInv
  <2> QED BY <2>1, <2>2
<1>3. DOMAIN Accepted = 1 .. Len(live)
  BY <1>1 DEF Accepted
<1>4. ASSUME NEW k \in 1 .. Len(live)
      PROVE  Accepted[k] = stream[live[k].at].frame
  BY <1>1 DEF Accepted
<1> QED BY <1>1, <1>2, <1>3, <1>4, HeardFrames

(* The parser after the next frame, and what it measures of it.            *)
LEMMA ParserReads ==
    ASSUME DatasetInv, next <= Len(stream),
           parser' = Parse(parser, stream[next].frame),
           stream' = stream, next' = next + 1
    PROVE  /\ Heard' = Heard
           /\ Keeps(parser'.seen, Heard, Stamps(Heard), next)
           /\ parser'.last = Heard[next].ts
           /\ IsParsed(Parsed(parser, stream[next].frame), Heard, next)
<1> DEFINE f == stream[next].frame
           n == next - 1
           p == Parsed(parser, f)
<1>1. TypeInv /\ ParserInv
  BY DEF DatasetInv
<1>2. next \in Nat \ {0} /\ n \in Nat /\ n + 1 = next
  <2>1. next \in Nat \ {0}
    BY <1>1 DEF TypeInv
  <2> QED BY <2>1
<1>3. next \in 1 .. Len(stream) /\ next \in DOMAIN Heard
  <2>1. Len(stream) \in Nat /\ DOMAIN stream = 1 .. Len(stream)
    BY <1>1, HeardFrames
  <2> QED BY <1>2, <2>1 DEF Heard
<1>4. Heard[next] = f /\ Stamps(Heard)[next] = f.ts
  <2>1. Heard[next] = f
    BY <1>1, <1>3, HeardFrames
  <2> QED BY <1>3, <2>1 DEF Stamps
<1>5. Heard' = Heard
  BY DEF Heard
<1>6. /\ Keeps(parser.seen, Heard, Stamps(Heard), n)
      /\ parser.last = IF next = 1 THEN None ELSE Heard[n].ts
  BY <1>1 DEF ParserInv
<1>7. parser'.seen = Put(parser.seen, f.id, f.ts) /\ parser'.last = f.ts
  BY DEF Parse
<1>8. p.gap = Gap(f.ts, Lookup(parser.seen, f.id)) /\ p.globalGap
         = Gap(f.ts, parser.last)
  BY DEF Parsed
<1> HIDE DEF f, n, p
<1>9. Keeps(parser'.seen, Heard, Stamps(Heard), next)
  <2>1. Keeps(Put(parser.seen, Heard[n + 1].id, Stamps(Heard)[n + 1]),
              Heard, Stamps(Heard), n + 1)
    BY <1>2, <1>6, KeepsPut
  <2> QED BY <1>2, <1>4, <1>7, <2>1
<1>10. ASSUME \A j \in 1 .. n : Heard[j].id # f.id PROVE p.gap = 0
  <2>1. Lookup(parser.seen, f.id) = None
    BY <1>2, <1>6, <1>10, KeepsLookup
  <2> QED BY <1>8, <2>1 DEF Gap
<1>11. ASSUME NEW j \in 1 .. n, Heard[j].id = f.id,
              \A o \in j + 1 .. n : Heard[o].id # f.id
       PROVE  p.gap = Gap(f.ts, Heard[j].ts)
  <2>1. Lookup(parser.seen, f.id) = Stamps(Heard)[j]
    BY <1>2, <1>6, <1>11, KeepsLookup
  <2>2. j \in DOMAIN Heard
    BY <1>1, <1>2, <1>3, HeardFrames DEF Heard
  <2>3. Stamps(Heard)[j] = Heard[j].ts
    BY <2>2 DEF Stamps
  <2> QED BY <1>8, <2>1, <2>3
<1>12. p.globalGap = Gap(f.ts, IF next = 1 THEN None ELSE Heard[n].ts)
  BY <1>6, <1>8
<1>13. IsParsed(p, Heard, next)
  BY <1>4, <1>10, <1>11, <1>12 DEF IsParsed, n
<1> QED BY <1>4, <1>5, <1>7, <1>9, <1>13 DEF p, f

(* A step that reads nothing changes nothing of what has been read.        *)
LEMMA NothingRead ==
    ASSUME LiveInv, ParserInv, VectorInv,
           UNCHANGED <<stream, next, size, parser, extractor, live>>
    PROVE  LiveInv' /\ ParserInv' /\ VectorInv'
<1>1. Heard' = Heard /\ Accepted' = Accepted
  BY DEF Heard, Accepted
<1>2. LiveInv'
  BY DEF LiveInv
<1>3. ParserInv'
  BY <1>1 DEF ParserInv
<1>4. VectorInv'
  BY <1>1 DEF VectorInv
<1> QED BY <1>2, <1>3, <1>4

(* A frame that cannot be decoded: the parser hears it, the extractor does *)
(* not.                                                                    *)
LEMMA RefuseInv ==
    ASSUME DatasetInv, Refuse
    PROVE  DatasetInv'
<1>1. /\ TypeInv /\ LiveInv /\ ParserInv /\ VectorInv /\ CsvInv
      /\ phase = "log" /\ next <= Len(stream)
      /\ ~Decodes(stream[next].frame)
      /\ parser' = Parse(parser, stream[next].frame)
      /\ next' = next + 1
      /\ UNCHANGED <<stream, size, extractor, live, file>>
      /\ \/ phase' = "aborted" /\ buffer' = <<>>
         \/ phase' = "log" /\ buffer' = buffer
  BY DEF Refuse, DatasetInv
<1>2. next \in Nat \ {0} /\ Len(stream) \in Nat
  BY <1>1, HeardFrames DEF TypeInv
<1>3. TypeInv'
  <2>1. next' \in Nat \ {0} /\ next' <= Len(stream') + 1
    BY <1>1, <1>2
  <2> QED BY <1>1, <2>1 DEF TypeInv
<1>4. LiveInv'
  <2>1. ASSUME NEW i \in 1 .. next' - 1, Decodes(stream[i].frame)
        PROVE  \E k \in 1 .. Len(live) : live[k].at = i
    <3>1. i # next
      BY <1>1, <2>1
    <3>2. i \in 1 .. next - 1
      BY <1>1, <1>2, <3>1
    <3> QED BY <1>1, <2>1, <3>2 DEF LiveInv
  <2>2. ASSUME NEW k \in 1 .. Len(live)
        PROVE  live[k].at \in 1 .. next' - 1
               /\ Decodes(stream[live[k].at].frame)
    <3>1. live[k].at \in 1 .. next - 1 /\ Decodes(stream[live[k].at].frame)
      BY <1>1 DEF LiveInv
    <3> QED BY <1>1, <1>2, <3>1
  <2>3. IsList(live) /\ \A j, k \in 1 .. Len(live) : j < k
           => live[j].at < live[k].at
    BY <1>1 DEF LiveInv
  <2> QED BY <1>1, <2>1, <2>2, <2>3 DEF LiveInv
<1>5. ParserInv'
  <2>1. /\ Heard' = Heard
        /\ Keeps(parser'.seen, Heard, Stamps(Heard), next)
        /\ parser'.last = Heard[next].ts
    BY <1>1, ParserReads
  <2>2. next' - 1 = next /\ next' # 1
    BY <1>1, <1>2
  <2>3. \A k \in 1 .. Len(live) : IsParsed(live[k].parsed, Heard, live[k].at)
    BY <1>1 DEF ParserInv
  <2> QED BY <1>1, <2>1, <2>2, <2>3 DEF ParserInv
<1>6. VectorInv'
  <2>1. Accepted' = Accepted
    BY <1>1 DEF Accepted
  <2> QED BY <1>1, <2>1 DEF VectorInv
<1>7. CsvInv'
  <2>1. CASE phase' = "aborted" /\ buffer' = <<>>
    <3>1. IsList(buffer') /\ Len(buffer') = 0
      BY <2>1 DEF IsList
    <3>2. IsList(file) /\ Len(file) \in Nat /\ Len(buffer) \in Nat
      BY <1>1, ListAppend DEF CsvInv
    <3>3. Len(file) <= Len(live) /\ Len(live) \in Nat
      BY <1>1, <3>2, AcceptedFrames DEF CsvInv
    <3>4. \A i \in 1 .. Len(file) : file[i] = Row(stream[live[i].at])
      BY <1>1 DEF CsvInv
    <3> QED BY <1>1, <2>1, <3>1, <3>2, <3>3, <3>4 DEF CsvInv
  <2>2. CASE phase' = "log" /\ buffer' = buffer
    BY <1>1, <2>2 DEF CsvInv
  <2> QED BY <1>1, <2>1, <2>2
<1>8. ReportInv'
  BY <1>1 DEF ReportInv
<1> QED BY <1>3, <1>4, <1>5, <1>6, <1>7, <1>8 DEF DatasetInv

(* A frame that can be decoded reaches both readers and the buffer, or     *)
(* with the buffer the file.                                               *)
LEMMA AcceptInv ==
    ASSUME DatasetInv, Accept
    PROVE  DatasetInv'
<1> DEFINE event == stream[next]
           f     == event.frame
           n     == Len(live)
           entry == [at     |-> next,
                     parsed |-> Parsed(parser, f),
                     vector |-> Vector(extractor, f, size)]
<1>1. /\ TypeInv /\ LiveInv /\ ParserInv /\ VectorInv /\ CsvInv
      /\ phase = "log" /\ next <= Len(stream)
      /\ Decodes(f)
      /\ parser' = Parse(parser, f)
      /\ extractor' = Extract(extractor, f, size)
      /\ live' = Append(live, entry)
      /\ next' = next + 1
      /\ UNCHANGED <<phase, stream, size>>
  BY DEF Accept, DatasetInv
<1>2. \/ /\ file' = file \o Append(buffer, Row(event))
         /\ buffer' = <<>>
      \/ /\ buffer' = Append(buffer, Row(event))
         /\ file' = file
  BY DEF Accept
<1>3. /\ next \in Nat \ {0} /\ size \in Nat \ {0}
      /\ next \in 1 .. Len(stream)
      /\ f \in Frame /\ Heard[next] = f
  <2>1. next \in Nat \ {0} /\ size \in Nat \ {0}
    BY <1>1 DEF TypeInv
  <2>2. Len(stream) \in Nat
    BY <1>1, HeardFrames
  <2>3. next \in 1 .. Len(stream)
    BY <1>1, <2>1, <2>2
  <2> QED BY <1>1, <2>1, <2>3, HeardFrames
<1>4. n \in Nat /\ DOMAIN live = 1 .. n
  BY <1>1, ListAppend DEF LiveInv
<1>5. /\ IsList(live') /\ Len(live') = n + 1
      /\ \A k \in 1 .. n : live'[k] = live[k]
      /\ live'[n + 1] = entry
  BY <1>1, ListAppend DEF LiveInv
<1>6. entry.at = next /\ entry.parsed = Parsed(parser, f)
      /\ entry.vector = Vector(extractor, f, size)
  OBVIOUS
<1>7. /\ DOMAIN live' = 1 .. n + 1
      /\ DOMAIN Accepted' = 1 .. n + 1
      /\ Accepted'[n + 1] = f
      /\ \A k \in 1 .. n : Accepted'[k] = Accepted[k]
  <2>1. DOMAIN live' = 1 .. n + 1
    BY <1>5, ListAppend
  <2>2. Accepted' = [k \in DOMAIN live' |-> stream[live'[k].at].frame]
    BY <1>1 DEF Accepted
  <2> HIDE DEF entry, n
  <2>3. Accepted'[n + 1] = f
    BY <1>4, <1>5, <1>6, <2>1, <2>2
  <2>4. ASSUME NEW k \in 1 .. n PROVE Accepted'[k] = Accepted[k]
    <3>1. k \in 1 .. n + 1
      BY <1>4
    <3> QED BY <1>4, <1>5, <2>1, <2>2, <3>1 DEF Accepted
  <2> QED BY <2>1, <2>2, <2>3, <2>4
<1>8. /\ Heard' = Heard
      /\ Keeps(parser'.seen, Heard, Stamps(Heard), next)
      /\ parser'.last = Heard[next].ts
      /\ IsParsed(Parsed(parser, f), Heard, next)
  BY <1>1, ParserReads
<1> HIDE DEF entry, n, f
<1>9. next' - 1 = next /\ next' # 1 /\ next' \in Nat \ {0}
  BY <1>1, <1>3
<1>10. TypeInv'
  <2>1. next' <= Len(stream') + 1
    BY <1>1, <1>3
  <2> QED BY <1>1, <1>9, <2>1 DEF TypeInv
<1>11. LiveInv'
  <2>1. ASSUME NEW k \in 1 .. n + 1
        PROVE  /\ live'[k].at \in 1 .. next
               /\ Decodes(stream[live'[k].at].frame)
    <3>1. CASE k = n + 1
      BY <1>1, <1>3, <1>5, <1>6, <3>1 DEF f
    <3>2. CASE k # n + 1
      <4>1. k \in 1 .. n
        BY <1>4, <3>2
      <4>2. live[k].at \in 1 .. next - 1 /\ Decodes(stream[live[k].at].frame)
        BY <1>1, <4>1 DEF LiveInv, n
      <4> QED BY <1>3, <1>5, <4>1, <4>2
    <3> QED BY <3>1, <3>2
  <2>2. ASSUME NEW j \in 1 .. n + 1, NEW k \in 1 .. n + 1, j < k
        PROVE  live'[j].at < live'[k].at
    <3>1. j \in 1 .. n
      BY <1>4, <2>2
    <3>2. live[j].at \in 1 .. next - 1
      BY <1>1, <3>1 DEF LiveInv, n
    <3>3. CASE k = n + 1
      BY <1>3, <1>5, <1>6, <3>1, <3>2, <3>3
    <3>4. CASE k # n + 1
      <4>1. k \in 1 .. n
        BY <1>4, <3>4
      <4>2. live[j].at < live[k].at
        BY <1>1, <2>2, <3>1, <4>1 DEF LiveInv, n
      <4> QED BY <1>5, <3>1, <4>1, <4>2
    <3> QED BY <3>3, <3>4
  <2>3. ASSUME NEW i \in 1 .. next, Decodes(stream[i].frame)
        PROVE  \E k \in 1 .. n + 1 : live'[k].at = i
    <3>1. CASE i = next
      <4>1. n + 1 \in 1 .. n + 1
        BY <1>4
      <4> QED BY <1>5, <1>6, <3>1, <4>1
    <3>2. CASE i # next
      <4>1. i \in 1 .. next - 1
        BY <1>3, <3>2
      <4>2. PICK k \in 1 .. n : live[k].at = i
        BY <1>1, <2>3, <4>1 DEF LiveInv, n
      <4>3. k \in 1 .. n + 1
        BY <1>4
      <4> QED BY <1>5, <4>2, <4>3
    <3> QED BY <3>1, <3>2
  <2> QED BY <1>1, <1>5, <1>9, <2>1, <2>2, <2>3 DEF LiveInv
<1>12. ParserInv'
  <2>1. ASSUME NEW k \in 1 .. n + 1
        PROVE  IsParsed(live'[k].parsed, Heard, live'[k].at)
    <3>1. CASE k = n + 1
      BY <1>5, <1>6, <1>8, <3>1
    <3>2. CASE k # n + 1
      <4>1. k \in 1 .. n
        BY <1>4, <3>2
      <4>2. IsParsed(live[k].parsed, Heard, live[k].at)
        BY <1>1, <4>1 DEF ParserInv, n
      <4> QED BY <1>5, <4>1, <4>2
    <3> QED BY <3>1, <3>2
  <2> QED BY <1>5, <1>8, <1>9, <2>1 DEF ParserInv
<1>13. VectorInv'
  <2>1. 1 .. n \subseteq DOMAIN Accepted /\ 1 .. n \subseteq DOMAIN Accepted'
        /\ n + 1 \in DOMAIN Accepted'
    BY <1>1, <1>4, <1>7, AcceptedFrames DEF n
  <2>2. Accepted'[n + 1].id \in Nat
    BY <1>3, <1>7 DEF Frame
  <2>3. Knows(extractor, Accepted', n, size)
    <3>1. Knows(extractor, Accepted, n, size)
      BY <1>1 DEF VectorInv, n
    <3> QED BY <1>3, <1>4, <1>7, <2>1, <3>1, KnowsSame
  <2>4. Knows(extractor', Accepted', n + 1, size)
    <3>1. Knows(Extract(extractor, Accepted'[n + 1], size), Accepted',
                n + 1, size)
      BY <1>3, <1>4, <2>1, <2>2, <2>3, KnowsStep
    <3> QED BY <1>1, <1>7, <3>1
  <2>5. IsVector(Vector(extractor, f, size), Accepted', n + 1, size)
    <3>1. IsVector(Vector(extractor, Accepted'[n + 1], size), Accepted',
                   n + 1, size)
      BY <1>3, <1>4, <2>1, <2>2, <2>3, KnowsVector
    <3> QED BY <1>7, <3>1
  <2>6. ASSUME NEW k \in 1 .. n + 1
        PROVE  IsVector(live'[k].vector, Accepted', k, size)
    <3>1. CASE k = n + 1
      BY <1>5, <1>6, <2>5, <3>1
    <3>2. CASE k # n + 1
      <4>1. k \in 1 .. n /\ k \in Nat \ {0} /\ 1 .. k \subseteq 1 .. n
        BY <1>4, <3>2
      <4>2. IsVector(live[k].vector, Accepted, k, size)
        BY <1>1, <4>1 DEF VectorInv, n
      <4>3. \A j \in 1 .. k : Accepted[j] = Accepted'[j]
        BY <1>7, <4>1
      <4>4. IsVector(live[k].vector, Accepted', k, size)
        BY <1>3, <4>1, <4>2, <4>3, IsVectorSame
      <4> QED BY <1>5, <4>1, <4>4
    <3> QED BY <3>1, <3>2
  <2> QED BY <1>1, <1>5, <2>4, <2>6 DEF VectorInv
<1>14. CsvInv'
  <2>1. /\ IsList(file) /\ IsList(buffer)
        /\ Len(file) \in Nat /\ Len(buffer) \in Nat
        /\ Len(file) + Len(buffer) = n
        /\ \A i \in 1 .. Len(file) : file[i] = Row(stream[live[i].at])
        /\ \A i \in 1 .. Len(buffer) :
              buffer[i] = Row(stream[live[Len(file) + i].at])
    BY <1>1, ListAppend DEF CsvInv, n
  <2> DEFINE rows == Append(buffer, Row(event))
             b == Len(buffer)
             c == Len(file)
  <2>2. /\ IsList(rows) /\ Len(rows) = b + 1
        /\ \A i \in 1 .. b : rows[i] = buffer[i]
        /\ rows[b + 1] = Row(event)
    BY <2>1, ListAppend
  <2>7. c \in Nat /\ b \in Nat /\ c + b = n /\ c = Len(file)
    BY <2>1
  <2> HIDE DEF rows, b, c
  <2>3. ASSUME NEW i \in 1 .. b + 1
        PROVE  rows[i] = Row(stream[live'[c + i].at])
    <3>1. CASE i = b + 1
      <4>1. c + i = n + 1
        BY <2>1, <3>1 DEF b, c
      <4> QED BY <1>5, <1>6, <2>2, <3>1, <4>1
    <3>2. CASE i # b + 1
      <4>1. i \in 1 .. b /\ c + i \in 1 .. n
        BY <2>1, <3>2 DEF b, c
      <4> QED BY <1>5, <2>1, <2>2, <4>1 DEF b, c
    <3> QED BY <3>1, <3>2
  <2>4. ASSUME NEW i \in 1 .. c
        PROVE  file[i] = Row(stream[live'[i].at])
    <3>1. i \in 1 .. n
      BY <2>1 DEF b, c
    <3> QED BY <1>5, <2>1, <3>1 DEF c
  <2>5. CASE file' = file \o rows /\ buffer' = <<>>
    <3>1. /\ IsList(file') /\ Len(file') = c + (b + 1)
          /\ \A i \in 1 .. c : file'[i] = file[i]
          /\ \A i \in 1 .. b + 1 : file'[c + i] = rows[i]
      <4>1. /\ IsList(file \o rows) /\ Len(file \o rows) = Len(file) + Len(rows)
            /\ \A i \in 1 .. Len(file) : (file \o rows)[i] = file[i]
            /\ \A i \in 1 .. Len(rows) : (file \o rows)[Len(file) + i] = rows[i]
        BY <2>1, <2>2, ListConcat
      <4> QED BY <2>2, <2>5, <2>7, <4>1
    <3>2. IsList(buffer') /\ Len(buffer') = 0
      BY <2>5 DEF IsList
    <3>3. Len(file') + Len(buffer') = n + 1
      BY <2>1, <3>1, <3>2 DEF b, c
    <3>4. ASSUME NEW i \in 1 .. Len(file')
          PROVE  file'[i] = Row(stream[live'[i].at])
      <4>1. CASE i <= c
        <5>1. i \in 1 .. c
          BY <2>1, <4>1 DEF c
        <5> QED BY <2>4, <3>1, <5>1
      <4>2. CASE ~ (i <= c)
        <5>1. i - c \in 1 .. b + 1 /\ c + (i - c) = i
          BY <2>1, <3>1, <4>2 DEF b, c
        <5>2. file'[c + (i - c)] = rows[i - c]
          BY <3>1, <5>1
        <5>3. rows[i - c] = Row(stream[live'[c + (i - c)].at])
          BY <2>3, <5>1
        <5> QED BY <5>1, <5>2, <5>3
      <4> QED BY <4>1, <4>2
    <3>5. \A i \in 1 .. Len(buffer') :
             buffer'[i] = Row(stream'[live'[Len(file') + i].at])
      BY <3>2
    <3>6. Len(live') \in Nat /\ Len(file') + Len(buffer') = Len(live')
      BY <1>4, <1>5, <3>3
    <3> QED BY <1>1, <3>1, <3>2, <3>4, <3>5, <3>6 DEF CsvInv
  <2>6. CASE file' = file /\ buffer' = rows
    <3>1. Len(file') + Len(buffer') = Len(live')
      BY <1>5, <2>2, <2>6, <2>7
    <3>2. Len(live') \in Nat
      BY <1>4, <1>5
    <3>3. \A i \in 1 .. Len(file') : file'[i] = Row(stream[live'[i].at])
      BY <2>4, <2>6, <2>7
    <3>4. \A i \in 1 .. Len(buffer') :
             buffer'[i] = Row(stream[live'[Len(file') + i].at])
      BY <2>2, <2>3, <2>6, <2>7
    <3>5. IsList(file') /\ IsList(buffer')
      BY <2>1, <2>2, <2>6
    <3>6. Len(file') + Len(buffer') <= Len(live')
      BY <3>1, <3>2
    <3>7. phase' = "log" /\ stream' = stream
      BY <1>1
    <3> QED BY <3>1, <3>3, <3>4, <3>5, <3>6, <3>7 DEF CsvInv
  <2> QED BY <1>2, <2>5, <2>6 DEF rows
<1>15. ReportInv'
  BY <1>1 DEF ReportInv
<1> QED BY <1>10, <1>11, <1>12, <1>13, <1>14, <1>15 DEF DatasetInv

(* The rest of the buffer reaches the file.                                *)
LEMMA CloseInv ==
    ASSUME DatasetInv, Close
    PROVE  DatasetInv'
<1>1. /\ TypeInv /\ LiveInv /\ ParserInv /\ VectorInv /\ CsvInv
      /\ phase = "log" /\ phase' = "closed"
      /\ file' = file \o buffer /\ buffer' = <<>>
      /\ UNCHANGED <<stream, next, size, parser, extractor, live>>
  BY DEF Close, DatasetInv
<1>2. TypeInv'
  BY <1>1 DEF TypeInv
<1>3. LiveInv' /\ ParserInv' /\ VectorInv'
  BY <1>1, NothingRead
<1>4. CsvInv'
  <2> DEFINE b == Len(buffer)
             c == Len(file)
  <2>1. /\ IsList(file) /\ IsList(buffer)
        /\ \A i \in 1 .. c : file[i] = Row(stream[live[i].at])
        /\ \A i \in 1 .. b : buffer[i] = Row(stream[live[c + i].at])
        /\ c + b = Len(live)
    BY <1>1 DEF CsvInv
  <2>2. b \in Nat /\ c \in Nat
    BY <2>1, ListAppend
  <2>3. /\ IsList(file') /\ Len(file') = c + b
        /\ \A i \in 1 .. c : file'[i] = file[i]
        /\ \A i \in 1 .. b : file'[c + i] = buffer[i]
    <3>1. /\ IsList(file \o buffer) /\ Len(file \o buffer) = c + b
          /\ \A i \in 1 .. c : (file \o buffer)[i] = file[i]
          /\ \A i \in 1 .. b : (file \o buffer)[c + i] = buffer[i]
      BY <2>1, ListConcat
    <3> QED BY <1>1, <3>1
  <2> HIDE DEF b, c
  <2>4. ASSUME NEW i \in 1 .. Len(file')
        PROVE file'[i] = Row(stream[live[i].at])
    <3>1. CASE i <= c
      <4>1. i \in 1 .. c
        BY <2>2, <3>1
      <4> QED BY <2>1, <2>3, <4>1
    <3>2. CASE ~ (i <= c)
      <4>1. i - c \in 1 .. b /\ c + (i - c) = i
        BY <2>2, <2>3, <3>2
      <4>2. file'[c + (i - c)] = buffer[i - c]
        BY <2>3, <4>1
      <4>3. buffer[i - c] = Row(stream[live[c + (i - c)].at])
        BY <2>1, <4>1
      <4> QED BY <4>1, <4>2, <4>3
    <3> QED BY <3>1, <3>2
  <2>5. IsList(buffer') /\ Len(buffer') = 0
    BY <1>1 DEF IsList
  <2>6. /\ Len(file') + Len(buffer') = Len(live')
        /\ Len(file') + Len(buffer') <= Len(live')
    BY <1>1, <2>1, <2>2, <2>3, <2>5
  <2>7. \A i \in 1 .. Len(buffer') :
           buffer'[i] = Row(stream'[live'[Len(file') + i].at])
    BY <2>5
  <2> QED BY <1>1, <2>3, <2>4, <2>5, <2>6, <2>7 DEF CsvInv
<1>5. ReportInv'
  BY <1>1 DEF ReportInv
<1> QED BY <1>2, <1>3, <1>4, <1>5 DEF DatasetInv

(* Training reads the closed file; its rows can be read as frames.         *)
LEMMA RowsRead ==
    ASSUME TypeInv, LiveInv, CsvInv
    PROVE  /\ Len(file) \in Nat /\ Len(file) <= Len(live)
           /\ DOMAIN file = 1 .. Len(file)
           /\ \A k \in 1 .. Len(file) :
                 /\ k \in 1 .. Len(live)
                 /\ file[k] = Row(stream[live[k].at])
                 /\ Accepted[k] = stream[live[k].at].frame
                 /\ Accepted[k] \in Frame
                 /\ file[k].id = Accepted[k].id
                 /\ file[k].dlc = Accepted[k].dlc
                 /\ file[k].data = Payload(Accepted[k])
                 /\ file[k].ts = (Accepted[k].ts + 1) \div 3
<1>1. Len(file) \in Nat /\ DOMAIN file = 1 .. Len(file) /\ Len(buffer) \in Nat
  BY ListAppend DEF CsvInv
<1>2. Len(live) \in Nat /\ Len(file) <= Len(live)
  BY <1>1, AcceptedFrames DEF CsvInv
<1>3. ASSUME NEW k \in 1 .. Len(file)
      PROVE  /\ k \in 1 .. Len(live)
             /\ file[k] = Row(stream[live[k].at])
             /\ Accepted[k] = stream[live[k].at].frame
             /\ Accepted[k] \in Frame
             /\ file[k].id = Accepted[k].id
             /\ file[k].dlc = Accepted[k].dlc
             /\ file[k].data = Payload(Accepted[k])
             /\ file[k].ts = (Accepted[k].ts + 1) \div 3
  <2>1. k \in 1 .. Len(live)
    BY <1>1, <1>2
  <2>2. file[k] = Row(stream[live[k].at])
    BY DEF CsvInv
  <2>3. Accepted[k] = stream[live[k].at].frame /\ Accepted[k] \in Frame
    BY <2>1, AcceptedFrames
  <2> QED BY <2>1, <2>2, <2>3 DEF Row
<1> QED BY <1>1, <1>2, <1>3

(* Training reads the rows and reports on them.                            *)
LEMMA TrainInv ==
    ASSUME DatasetInv, Train
    PROVE  DatasetInv'
<1> DEFINE n == Len(file)
           vectors == Matrix(file, CsvWindow)
           labels  == [i \in DOMAIN file |-> file[i].label]
<1>1. /\ TypeInv /\ LiveInv /\ ParserInv /\ VectorInv /\ CsvInv
      /\ phase \in {"closed", "aborted"} /\ file # <<>>
      /\ phase' = "trained"
      /\ UNCHANGED <<stream, next, size, parser, extractor, live, buffer, file>>
  BY DEF Train, DatasetInv
<1>2. PICK forest \in [{vectors[i] : i \in DOMAIN vectors} -> Scores] :
         LET scores == [i \in DOMAIN vectors |-> forest[vectors[i]]]
         IN  report' = Report(labels, Predict(scores, Threshold(scores)))
  BY DEF Train
<1> DEFINE scores == [i \in DOMAIN vectors |-> forest[vectors[i]]]
<1>3. n \in Nat /\ DOMAIN file = 1 .. n /\ DOMAIN vectors = 1 .. n
  <2>1. n \in Nat /\ DOMAIN file = 1 .. n
    BY <1>1, RowsRead
  <2>2. \A k \in 1 .. n : file[k].id \in Nat
    BY <1>1, RowsRead DEF Frame
  <2>3. CsvWindow \in Nat \ {0}
    BY DatasetAssumption
  <2> QED BY <2>1, <2>2, <2>3, MatrixVectors
<1>4. scores \in [1 .. n -> Int]
  <2>1. Scores \subseteq Int
    BY DatasetAssumption
  <2> HIDE DEF vectors
  <2>2. \A i \in 1 .. n : forest[vectors[i]] \in Int
    BY <1>2, <1>3, <2>1
  <2> QED BY <1>3, <2>2
<1>5. labels = [i \in 1 .. n |-> file[i].label]
  BY <1>3
<1>6. report' = Report([i \in 1 .. n |-> file[i].label],
                       Predict(scores, Threshold(scores)))
  <2>1. report' = Report(labels, Predict(scores, Threshold(scores)))
    BY <1>2
  <2> HIDE DEF labels, scores
  <2> QED BY <1>5, <2>1
<1> HIDE DEF scores
<1>7. ReportInv'
  BY <1>1, <1>4, <1>6 DEF ReportInv
<1>8. TypeInv'
  BY <1>1 DEF TypeInv
<1>9. LiveInv' /\ ParserInv' /\ VectorInv'
  BY <1>1, NothingRead
<1>10. CsvInv'
  BY <1>1 DEF CsvInv
<1> QED BY <1>7, <1>8, <1>9, <1>10 DEF DatasetInv

(* Training without rows changes the phase alone.                          *)
LEMMA FitRaisesInv ==
    ASSUME DatasetInv, FitRaises
    PROVE  DatasetInv'
<1>1. /\ TypeInv /\ LiveInv /\ ParserInv /\ VectorInv /\ CsvInv
      /\ phase \in {"closed", "aborted"} /\ phase' = "no data"
      /\ UNCHANGED <<stream, next, size, parser, extractor, live, buffer, file>>
  BY DEF FitRaises, DatasetInv
<1>2. TypeInv'
  BY <1>1 DEF TypeInv
<1>3. LiveInv' /\ ParserInv' /\ VectorInv'
  BY <1>1, NothingRead
<1>4. CsvInv'
  BY <1>1 DEF CsvInv
<1>5. ReportInv'
  BY <1>1 DEF ReportInv
<1> QED BY <1>2, <1>3, <1>4, <1>5 DEF DatasetInv

(* A step that changes nothing.                                            *)
LEMMA StutterInv ==
    ASSUME DatasetInv, UNCHANGED vars
    PROVE  DatasetInv'
<1>1. UNCHANGED <<phase, stream, next, size, parser, extractor, live, buffer,
                  file, report>>
  BY DEF vars
<1>2. TypeInv'
  BY <1>1 DEF DatasetInv, TypeInv
<1>3. LiveInv' /\ ParserInv' /\ VectorInv'
  BY <1>1, NothingRead DEF DatasetInv
<1>4. CsvInv'
  BY <1>1 DEF DatasetInv, CsvInv
<1>5. ReportInv'
  BY <1>1 DEF DatasetInv, ReportInv
<1> QED BY <1>2, <1>3, <1>4, <1>5 DEF DatasetInv

(* The inductive invariant: whatever has been read of the stream, parser,  *)
(* extractor, vectors, buffer, file and report are what the stream says    *)
(* (telemetry_parser.py:184-209, features.py:93-176,                       *)
(* csv_logger.py:68-96).                                                  *)
THEOREM DatasetHolds == Spec => []DatasetInv
<1>1. Init => DatasetInv
  BY InitInv
<1>2. DatasetInv /\ [Next]_vars => DatasetInv'
  <2> SUFFICES ASSUME DatasetInv, [Next]_vars PROVE DatasetInv'
    OBVIOUS
  <2>1. ASSUME NEW frame \in Frames, NEW t \in Times, NEW label \in Labels,
               Compose(frame, t, label)
        PROVE  DatasetInv'
    BY <2>1, ComposeInv
  <2>2. ASSUME NEW window \in Windows, Begin(window) PROVE DatasetInv'
    BY <2>2, BeginInv
  <2>3. CASE Accept
    BY <2>3, AcceptInv
  <2>4. CASE Refuse
    BY <2>4, RefuseInv
  <2>5. CASE Close
    BY <2>5, CloseInv
  <2>6. CASE Train
    BY <2>6, TrainInv
  <2>7. CASE FitRaises
    BY <2>7, FitRaisesInv
  <2>8. CASE UNCHANGED vars
    BY <2>8, StutterInv
  <2> QED BY <2>1, <2>2, <2>3, <2>4, <2>5, <2>6, <2>7, <2>8 DEF Next
<1> QED BY <1>1, <1>2, PTL DEF Spec

-------------------------------------------------------------------------------
(* Of a set of numbers the latest is the greatest.                         *)
LEMMA LatestIs ==
    ASSUME NEW ks \in SUBSET Nat
    PROVE  /\ ks = {} => Latest(ks) = None
           /\ \A k \in ks : (\A i \in ks : i <= k) => Latest(ks) = k
<1>1. ASSUME NEW k \in ks, \A i \in ks : i <= k PROVE Latest(ks) = k
  <2>1. \A j \in ks : (\A i \in ks : i <= j) => j = k
    BY <1>1
  <2>2. Latest(ks) = CHOOSE j \in ks : \A i \in ks : i <= j
    BY <1>1 DEF Latest
  <2> QED BY <1>1, <2>1, <2>2
<1>2. ks = {} => Latest(ks) = None
  BY DEF Latest
<1> QED BY <1>1, <1>2

(* The time that the properties speak of is the gap both readers compute.  *)
LEMMA ElapsedIs ==
    ASSUME TypeInv, NEW k \in 1 .. Len(stream)
    PROVE  /\ Elapsed(None, k) = 0
           /\ \A j \in 1 .. Len(stream) :
                 Elapsed(j, k) = Gap(stream[k].frame.ts, stream[j].frame.ts)
<1>1. ASSUME NEW j \in 1 .. Len(stream)
      PROVE  Elapsed(j, k) = Gap(stream[k].frame.ts, stream[j].frame.ts)
  <2>1. j # None
    BY NoneIsNothing
  <2>2. stream[j].frame.ts # None
    BY HeardFrames, NoneIsNothing DEF Frame
  <2> QED BY <2>1, <2>2 DEF Elapsed, Gap
<1> QED BY <1>1 DEF Elapsed

(* Earlier than the n-th, the last of its id or none.                      *)
LEMMA LatestOfId ==
    ASSUME NEW n \in Nat, NEW q, NEW id, NEW ks,
           ks = {j \in 1 .. n : q[j].id = id}
    PROVE  \/ /\ \A j \in 1 .. n : q[j].id # id
              /\ Latest(ks) = None
           \/ Latest(ks) \in 1 .. n /\ IsLastOf(id, Latest(ks), q, n)
<1>1. ks \in SUBSET Nat
  OBVIOUS
<1>2. CASE \A j \in 1 .. n : q[j].id # id
  <2>1. ks = {}
    BY <1>2
  <2> QED BY <1>1, <1>2, <2>1, LatestIs
<1>3. ASSUME NEW j \in 1 .. n, IsLastOf(id, j, q, n)
      PROVE  Latest(ks) = j
  <2>1. j \in ks /\ \A i \in ks : i <= j
    BY <1>3 DEF IsLastOf
  <2> QED BY <1>1, <2>1, LatestIs
<1> QED BY <1>2, <1>3, LastOfId

(* The last of the first frames is the one before.                         *)
LEMMA Before ==
    ASSUME NEW n \in Nat \ {0}
    PROVE  Latest(1 .. n - 1) = IF n = 1 THEN None ELSE n - 1
<1>1. 1 .. n - 1 \in SUBSET Nat
  OBVIOUS
<1>2. n = 1 => 1 .. n - 1 = {}
  OBVIOUS
<1>3. n # 1 => n - 1 \in 1 .. n - 1 /\ \A i \in 1 .. n - 1 : i <= n - 1
  OBVIOUS
<1> QED BY <1>1, <1>2, <1>3, LatestIs

(* What the parser measured, and what was scored, against the stream.      *)
LEMMA ParsedOfStream ==
    ASSUME TypeInv, LiveInv, ParserInv, VectorInv, NEW k \in 1 .. Len(live)
    PROVE  LET at       == live[k].at
               before   == Latest(1 .. at - 1)
               sameId   == Latest({j \in 1 .. at - 1 :
                                     stream[j].frame.id = stream[at].frame.id})
           IN  /\ live[k].parsed.gap = Elapsed(sameId, at)
               /\ live[k].parsed.globalGap = Elapsed(before, at)
               /\ sameId = None \/ Decodes(stream[sameId].frame)
                     => live[k].vector.gap = live[k].parsed.gap
               /\ before = None \/ Decodes(stream[before].frame)
                     => live[k].vector.globalGap = live[k].parsed.globalGap
<1> DEFINE at     == live[k].at
           id     == Heard[at].id
           before == Latest(1 .. at - 1)
           sameId == Latest({j \in 1 .. at - 1 :
                               stream[j].frame.id = stream[at].frame.id})
           v      == live[k].vector
           p      == live[k].parsed
<1>1. /\ at \in 1 .. Len(stream) /\ at \in 1 .. next - 1
      /\ Accepted[k] = Heard[at] /\ Heard[at] = stream[at].frame
  BY AcceptedFrames, HeardFrames DEF LiveInv
<1>2. /\ Len(stream) \in Nat /\ Len(live) \in Nat /\ next \in Nat
      /\ at \in Nat \ {0} /\ k \in Nat \ {0} /\ at - 1 \in Nat
  <2>1. Len(stream) \in Nat /\ Len(live) \in Nat /\ next \in Nat
    BY HeardFrames, AcceptedFrames DEF TypeInv
  <2> QED BY <1>1, <2>1
<1>3. IsParsed(p, Heard, at) /\ IsVector(v, Accepted, k, size)
  BY DEF ParserInv, VectorInv
<1>4. ASSUME NEW j \in 1 .. Len(live), live[j].at < at PROVE j \in 1 .. k - 1
  <2>1. CASE j = k
    BY <1>1, <1>2, <1>4, <2>1
  <2>2. CASE j > k
    <3>1. at < live[j].at
      BY <1>2, <2>2 DEF LiveInv
    <3>2. live[j].at \in Nat
      BY AcceptedFrames
    <3> QED BY <1>2, <1>4, <3>1, <3>2
  <2> QED BY <1>2, <2>1, <2>2
<1>5. ASSUME NEW j \in 1 .. k - 1
      PROVE  /\ j \in 1 .. Len(live) /\ live[j].at \in 1 .. at - 1
             /\ Accepted[j] = Heard[live[j].at]
  <2>1. j \in 1 .. Len(live) /\ j < k
    BY <1>2
  <2>2. live[j].at < at /\ live[j].at \in 1 .. Len(stream)
    BY <2>1, AcceptedFrames DEF LiveInv
  <2> QED BY <1>2, <2>1, <2>2, AcceptedFrames
<1>6. \A j \in 1 .. at - 1 : j \in 1 .. Len(stream) /\ Heard[j]
         = stream[j].frame
  <2>1. \A j \in 1 .. at - 1 : j \in 1 .. Len(stream)
    BY <1>1, <1>2
  <2> QED BY <2>1, HeardFrames
<1>7. /\ Elapsed(None, at) = 0
      /\ \A j \in 1 .. at - 1 : Elapsed(j, at) = Gap(Heard[at].ts, Heard[j].ts)
  BY <1>1, <1>6, ElapsedIs
<1>8. \A t : Gap(t, None) = 0
  BY DEF Gap
<1>9. before = IF at = 1 THEN None ELSE at - 1
  <2> HIDE DEF at
  <2> QED BY <1>2, Before
<1>10. sameId = Latest({j \in 1 .. at - 1 : Heard[j].id = id})
  <2>1. {j \in 1 .. at - 1 : stream[j].frame.id = stream[at].frame.id}
           = {j \in 1 .. at - 1 : Heard[j].id = id}
    BY <1>1, <1>6
  <2> QED BY <2>1
<1>11. \/ /\ \A j \in 1 .. at - 1 : Heard[j].id # id
          /\ sameId = None
       \/ /\ sameId \in 1 .. at - 1
          /\ Heard[sameId].id = id
          /\ \A i \in sameId + 1 .. at - 1 : Heard[i].id # id
  <2> DEFINE ks == {j \in 1 .. at - 1 : Heard[j].id = id}
  <2> HIDE DEF at, id, sameId
  <2>1. \/ /\ \A j \in 1 .. at - 1 : Heard[j].id # id
           /\ Latest(ks) = None
        \/ Latest(ks) \in 1 .. at - 1 /\ IsLastOf(id, Latest(ks), Heard, at - 1)
    BY <1>2, LatestOfId
  <2> HIDE DEF ks
  <2> QED BY <1>10, <2>1 DEF IsLastOf, ks
<1> HIDE DEF at, before, sameId, v, p
<1>12. p.gap = Elapsed(sameId, at)
  BY <1>3, <1>7, <1>11 DEF IsParsed
<1>13. p.globalGap = Elapsed(before, at)
  <2>1. CASE at = 1
    BY <1>3, <1>7, <1>8, <1>9, <2>1 DEF IsParsed
  <2>2. CASE at # 1
    <3>1. at - 1 \in 1 .. at - 1
      BY <1>2, <2>2
    <3> QED BY <1>3, <1>7, <1>9, <2>2, <3>1 DEF IsParsed
  <2> QED BY <2>1, <2>2
<1>14. ASSUME sameId = None \/ Decodes(stream[sameId].frame)
       PROVE  v.gap = p.gap
  <2>1. CASE /\ \A j \in 1 .. at - 1 : Heard[j].id # id
             /\ sameId = None
    <3>1. \A j \in 1 .. k - 1 : Accepted[j].id # Accepted[k].id
      BY <1>1, <1>5, <2>1
    <3>2. v.gap = 0
      BY <1>3, <3>1 DEF IsVector
    <3> QED BY <1>7, <1>12, <2>1, <3>2
  <2>2. CASE /\ sameId \in 1 .. at - 1
             /\ Heard[sameId].id = id
             /\ \A i \in sameId + 1 .. at - 1 : Heard[i].id # id
    <3>1. sameId # None /\ sameId \in Nat
      BY <2>2, NoneIsNothing
    <3>2. PICK j \in 1 .. Len(live) : live[j].at = sameId
      <4>1. sameId \in 1 .. next - 1
        BY <1>1, <1>2, <2>2
      <4> QED BY <1>14, <3>1, <4>1 DEF LiveInv
    <3>3. j \in 1 .. k - 1
      <4>1. live[j].at < at
        BY <1>2, <2>2, <3>2
      <4> QED BY <1>4, <4>1
    <3>4. Accepted[j] = Heard[sameId] /\ Accepted[j].id = Accepted[k].id
      BY <1>1, <1>5, <2>2, <3>2, <3>3
    <3>5. ASSUME NEW i \in j + 1 .. k - 1 PROVE Accepted[i].id # Accepted[k].id
      <4>1. i \in 1 .. k - 1 /\ j < i
        BY <1>2, <3>3
      <4>2. i \in 1 .. Len(live) /\ live[i].at \in 1 .. at - 1
            /\ Accepted[i] = Heard[live[i].at]
        BY <1>5, <4>1
      <4>3. sameId < live[i].at
        BY <3>2, <4>1, <4>2 DEF LiveInv
      <4>4. live[i].at \in sameId + 1 .. at - 1
        BY <1>2, <3>1, <4>2, <4>3
      <4> QED BY <1>1, <2>2, <4>2, <4>4
    <3>6. v.gap = Gap(Accepted[k].ts, Accepted[j].ts)
      BY <1>3, <3>3, <3>4, <3>5 DEF IsVector
    <3> QED BY <1>1, <1>7, <1>12, <2>2, <3>4, <3>6
  <2> QED BY <1>11, <2>1, <2>2
<1>15. ASSUME before = None \/ Decodes(stream[before].frame)
       PROVE  v.globalGap = p.globalGap
  <2>1. v.globalGap
           = Gap(Accepted[k].ts, IF k = 1 THEN None ELSE Accepted[k - 1].ts)
    BY <1>3 DEF IsVector
  <2>2. CASE at = 1
    <3>1. k = 1
      <4>1. k # 1 => k - 1 \in 1 .. k - 1
        BY <1>2
      <4>2. k # 1 => live[k - 1].at \in 1 .. at - 1
        BY <1>5, <4>1
      <4> QED BY <2>2, <4>2
    <3> QED BY <1>7, <1>8, <1>9, <1>13, <2>1, <2>2, <3>1
  <2>3. CASE at # 1
    <3>1. before = at - 1 /\ before \in 1 .. at - 1 /\ before # None
      BY <1>2, <1>9, <2>3, NoneIsNothing
    <3>2. PICK j \in 1 .. Len(live) : live[j].at = before
      <4>1. before \in 1 .. next - 1
        BY <1>1, <1>2, <3>1
      <4> QED BY <1>15, <3>1, <4>1 DEF LiveInv
    <3>3. j \in 1 .. k - 1
      <4>1. live[j].at < at
        BY <1>2, <3>1, <3>2
      <4> QED BY <1>4, <4>1
    <3>4. j = k - 1
      <4>1. SUFFICES ASSUME j # k - 1 PROVE FALSE
        OBVIOUS
      <4>2. k - 1 \in 1 .. k - 1 /\ j < k - 1
        BY <1>2, <3>3, <4>1
      <4>3. k - 1 \in 1 .. Len(live) /\ live[k - 1].at \in 1 .. at - 1
        BY <1>5, <4>2
      <4>4. before < live[k - 1].at
        BY <3>2, <4>2, <4>3 DEF LiveInv
      <4> QED BY <1>2, <3>1, <4>3, <4>4
    <3>5. Accepted[k - 1] = Heard[before] /\ k # 1
      BY <1>2, <1>5, <3>2, <3>3, <3>4
    <3> QED BY <1>1, <1>7, <1>13, <2>1, <3>1, <3>5
  <2> QED BY <2>2, <2>3
<1> QED BY <1>12, <1>13, <1>14, <1>15 DEF at, before, sameId, v, p

(* The invariant implies the property about the gaps shown and scored.     *)
LEMMA ScoredIs ==
    ASSUME DatasetInv
    PROVE  ScoredAsParsed
<1>1. TypeInv /\ LiveInv /\ ParserInv /\ VectorInv
  BY DEF DatasetInv
<1>2. DOMAIN live = 1 .. Len(live)
  BY <1>1, ListAppend DEF LiveInv
<1> QED BY <1>1, <1>2, ParsedOfStream DEF ScoredAsParsed

(* As many of the last numbers as the window holds.                        *)
LEMMA RecentSpan ==
    ASSUME NEW k \in Nat \ {0}, NEW width \in Nat \ {0}
    PROVE  Cardinality({j \in 1 .. k : j > k - width}) = Span(k, width)
<1> DEFINE low == IF k < width THEN 1 ELSE k - width + 1
<1>1. low \in Nat \ {0} /\ low <= k /\ k - low + 1 = Span(k, width)
  BY DEF Span
<1>2. {j \in 1 .. k : j > k - width} = low .. k
  OBVIOUS
<1> HIDE DEF low
<1>3. Cardinality(low .. k) = k - low + 1
  <2>1. low \in Int /\ k \in Int /\ ~ (low > k)
    BY <1>1
  <2> QED BY <2>1, FS_Interval
<1> QED BY <1>1, <1>2, <1>3

(* The invariant implies that the vectors match the history.               *)
LEMMA HistoryIs ==
    ASSUME DatasetInv
    PROVE  VectorsMatchHistory
<1> SUFFICES
      ASSUME NEW k \in DOMAIN live
      PROVE  LET Pos(j)     == live[j].at
                 Id(j)      == stream[Pos(j)].frame.id
                 Bytes(j)   == Payload(stream[Pos(j)].frame)
                 Place(j, i) == IF i <= Len(Bytes(j)) THEN Bytes(j)[i] ELSE None
                 v          == live[k].vector
                 recent     == {j \in 1 .. k : j > k - size}
                 prev       == Latest({j \in 1 .. k - 1 : Id(j) = Id(k)})
             IN  /\ v.freq = Cardinality({j \in recent : Id(j) = Id(k)})
                 /\ v.span = Cardinality(recent)
                 /\ v.globalGap
                        = Elapsed(IF k = 1 THEN None ELSE Pos(k - 1), Pos(k))
                 /\ IF prev = None THEN v.gap = 0 /\ v.change = 0
                    ELSE /\ v.gap = Elapsed(Pos(prev), Pos(k))
                         /\ v.change = Cardinality(
                               {i \in 1 .. 8 : Place(k, i) # Place(prev, i)})
  BY DEF VectorsMatchHistory
<1> DEFINE Pos(j)     == live[j].at
           Id(j)      == stream[Pos(j)].frame.id
           Bytes(j)   == Payload(stream[Pos(j)].frame)
           Place(j, i) == IF i <= Len(Bytes(j)) THEN Bytes(j)[i] ELSE None
           v          == live[k].vector
           recent     == {j \in 1 .. k : j > k - size}
           same       == {j \in 1 .. k - 1 : Id(j) = Id(k)}
           prev       == Latest(same)
           id         == Accepted[k].id
<1> SUFFICES /\ v.freq = Cardinality({j \in recent : Id(j) = Id(k)})
             /\ v.span = Cardinality(recent)
             /\ v.globalGap
                    = Elapsed(IF k = 1 THEN None ELSE Pos(k - 1), Pos(k))
             /\ IF prev = None THEN v.gap = 0 /\ v.change = 0
                ELSE /\ v.gap = Elapsed(Pos(prev), Pos(k))
                     /\ v.change = Cardinality(
                           {i \in 1 .. 8 : Place(k, i) # Place(prev, i)})
  OBVIOUS
<1>1. TypeInv /\ LiveInv /\ VectorInv
  BY DEF DatasetInv
<1>2. k \in 1 .. Len(live)
  BY <1>1, ListAppend DEF LiveInv
<1>3. /\ k \in Nat \ {0} /\ k - 1 \in Nat /\ size \in Nat \ {0}
      /\ \A j \in 1 .. k : j \in 1 .. Len(live)
  <2>1. Len(live) \in Nat
    BY <1>1, AcceptedFrames
  <2>2. size \in Nat \ {0}
    BY <1>1 DEF TypeInv
  <2> QED BY <1>2, <2>1, <2>2
<1>4. IsVector(v, Accepted, k, size)
  BY <1>1, <1>2 DEF VectorInv
<1>5. ASSUME NEW j \in 1 .. k
      PROVE  /\ Pos(j) \in 1 .. Len(stream)
             /\ Accepted[j] = stream[Pos(j)].frame
             /\ Accepted[j] \in Frame
  BY <1>3, <1>1, AcceptedFrames
<1>6. ASSUME NEW j \in 1 .. k PROVE Id(j) = Accepted[j].id
  BY <1>5
<1>7. ASSUME NEW j \in 1 .. k
      PROVE  /\ Elapsed(None, Pos(k)) = 0
             /\ Elapsed(Pos(j), Pos(k)) = Gap(Accepted[k].ts, Accepted[j].ts)
  <2>1. k \in 1 .. k
    BY <1>3
  <2>2. Pos(k) \in 1 .. Len(stream) /\ Pos(j) \in 1 .. Len(stream)
    BY <1>5, <2>1
  <2> HIDE DEF Pos
  <2>3. Elapsed(None, Pos(k)) = 0
    BY <1>1, <2>2, ElapsedIs
  <2>4. Elapsed(Pos(j), Pos(k))
           = Gap(stream[Pos(k)].frame.ts, stream[Pos(j)].frame.ts)
    BY <1>1, <2>2, ElapsedIs
  <2> QED BY <1>5, <2>1, <2>3, <2>4
<1>8. v.freq = Cardinality({j \in recent : Id(j) = Id(k)})
  <2>1. {j \in recent : Id(j) = Id(k)} = InWindow(Accepted, k, size, id)
    <3>1. k \in 1 .. k
      BY <1>3
    <3>2. \A j \in 1 .. k : Id(j) = Id(k) <=> Accepted[j].id = id
      BY <1>6, <3>1
    <3> HIDE DEF Id, id
    <3> QED BY <3>2 DEF InWindow
  <2>2. v.freq = Cardinality(InWindow(Accepted, k, size, id))
    BY <1>4 DEF IsVector
  <2> HIDE DEF Id, id, v, recent
  <2> QED BY <2>1, <2>2
<1>9. v.span = Cardinality(recent)
  <2>1. Cardinality(recent) = Span(k, size)
    BY <1>3, RecentSpan
  <2>2. v.span = Span(k, size)
    BY <1>4 DEF IsVector
  <2> HIDE DEF v, recent
  <2> QED BY <2>1, <2>2
<1>10. v.globalGap = Elapsed(IF k = 1 THEN None ELSE Pos(k - 1), Pos(k))
  <2>1. v.globalGap
           = Gap(Accepted[k].ts, IF k = 1 THEN None ELSE Accepted[k - 1].ts)
    BY <1>4 DEF IsVector
  <2>2. \A t : Gap(t, None) = 0
    BY DEF Gap
  <2>3. k \in 1 .. k /\ (k # 1 => k - 1 \in 1 .. k)
    BY <1>3
  <2> HIDE DEF Pos, v
  <2> QED BY <1>7, <2>1, <2>2, <2>3
<1>11. \/ /\ \A j \in 1 .. k - 1 : Accepted[j].id # id
         /\ prev = None
      \/ /\ prev \in 1 .. k - 1 /\ prev \in 1 .. k /\ prev # None
         /\ IsLastOf(id, prev, Accepted, k - 1)
  <2> DEFINE ks == {j \in 1 .. k - 1 : Accepted[j].id = id}
  <2>1. same = ks
    <3>1. k \in 1 .. k /\ \A j \in 1 .. k - 1 : j \in 1 .. k
      BY <1>3
    <3>2. \A j \in 1 .. k - 1 : Id(j) = Id(k) <=> Accepted[j].id = id
      BY <1>6, <3>1
    <3> HIDE DEF Id, id
    <3> QED BY <3>2
  <2>2. \/ /\ \A j \in 1 .. k - 1 : Accepted[j].id # id
           /\ Latest(ks) = None
        \/ Latest(ks) \in 1 .. k - 1
               /\ IsLastOf(id, Latest(ks), Accepted, k - 1)
    <3> HIDE DEF id
    <3> QED BY <1>3, LatestOfId
  <2> HIDE DEF ks, same, id
  <2>3. \/ /\ \A j \in 1 .. k - 1 : Accepted[j].id # id
           /\ prev = None
        \/ prev \in 1 .. k - 1 /\ IsLastOf(id, prev, Accepted, k - 1)
    BY <2>1, <2>2
  <2> HIDE DEF prev
  <2>4. prev \in 1 .. k - 1 => prev \in 1 .. k /\ prev # None
    BY <1>3, NoneIsNothing
  <2> QED BY <2>3, <2>4
<1> HIDE DEF prev, same
<1>12. CASE /\ \A j \in 1 .. k - 1 : Accepted[j].id # id
            /\ prev = None
  <2>1. prev = None
    BY <1>11, <1>12 DEF IsLastOf
  <2>2. v.gap = 0 /\ v.change = 0
    BY <1>4, <1>12 DEF IsVector
  <2> HIDE DEF v, recent, Id, Pos, Place, Bytes
  <2> QED BY <1>8, <1>9, <1>10, <2>1, <2>2
<1>13. CASE /\ prev \in 1 .. k - 1 /\ prev \in 1 .. k /\ prev # None
            /\ IsLastOf(id, prev, Accepted, k - 1)
  <2>1. /\ v.gap = Gap(Accepted[k].ts, Accepted[prev].ts)
        /\ v.change = ChangeRate(Payload(Accepted[k]), Payload(Accepted[prev]))
    BY <1>4, <1>13 DEF IsVector, IsLastOf
  <2>2. v.gap = Elapsed(Pos(prev), Pos(k))
    <3> HIDE DEF v, Pos
    <3> QED BY <1>7, <1>13, <2>1
  <2>3. k \in 1 .. k
    BY <1>3
  <2>4. /\ Bytes(k) = Payload(Accepted[k])
        /\ Bytes(prev) = Payload(Accepted[prev])
    BY <1>5, <1>13, <2>3
  <2>5. /\ Bytes(k) \in Seq(0 .. 255) /\ Len(Bytes(k)) <= 8
        /\ Bytes(prev) \in Seq(0 .. 255) /\ Len(Bytes(prev)) <= 8
    <3>1. Readable(Accepted[k]) /\ Readable(Accepted[prev])
      BY <1>5, <1>13, <2>3 DEF Frame, Readable
    <3> HIDE DEF Bytes
    <3> QED BY <2>4, <3>1, PayloadBytes
  <2>6. ChangeRate(Bytes(k), Bytes(prev))
           = Cardinality(Changed(Bytes(k), Bytes(prev)))
    <3>1. None \notin 0 .. 255 /\ Bytes(prev) # None
      <4> HIDE DEF Bytes
      <4> QED BY <2>5, NoByteIsNone, NoneIsNothing, Zenon
    <3> HIDE DEF Bytes
    <3> QED BY <2>5, <3>1, ChangedBytes
  <2>7. Changed(Bytes(k), Bytes(prev))
           = {i \in 1 .. 8 : Place(k, i) # Place(prev, i)}
    <3> HIDE DEF Bytes
    <3> QED BY DEF Changed, Byte
  <2>8. v.change = Cardinality({i \in 1 .. 8 : Place(k, i) # Place(prev, i)})
    <3>1. v.change = ChangeRate(Bytes(k), Bytes(prev))
      <4> HIDE DEF v, Bytes
      <4> QED BY <2>1, <2>4
    <3> HIDE DEF v, Bytes, Place
    <3> QED BY <2>6, <2>7, <3>1
  <2> HIDE DEF v, recent, Id, Pos, Place, Bytes
  <2> QED BY <1>8, <1>9, <1>10, <1>13, <2>2, <2>8
<1> QED BY <1>11, <1>12, <1>13

-------------------------------------------------------------------------------
(* A row read as a frame has the payload of the frame it was written of.   *)
LEMMA PayloadTwice ==
    ASSUME NEW f \in Frame, NEW r, r.dlc = f.dlc, r.data = Payload(f)
    PROVE  Payload(r) = Payload(f)
<1> DEFINE P == Payload(f)
           m == IF f.dlc < Len(f.data) THEN f.dlc ELSE Len(f.data)
<1>1. P \in Seq(0 .. 255)
  BY PayloadBytes DEF Frame, Readable
<1>2. Len(P) \in Nat /\ Len(P) <= f.dlc /\ f.dlc \in Nat
  <2>1. f.data \in Seq(0 .. 255) /\ f.dlc \in Nat
    BY DEF Frame
  <2>2. m \in Nat /\ m <= Len(f.data) /\ m <= f.dlc
    BY <2>1, LenProperties
  <2>3. P = SubSeq(f.data, 1, m)
    BY DEF Payload
  <2> HIDE DEF m, P
  <2>4. \A i \in 1 .. m : f.data[i] \in 0 .. 255
    <3>1. \A i \in 1 .. Len(f.data) : f.data[i] \in 0 .. 255
      BY <2>1, ElementOfSeq
    <3>2. \A i \in 1 .. m : i \in 1 .. Len(f.data)
      BY <2>1, <2>2, LenProperties
    <3> QED BY <3>1, <3>2
  <2>5. Len(SubSeq(f.data, 1, m)) = IF 1 <= m THEN m - 1 + 1 ELSE 0
    BY <2>2, <2>4, SubSeqProperties
  <2> QED BY <2>1, <2>2, <2>3, <2>5
<1> HIDE DEF P
<1>3. Payload(r) = SubSeq(P, 1, Len(P))
  <2>1. Payload(r) = SubSeq(P, 1, IF f.dlc < Len(P) THEN f.dlc ELSE Len(P))
    BY DEF Payload, P
  <2>2. ~ (f.dlc < Len(P))
    BY <1>2
  <2> QED BY <2>1, <2>2
<1>4. SubSeq(P, 1, Len(P)) = P
  <2>1. \A i \in 1 .. Len(P) : P[i] \in 0 .. 255
    BY <1>1, ElementOfSeq
  <2>2. /\ SubSeq(P, 1, Len(P)) \in Seq(0 .. 255)
        /\ Len(SubSeq(P, 1, Len(P))) = Len(P)
        /\ \A i \in 1 .. Len(P) : SubSeq(P, 1, Len(P))[i] = P[i]
    <3>1. /\ SubSeq(P, 1, Len(P)) \in Seq(0 .. 255)
          /\ Len(SubSeq(P, 1, Len(P)))
                = IF 1 <= Len(P) THEN Len(P) - 1 + 1 ELSE 0
          /\ \A i \in 1 .. Len(P) - 1 + 1 : SubSeq(P, 1, Len(P))[i]
                 = P[1 + i - 1]
      BY <1>2, <2>1, SubSeqProperties
    <3>2. Len(P) - 1 + 1 = Len(P) /\ (~ (1 <= Len(P)) => Len(P) = 0)
      BY <1>2
    <3>3. \A i \in 1 .. Len(P) : 1 + i - 1 = i
      OBVIOUS
    <3> QED BY <3>1, <3>2, <3>3
  <2> QED BY <1>1, <2>2, SeqEqual
<1> QED BY <1>3, <1>4 DEF P

(* The gap of two rounded times is that of the times, rounded.             *)
LEMMA GapsRound ==
    ASSUME NEW t \in Nat, NEW s \in Nat
    PROVE  Rounds(Gap((t + 1) \div 3, (s + 1) \div 3), Gap(t, s))
<1>1. s # None /\ (s + 1) \div 3 # None
  <2>1. (s + 1) \div 3 \in Nat
    OBVIOUS
  <2> QED BY <2>1, NoneIsNothing
<1>2. Gap(t, s) = IF t < s THEN 0 ELSE t - s
  BY <1>1 DEF Gap
<1>3. Gap((t + 1) \div 3, (s + 1) \div 3)
         = IF (t + 1) \div 3 < (s + 1) \div 3 THEN 0
           ELSE (t + 1) \div 3 - (s + 1) \div 3
  BY <1>1 DEF Gap
<1>4. CASE t < s
  <2>1. (t + 1) \div 3 <= (s + 1) \div 3
    BY <1>4
  <2>2. (t + 1) \div 3 \in Nat /\ (s + 1) \div 3 \in Nat
    OBVIOUS
  <2>3. Gap((t + 1) \div 3, (s + 1) \div 3) = 0
    BY <1>3, <2>1, <2>2
  <2> QED BY <1>2, <1>4, <2>3 DEF Rounds
<1>5. CASE ~ (t < s)
  <2>1. /\ (s + 1) \div 3 <= (t + 1) \div 3
        /\ 3 * ((t + 1) \div 3 - (s + 1) \div 3) - (t - s) \in -2 .. 2
    BY <1>5
  <2>2. (t + 1) \div 3 \in Nat /\ (s + 1) \div 3 \in Nat
    OBVIOUS
  <2>3. Gap((t + 1) \div 3, (s + 1) \div 3) = (t + 1) \div 3 - (s + 1) \div 3
    BY <1>3, <2>1, <2>2
  <2> QED BY <1>2, <1>5, <2>1, <2>3 DEF Rounds
<1> QED BY <1>4, <1>5

(* A wider window counts no less of an id, and no more once both hold      *)
(* everything.                                                             *)
LEMMA Wider ==
    ASSUME NEW k \in Nat, NEW q, NEW id, NEW a \in Nat, NEW b \in Nat
    PROVE  /\ Cardinality(InWindow(q, k, a, id)) \in Nat
           /\ a <= b => Cardinality(InWindow(q, k, a, id))
                           <= Cardinality(InWindow(q, k, b, id))
           /\ k <= a /\ k <= b => InWindow(q, k, a, id) = InWindow(q, k, b, id)
<1> DEFINE A == InWindow(q, k, a, id)
           B == InWindow(q, k, b, id)
<1>1. A \in SUBSET (1 .. k) /\ B \in SUBSET (1 .. k)
  BY DEF InWindow
<1>2. a <= b => A \in SUBSET B
  BY DEF InWindow
<1>3. k <= a /\ k <= b => A = B
  BY DEF InWindow
<1> HIDE DEF A, B
<1>4. Cardinality(A) \in Nat /\ IsFiniteSet(B)
  BY <1>1, Positions
<1>5. a <= b => Cardinality(A) <= Cardinality(B)
  BY <1>2, <1>4, FS_Subset
<1> QED BY <1>3, <1>4, <1>5 DEF A, B

(* The vector made of a row against the one made of its frame.             *)
LEMMA RowsVector ==
    ASSUME TypeInv, LiveInv, VectorInv, CsvInv, NEW k \in 1 .. Len(file)
    PROVE  LET v == Matrix(file, CsvWindow)[k]
               w == live[k].vector
           IN  /\ Rounds(v.gap, w.gap)
               /\ Rounds(v.globalGap, w.globalGap)
               /\ v.id = w.id /\ v.dlc = w.dlc /\ v.bytes = w.bytes
               /\ v.change = w.change
               /\ size = CsvWindow \/ (k <= size /\ k <= CsvWindow) =>
                     v.freq = w.freq /\ v.span = w.span
               /\ size <= CsvWindow => w.freq <= v.freq
               /\ size >= CsvWindow => w.freq >= v.freq
<1> DEFINE v == Matrix(file, CsvWindow)[k]
           w == live[k].vector
           id == Accepted[k].id
<1>1. /\ Len(file) \in Nat /\ DOMAIN file = 1 .. Len(file)
      /\ CsvWindow \in Nat \ {0} /\ size \in Nat \ {0}
      /\ k \in Nat \ {0} /\ k - 1 \in Nat /\ k \in 1 .. Len(live)
      /\ \A j \in 1 .. k : j \in 1 .. Len(file)
  <2>1. Len(file) \in Nat /\ DOMAIN file
           = 1 .. Len(file) /\ k \in 1 .. Len(live)
    BY RowsRead
  <2>2. CsvWindow \in Nat \ {0} /\ size \in Nat \ {0}
    BY DatasetAssumption DEF TypeInv
  <2> QED BY <2>1, <2>2
<1>2. ASSUME NEW j \in 1 .. k
      PROVE  /\ Accepted[j].ts \in Nat
             /\ file[j].id = Accepted[j].id
             /\ file[j].dlc = Accepted[j].dlc
             /\ Payload(file[j]) = Payload(Accepted[j])
             /\ file[j].ts = (Accepted[j].ts + 1) \div 3
  <2>1. j \in 1 .. Len(file)
    BY <1>1
  <2>2. /\ Accepted[j] \in Frame
        /\ file[j].id = Accepted[j].id
        /\ file[j].dlc = Accepted[j].dlc
        /\ file[j].data = Payload(Accepted[j])
        /\ file[j].ts = (Accepted[j].ts + 1) \div 3
    BY <2>1, RowsRead
  <2> QED BY <2>2, PayloadTwice DEF Frame
<1>3. IsVector(v, file, k, CsvWindow) /\ IsVector(w, Accepted, k, size)
  <2>1. \A j \in 1 .. Len(file) : file[j].id \in Nat
    BY RowsRead DEF Frame
  <2>2. IsVector(v, file, k, CsvWindow)
    BY <1>1, <2>1, MatrixVectors
  <2> QED BY <1>1, <2>2 DEF VectorInv
<1> HIDE DEF v, w
<1>4. k \in 1 .. k /\ \A j \in 1 .. k - 1 : j \in 1 .. k
  BY <1>1
<1>5. v.id = w.id /\ v.dlc = w.dlc /\ v.bytes = w.bytes
  BY <1>2, <1>3, <1>4 DEF IsVector
<1>6. ASSUME NEW j \in 1 .. k
      PROVE  Rounds(Gap(file[k].ts, file[j].ts),
                    Gap(Accepted[k].ts, Accepted[j].ts))
  BY <1>2, <1>4, GapsRound
<1>7. Rounds(0, 0)
  BY DEF Rounds
<1>8. Rounds(v.globalGap, w.globalGap)
  <2>1. /\ v.globalGap = Gap(file[k].ts, IF k = 1 THEN None ELSE file[k - 1].ts)
        /\ w.globalGap = Gap(Accepted[k].ts,
                             IF k = 1 THEN None ELSE Accepted[k - 1].ts)
    BY <1>3 DEF IsVector
  <2>2. CASE k = 1
    BY <1>7, <2>1, <2>2 DEF Gap
  <2>3. CASE k # 1
    <3>1. k - 1 \in 1 .. k
      BY <1>1, <2>3
    <3> QED BY <1>6, <2>1, <2>3, <3>1
  <2> QED BY <2>2, <2>3
<1>9. Rounds(v.gap, w.gap) /\ v.change = w.change
  <2>1. CASE \A j \in 1 .. k - 1 : Accepted[j].id # id
    <3>1. w.gap = 0 /\ w.change = 0
      BY <1>3, <2>1 DEF IsVector
    <3>2. v.gap = 0 /\ v.change = 0
      <4>1. \A j \in 1 .. k - 1 : file[j].id # file[k].id
        BY <1>2, <1>4, <2>1
      <4> QED BY <1>3, <4>1 DEF IsVector
    <3> QED BY <1>7, <3>1, <3>2
  <2>2. ASSUME NEW j \in 1 .. k - 1, IsLastOf(id, j, Accepted, k - 1)
        PROVE  Rounds(v.gap, w.gap) /\ v.change = w.change
    <3>1. /\ w.gap = Gap(Accepted[k].ts, Accepted[j].ts)
          /\ w.change = ChangeRate(Payload(Accepted[k]), Payload(Accepted[j]))
      BY <1>3, <2>2 DEF IsVector, IsLastOf
    <3>2. /\ v.gap = Gap(file[k].ts, file[j].ts)
          /\ v.change = ChangeRate(Payload(file[k]), Payload(file[j]))
      <4>1. /\ file[j].id = file[k].id
            /\ \A i \in j + 1 .. k - 1 : file[i].id # file[k].id
        <5>1. \A i \in j + 1 .. k - 1 : i \in 1 .. k
          BY <1>1
        <5>2. j \in 1 .. k
          BY <1>4
        <5> QED BY <1>2, <1>4, <2>2, <5>1, <5>2 DEF IsLastOf
      <4> QED BY <1>3, <4>1 DEF IsVector
    <3>3. j \in 1 .. k
      BY <1>4
    <3>4. Rounds(v.gap, w.gap)
      BY <1>6, <3>1, <3>2, <3>3
    <3>5. v.change = w.change
      BY <1>2, <1>4, <3>1, <3>2, <3>3
    <3> QED BY <3>4, <3>5
  <2>3. \/ \A j \in 1 .. k - 1 : Accepted[j].id # id
        \/ \E j \in 1 .. k - 1 : IsLastOf(id, j, Accepted, k - 1)
    <3> HIDE DEF id
    <3> QED BY <1>1, LastOfId
  <2> QED BY <2>1, <2>2, <2>3
<1>10. /\ v.freq = Cardinality(InWindow(Accepted, k, CsvWindow, id))
       /\ w.freq = Cardinality(InWindow(Accepted, k, size, id))
       /\ v.span = Span(k, CsvWindow) /\ w.span = Span(k, size)
  <2>1. InWindow(file, k, CsvWindow, file[k].id)
           = InWindow(Accepted, k, CsvWindow, id)
    BY <1>2, <1>4 DEF InWindow
  <2>2. /\ v.freq = Cardinality(InWindow(file, k, CsvWindow, file[k].id))
        /\ w.freq = Cardinality(InWindow(Accepted, k, size, id))
        /\ v.span = Span(k, CsvWindow) /\ w.span = Span(k, size)
    BY <1>3 DEF IsVector
  <2> QED BY <2>1, <2>2
<1> HIDE DEF id
<1>11. ASSUME size = CsvWindow \/ (k <= size /\ k <= CsvWindow)
       PROVE  v.freq = w.freq /\ v.span = w.span
  <2>1. CASE size = CsvWindow
    BY <1>10, <2>1
  <2>2. CASE k <= size /\ k <= CsvWindow
    <3>1. InWindow(Accepted, k, CsvWindow, id) = InWindow(Accepted, k, size, id)
      BY <1>1, <2>2, Wider
    <3>2. Span(k, CsvWindow) = Span(k, size)
      BY <1>1, <2>2 DEF Span
    <3> QED BY <1>10, <3>1, <3>2
  <2> QED BY <1>11, <2>1, <2>2
<1>12. size <= CsvWindow => w.freq <= v.freq
  BY <1>1, <1>10, Wider
<1>13. size >= CsvWindow => w.freq >= v.freq
  <2>1. size >= CsvWindow => v.freq <= w.freq
    BY <1>1, <1>10, Wider
  <2>2. v.freq \in Nat /\ w.freq \in Nat
    BY <1>1, <1>10, Wider
  <2> QED BY <2>1, <2>2
<1> QED BY <1>5, <1>8, <1>9, <1>11, <1>12, <1>13 DEF v, w

(* The invariant implies that training reads what detection saw.           *)
LEMMA OfflineIs ==
    ASSUME DatasetInv
    PROVE  OfflineIsLive
<1>1. TypeInv /\ LiveInv /\ VectorInv /\ CsvInv
  BY DEF DatasetInv
<1> SUFFICES ASSUME phase \in {"closed", "aborted"} PROVE OfflineIsLive
  BY DEF OfflineIsLive
<1>2. /\ DOMAIN Matrix(file, CsvWindow) = 1 .. Len(file)
      /\ Len(Matrix(file, CsvWindow)) = Len(file)
  <2>1. Len(file) \in Nat /\ DOMAIN file = 1 .. Len(file)
    BY <1>1, RowsRead
  <2>2. \A k \in 1 .. Len(file) : file[k].id \in Nat
    BY <1>1, RowsRead DEF Frame
  <2>3. CsvWindow \in Nat \ {0}
    BY DatasetAssumption
  <2> QED BY <2>1, <2>2, <2>3, MatrixVectors
<1>3. Len(file) <= Len(live) /\ (phase = "closed" => Len(file) = Len(live))
  <2>1. Len(file) <= Len(live) /\ Len(file) \in Nat
    BY <1>1, RowsRead
  <2>2. phase = "closed" => buffer = <<>> /\ Len(file) + Len(buffer) = Len(live)
    BY <1>1 DEF CsvInv
  <2>3. buffer = <<>> => Len(buffer) = 0
    OBVIOUS
  <2> QED BY <2>1, <2>2, <2>3
<1> QED BY <1>1, <1>2, <1>3, RowsVector DEF OfflineIsLive

(* The invariant implies that few rows are flagged, and none is lost.      *)
LEMMA FlagsFew ==
    ASSUME DatasetInv
    PROVE  TrainingFlagsFew
<1> SUFFICES ASSUME phase = "trained" PROVE TrainingFlagsFew
  BY DEF TrainingFlagsFew
<1> DEFINE n == Len(file)
           labels == [i \in 1 .. n |-> file[i].label]
           Sum(number) == Cardinality(UNION {{label} \X (1 .. number[label]) :
                                                label \in DOMAIN number})
<1>1. n \in Nat \ {0} /\ DOMAIN labels = 1 .. n
  <2>1. Len(file) \in Nat /\ DOMAIN file = 1 .. Len(file)
    BY RowsRead DEF DatasetInv
  <2>2. file # <<>> /\ IsList(file)
    BY DEF DatasetInv, ReportInv, CsvInv
  <2>3. Len(file) # 0
    BY <2>2, EmptySeq DEF IsList
  <2> QED BY <2>1, <2>3
<1>2. PICK scores \in [1 .. n -> Int] :
         report = Report(labels, Predict(scores, Threshold(scores)))
  BY DEF DatasetInv, ReportInv
<1> DEFINE preds == Predict(scores, Threshold(scores))
<1>3. Len(scores) = n
  BY <1>1, FunctionIsSeq
<1>4. /\ preds \in [1 .. n -> {1, -1}]
      /\ Cardinality({i \in 1 .. n : preds[i] = -1})
            <= (Contamination * (n - 1) + 99) \div 100
  <2> HIDE DEF n
  <2> QED BY <1>1, <1>2, <1>3, FlaggedFew
<1> HIDE DEF preds, labels, n
<1>5. LET r == Report(labels, preds)
      IN  /\ r.tp + r.fp = Cardinality({i \in 1 .. n : preds[i] = -1})
          /\ Sum([label \in DOMAIN r.classes |-> r.classes[label].caught])
                 = r.tp
          /\ Sum([label \in DOMAIN r.classes |-> r.classes[label].total])
                = r.tp + r.fn
  BY <1>1, <1>4, ReportAddsUp
<1>6. report = Report(labels, preds)
  BY <1>2 DEF preds
<1>7. /\ report.tp + report.fp = Cardinality({i \in 1 .. n : preds[i] = -1})
      /\ Sum([label \in DOMAIN report.classes |-> report.classes[label].caught])
            = report.tp
      /\ Sum([label \in DOMAIN report.classes |-> report.classes[label].total])
            = report.tp + report.fn
  <2> HIDE DEF Sum
  <2> QED BY <1>5, <1>6, Zenon
<1>8. report.tp + report.fp <= (Contamination * (n - 1) + 99) \div 100
  <2>1. Cardinality({i \in 1 .. n : preds[i] = -1})
           <= (Contamination * (n - 1) + 99) \div 100
    BY <1>4
  <2> QED BY <2>1, <1>7
<1> QED BY <1>7, <1>8, Zenon DEF TrainingFlagsFew, n

-------------------------------------------------------------------------------
(* The vectors that training reads from the CSV are those the detector     *)
(* made of the same frames, but for the rounding of times and, once a      *)
(* window has slid, for what two unequal windows count, in the direction   *)
(* stated (features.py:147-176, stream_detector.py:45).                    *)
THEOREM OfflineIsLiveHolds == Spec => []OfflineIsLive
BY DatasetHolds, OfflineIs, PTL

(* What an alert shows of a frame, the time since the last one on the bus  *)
(* of its id and of any, is what the model was asked about unless that     *)
(* last frame was refused (telemetry_parser.py:184-209, features.py:105-   *)
(* 115).                                                                   *)
THEOREM ScoredAsParsedHolds == Spec => []ScoredAsParsed
BY DatasetHolds, ScoredIs, PTL

(* The dictionaries, the counters and the deque of the extractor compute   *)
(* what the features are defined to be, for every stream and window        *)
(* (features.py:93-145).                                                   *)
THEOREM VectorsMatchHistoryHolds == Spec => []VectorsMatchHistory
BY DatasetHolds, HistoryIs, PTL

(* On n rows of its own training data a model flags at most the            *)
(* contamination times n - 1, rounded up, whatever the scores, and its     *)
(* report loses no attack                                                  *)
(* (train_isolation_forest.py:65, evaluate.py:41-79).                      *)
THEOREM TrainingFlagsFewHolds == Spec => []TrainingFlagsFew
BY DatasetHolds, FlagsFew, PTL

===============================================================================
