----------------------------- MODULE CountingProofs -----------------------------
(***************************************************************************)
(* Facts about numbers, sums and finite sets.  Induction is over a set of  *)
(* numbers, instead of a predicate.                                        *)
(***************************************************************************)
EXTENDS FiniteSetTheorems, FunctionTheorems, WellFoundedInduction, TLAPS

\* A set of numbers has a least one.
LEMMA LeastExists ==
  ASSUME NEW S \in SUBSET Nat, S # {}
  PROVE  \E x \in S : \A y \in S : x <= y
<1>1. PICK x \in S : \A y \in S : ~(<<y, x>> \in OpToRel(<, Nat))
  BY NatLessThanWellFounded, WFMin
<1>2. \A y \in S : x <= y
  <2> SUFFICES ASSUME NEW y \in S PROVE x <= y
    OBVIOUS
  <2>1. ~(y < x)
    BY <1>1 DEF OpToRel
  <2>2. QED
    BY <2>1, SMT
<1>3. QED
  BY <1>2

\* A set with 0 and the successor of each of its numbers has all of them.
LEMMA SetInduction ==
  ASSUME NEW S, 0 \in S, \A n \in Nat : n \in S => n + 1 \in S
  PROVE  Nat \subseteq S
<1> DEFINE T == Nat \ S
<1> SUFFICES T = {}
  OBVIOUS
<1>1. SUFFICES ASSUME T # {} PROVE FALSE
  OBVIOUS
<1>2. PICK x \in T : \A y \in T : x <= y
  BY <1>1, LeastExists
<1>3. x # 0 /\ x \in Nat /\ x - 1 \in Nat /\ ~(x <= x - 1)
  BY <1>2
<1>4. x - 1 \in S
  BY <1>2, <1>3
<1>5. x - 1 + 1 \in S
  BY <1>3, <1>4, Zenon
<1>6. x - 1 + 1 = x
  BY <1>3
<1>7. QED
  BY <1>2, <1>5, <1>6

\* Up to a bound.
LEMMA BoundedInduction ==
  ASSUME NEW N \in Nat, NEW S, 0 \in S,
         \A n \in 0 .. N - 1 : n \in S => n + 1 \in S
  PROVE  0 .. N \subseteq S
<1> DEFINE T == {n \in Nat : n <= N => n \in S}
<1>1. 0 \in T
  OBVIOUS
<1>2. ASSUME NEW n \in Nat, n \in T PROVE n + 1 \in T
  <2>1. CASE n + 1 <= N
    <3>1. n \in 0 .. N - 1 /\ n <= N
      BY <2>1
    <3>2. n + 1 \in S
      BY <1>2, <3>1
    <3>3. QED
      BY <3>2
  <2>2. CASE ~(n + 1 <= N)
    BY <2>2
  <2>3. QED
    BY <2>1, <2>2
<1>3. Nat \subseteq T
  <2> HIDE DEF T
  <2>1. QED
    BY <1>1, <1>2, SetInduction
<1>4. QED
  BY <1>3

\* A set of numbers below a bound has a greatest one.
LEMMA GreatestExists ==
  ASSUME NEW N \in Nat, NEW S \in SUBSET (0 .. N), S # {}
  PROVE  \E x \in S : \A y \in S : y <= x
<1> DEFINE T == {n \in Nat : N - n \in S}
<1>1. PICK y \in S : TRUE
  OBVIOUS
<1>2. N - y \in T
  <2>1. y \in 0 .. N
    BY <1>1
  <2>2. N - y \in Nat /\ N - (N - y) = y
    BY <2>1
  <2>3. QED
    BY <2>2
<1>3. PICK n \in T : \A m \in T : n <= m
  <2> HIDE DEF T
  <2>1. T # {}
    BY <1>2
  <2>2. T \subseteq Nat
    BY DEF T
  <2>3. QED
    BY <2>1, <2>2, LeastExists
<1>4. N - n \in S
  OBVIOUS
<1>5. ASSUME NEW z \in S PROVE z <= N - n
  <2>1. z \in 0 .. N
    OBVIOUS
  <2>2. N - z \in Nat /\ N - (N - z) = z
    BY <2>1
  <2>3. N - z \in T
    BY <2>2
  <2>4. n <= N - z /\ n \in Nat
    BY <2>3, <1>3
  <2>5. QED
    BY <2>1, <2>4
<1>6. QED
  BY <1>4, <1>5

\* The sums of the first elements of a sequence of numbers.
IsSumOf(f, x, N) ==
  /\ f \in [0 .. N -> Nat]
  /\ f[0] = 0
  /\ \A n \in 1 .. N : f[n] = f[n - 1] + x[n]

LEMMA SumsExist ==
  ASSUME NEW N \in Nat, NEW x \in [1 .. N -> Nat]
  PROVE  \E f : IsSumOf(f, x, N)
<1> DEFINE S == {m \in 0 .. N : \E f : IsSumOf(f, x, m)}
<1>1. 0 \in S
  <2>1. IsSumOf([n \in 0 .. 0 |-> 0], x, 0)
    BY DEF IsSumOf
  <2>2. QED
    BY <2>1
<1>2. ASSUME NEW m \in 0 .. N - 1, m \in S PROVE m + 1 \in S
  <2>1. PICK f : IsSumOf(f, x, m)
    BY <1>2
  <2> DEFINE g == [n \in 0 .. m + 1 |-> IF n = m + 1 THEN f[m] + x[m + 1] ELSE f[n]]
  <2>2. g \in [0 .. m + 1 -> Nat]
    BY <2>1 DEF IsSumOf
  <2>3. g[0] = 0
    BY <2>1 DEF IsSumOf
  <2>4. ASSUME NEW n \in 1 .. m + 1 PROVE g[n] = g[n - 1] + x[n]
    BY <2>1, <2>4 DEF IsSumOf
  <2>5. IsSumOf(g, x, m + 1)
    BY <2>2, <2>3, <2>4 DEF IsSumOf
  <2>6. QED
    BY <2>5
<1>3. 0 .. N \subseteq S
  <2> HIDE DEF S
  <2>1. QED
    BY <1>1, <1>2, BoundedInduction
<1>4. QED
  BY <1>3

\* R orders S: every element has a number of its own, the number of those not
\* above it.
Orders(R, S) ==
  /\ \A x \in S : <<x, x>> \in R
  /\ \A x, y \in S : <<x, y>> \in R \/ <<y, x>> \in R
  /\ \A x, y \in S : <<x, y>> \in R /\ <<y, x>> \in R => x = y
  /\ \A x, y, z \in S : <<x, y>> \in R /\ <<y, z>> \in R => <<x, z>> \in R

Rank(R, S) == [x \in S |-> Cardinality({y \in S : <<y, x>> \in R})]

LEMMA RankIsBijection ==
  ASSUME NEW S, IsFiniteSet(S), NEW R, Orders(R, S)
  PROVE  Rank(R, S) \in Bijection(S, 1 .. Cardinality(S))
<1> DEFINE Below(x) == {y \in S : <<y, x>> \in R}
           N == Cardinality(S)
<1>1. N \in Nat
  BY FS_CardinalityType
<1>2. ASSUME NEW x \in S
      PROVE  /\ IsFiniteSet(Below(x))
             /\ Cardinality(Below(x)) \in 1 .. N
  <2>1. Below(x) \in SUBSET S /\ x \in Below(x)
    BY DEF Orders
  <2> HIDE DEF Below
  <2>2. IsFiniteSet(Below(x)) /\ Cardinality(Below(x)) <= N
    BY <2>1, FS_Subset
  <2>3. Cardinality(Below(x)) \in Nat /\ Cardinality(Below(x)) # 0
    BY <2>1, <2>2, FS_CardinalityType, FS_EmptySet
  <2>4. QED
    BY <1>1, <2>2, <2>3
<1>3. ASSUME NEW x \in S, NEW y \in S, Cardinality(Below(x)) = Cardinality(Below(y)),
             <<x, y>> \in R
      PROVE  x = y
  <2>1. Below(x) \in SUBSET Below(y)
    BY <1>3 DEF Orders
  <2>2. IsFiniteSet(Below(y))
    BY <1>2
  <2>3. y \in Below(y)
    BY DEF Orders
  <2> HIDE DEF Below
  <2>4. Below(x) = Below(y)
    BY <1>3, <2>1, <2>2, FS_Subset
  <2>5. y \in Below(x)
    BY <2>3, <2>4
  <2>6. <<y, x>> \in R
    BY <2>5 DEF Below
  <2>7. QED
    BY <1>3, <2>6 DEF Orders
<1>4. \A x, y \in S : Cardinality(Below(x)) = Cardinality(Below(y)) => x = y
  BY <1>3 DEF Orders
<1>5. /\ Rank(R, S) \in [S -> 1 .. N]
      /\ \A x, y \in S : Rank(R, S)[x] = Rank(R, S)[y] => x = y
  BY <1>2, <1>4 DEF Rank
<1> HIDE DEF N
<1>6. Rank(R, S) \in Injection(S, 1 .. N)
  BY <1>5, Fun_IsInj
<1>7. IsFiniteSet(1 .. N) /\ Cardinality(1 .. N) = N
  <2>1. 1 \in Int /\ N \in Int /\ (IF 1 > N THEN 0 ELSE N - 1 + 1) = N
    BY <1>1
  <2>2. QED
    BY <2>1, FS_Interval
<1>8. Rank(R, S) \in Surjection(S, 1 .. N)
  BY <1>6, <1>7, FS_Injection DEF N
<1>9. QED
  BY <1>6, <1>8 DEF Bijection, N

\* Every element has a rank of its own, and every rank is that of an element.
LEMMA RankFacts ==
  ASSUME NEW S, IsFiniteSet(S), NEW R, Orders(R, S)
  PROVE  /\ Rank(R, S) \in [S -> 1 .. Cardinality(S)]
         /\ \A x, y \in S : Rank(R, S)[x] = Rank(R, S)[y] => x = y
         /\ \A k \in 1 .. Cardinality(S) : \E x \in S : Rank(R, S)[x] = k
<1> DEFINE f == Rank(R, S)
           T == 1 .. Cardinality(S)
<1>1. f \in Bijection(S, T)
  BY RankIsBijection
<1> HIDE DEF f, T
<1>2. /\ f \in [S -> T]
      /\ \A a, b \in S : f[a] = f[b] => a = b
      /\ \A t \in T : \E x \in S : f[x] = t
  BY <1>1, Fun_BijectionProperties
<1>3. QED
  BY <1>2 DEF f, T

\* Whatever has each number.
LEMMA ChosenIsBijection ==
  ASSUME NEW S, NEW T, NEW f \in Bijection(S, T)
  PROVE  [t \in T |-> CHOOSE x \in S : f[x] = t] \in Bijection(T, S)
<1> DEFINE g == [t \in T |-> CHOOSE x \in S : f[x] = t]
<1>1. /\ f \in [S -> T]
      /\ \A a, b \in S : f[a] = f[b] => a = b
      /\ \A t \in T : \E x \in S : f[x] = t
  BY Fun_BijectionProperties
<1>2. \A t \in T : g[t] \in S /\ f[g[t]] = t
  BY <1>1
<1>3. g \in [T -> S]
  BY <1>2
<1>4. \A a, b \in T : g[a] = g[b] => a = b
  BY <1>2
<1>5. \A x \in S : \E t \in T : g[t] = x
  <2> SUFFICES ASSUME NEW x \in S PROVE \E t \in T : g[t] = x
    OBVIOUS
  <2>1. f[x] \in T
    BY <1>1
  <2>2. g[f[x]] = x
    BY <1>1, <1>2, <2>1
  <2>3. QED
    BY <2>1, <2>2
<1> HIDE DEF g
<1>6. g \in Bijection(T, S)
  BY <1>3, <1>4, <1>5, Fun_IsBij
<1>7. QED
  BY <1>6 DEF g
=============================================================================
