----------------------------- MODULE OrderProofs -----------------------------
(***************************************************************************)
(* Facts about finite sets of numbers, and induction in the form that the  *)
(* provers can use: over a set, not over a formula.                        *)
(***************************************************************************)
EXTENDS Order, FiniteSetTheorems, WellFoundedInduction, TLAPS

\* Of the sets in T there is one that contains no other.
HasSmallest(T) == \E A \in T : \A B \in T : ~(B \subseteq A /\ B # A)

\* So it is when they are sets of members of a finite set.
LEMMA FewestOfFinite ==
    ASSUME NEW S, IsFiniteSet(S), NEW T, T \subseteq SUBSET S, T # {}
    PROVE  HasSmallest(T)
<1>1. IsWellFoundedOn(StrictSubsetOrdering(S), FiniteSubsetsOf(S))
  BY FS_StrictSubsetOrderingWellFounded, Zenon
<1>2. T \subseteq FiniteSubsetsOf(S)
  BY FS_Subset, Zenon DEF FiniteSubsetsOf
<1>3. \E A \in T : \A B \in T : ~(<<B, A>> \in StrictSubsetOrdering(S))
  BY <1>1, <1>2, WFMin, Zenon
<1>4. \A A, B \in T : (B \subseteq A /\ B # A) => <<B, A>> \in StrictSubsetOrdering(S)
  BY DEF StrictSubsetOrdering
<1> QED  BY <1>3, <1>4, Zenon DEF HasSmallest

\* A finite set of numbers has a greatest member.
LEMMA GreatestNatural ==
    ASSUME NEW S, S \subseteq Nat, IsFiniteSet(S), S # {}
    PROVE  Greatest(S) \in S /\ \A n \in S : n <= Greatest(S)
<1> DEFINE Above(x) == {n \in S : n > x}
           T == {Above(x) : x \in S}
<1>1. T \subseteq SUBSET S /\ T # {}
  OBVIOUS
<1>2. HasSmallest(T)
  <2> HIDE DEF T
  <2> QED  BY <1>1, FewestOfFinite, Zenon
<1>3. PICK m \in S : \A B \in T : ~(B \subseteq Above(m) /\ B # Above(m))
  BY <1>2 DEF HasSmallest
<1>4. ASSUME NEW n \in S, ~(n <= m)
      PROVE  FALSE
  <2>1. Above(n) \in T /\ Above(n) \subseteq Above(m)
    <3>1. Above(n) \in T
      OBVIOUS
    <3>2. ASSUME NEW x \in S, x > n
          PROVE  x > m
      <4>1. x \in Nat /\ n \in Nat /\ m \in Nat
        OBVIOUS
      <4> QED  BY <1>4, <3>2, <4>1
    <3> QED  BY <3>1, <3>2
  <2>2. n \in Above(m) /\ n \notin Above(n)
    BY <1>4
  <2>3. Above(n) # Above(m)
    BY <2>2, Zenon
  <2> HIDE DEF Above, T
  <2> QED  BY <1>3, <2>1, <2>3, Zenon
<1> QED  BY <1>4 DEF Greatest

\* A set of numbers has a least member.
LEMMA LeastNatural ==
    ASSUME NEW S, S \subseteq Nat, S # {}
    PROVE  Least(S) \in S /\ \A n \in S : Least(S) <= n
<1>1. PICK k \in S : TRUE
  OBVIOUS
<1> DEFINE Below(x) == {n \in S : n <= x}
           T == {Below(x) : x \in {y \in S : y <= k}}
<1>2. IsFiniteSet(0..k)
  BY FS_Interval
<1>3. T \subseteq SUBSET (0..k) /\ T # {}
  <2>1. \A x \in S : x \in Nat
    OBVIOUS
  <2>2. Below(k) \in T
    BY <2>1
  <2>3. ASSUME NEW x \in S, x <= k, NEW n \in S, n <= x
        PROVE  n \in 0..k
    <3>1. x \in Nat /\ n \in Nat /\ k \in Nat
      BY <2>1
    <3> QED  BY <2>3, <3>1
  <2> QED  BY <2>2, <2>3
<1>4. HasSmallest(T)
  <2> DEFINE F == 0..k
  <2>1. IsFiniteSet(F) /\ T \subseteq SUBSET F /\ T # {}
    BY <1>2, <1>3
  <2> HIDE DEF T, F
  <2> QED  BY <2>1, FewestOfFinite, Zenon
<1>5. PICK m \in S : m <= k /\ \A B \in T : ~(B \subseteq Below(m) /\ B # Below(m))
  BY <1>4 DEF HasSmallest
<1>6. ASSUME NEW n \in S, ~(m <= n)
      PROVE  FALSE
  <2> n \in Nat /\ m \in Nat /\ k \in Nat /\ \A x \in S : x \in Nat
    OBVIOUS
  <2>1. Below(n) \in T
    BY <1>5, <1>6
  <2>2. Below(n) \subseteq Below(m)
    <3> SUFFICES ASSUME NEW x \in Below(n) PROVE x \in Below(m)
      OBVIOUS
    <3>1. x \in S /\ x \in Nat /\ x <= n
      OBVIOUS
    <3> QED  BY <1>6, <3>1
  <2>3. m \in Below(m) /\ m \notin Below(n)
    BY <1>6
  <2>4. Below(n) # Below(m)
    BY <2>3, Zenon
  <2> HIDE DEF Below, T
  <2> QED  BY <1>5, <2>1, <2>2, <2>4, Zenon
<1> QED  BY <1>6 DEF Least

\* Induction: a set with 0 and with the successor of each of its numbers has all
\* of them.
LEMMA NaturalInduction ==
    ASSUME NEW S, 0 \in S, \A n \in Nat : n \in S => n + 1 \in S
    PROVE  Nat \subseteq S
<1> DEFINE R == Nat \ S
<1> SUFFICES ASSUME R # {} PROVE FALSE
  OBVIOUS
<1>1. Least(R) \in R /\ \A n \in R : Least(R) <= n
  <2>1. R \subseteq Nat
    OBVIOUS
  <2> HIDE DEF R
  <2> QED  BY <2>1, LeastNatural, Zenon
<1>2. PICK m \in R : \A n \in R : m <= n
  <2> HIDE DEF R
  <2> QED  BY <1>1, Zenon
<1>3. m # 0 /\ m - 1 \in Nat /\ m - 1 < m
  OBVIOUS
<1>4. m - 1 \in S
  BY <1>2, <1>3
<1>5. (m - 1) + 1 \in S
  BY <1>3, <1>4
<1> QED  BY <1>3, <1>5

-----------------------------------------------------------------------------

LEMMA RankType ==
    ASSUME NEW S, S \subseteq Nat, IsFiniteSet(S), NEW n \in S
    PROVE  Rank(n, S) \in 1..Cardinality(S)
<1> DEFINE B == {m \in S : m <= n}
<1>1. B \in SUBSET S
  OBVIOUS
<1>2. IsFiniteSet(B) /\ Cardinality(B) <= Cardinality(S)
  <2> HIDE DEF B
  <2> QED  BY <1>1, FS_Subset
<1>3. Cardinality(B) \in Nat /\ Cardinality(S) \in Nat
  BY <1>2, FS_CardinalityType
<1>4. n \in B
  OBVIOUS
<1>5. Cardinality(B) # 0
  <2> HIDE DEF B
  <2> QED  BY <1>2, <1>4, FS_EmptySet
<1> QED  BY <1>2, <1>3, <1>5 DEF Rank

\* The rank grows with the number.
LEMMA RankGrows ==
    ASSUME NEW S, S \subseteq Nat, IsFiniteSet(S), NEW n \in S, NEW k \in S, n < k
    PROVE  Rank(n, S) < Rank(k, S)
<1> DEFINE A == {m \in S : m <= n}
           B == {m \in S : m <= k}
<1>0. n \in Nat /\ k \in Nat /\ \A x \in S : x \in Nat
  OBVIOUS
<1>1. A \in SUBSET B /\ B \in SUBSET S /\ k \in B /\ k \notin A
  <2>1. ASSUME NEW x \in S, x <= n
        PROVE  x <= k
    <3>1. x \in Nat
      OBVIOUS
    <3> QED  BY <1>0, <2>1, <3>1
  <2>2. k \in B /\ k \notin A
    BY <1>0
  <2> QED  BY <2>1, <2>2
<1> HIDE DEF A, B
<1>2. IsFiniteSet(B)
  BY <1>1, FS_Subset
<1>3. IsFiniteSet(A) /\ Cardinality(A) <= Cardinality(B) /\ (Cardinality(B) = Cardinality(A) => B = A)
  BY <1>1, <1>2, FS_Subset
<1>4. Cardinality(A) \in Nat /\ Cardinality(B) \in Nat
  BY <1>2, <1>3, FS_CardinalityType
<1>5. A # B
  BY <1>1, Zenon
<1>6. Rank(n, S) = Cardinality(A) /\ Rank(k, S) = Cardinality(B)
  BY DEF Rank, A, B
<1> QED  BY <1>3, <1>4, <1>5, <1>6

\* Every rank is that of a member.
LEMMA RankOnto ==
    ASSUME NEW S, S \subseteq Nat, IsFiniteSet(S), NEW i \in 1..Cardinality(S)
    PROVE  \E n \in S : Rank(n, S) = i
<1> DEFINE f == [n \in S |-> Rank(n, S)]
           T == 1..Cardinality(S)
<1>1. Cardinality(S) \in Nat
  BY FS_CardinalityType
<1>2. f \in [S -> T]
  BY RankType
<1>3. \A n, k \in S : n < k => f[n] < f[k]
  BY RankGrows
<1>4. \A n, k \in S : f[n] = f[k] => n = k
  <2> SUFFICES ASSUME NEW n \in S, NEW k \in S, f[n] = f[k], n # k PROVE FALSE
    OBVIOUS
  <2>1. n < k \/ k < n
    OBVIOUS
  <2>2. f[n] \in Nat /\ f[k] \in Nat
    BY <1>1, <1>2
  <2> HIDE DEF f
  <2> QED  BY <1>3, <2>1, <2>2
<1>5. f \in Injection(S, T)
  <2> HIDE DEF f, T
  <2> QED  BY <1>2, <1>4 DEF Injection, IsInjective
<1>6. IsFiniteSet(T) /\ Cardinality(T) = Cardinality(S)
  BY <1>1, FS_Interval
<1>7. f \in Surjection(S, T)
  <2> HIDE DEF f, T
  <2> QED  BY <1>5, <1>6, FS_Injection
<1>8. \A t \in T : \E n \in S : f[n] = t
  <2> HIDE DEF f, T
  <2> QED  BY <1>7 DEF Surjection
<1> QED  BY <1>8

\* Ascending(S) has each member of S once, and they grow along it.
LEMMA AscendingFacts ==
    ASSUME NEW S, S \subseteq Nat, IsFiniteSet(S)
    PROVE  /\ Ascending(S) \in Seq(S)
           /\ Len(Ascending(S)) = Cardinality(S)
           /\ DOMAIN Ascending(S) = 1..Len(Ascending(S))
           /\ \A n \in S : \E i \in DOMAIN Ascending(S) : Ascending(S)[i] = n
           /\ \A i \in DOMAIN Ascending(S) : Ascending(S)[i] \in S
           /\ \A i, j \in DOMAIN Ascending(S) : i < j <=> Ascending(S)[i] < Ascending(S)[j]
<1> DEFINE a == Ascending(S)
           c == Cardinality(S)
<1>1. c \in Nat
  BY FS_CardinalityType
<1>2. \A i \in 1..c : a[i] \in S /\ Rank(a[i], S) = i
  BY RankOnto DEF Ascending
<1>3. a \in [1..c -> S]
  BY <1>2 DEF Ascending
<1>4. a \in Seq(S) /\ Len(a) = c /\ DOMAIN a = 1..c
  <2> HIDE DEF a, c
  <2> QED  BY <1>1, <1>3
<1>5. \A n, k \in S : n < k => Rank(n, S) < Rank(k, S)
  BY RankGrows
<1>6. \A n \in S : Rank(n, S) \in 1..c
  BY RankType
<1>7. \A i, j \in 1..c : i < j <=> a[i] < a[j]
  <2> HIDE DEF a, c
  <2> TAKE i, j \in 1..c
  <2>1. a[i] \in Nat /\ a[j] \in Nat /\ i \in Nat /\ j \in Nat
    <3>1. a[i] \in S /\ a[j] \in S
      BY <1>2
    <3>2. a[i] \in Nat /\ a[j] \in Nat
      BY <3>1
    <3> QED  BY <1>1, <3>2
  <2>2. a[i] < a[j] => i < j
    BY <1>2, <1>5
  <2>3. a[j] < a[i] => j < i
    BY <1>2, <1>5
  <2>4. a[j] = a[i] => j = i
    BY <1>2
  <2> QED  BY <2>1, <2>2, <2>3, <2>4
<1>8. \A n \in S : \E i \in 1..c : a[i] = n
  <2> HIDE DEF a, c
  <2> TAKE n \in S
  <2>1. Rank(n, S) \in 1..c
    BY <1>6
  <2>2. a[Rank(n, S)] \in S /\ Rank(a[Rank(n, S)], S) = Rank(n, S)
    BY <1>2, <2>1
  <2>3. a[Rank(n, S)] = n
    <3> DEFINE k == a[Rank(n, S)]
    <3>1. k \in Nat /\ n \in Nat /\ Rank(k, S) = Rank(n, S)
      BY <2>2
    <3>2. k < n => Rank(k, S) < Rank(n, S)
      BY <1>5, <2>2
    <3>3. n < k => Rank(n, S) < Rank(k, S)
      BY <1>5, <2>2
    <3>4. Rank(n, S) \in Nat
      BY <1>1, <2>1
    <3> HIDE DEF k
    <3> QED  BY <3>1, <3>2, <3>3, <3>4 DEF k
  <2> QED  BY <2>1, <2>3
<1>9. \A i \in 1..c : a[i] \in S
  BY <1>2
<1> QED
  <2>1. Ascending(S) = a /\ Cardinality(S) = c
    OBVIOUS
  <2> HIDE DEF a, c
  <2> QED  BY <2>1, <1>4, <1>7, <1>8, <1>9

\* Each member stands where its rank says.
LEMMA AscendingAt ==
    ASSUME NEW S, S \subseteq Nat, IsFiniteSet(S), NEW n \in S
    PROVE  Rank(n, S) \in DOMAIN Ascending(S) /\ Ascending(S)[Rank(n, S)] = n
<1> DEFINE a == Ascending(S)
           c == Cardinality(S)
<1>1. DOMAIN a = 1..c /\ Rank(n, S) \in 1..c
  BY RankType DEF Ascending
<1>2. a[Rank(n, S)] = CHOOSE m \in S : Rank(m, S) = Rank(n, S)
  BY <1>1 DEF Ascending
<1>3. a[Rank(n, S)] \in S /\ Rank(a[Rank(n, S)], S) = Rank(n, S)
  <2> HIDE DEF a
  <2> QED  BY <1>2
<1>4. ASSUME NEW k \in S, Rank(k, S) = Rank(n, S), k # n
      PROVE  FALSE
  <2>1. k < n \/ n < k
    BY <1>4
  <2>2. Rank(n, S) \in Nat
    BY <1>1
  <2>3. k < n => Rank(k, S) < Rank(n, S)
    BY RankGrows
  <2>4. n < k => Rank(n, S) < Rank(k, S)
    BY RankGrows
  <2> QED  BY <1>4, <2>1, <2>2, <2>3, <2>4
<1> HIDE DEF a
<1>5. a[Rank(n, S)] = n
  BY <1>3, <1>4
<1> QED  BY <1>1, <1>5 DEF a

\* FirstOf is an initial segment of its set, of n members unless it is all.
LEMMA FirstOfFacts ==
    ASSUME NEW S, S \subseteq Nat, IsFiniteSet(S), NEW n \in Nat
    PROVE  /\ FirstOf(n, S) \subseteq S
           /\ \A k \in FirstOf(n, S), j \in S : j < k => j \in FirstOf(n, S)
           /\ IsFiniteSet(FirstOf(n, S))
           /\ Cardinality(FirstOf(n, S)) <= n
           /\ FirstOf(n, S) # S => Cardinality(FirstOf(n, S)) = n
<1> DEFINE F == FirstOf(n, S)
           T == 1..n
           f == [k \in F |-> Rank(k, S)]
           c == Cardinality(S)
<1>1. F \subseteq S /\ \A k \in S : k \in F <=> Rank(k, S) <= n
  BY DEF FirstOf
<1>2. c \in Nat /\ \A k \in S : Rank(k, S) \in 1..c
  BY RankType, FS_CardinalityType
<1>3. \A k, j \in S : j < k => Rank(j, S) < Rank(k, S)
  BY RankGrows
<1>4. f \in [F -> T]
  <2>1. \A k \in F : Rank(k, S) \in T
    <3> HIDE DEF F
    <3> QED  BY <1>1, <1>2
  <2> HIDE DEF F, T
  <2> QED  BY <2>1
<1>5. \A k \in F : f[k] = Rank(k, S)
  OBVIOUS
<1>6. \A k, j \in S : Rank(k, S) = Rank(j, S) => k = j
  <2> SUFFICES ASSUME NEW k \in S, NEW j \in S, Rank(k, S) = Rank(j, S), k # j PROVE FALSE
    OBVIOUS
  <2>1. k < j \/ j < k
    OBVIOUS
  <2>2. Rank(k, S) \in Nat /\ Rank(j, S) \in Nat
    BY <1>2
  <2> QED  BY <1>3, <2>1, <2>2
<1>7. f \in Injection(F, T)
  <2> HIDE DEF F, T, f
  <2> QED  BY <1>1, <1>4, <1>5, <1>6 DEF Injection, IsInjective
<1>8. IsFiniteSet(T) /\ Cardinality(T) = n
  BY FS_Interval
<1>9. /\ IsFiniteSet(F) /\ Cardinality(F) <= n
      /\ Cardinality(F) = n <=> f \in Surjection(F, T)
  <2> HIDE DEF F, T, f
  <2> QED  BY <1>7, <1>8, FS_Injection
<1>10. ASSUME F # S PROVE f \in Surjection(F, T)
  <2>1. PICK k \in S : ~(Rank(k, S) <= n)
    BY <1>1, <1>10
  <2>2. n < c
    BY <1>2, <2>1
  <2>3. ASSUME NEW i \in T PROVE \E m \in F : f[m] = i
    <3>1. i \in 1..c /\ i <= n
      BY <1>2, <2>2
    <3>2. PICK m \in S : Rank(m, S) = i
      BY <3>1, RankOnto
    <3> HIDE DEF F, f
    <3> QED  BY <1>1, <1>5, <3>1, <3>2
  <2> HIDE DEF F, T, f
  <2> QED  BY <1>4, <2>3 DEF Surjection
<1>11. \A k \in F, j \in S : j < k => j \in F
  <2> SUFFICES ASSUME NEW k \in F, NEW j \in S, j < k PROVE j \in F
    OBVIOUS
  <2>2. k \in S /\ Rank(k, S) <= n
    <3> HIDE DEF F, f
    <3> QED  BY <1>1
  <2>1. Rank(j, S) \in Nat /\ Rank(k, S) \in Nat /\ Rank(k, S) <= n
    <3> HIDE DEF F, f
    <3> QED  BY <1>2, <2>2
  <2>3. Rank(j, S) < Rank(k, S)
    BY <1>3, <2>2
  <2> HIDE DEF F
  <2> QED  BY <1>1, <2>1, <2>3
<1> HIDE DEF F, T, f, c
<1>12. IsFiniteSet(F) /\ Cardinality(F) <= n /\ (F # S => Cardinality(F) = n)
  BY <1>9, <1>10
<1> QED  BY <1>1, <1>11, <1>12 DEF F
=============================================================================
