--------------------------- MODULE OrderingLemmas ---------------------------
(***************************************************************************)
(* Facts about finite sets and strict orders that the proofs about the     *)
(* queue's order, the median of the pressure samples and the sessions of a *)
(* usage rollup share: sorting a finite set, its last member, the least    *)
(* number of a set, and induction over the natural numbers.                *)
(***************************************************************************)
EXTENDS Integers, FiniteSets, FiniteSetTheorems, WellFoundedInduction, TLAPS

LEMMA SubsetCard ==
  ASSUME NEW S, IsFiniteSet(S), NEW T, T \subseteq S
  PROVE  /\ IsFiniteSet(T)
         /\ Cardinality(T) \in Nat
         /\ Cardinality(S) \in Nat
         /\ Cardinality(T) <= Cardinality(S)
         /\ T # S => Cardinality(T) < Cardinality(S)
<1>1. /\ IsFiniteSet(T)
      /\ Cardinality(T) <= Cardinality(S)
      /\ Cardinality(S) = Cardinality(T) => S = T
  BY FS_Subset
<1>2. Cardinality(T) \in Nat /\ Cardinality(S) \in Nat
  BY <1>1, FS_CardinalityType
<1>. QED  BY <1>1, <1>2

-----------------------------------------------------------------------------
(* Well-founded induction over Nat, for sets.                              *)
LEMMA LeastNat ==
  ASSUME NEW T, T \subseteq Nat, T # {}
  PROVE  \E m \in T : \A n \in T : m <= n
<1>. DEFINE Less == {p \in Nat \X Nat : p[1] < p[2]}
<1>1. IsWellFoundedOn(Less, Nat)
  BY NatLessThanWellFounded DEF OpToRel, IsWellFoundedOn
<1>2. PICK m \in T : \A n \in T : <<n, m>> \notin Less
  BY <1>1, WFMin
<1>3. ASSUME NEW n \in T, n < m PROVE FALSE
  <2>1. <<n, m>> \in Less
    BY <1>3
  <2>. QED  BY <1>2, <2>1
<1>. QED  BY <1>3

LEMMA SetInduction ==
  ASSUME NEW S, 0 \in S, \A n \in Nat : n \in S => n + 1 \in S
  PROVE  Nat \subseteq S
<1>. SUFFICES ASSUME Nat \ S # {} PROVE FALSE
  OBVIOUS
<1>1. PICK m \in Nat \ S : \A n \in Nat \ S : m <= n
  BY LeastNat
<1>2. m # 0 /\ m - 1 \in Nat /\ m - 1 \in S
  BY <1>1
<1>. QED  BY <1>1, <1>2

-----------------------------------------------------------------------------
(* R orders S strictly and leaves no two members side by side.             *)
IsStrictOrder(R, S) ==
    /\ \A x \in S : <<x, x>> \notin R
    /\ \A x, y, z \in S : <<x, y>> \in R /\ <<y, z>> \in R => <<x, z>> \in R
    /\ \A x, y \in S : x # y => <<x, y>> \in R \/ <<y, x>> \in R

(* q lists S in the order R.                                               *)
IsListing(q, S, R) ==
    /\ q \in [1..Cardinality(S) -> S]
    /\ \A i, j \in 1..Cardinality(S) : i < j => <<q[i], q[j]>> \in R

(* A finite set can be listed: whoever has i members before it is at place *)
(* i + 1.                                                                  *)
LEMMA ListExists ==
  ASSUME NEW S, IsFiniteSet(S), NEW R, IsStrictOrder(R, S)
  PROVE  \E q : IsListing(q, S, R)
<1>. DEFINE n == Cardinality(S)
            Before(x) == {y \in S : <<y, x>> \in R}
            Rank == [x \in S |-> Cardinality(Before(x)) + 1]
<1>1. n \in Nat
  BY FS_CardinalityType
<1>2. \A x \in S : Rank[x] \in 1..n
  <2>. SUFFICES ASSUME NEW x \in S PROVE Rank[x] \in 1..n
    OBVIOUS
  <2>1. Before(x) \subseteq S /\ x \notin Before(x)
    BY DEF IsStrictOrder
  <2>2. Cardinality(Before(x)) \in Nat /\ Cardinality(Before(x)) < n
    <3>. HIDE DEF Before
    <3>. QED  BY <2>1, SubsetCard
  <2>. QED  BY <1>1, <2>2
<1>3. ASSUME NEW x \in S, NEW y \in S, <<x, y>> \in R
      PROVE  Rank[x] < Rank[y]
  <2>1. Before(x) \subseteq Before(y)
    BY <1>3 DEF IsStrictOrder
  <2>2. x \in Before(y) /\ x \notin Before(x)
    BY <1>3 DEF IsStrictOrder
  <2>3. Before(y) \subseteq S
    OBVIOUS
  <2>4. /\ Cardinality(Before(x)) \in Nat /\ Cardinality(Before(y)) \in Nat
        /\ Cardinality(Before(x)) < Cardinality(Before(y))
    <3>. HIDE DEF Before
    <3>1. IsFiniteSet(Before(y))
      BY <2>3, SubsetCard
    <3>. QED  BY <2>1, <2>2, <3>1, SubsetCard
  <2>. QED  BY <2>4
<1>. HIDE DEF Rank
<1>4. ASSUME NEW x \in S, NEW y \in S, Rank[x] = Rank[y]
      PROVE  x = y
  <2>1. ~ (Rank[x] < Rank[y]) /\ ~ (Rank[y] < Rank[x])
    BY <1>1, <1>2, <1>4
  <2>2. <<x, y>> \notin R /\ <<y, x>> \notin R
    BY <1>3, <2>1
  <2>. QED  BY <2>2 DEF IsStrictOrder
<1>5. Rank \in Surjection(S, 1..n)
  <2>1. Rank \in [S -> 1..n]
    BY <1>2 DEF Rank
  <2>2. Rank \in Injection(S, 1..n)
    BY <1>4, <2>1 DEF Injection, IsInjective
  <2>3. IsFiniteSet(1..n) /\ Cardinality(1..n) = n
    BY <1>1, FS_Interval
  <2>. QED  BY <2>2, <2>3, FS_Injection
<1>6. \A i \in 1..n : \E x \in S : Rank[x] = i
  BY <1>5 DEF Surjection
<1>. DEFINE q == [i \in 1..n |-> CHOOSE x \in S : Rank[x] = i]
<1>7. \A i \in 1..n : q[i] \in S /\ Rank[q[i]] = i
  BY <1>6
<1>8. q \in [1..n -> S]
  BY <1>7
<1>9. ASSUME NEW i \in 1..n, NEW j \in 1..n, i < j
      PROVE  <<q[i], q[j]>> \in R
  <2>1. q[i] \in S /\ q[j] \in S /\ Rank[q[i]] = i /\ Rank[q[j]] = j
    BY <1>7
  <2>. HIDE DEF q, n
  <2>2. q[i] # q[j] /\ ~(Rank[q[j]] < Rank[q[i]])
    BY <1>1, <1>9, <2>1
  <2>. QED  BY <1>3, <2>1, <2>2 DEF IsStrictOrder
<1>. HIDE DEF q
<1>. QED  BY <1>8, <1>9 DEF IsListing

(* The list has every member once.                                         *)
LEMMA ListIsBijective ==
  ASSUME NEW S, IsFiniteSet(S), NEW R, IsStrictOrder(R, S), NEW q, IsListing(q, S, R)
  PROVE  /\ \A i, j \in 1..Cardinality(S) : q[i] = q[j] => i = j
         /\ \A x \in S : \E i \in 1..Cardinality(S) : q[i] = x
<1>. DEFINE n == Cardinality(S)
<1>1. n \in Nat
  BY FS_CardinalityType
<1>2. /\ q \in [1..n -> S]
      /\ \A i, j \in 1..n : i < j => <<q[i], q[j]>> \in R
  BY DEF IsListing
<1>. HIDE DEF n
<1>3. \A i, j \in 1..n : q[i] = q[j] => i = j
  <2>1. ASSUME NEW i \in 1..n, NEW j \in 1..n, q[i] = q[j], i # j
        PROVE  FALSE
    <3>1. i < j \/ j < i
      BY <1>1, <2>1
    <3>2. <<q[i], q[i]>> \in R /\ q[i] \in S
      BY <1>2, <2>1, <3>1
    <3>. QED  BY <3>2 DEF IsStrictOrder
  <2>. QED  BY <2>1
<1>4. q \in Injection(1..n, S)
  BY <1>2, <1>3 DEF Injection, IsInjective
<1>5. IsFiniteSet(1..n) /\ Cardinality(1..n) = n
  BY <1>1, FS_Interval
<1>6. q \in Surjection(1..n, S)
  BY <1>4, <1>5, FS_Injection DEF n
<1>. QED  BY <1>3, <1>6 DEF Surjection, n

(* A finite set that is not empty has a last member.                       *)
LEMMA LastExists ==
  ASSUME NEW S, IsFiniteSet(S), S # {}, NEW R, IsStrictOrder(R, S)
  PROVE  \E x \in S : \A y \in S \ {x} : <<y, x>> \in R
<1>. DEFINE n == Cardinality(S)
<1>1. n \in Nat /\ n # 0
  BY FS_CardinalityType, FS_EmptySet
<1>2. PICK q : IsListing(q, S, R)
  BY ListExists
<1>3. /\ q \in [1..n -> S]
      /\ \A i, j \in 1..n : i < j => <<q[i], q[j]>> \in R
      /\ \A x \in S : \E i \in 1..n : q[i] = x
  <2>1. \A x \in S : \E i \in 1..n : q[i] = x
    BY <1>2, ListIsBijective
  <2>. QED  BY <1>2, <2>1 DEF IsListing
<1>. HIDE DEF n
<1>4. ASSUME NEW y \in S \ {q[n]} PROVE <<y, q[n]>> \in R
  <2>1. PICK i \in 1..n : q[i] = y
    BY <1>3
  <2>2. i < n /\ n \in 1..n
    BY <1>1, <2>1
  <2>. QED  BY <1>3, <2>1, <2>2
<1>. QED  BY <1>1, <1>3, <1>4

LEMMA LargestExists ==
  ASSUME NEW S, S \subseteq Int, IsFiniteSet(S), S # {}
  PROVE  \E m \in S : \A k \in S : k <= m
<1>. DEFINE R == {p \in Int \X Int : p[1] < p[2]}
<1>1. \A x, y \in Int : <<x, y>> \in R <=> x < y
  OBVIOUS
<1>. HIDE DEF R
<1>2. IsStrictOrder(R, S)
  BY <1>1 DEF IsStrictOrder
<1>3. PICK m \in S : \A k \in S \ {m} : <<k, m>> \in R
  BY <1>2, LastExists
<1>4. ASSUME NEW k \in S PROVE k <= m
  <2>1. k = m \/ <<k, m>> \in R
    BY <1>3
  <2>2. k \in Int /\ m \in Int
    OBVIOUS
  <2>. QED  BY <1>1, <2>1, <2>2
<1>. QED  BY <1>4
=============================================================================
