----------------------------- MODULE LeastNumber -----------------------------
(***************************************************************************)
(* Every set of natural numbers that has a member has a least one: what    *)
(* the proofs about retained rows and about histories rest on, where the   *)
(* greatest of a bounded set is the least of its bounds.                   *)
(***************************************************************************)
EXTENDS Naturals, WellFoundedInduction, FiniteSetTheorems, TLAPS

(* A well-founded relation that is the order of the numbers. *)
LEMMA SmallestBy ==
    ASSUME NEW R, IsWellFoundedOn(R, Nat),
           \A x \in Nat, y \in Nat : <<y, x>> \in R <=> y < x,
           NEW T \in SUBSET Nat, T # {}
    PROVE  \E x \in T : \A y \in T : x <= y
<1>0. T \subseteq Nat
  OBVIOUS
<1>1. \E x \in T : \A y \in T : ~(<<y, x>> \in R)
  BY ONLY WFMin, <1>0, T # {}, IsWellFoundedOn(R, Nat), ZenonT(60)
<1>2. PICK x \in T : \A y \in T : ~(<<y, x>> \in R)
  BY <1>1
<1>3. \A y \in T : ~(y < x)
  BY <1>2
<1> QED
  BY <1>3

(* The least member. *)
LEMMA SmallestNat ==
    ASSUME NEW T \in SUBSET Nat, T # {}
    PROVE  \E x \in T : \A y \in T : x <= y
<1> DEFINE R == OpToRel(<, Nat)
<1>1. IsWellFoundedOn(R, Nat)
  BY NatLessThanWellFounded
<1>2. \A x \in Nat, y \in Nat : <<y, x>> \in R <=> y < x
  BY DEF OpToRel
<1> HIDE DEF R
<1> QED
  BY <1>1, <1>2, SmallestBy

(* A bounded set has a greatest member: the least of its bounds. *)
LEMMA GreatestNat ==
    ASSUME NEW S \in SUBSET Nat, S # {}, NEW b \in Nat, \A x \in S : x <= b
    PROVE  \E m \in S : \A x \in S : x <= m
<1> DEFINE T == {n \in Nat : \A x \in S : x <= n}
<1>1. PICK m \in T : \A y \in T : m <= y
  BY SmallestNat
<1>2. m \in S
  <2>1. SUFFICES ASSUME m \notin S PROVE FALSE
    OBVIOUS
  <2>2. \A x \in S : x <= m - 1
    BY <2>1
  <2>3. PICK x \in S : TRUE
    OBVIOUS
  <2>4. m - 1 \in T
    BY <2>2, <2>3
  <2> QED
    BY <2>4, <1>1
<1> QED
  BY <1>1, <1>2

(* A finite set is bounded: of the beginnings of a list of it, the         *)
(* shortest unbounded one would be one number longer than a bounded one.   *)
LEMMA FiniteIsBounded ==
    ASSUME NEW S \in SUBSET Nat, IsFiniteSet(S)
    PROVE  \E b \in Nat : \A x \in S : x <= b
<1> DEFINE N == Cardinality(S)
<1>1. N \in Nat /\ ExistsBijection(1 .. N, S)
  BY FS_CardinalityType
<1> HIDE DEF N
<1>2. PICK f \in [1 .. N -> S] : \A x \in S : \E i \in 1 .. N : f[i] = x
  BY <1>1 DEF ExistsBijection, Bijection, Injection, Surjection
<1>3. ASSUME NEW i \in 1 .. N PROVE f[i] \in Nat
  <2>1. f[i] \in S
    BY <1>2
  <2> QED
    BY <2>1
<1> DEFINE Unbounded == {k \in 0 .. N : ~ \E b \in Nat : \A i \in 1 .. k : f[i] <= b}
<1>4. Unbounded = {}
  <2>1. SUFFICES ASSUME Unbounded # {} PROVE FALSE
    OBVIOUS
  <2>2. Unbounded \in SUBSET Nat
    BY <1>1
  <2>3. PICK k \in Unbounded : \A m \in Unbounded : k <= m
    BY <2>1, <2>2, SmallestNat
  <2>4. k \in 0 .. N /\ k # 0
    <3>1. CASE k = 0
      <4>1. \A i \in 1 .. k : f[i] <= 0
        BY <3>1
      <4> QED
        BY <2>3, <4>1
    <3> QED
      BY <2>3, <3>1
  <2>5. k - 1 \in 0 .. N /\ k - 1 \notin Unbounded
    <3>1. k - 1 \in 0 .. N /\ k - 1 < k /\ k \in Nat
      BY <1>1, <2>4
    <3> HIDE DEF Unbounded
    <3> QED
      BY <2>3, <3>1
  <2>6. PICK b \in Nat : \A i \in 1 .. k - 1 : f[i] <= b
    BY <2>5
  <2>7. k \in 1 .. N
    BY <1>1, <2>4
  <2>8. b + f[k] \in Nat /\ b <= b + f[k] /\ f[k] <= b + f[k]
    <3>1. f[k] \in Nat
      BY <1>3, <2>7
    <3> HIDE DEF Unbounded
    <3> QED
      BY <3>1
  <2>9. ASSUME NEW i \in 1 .. k PROVE f[i] <= b + f[k]
    <3>1. i = k \/ i \in 1 .. k - 1
      BY <1>1, <2>7
    <3>2. f[i] \in Nat /\ f[k] \in Nat
      <4>1. i \in 1 .. N
        BY <1>1, <2>7
      <4> QED
        BY <1>3, <2>7, <4>1
    <3>3. CASE i = k
      BY <2>8, <3>3
    <3>4. CASE i \in 1 .. k - 1
      <4>1. f[i] <= b
        BY <2>6, <3>4
      <4> HIDE DEF Unbounded
      <4> QED
        BY <2>8, <3>2, <4>1
    <3> QED
      BY <3>1, <3>3, <3>4
  <2> QED
    BY <2>3, <2>8, <2>9
<1>5. PICK b \in Nat : \A i \in 1 .. N : f[i] <= b
  <2>1. N \in 0 .. N
    BY <1>1
  <2> QED
    BY <1>4, <2>1
<1> QED
  BY <1>2, <1>5

(* Of a set with a member that L others are below, the members with fewer  *)
(* than L below them are L: they are those below the least with L below.   *)
LEMMA FirstOnes ==
    ASSUME NEW S \in SUBSET Nat, NEW L \in Nat \ {0}, NEW x \in S,
           ~(Cardinality({g \in S : g < x}) < L)
    PROVE  Cardinality({f \in S : Cardinality({g \in S : g < f}) < L}) = L
<1> DEFINE B(f) == {g \in S : g < f}
           F == {f \in S : Cardinality(B(f)) < L}
           T == {f \in S : ~(Cardinality(B(f)) < L)}
<1>1. ASSUME NEW f \in S
      PROVE  B(f) \in SUBSET Nat /\ IsFiniteSet(B(f)) /\ Cardinality(B(f)) \in Nat
  <2>1. f \in Nat /\ B(f) \in SUBSET Nat /\ \A g \in B(f) : g <= f
    <3>1. f \in Nat /\ \A g \in S : g \in Nat
      OBVIOUS
    <3>2. \A g \in B(f) : g \in Nat /\ g < f
      BY <3>1
    <3> HIDE DEF B
    <3> QED
      BY <3>1, <3>2
  <2> HIDE DEF B
  <2>2. IsFiniteSet(B(f))
    BY <2>1, FS_BoundedSetOfNaturals
  <2> QED
    BY <2>1, <2>2, FS_CardinalityType
<1>2. ASSUME NEW f \in S, NEW h \in S, f <= h
      PROVE  Cardinality(B(f)) <= Cardinality(B(h))
  <2>1. B(f) \in SUBSET B(h)
    <3>1. f \in Nat /\ h \in Nat /\ \A g \in S : g \in Nat
      OBVIOUS
    <3>2. \A g \in S : g < f => g < h
      BY <1>2, <3>1
    <3> QED
      BY <3>2
  <2> HIDE DEF B
  <2> QED
    BY <1>1, <2>1, FS_Subset
<1>3. PICK y \in T : \A z \in T : y <= z
  <2>1. x \in T
    OBVIOUS
  <2>2. T \in SUBSET Nat /\ T # {}
    BY <2>1
  <2> HIDE DEF T
  <2> QED
    BY <2>2, SmallestNat
<1>4. y \in S /\ y \in Nat /\ ~(Cardinality(B(y)) < L)
  OBVIOUS
<1>5. F = B(y)
  <2>1. ASSUME NEW f \in S, f < y PROVE Cardinality(B(f)) < L
    <3>1. f \notin T
      <4>1. f \in Nat
        OBVIOUS
      <4> HIDE DEF T
      <4> QED
        BY <1>3, <1>4, <2>1, <4>1
    <3> QED
      BY <3>1
  <2>2. ASSUME NEW f \in S, Cardinality(B(f)) < L PROVE f < y
    <3>1. SUFFICES ASSUME y <= f PROVE FALSE
      <4>1. f \in Nat
        OBVIOUS
      <4> QED
        BY <1>4, <4>1
    <3>2. Cardinality(B(y)) <= Cardinality(B(f))
      BY <1>2, <1>4, <3>1
    <3>3. Cardinality(B(y)) \in Nat /\ Cardinality(B(f)) \in Nat
      BY <1>1, <1>4
    <3> HIDE DEF B
    <3> QED
      BY <1>4, <2>2, <3>2, <3>3
  <2> QED
    BY <2>1, <2>2
<1>6. Cardinality(B(y)) \in Nat /\ IsFiniteSet(B(y)) /\ B(y) \in SUBSET Nat
  BY <1>1, <1>4
<1>7. B(y) # {}
  <2> HIDE DEF B
  <2>1. SUFFICES ASSUME B(y) = {} PROVE FALSE
    OBVIOUS
  <2>2. Cardinality(B(y)) = 0
    BY <2>1, FS_EmptySet
  <2> QED
    BY <1>4, <2>2
<1>8. PICK m \in B(y) : \A g \in B(y) : g <= m
  <2>1. \A g \in B(y) : g <= y
    BY <1>4
  <2> HIDE DEF B
  <2> QED
    BY <1>4, <1>6, <1>7, <2>1, GreatestNat
<1>9. m \in S /\ m \in Nat /\ m < y
  OBVIOUS
<1>10. Cardinality(B(m)) < L
  <2>1. m \in F
    BY <1>5
  <2> QED
    BY <2>1
<1>11. B(y) = B(m) \cup {m} /\ m \notin B(m)
  <2>1. ASSUME NEW g \in S PROVE g < y <=> g < m \/ g = m
    <3>1. g \in Nat
      OBVIOUS
    <3>2. g < y => g <= m
      BY <1>8
    <3> HIDE DEF B, F, T
    <3> QED
      BY <1>4, <1>9, <3>1, <3>2
  <2>2. ~(m < m)
    BY <1>9
  <2> QED
    BY <1>9, <2>1, <2>2
<1>12. IsFiniteSet(B(m)) /\ Cardinality(B(m)) \in Nat
  BY <1>1, <1>9
<1> HIDE DEF B, F, T
<1>13. Cardinality(B(y)) = Cardinality(B(m)) + 1
  BY <1>11, <1>12, FS_AddElement
<1>14. Cardinality(B(y)) = L
  BY <1>4, <1>6, <1>10, <1>12, <1>13
<1>15. Cardinality(F) = L
  BY <1>5, <1>14
<1> QED
  BY <1>15 DEF F, B

(* Each number below the size of a finite set is the rank of a member. *)
LEMMA Ranks ==
    ASSUME NEW S \in SUBSET Nat, IsFiniteSet(S), NEW k \in Nat, k < Cardinality(S)
    PROVE  \E i \in S : Cardinality({j \in S : j < i}) = k
<1> DEFINE B(i) == {j \in S : j < i}
           Ranked(l) == \E i \in S : Cardinality(B(i)) = l
           T == {l \in Nat : l < Cardinality(S) /\ ~Ranked(l)}
<1>1. SUFFICES ASSUME T # {} PROVE FALSE
  OBVIOUS
<1>2. T \in SUBSET Nat
  OBVIOUS
<1>3. PICK m \in T : \A l \in T : m <= l
  <2> HIDE DEF T
  <2> QED
    BY <1>1, <1>2, SmallestNat
<1>4. m \in Nat /\ m < Cardinality(S) /\ ~Ranked(m)
  OBVIOUS
<1>5. Cardinality(S) \in Nat
  BY FS_CardinalityType
<1>6. \A i \in S : i \in Nat
  OBVIOUS
<1>7. CASE m = 0
  <2>1. S # {}
    BY <1>4, <1>7, FS_EmptySet
  <2>2. PICK i \in S : \A j \in S : i <= j
    BY <2>1, SmallestNat
  <2>3. B(i) = {}
    <3>1. ASSUME NEW j \in S PROVE ~(j < i)
      <4>1. i \in Nat /\ j \in Nat /\ i <= j
        BY <1>6, <2>2
      <4> QED
        BY <4>1
    <3> QED
      BY <3>1
  <2>4. Cardinality(B(i)) = 0
    <3> HIDE DEF B
    <3> QED
      BY <2>3, FS_EmptySet
  <2> HIDE DEF B
  <2> QED
    BY <1>4, <1>7, <2>4
<1>8. CASE m # 0
  <2>1. m - 1 \in Nat /\ m - 1 < Cardinality(S) /\ ~(m <= m - 1)
    BY <1>4, <1>5, <1>8
  <2>2. Ranked(m - 1)
    <3> HIDE DEF Ranked
    <3> QED
      BY <1>3, <2>1
  <2>3. PICK i \in S : Cardinality(B(i)) = m - 1
    BY <2>2
  <2> DEFINE A == {j \in S : i < j}
             C == B(i) \cup {i}
  <2>4. IsFiniteSet(B(i)) /\ i \notin B(i)
    <3>1. B(i) \in SUBSET S
      OBVIOUS
    <3>2. i \notin B(i)
      BY <1>6
    <3> HIDE DEF B
    <3> QED
      BY <3>1, <3>2, FS_Subset
  <2>5. Cardinality(C) = m
    <3>1. Cardinality(B(i) \cup {i}) = Cardinality(B(i)) + 1
      <4> HIDE DEF B
      <4> QED
        BY <2>4, FS_AddElement
    <3> HIDE DEF B
    <3> QED
      BY <1>4, <2>3, <3>1
  <2>6. A # {}
    <3>1. SUFFICES ASSUME A = {} PROVE FALSE
      OBVIOUS
    <3>2. S = C
      <4>1. ASSUME NEW j \in S PROVE j < i \/ j = i
        <5>1. i \in Nat /\ j \in Nat /\ ~(i < j)
          BY <1>6, <3>1
        <5> HIDE DEF A, B, C
        <5> QED
          BY <5>1
      <4> QED
        BY <4>1
    <3> HIDE DEF C
    <3> QED
      BY <1>4, <1>5, <2>5, <3>2
  <2>7. PICK x \in A : \A y \in A : x <= y
    <3>1. A \in SUBSET Nat
      OBVIOUS
    <3> HIDE DEF A
    <3> QED
      BY <2>6, <3>1, SmallestNat
  <2>8. B(x) = C
    <3>1. x \in S /\ i < x /\ x \in Nat /\ i \in Nat
      OBVIOUS
    <3>2. ASSUME NEW j \in S PROVE j < x <=> j < i \/ j = i
      <4>1. j \in Nat
        OBVIOUS
      <4>2. i < j => x <= j
        BY <2>7
      <4> HIDE DEF A, B, C
      <4> QED
        BY <3>1, <4>1, <4>2
    <3> QED
      BY <3>1, <3>2
  <2>9. x \in S /\ Cardinality(B(x)) = m
    BY <2>5, <2>8
  <2> HIDE DEF B
  <2> QED
    BY <1>4, <2>9
<1> QED
  BY <1>7, <1>8
=============================================================================
