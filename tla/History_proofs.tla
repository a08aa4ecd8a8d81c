---------------------------- MODULE History_proofs ----------------------------
(***************************************************************************)
(* Theorems about History: any number of minutes, messages, rows of before *)
(* there were summaries and spans.                                         *)
(***************************************************************************)
EXTENDS History, LeastNumber, TLAPS

-----------------------------------------------------------------------------
(* Sums over a finite set: the community module's fold takes out one       *)
(* member after the other, in an order of its own, and the sum is the same *)
(* in every order.                                                         *)

Adds(S) == \A x \in S : x.value \in Nat
SumOf(S) == MapThenSumSet(LAMBDA x : x.value, S)

OneOf(s) == CHOOSE y \in s : TRUE
SumsAt(f, s) == f[s] = IF s = {} THEN 0 ELSE OneOf(s).value + f[s \ {OneOf(s)}]
SumsOn(f, S) == \A s \in SUBSET S : SumsAt(f, s)

LEMMA OneOfIsMember == ASSUME NEW s, s # {} PROVE OneOf(s) \in s
BY DEF OneOf

(* What a set has left without a member. *)
LEMMA SmallerSubset ==
    ASSUME NEW S, IsFiniteSet(S), NEW s \in SUBSET S, NEW x \in s
    PROVE  /\ IsFiniteSet(s) /\ Cardinality(s) \in Nat /\ Cardinality(s) > 0
           /\ s \ {x} \in SUBSET S /\ IsFiniteSet(s \ {x})
           /\ Cardinality(s \ {x}) = Cardinality(s) - 1
<1>1. IsFiniteSet(s)
  BY FS_Subset
<1>2. Cardinality(s) \in Nat /\ Cardinality(s) # 0
  BY <1>1, FS_CardinalityType, FS_EmptySet
<1>3. IsFiniteSet(s \ {x}) /\ Cardinality(s \ {x}) = Cardinality(s) - 1
  BY <1>1, FS_RemoveElement
<1> QED
  BY <1>1, <1>2, <1>3

LEMMA SmallerByOne ==
    ASSUME NEW S, IsFiniteSet(S), Adds(S), NEW s \in SUBSET S, s # {}
    PROVE  /\ OneOf(s) \in s /\ OneOf(s).value \in Nat /\ s \ {OneOf(s)} \in SUBSET S
           /\ Cardinality(s) \in Nat /\ Cardinality(s \ {OneOf(s)}) = Cardinality(s) - 1
<1>1. OneOf(s) \in s
  BY OneOfIsMember
<1> QED
  BY <1>1, SmallerSubset DEF Adds

(* The sums of the subsets of up to some size make a function, and with    *)
(* that of a larger size.                                                  *)
LEMMA SumsExist ==
    ASSUME NEW S, IsFiniteSet(S), Adds(S)
    PROVE  \E f \in [SUBSET S -> Nat] : SumsOn(f, S)
<1> DEFINE N == Cardinality(S)
           Fit(f, k) == \A s \in SUBSET S : Cardinality(s) <= k => SumsAt(f, s)
           T == {k \in 0 .. N : ~ \E f \in [SUBSET S -> Nat] : Fit(f, k)}
<1>1. N \in Nat
  BY FS_CardinalityType
<1>2. T = {}
  <2>1. SUFFICES ASSUME T # {} PROVE FALSE
    OBVIOUS
  <2>2. T \in SUBSET Nat
    BY <1>1
  <2>3. PICK k \in T : \A j \in T : k <= j
    <3> HIDE DEF T
    <3> QED BY <2>1, <2>2, SmallestNat
  <2>4. k \in 0 .. N /\ ~ \E f \in [SUBSET S -> Nat] : Fit(f, k)
    OBVIOUS
  <2>5. k # 0
    <3>1. SUFFICES ASSUME k = 0 PROVE FALSE
      OBVIOUS
    <3> DEFINE f == [s \in SUBSET S |-> 0]
    <3>2. f \in [SUBSET S -> Nat]
      OBVIOUS
    <3>3. ASSUME NEW s \in SUBSET S, Cardinality(s) <= 0 PROVE SumsAt(f, s)
      <4>1. IsFiniteSet(s)
        BY FS_Subset
      <4>2. Cardinality(s) = 0
        BY <3>3, <4>1, FS_CardinalityType
      <4>3. s = {}
        BY <4>1, <4>2, FS_EmptySet
      <4> QED BY <4>3 DEF SumsAt
    <3> HIDE DEF f
    <3> QED BY <2>4, <3>1, <3>2, <3>3
  <2>6. k - 1 \in 0 .. N /\ ~(k <= k - 1) /\ k \in Nat
    BY <1>1, <2>4, <2>5
  <2>7. PICK f \in [SUBSET S -> Nat] : Fit(f, k - 1)
    <3>1. k - 1 \notin T
      <4> HIDE DEF T
      <4> QED BY <2>3, <2>6
    <3> QED BY <2>6, <3>1
  <2> DEFINE g == [s \in SUBSET S |-> IF Cardinality(s) = k THEN OneOf(s).value + f[s \ {OneOf(s)}]
                                      ELSE f[s]]
  <2>8. ASSUME NEW s \in SUBSET S, s # {}
        PROVE  /\ OneOf(s) \in s /\ OneOf(s).value \in Nat /\ s \ {OneOf(s)} \in SUBSET S
               /\ f[s \ {OneOf(s)}] \in Nat
               /\ Cardinality(s) \in Nat /\ Cardinality(s \ {OneOf(s)}) = Cardinality(s) - 1
    <3> HIDE DEF T, N, g, Fit
    <3>1. OneOf(s) \in s /\ OneOf(s).value \in Nat /\ s \ {OneOf(s)} \in SUBSET S
      BY <2>8, SmallerByOne
    <3>2. Cardinality(s) \in Nat /\ Cardinality(s \ {OneOf(s)}) = Cardinality(s) - 1
      BY <2>8, SmallerByOne
    <3>3. f[s \ {OneOf(s)}] \in Nat
      BY <2>7, <3>1
    <3> QED BY <3>1, <3>2, <3>3
  <2>9. g \in [SUBSET S -> Nat]
    <3>1. ASSUME NEW s \in SUBSET S PROVE g[s] \in Nat
      <4>1. CASE Cardinality(s) = k
        <5>1. s # {}
          BY <2>5, <4>1, FS_EmptySet
        <5>2. OneOf(s).value \in Nat /\ f[s \ {OneOf(s)}] \in Nat
          BY <2>8, <5>1
        <5> QED BY <4>1, <5>2
      <4>2. CASE Cardinality(s) # k
        BY <4>2
      <4> QED BY <4>1, <4>2
    <3> QED BY <3>1
  <2>10. ASSUME NEW s \in SUBSET S, Cardinality(s) <= k PROVE SumsAt(g, s)
    <3>1. CASE s = {}
      <4>1. Cardinality(s) = 0 /\ s \in SUBSET S
        BY <3>1, FS_EmptySet
      <4>2. SumsAt(f, s)
        BY <2>6, <2>7, <4>1
      <4>3. g[s] = f[s]
        BY <2>5, <4>1
      <4> HIDE DEF g
      <4> QED BY <3>1, <4>2, <4>3 DEF SumsAt
    <3>2. CASE s # {}
      <4> DEFINE r == s \ {OneOf(s)}
      <4>1. r \in SUBSET S /\ Cardinality(r) = Cardinality(s) - 1 /\ Cardinality(s) \in Nat
        BY <2>8, <3>2
      <4>2. Cardinality(r) # k
        BY <2>6, <2>10, <4>1
      <4>3. g[r] = f[r]
        BY <4>1, <4>2
      <4>4. CASE Cardinality(s) = k
        <5>1. g[s] = OneOf(s).value + f[r]
          BY <4>4
        <5> HIDE DEF g
        <5> QED BY <3>2, <4>3, <5>1 DEF SumsAt
      <4>5. CASE Cardinality(s) # k
        <5>1. Cardinality(s) <= k - 1
          BY <2>6, <2>10, <4>1, <4>5
        <5>2. SumsAt(f, s)
          BY <2>7, <5>1
        <5>3. g[s] = f[s]
          BY <4>5
        <5> HIDE DEF g
        <5> QED BY <3>2, <4>3, <5>2, <5>3 DEF SumsAt
      <4> QED BY <4>4, <4>5
    <3> QED BY <3>1, <3>2
  <2> HIDE DEF g
  <2> QED BY <2>4, <2>9, <2>10
<1>3. PICK f \in [SUBSET S -> Nat] : Fit(f, N)
  <2>1. N \in 0 .. N
    BY <1>1
  <2> QED BY <1>2, <2>1
<1>4. ASSUME NEW s \in SUBSET S PROVE SumsAt(f, s)
  <2>1. Cardinality(s) <= N
    BY FS_Subset
  <2> QED BY <1>3, <2>1
<1> QED
  BY <1>3, <1>4 DEF SumsOn

(* Two such functions agree on the subsets of both. *)
LEMMA SumsAgree ==
    ASSUME NEW S, IsFiniteSet(S), NEW R \in SUBSET S, NEW f, NEW g, SumsOn(f, R), SumsOn(g, S)
    PROVE  \A s \in SUBSET R : f[s] = g[s]
<1> DEFINE T == {k \in Nat : \E s \in SUBSET R : Cardinality(s) = k /\ f[s] # g[s]}
<1>1. SUFFICES ASSUME NEW s \in SUBSET R, f[s] # g[s] PROVE FALSE
  OBVIOUS
<1>2. T # {} /\ T \in SUBSET Nat
  <2>1. IsFiniteSet(s)
    BY FS_Subset
  <2> QED BY <1>1, <2>1, FS_CardinalityType
<1>3. PICK k \in T : \A j \in T : k <= j
  <2> HIDE DEF T
  <2> QED BY <1>2, SmallestNat
<1>4. PICK r \in SUBSET R : Cardinality(r) = k /\ f[r] # g[r]
  OBVIOUS
<1>5. SumsAt(f, r) /\ SumsAt(g, r)
  BY DEF SumsOn
<1>6. r # {}
  BY <1>4, <1>5 DEF SumsAt
<1>7. OneOf(r) \in r
  BY <1>6, OneOfIsMember
<1> DEFINE q == r \ {OneOf(r)}
<1>8. q \in SUBSET R /\ Cardinality(q) = k - 1 /\ k \in Nat /\ k > 0
  BY <1>4, <1>7, SmallerSubset
<1>9. f[q] = g[q]
  <2>1. k - 1 \in Nat /\ ~(k <= k - 1)
    BY <1>8
  <2>2. k - 1 \notin T
    <3> HIDE DEF T
    <3> QED BY <1>3, <2>1
  <2> QED BY <1>8, <2>1, <2>2
<1> QED
  BY <1>4, <1>5, <1>6, <1>9 DEF SumsAt

(* The sum is one of that function. *)
LEMMA SumIs ==
    ASSUME NEW S, IsFiniteSet(S), Adds(S), NEW f \in [SUBSET S -> Nat], SumsOn(f, S)
    PROVE  \A R \in SUBSET S : SumOf(R) = f[R]
<1>1. SUFFICES ASSUME NEW R \in SUBSET S PROVE SumOf(R) = f[R]
  OBVIOUS
<1>2. IsFiniteSet(R) /\ Adds(R)
  BY FS_Subset DEF Adds
<1>3. PICK h \in [SUBSET R -> Nat] : SumsOn(h, R)
  BY <1>2, SumsExist
<1> DEFINE Fold(e) == e = [s \in SUBSET R |-> IF s = {} THEN 0
                             ELSE LET x == CHOOSE y \in s : TRUE IN x.value + e[s \ {x}]]
           iter == CHOOSE e : Fold(e)
<1>4. SumOf(R) = iter[R]
  BY DEF SumOf, MapThenSumSet, MapThenFoldSet
<1>5. Fold(h)
  BY <1>3 DEF SumsOn, SumsAt, OneOf
<1>6. Fold(iter)
  <2> HIDE DEF Fold
  <2> QED BY <1>5
<1>7. SumsOn(iter, R)
  <2> HIDE DEF iter
  <2> QED BY <1>6 DEF SumsOn, SumsAt, OneOf
<1>8. ASSUME NEW e, SumsOn(e, R) PROVE e[R] = f[R]
  <2>1. \A s \in SUBSET R : e[s] = f[s]
    BY <1>8, SumsAgree
  <2> QED BY <2>1
<1> HIDE DEF iter, Fold
<1> QED
  BY <1>4, <1>7, <1>8

LEMMA SumEmpty == SumOf({}) = 0
<1>1. IsFiniteSet({}) /\ Adds({}) /\ {} \in SUBSET {}
  BY FS_EmptySet DEF Adds
<1>2. PICK f \in [SUBSET {} -> Nat] : SumsOn(f, {})
  BY <1>1, SumsExist
<1>3. SumsAt(f, {}) /\ SumOf({}) = f[{}]
  BY <1>1, <1>2, SumIs DEF SumsOn
<1> QED
  BY <1>3 DEF SumsAt

LEMMA SumType ==
    ASSUME NEW S, IsFiniteSet(S), Adds(S)
    PROVE  SumOf(S) \in Nat
<1>1. PICK f \in [SUBSET S -> Nat] : SumsOn(f, S)
  BY SumsExist
<1>2. S \in SUBSET S
  OBVIOUS
<1>3. SumOf(S) = f[S]
  BY <1>1, <1>2, SumIs
<1> QED
  BY <1>1, <1>2, <1>3

LEMMA SumStep ==
    ASSUME NEW S, IsFiniteSet(S), Adds(S), S # {}
    PROVE  SumOf(S) = OneOf(S).value + SumOf(S \ {OneOf(S)})
<1>1. PICK f \in [SUBSET S -> Nat] : SumsOn(f, S)
  BY SumsExist
<1> DEFINE R == S \ {OneOf(S)}
<1>2. S \in SUBSET S /\ R \in SUBSET S
  OBVIOUS
<1>3. SumOf(S) = f[S] /\ SumOf(R) = f[R]
  BY <1>1, <1>2, SumIs
<1>4. SumsAt(f, S)
  BY <1>1, <1>2 DEF SumsOn
<1> QED
  BY <1>3, <1>4 DEF SumsAt

(* Any member may be taken out first: the least set of which this would    *)
(* not be so has two members that may be taken out in either order.        *)
LEMMA SumRemove ==
    ASSUME NEW S, IsFiniteSet(S), Adds(S), NEW x \in S
    PROVE  SumOf(S) = x.value + SumOf(S \ {x})
<1> DEFINE Odd(A) == \E y \in A : SumOf(A) # y.value + SumOf(A \ {y})
           T == {k \in Nat : \E A \in SUBSET S : Cardinality(A) = k /\ Odd(A)}
<1>1. SUFFICES ASSUME T # {} PROVE FALSE
  <2>1. S \in SUBSET S /\ Cardinality(S) \in Nat
    BY FS_CardinalityType
  <2>2. SUFFICES ASSUME Odd(S) PROVE FALSE
    OBVIOUS
  <2>3. Cardinality(S) \in T
    BY <2>1, <2>2
  <2> QED BY <1>1, <2>3
<1>2. T \in SUBSET Nat
  OBVIOUS
<1>3. PICK k \in T : \A j \in T : k <= j
  <2> HIDE DEF T
  <2> QED BY <1>1, <1>2, SmallestNat
<1>4. PICK A \in SUBSET S : Cardinality(A) = k /\ Odd(A)
  OBVIOUS
<1>5. PICK y \in A : SumOf(A) # y.value + SumOf(A \ {y})
  BY <1>4
<1>6. ASSUME NEW z \in A, NEW y1 \in A \ {z}
      PROVE  SumOf(A \ {z}) = y1.value + SumOf((A \ {z}) \ {y1})
  <2>1. Cardinality(A \ {z}) = k - 1 /\ k \in Nat /\ k > 0 /\ A \ {z} \in SUBSET S
    <3> HIDE DEF T, Odd
    <3> QED BY <1>4, SmallerSubset
  <2>2. k - 1 \in Nat /\ ~(k <= k - 1)
    BY <2>1
  <2>3. k - 1 \notin T
    <3> HIDE DEF T
    <3> QED BY <1>3, <2>2
  <2>4. ~Odd(A \ {z})
    BY <2>1, <2>2, <2>3
  <2> QED BY <2>4
<1> HIDE DEF T, Odd
<1>7. IsFiniteSet(A) /\ Adds(A) /\ A # {}
  BY <1>5, FS_Subset DEF Adds
<1> DEFINE p == OneOf(A)
<1>8. p \in A /\ SumOf(A) = p.value + SumOf(A \ {p})
  BY <1>7, OneOfIsMember, SumStep
<1> HIDE DEF p
<1>9. p # y
  BY <1>5, <1>8
<1>10. y \in A \ {p} /\ p \in A \ {y}
  BY <1>5, <1>8, <1>9
<1>11. SumOf(A \ {p}) = y.value + SumOf((A \ {p}) \ {y})
  BY <1>6, <1>8, <1>10
<1>12. SumOf(A \ {y}) = p.value + SumOf((A \ {y}) \ {p})
  BY <1>5, <1>6, <1>10
<1>13. (A \ {p}) \ {y} = (A \ {y}) \ {p}
  OBVIOUS
<1> DEFINE rest == SumOf((A \ {y}) \ {p})
<1>14. rest \in Nat
  <2>1. (A \ {y}) \ {p} \in SUBSET A
    OBVIOUS
  <2>2. IsFiniteSet((A \ {y}) \ {p}) /\ Adds((A \ {y}) \ {p})
    BY <1>7, <2>1, FS_Subset DEF Adds
  <2> QED BY <2>2, SumType
<1>15. SumOf(A \ {p}) = y.value + rest /\ SumOf(A \ {y}) = p.value + rest
  BY <1>11, <1>12, <1>13
<1>16. y.value \in Nat /\ p.value \in Nat
  BY <1>5, <1>7, <1>8 DEF Adds
<1> HIDE DEF rest
<1>17. SumOf(A) = p.value + (y.value + rest) /\ SumOf(A) # y.value + (p.value + rest)
  BY <1>5, <1>8, <1>15
<1> QED
  BY <1>14, <1>16, <1>17

(* The sum of two sets that share nothing. *)
LEMMA SumUnion ==
    ASSUME NEW A, NEW B, IsFiniteSet(A), IsFiniteSet(B), Adds(A), Adds(B), A \cap B = {}
    PROVE  SumOf(A \union B) = SumOf(A) + SumOf(B)
<1> DEFINE Odd(C) == SumOf(A \union C) # SumOf(A) + SumOf(C)
           T == {k \in Nat : \E C \in SUBSET B : Cardinality(C) = k /\ Odd(C)}
<1>1. SUFFICES ASSUME T # {} PROVE FALSE
  <2>1. B \in SUBSET B /\ Cardinality(B) \in Nat
    BY FS_CardinalityType
  <2>2. SUFFICES ASSUME Odd(B) PROVE FALSE
    OBVIOUS
  <2>3. Cardinality(B) \in T
    BY <2>1, <2>2
  <2> QED BY <1>1, <2>3
<1>2. T \in SUBSET Nat
  OBVIOUS
<1>3. PICK k \in T : \A j \in T : k <= j
  <2> HIDE DEF T
  <2> QED BY <1>1, <1>2, SmallestNat
<1>4. PICK C \in SUBSET B : Cardinality(C) = k /\ Odd(C)
  OBVIOUS
<1>5. SumOf(A \union C) # SumOf(A) + SumOf(C)
  BY <1>4
<1>6. IsFiniteSet(C) /\ Adds(C) /\ SumOf(A) \in Nat
  BY FS_Subset, SumType DEF Adds
<1>7. C # {}
  <2>1. SUFFICES ASSUME C = {} PROVE FALSE
    OBVIOUS
  <2>2. A \union C = A
    BY <2>1
  <2>3. SumOf(C) = 0
    BY <2>1, SumEmpty
  <2> HIDE DEF T, Odd
  <2> QED BY <1>5, <1>6, <2>2, <2>3
<1> DEFINE x == OneOf(C)
<1>8. x \in C /\ x \notin A
  BY <1>7, OneOfIsMember
<1> HIDE DEF x
<1>9. ~Odd(C \ {x})
  <2>1. Cardinality(C \ {x}) = k - 1 /\ k \in Nat /\ k > 0 /\ C \ {x} \in SUBSET B
    <3> HIDE DEF T, Odd
    <3> QED BY <1>4, <1>8, SmallerSubset
  <2>2. k - 1 \in Nat /\ ~(k <= k - 1)
    BY <2>1
  <2>3. k - 1 \notin T
    <3> HIDE DEF T
    <3> QED BY <1>3, <2>2
  <2> QED BY <2>1, <2>2, <2>3
<1>10. SumOf(A \union (C \ {x})) = SumOf(A) + SumOf(C \ {x})
  BY <1>9
<1> HIDE DEF T, Odd
<1>11. SumOf(C) = x.value + SumOf(C \ {x})
  BY <1>6, <1>8, SumRemove
<1>12. SumOf(A \union C) = x.value + SumOf((A \union C) \ {x})
  <2>1. IsFiniteSet(A \union C) /\ Adds(A \union C) /\ x \in A \union C
    BY <1>6, <1>8, FS_Union DEF Adds
  <2> QED BY <2>1, SumRemove
<1>13. (A \union C) \ {x} = A \union (C \ {x})
  BY <1>8
<1>14. x.value \in Nat /\ SumOf(C \ {x}) \in Nat
  <2>1. IsFiniteSet(C \ {x}) /\ Adds(C \ {x})
    BY <1>6, FS_RemoveElement DEF Adds
  <2> QED BY <1>6, <1>8, <2>1, SumType DEF Adds
<1>15. SumOf(A \union C) = x.value + (SumOf(A) + SumOf(C \ {x}))
  BY <1>10, <1>12, <1>13
<1> QED
  BY <1>5, <1>6, <1>11, <1>14, <1>15

-----------------------------------------------------------------------------
(* Groups.  What a finite set of samples with times of their own amounts   *)
(* to is one record, and what two such sets that share no time amount to   *)
(* together is the merger of what each does.                               *)

ValidOf(A) == {slot \in A : IsValid(slot)}
ValuesOf(A) == {slot.value : slot \in ValidOf(A)}
OriginsOf(A) == {slot.origin : slot \in ValidOf(A)}
TimesApart(A) == \A x, y \in A : x.time = y.time => x = y
SlotSet(A) == A \subseteq Slots /\ IsFiniteSet(A) /\ TimesApart(A)

LowIs(v, A)  == IF ValuesOf(A) = {} THEN v = NoValue
                ELSE v \in ValuesOf(A) /\ \A w \in ValuesOf(A) : v <= w
HighIs(v, A) == IF ValuesOf(A) = {} THEN v = NoValue
                ELSE v \in ValuesOf(A) /\ \A w \in ValuesOf(A) : v >= w
LastIs(x, A) == x \in A /\ \A y \in A : y.time <= x.time

IsGroup(g, A) ==
    /\ g = [count |-> Cardinality(ValidOf(A)), invalid |-> Cardinality(A \ ValidOf(A)),
            total |-> SumOf(ValidOf(A)), low |-> g.low, high |-> g.high,
            origins |-> OriginsOf(A), last |-> g.last]
    /\ LowIs(g.low, A) /\ HighIs(g.high, A) /\ LastIs(g.last, A)

(* A value or a time of each member of a finite set is one of finitely     *)
(* many.                                                                   *)
LEMMA ImageIsBounded ==
    ASSUME NEW S, IsFiniteSet(S), NEW f, DOMAIN f = S, \A x \in S : f[x] \in Nat
    PROVE  \E b \in Nat : \A x \in S : f[x] <= b
<1> DEFINE V == {f[x] : x \in S}
           h == [x \in S |-> f[x]]
<1>1. h \in Surjection(S, V)
  <2>1. h \in [S -> V]
    OBVIOUS
  <2>2. \A v \in V : \E x \in S : h[x] = v
    OBVIOUS
  <2> QED BY <2>1, <2>2 DEF Surjection
<1>2. IsFiniteSet(V)
  <2> HIDE DEF h, V
  <2> QED BY <1>1, FS_Surjection
<1>3. V \in SUBSET Nat
  OBVIOUS
<1>4. PICK b \in Nat : \A v \in V : v <= b
  <2> HIDE DEF V
  <2> QED BY <1>2, <1>3, FiniteIsBounded
<1>5. \A x \in S : f[x] \in V
  OBVIOUS
<1> QED
  BY <1>4, <1>5

LEMMA SlotFields ==
    ASSUME NEW slot \in Slots
    PROVE  /\ slot = [time |-> slot.time, value |-> slot.value, origin |-> slot.origin,
                      evidence |-> slot.evidence]
           /\ slot.time \in Nat /\ slot.origin \in Inputs /\ slot.evidence \in Messages
           /\ IsValid(slot) => slot.value \in Nat
BY DEF Slots, IsValid, Values

LEMMA ValidFacts ==
    ASSUME NEW A, SlotSet(A)
    PROVE  /\ IsFiniteSet(ValidOf(A)) /\ Adds(ValidOf(A)) /\ ValuesOf(A) \in SUBSET Nat
           /\ ValidOf(A) \in SUBSET A /\ IsFiniteSet(A \ ValidOf(A))
           /\ OriginsOf(A) \in SUBSET Inputs
<1>1. ValidOf(A) \in SUBSET A /\ IsFiniteSet(A) /\ A \subseteq Slots
  BY DEF ValidOf, SlotSet
<1>2. \A x \in ValidOf(A) : x.value \in Nat /\ x.origin \in Inputs
  BY SlotFields DEF ValidOf, SlotSet
<1>3. IsFiniteSet(ValidOf(A)) /\ IsFiniteSet(A \ ValidOf(A))
  BY <1>1, FS_Subset
<1> QED
  BY <1>1, <1>2, <1>3 DEF Adds, ValuesOf, OriginsOf

LEMMA ExtremesExist ==
    ASSUME NEW A, SlotSet(A)
    PROVE  LowIs(Extreme(ValuesOf(A), Min), A) /\ HighIs(Extreme(ValuesOf(A), Max), A)
<1> DEFINE V == ValuesOf(A)
<1>1. V \in SUBSET Nat
  BY ValidFacts
<1>2. CASE V = {}
  BY <1>2 DEF LowIs, HighIs, Extreme
<1>3. CASE V # {}
  <2>1. \E v \in V : \A w \in V : v <= w
    <3> HIDE DEF V
    <3> QED BY <1>1, <1>3, SmallestNat
  <2>2. PICK b \in Nat : \A v \in V : v <= b
    <3> DEFINE f == [x \in ValidOf(A) |-> x.value]
    <3>1. DOMAIN f = ValidOf(A) /\ \A x \in ValidOf(A) : f[x] = x.value /\ x.value \in Nat
      BY ValidFacts DEF Adds
    <3> HIDE DEF f
    <3>2. PICK b \in Nat : \A x \in ValidOf(A) : f[x] <= b
      BY <3>1, ValidFacts, ImageIsBounded
    <3> QED BY <3>1, <3>2 DEF ValuesOf
  <2>3. PICK m \in V : \A w \in V : w <= m
    <3> HIDE DEF V
    <3> QED BY <1>1, <1>3, <2>2, GreatestNat
  <2>4. \E v \in V : \A w \in V : v >= w
    BY <1>1, <2>3
  <2>5. Extreme(V, Min) = Min(V) /\ Extreme(V, Max) = Max(V)
    BY <1>3 DEF Extreme
  <2>6. Min(V) \in V /\ \A w \in V : Min(V) <= w
    <3> HIDE DEF V
    <3> QED BY <2>1 DEF Min
  <2>7. Max(V) \in V /\ \A w \in V : Max(V) >= w
    <3> HIDE DEF V
    <3> QED BY <2>4 DEF Max
  <2> QED BY <1>3, <2>5, <2>6, <2>7 DEF LowIs, HighIs
<1> QED
  BY <1>2, <1>3

LEMMA LastExists ==
    ASSUME NEW A, SlotSet(A), A # {}
    PROVE  LastIs(CHOOSE slot \in A : \A other \in A : other.time <= slot.time, A)
<1>1. IsFiniteSet(A) /\ \A x \in A : x.time \in Nat
  BY SlotFields DEF SlotSet
<1> DEFINE f == [x \in A |-> x.time]
           V == {x.time : x \in A}
<1>2. PICK b \in Nat : \A x \in A : x.time <= b
  <2>1. DOMAIN f = A /\ \A x \in A : f[x] = x.time
    OBVIOUS
  <2> HIDE DEF f
  <2> QED BY <1>1, <2>1, ImageIsBounded
<1>3. V \in SUBSET Nat /\ V # {} /\ \A v \in V : v <= b
  BY <1>1, <1>2
<1>4. PICK m \in V : \A v \in V : v <= m
  <2> HIDE DEF V
  <2> QED BY <1>3, GreatestNat
<1>5. \E slot \in A : \A other \in A : other.time <= slot.time
  BY <1>4
<1> QED
  BY <1>5 DEF LastIs

LEMMA GroupIs ==
    ASSUME NEW A, SlotSet(A), A # {}
    PROVE  IsGroup(GroupOf(A), A)
<1> DEFINE g == GroupOf(A)
<1>1. g = [count |-> Cardinality(ValidOf(A)), invalid |-> Cardinality(A \ ValidOf(A)),
           total |-> SumOf(ValidOf(A)),
           low |-> Extreme(ValuesOf(A), Min), high |-> Extreme(ValuesOf(A), Max),
           origins |-> OriginsOf(A),
           last |-> CHOOSE slot \in A : \A other \in A : other.time <= slot.time]
  BY DEF GroupOf, ValidOf, ValuesOf, OriginsOf, SumOf
<1> HIDE DEF g
<1>2. /\ g.low = Extreme(ValuesOf(A), Min) /\ g.high = Extreme(ValuesOf(A), Max)
      /\ g.last = CHOOSE slot \in A : \A other \in A : other.time <= slot.time
  BY <1>1
<1>3. LowIs(g.low, A) /\ HighIs(g.high, A) /\ LastIs(g.last, A)
  BY <1>2, ExtremesExist, LastExists
<1>4. IsGroup(g, A)
  BY <1>1, <1>2, <1>3 DEF IsGroup
<1> QED
  BY <1>4 DEF g

LEMMA GroupUnique ==
    ASSUME NEW A, SlotSet(A), NEW g, NEW h, IsGroup(g, A), IsGroup(h, A)
    PROVE  g = h
<1>1. ValuesOf(A) \in SUBSET Nat
  BY ValidFacts
<1>2. g.low = h.low
  BY <1>1 DEF IsGroup, LowIs
<1>3. g.high = h.high
  BY <1>1 DEF IsGroup, HighIs
<1>4. g.last = h.last
  <2>1. g.last \in A /\ h.last \in A /\ g.last.time <= h.last.time /\ h.last.time <= g.last.time
    BY DEF IsGroup, LastIs
  <2>2. g.last.time \in Nat /\ h.last.time \in Nat
    BY <2>1, SlotFields DEF SlotSet
  <2>3. g.last.time = h.last.time
    BY <2>1, <2>2
  <2> QED BY <2>1, <2>3 DEF SlotSet, TimesApart
<1> QED
  BY <1>2, <1>3, <1>4 DEF IsGroup

LEMMA GroupTyped ==
    ASSUME NEW A, SlotSet(A), NEW g, IsGroup(g, A)
    PROVE  g \in Groups
<1>1. Cardinality(ValidOf(A)) \in Nat /\ Cardinality(A \ ValidOf(A)) \in Nat
      /\ SumOf(ValidOf(A)) \in Nat /\ OriginsOf(A) \in SUBSET Inputs
  BY ValidFacts, FS_CardinalityType, SumType
<1>2. g.low \in Values /\ g.high \in Values
  <2>1. ValuesOf(A) \in SUBSET Nat
    BY ValidFacts
  <2> QED BY <2>1 DEF IsGroup, LowIs, HighIs, Values
<1>3. g.last \in Slots
  BY DEF IsGroup, LastIs, SlotSet
<1>4. g = [count |-> Cardinality(ValidOf(A)), invalid |-> Cardinality(A \ ValidOf(A)),
           total |-> SumOf(ValidOf(A)), low |-> g.low, high |-> g.high,
           origins |-> OriginsOf(A), last |-> g.last]
  BY DEF IsGroup
<1> QED
  BY <1>1, <1>2, <1>3, <1>4 DEF Groups

LEMMA GroupOfTyped ==
    ASSUME NEW A, SlotSet(A)
    PROVE  /\ A = {} => GroupOf(A) = NoGroup
           /\ A # {} => GroupOf(A) \in Groups /\ GroupOf(A) # NoGroup
<1>1. A # {} => GroupOf(A) \in Groups
  BY GroupIs, GroupTyped
<1>2. A = {} => GroupOf(A) = NoGroup
  BY DEF GroupOf
<1> QED
  BY <1>1, <1>2, HistoryAssumption

LEMMA BetterIs ==
    ASSUME NEW a \in Values, NEW b \in Values
    PROVE  /\ a = NoValue => Better(a, b, Min) = b /\ Better(a, b, Max) = b
           /\ b = NoValue => Better(a, b, Min) = a /\ Better(a, b, Max) = a
           /\ a # NoValue /\ b # NoValue =>
                 /\ Better(a, b, Min) \in {a, b} /\ Better(a, b, Min) <= a /\ Better(a, b, Min) <= b
                 /\ Better(a, b, Max) \in {a, b} /\ Better(a, b, Max) >= a /\ Better(a, b, Max) >= b
<1> DEFINE S == {a, b} \ {NoValue}
<1>1. Better(a, b, Min) = (IF S = {} THEN NoValue ELSE CHOOSE x \in S : \A y \in S : x <= y)
  BY DEF Better, Extreme, Min
<1>2. Better(a, b, Max) = (IF S = {} THEN NoValue ELSE CHOOSE x \in S : \A y \in S : x >= y)
  BY DEF Better, Extreme, Max
<1>3. CASE a = NoValue /\ b = NoValue
  <2>1. S = {}
    BY <1>3
  <2> QED BY <1>1, <1>2, <1>3, <2>1
<1>4. ASSUME NEW c \in Nat, S = {c} PROVE Better(a, b, Min) = c /\ Better(a, b, Max) = c
  <2>1. (CHOOSE x \in {c} : \A y \in {c} : x <= y) = c
    OBVIOUS
  <2>2. (CHOOSE x \in {c} : \A y \in {c} : x >= y) = c
    OBVIOUS
  <2> HIDE DEF S
  <2> QED BY <1>1, <1>2, <1>4, <2>1, <2>2
<1>5. CASE a = NoValue /\ b # NoValue
  <2>1. S = {b} /\ b \in Nat
    BY <1>5 DEF Values
  <2> QED BY <1>4, <1>5, <2>1
<1>6. CASE a # NoValue /\ b = NoValue
  <2>1. S = {a} /\ a \in Nat
    BY <1>6 DEF Values
  <2> QED BY <1>4, <1>6, <2>1
<1>7. CASE a # NoValue /\ b # NoValue
  <2>1. S = {a, b} /\ a \in Nat /\ b \in Nat
    BY <1>7 DEF Values
  <2>2. \E x \in {a, b} : \A y \in {a, b} : x <= y
    BY <2>1
  <2>3. \E x \in {a, b} : \A y \in {a, b} : x >= y
    BY <2>1
  <2> DEFINE l == CHOOSE x \in {a, b} : \A y \in {a, b} : x <= y
             u == CHOOSE x \in {a, b} : \A y \in {a, b} : x >= y
  <2>4. l \in {a, b} /\ \A y \in {a, b} : l <= y
    BY <2>2
  <2>5. u \in {a, b} /\ \A y \in {a, b} : u >= y
    BY <2>3
  <2>6. Better(a, b, Min) = l /\ Better(a, b, Max) = u
    BY <1>1, <1>2, <2>1
  <2> HIDE DEF l, u, S
  <2> QED BY <1>7, <2>4, <2>5, <2>6
<1> QED
  BY <1>3, <1>5, <1>6, <1>7

(* What two sets that share nothing have together. *)
LEMMA UnionFacts ==
    ASSUME NEW A, NEW B, SlotSet(A \union B), A \cap B = {}
    PROVE  /\ SlotSet(A) /\ SlotSet(B)
           /\ ValidOf(A \union B) = ValidOf(A) \union ValidOf(B)
           /\ ValidOf(A) \cap ValidOf(B) = {}
           /\ ValuesOf(A \union B) = ValuesOf(A) \union ValuesOf(B)
           /\ OriginsOf(A \union B) = OriginsOf(A) \union OriginsOf(B)
           /\ (A \union B) \ ValidOf(A \union B) = (A \ ValidOf(A)) \union (B \ ValidOf(B))
           /\ (A \ ValidOf(A)) \cap (B \ ValidOf(B)) = {}
<1>1. IsFiniteSet(A) /\ IsFiniteSet(B)
  <2>1. A \in SUBSET (A \union B) /\ B \in SUBSET (A \union B)
    OBVIOUS
  <2> QED BY <2>1, FS_Subset DEF SlotSet
<1>2. SlotSet(A) /\ SlotSet(B)
  BY <1>1 DEF SlotSet, TimesApart
<1>3. ValidOf(A \union B) = ValidOf(A) \union ValidOf(B) /\ ValidOf(A) \cap ValidOf(B) = {}
  BY DEF ValidOf
<1>4. (A \union B) \ ValidOf(A \union B) = (A \ ValidOf(A)) \union (B \ ValidOf(B))
  BY DEF ValidOf
<1>5. (A \ ValidOf(A)) \cap (B \ ValidOf(B)) = {}
  BY DEF ValidOf
<1> QED
  BY <1>2, <1>3, <1>4, <1>5 DEF ValuesOf, OriginsOf

LEMMA MergedLow ==
    ASSUME NEW A, NEW B, SlotSet(A \union B), A \cap B = {}, NEW v, NEW w, LowIs(v, A), LowIs(w, B)
    PROVE  LowIs(Better(v, w, Min), A \union B)
<1>1. ValuesOf(A) \in SUBSET Nat /\ ValuesOf(B) \in SUBSET Nat
      /\ ValuesOf(A \union B) = ValuesOf(A) \union ValuesOf(B)
  BY UnionFacts, ValidFacts
<1>2. v \in Values /\ w \in Values
  BY <1>1 DEF LowIs, Values
<1>3. (v = NoValue <=> ValuesOf(A) = {}) /\ (w = NoValue <=> ValuesOf(B) = {})
  BY <1>1, HistoryAssumption DEF LowIs
<1>4. CASE v = NoValue
  <2>1. Better(v, w, Min) = w /\ ValuesOf(A \union B) = ValuesOf(B)
    BY <1>1, <1>2, <1>3, <1>4, BetterIs
  <2> QED BY <2>1 DEF LowIs
<1>5. CASE w = NoValue
  <2>1. Better(v, w, Min) = v /\ ValuesOf(A \union B) = ValuesOf(A)
    BY <1>1, <1>2, <1>3, <1>5, BetterIs
  <2> QED BY <2>1 DEF LowIs
<1>6. CASE v # NoValue /\ w # NoValue
  <2> DEFINE m == Better(v, w, Min)
  <2>1. m \in {v, w} /\ m <= v /\ m <= w
    BY <1>2, <1>6, BetterIs
  <2>2. /\ v \in ValuesOf(A) /\ \A x \in ValuesOf(A) : v <= x
        /\ w \in ValuesOf(B) /\ \A x \in ValuesOf(B) : w <= x
    BY <1>3, <1>6 DEF LowIs
  <2> HIDE DEF m
  <2>3. m \in ValuesOf(A \union B) /\ \A x \in ValuesOf(A \union B) : m <= x
    BY <1>1, <2>1, <2>2
  <2>4. LowIs(m, A \union B)
    BY <2>3 DEF LowIs
  <2> QED BY <2>4 DEF m
<1> QED
  BY <1>4, <1>5, <1>6

LEMMA MergedHigh ==
    ASSUME NEW A, NEW B, SlotSet(A \union B), A \cap B = {}, NEW v, NEW w, HighIs(v, A), HighIs(w, B)
    PROVE  HighIs(Better(v, w, Max), A \union B)
<1>1. ValuesOf(A) \in SUBSET Nat /\ ValuesOf(B) \in SUBSET Nat
      /\ ValuesOf(A \union B) = ValuesOf(A) \union ValuesOf(B)
  BY UnionFacts, ValidFacts
<1>2. v \in Values /\ w \in Values
  BY <1>1 DEF HighIs, Values
<1>3. (v = NoValue <=> ValuesOf(A) = {}) /\ (w = NoValue <=> ValuesOf(B) = {})
  BY <1>1, HistoryAssumption DEF HighIs
<1>4. CASE v = NoValue
  <2>1. Better(v, w, Max) = w /\ ValuesOf(A \union B) = ValuesOf(B)
    BY <1>1, <1>2, <1>3, <1>4, BetterIs
  <2> QED BY <2>1 DEF HighIs
<1>5. CASE w = NoValue
  <2>1. Better(v, w, Max) = v /\ ValuesOf(A \union B) = ValuesOf(A)
    BY <1>1, <1>2, <1>3, <1>5, BetterIs
  <2> QED BY <2>1 DEF HighIs
<1>6. CASE v # NoValue /\ w # NoValue
  <2> DEFINE m == Better(v, w, Max)
  <2>1. m \in {v, w} /\ m >= v /\ m >= w
    BY <1>2, <1>6, BetterIs
  <2>2. /\ v \in ValuesOf(A) /\ \A x \in ValuesOf(A) : v >= x
        /\ w \in ValuesOf(B) /\ \A x \in ValuesOf(B) : w >= x
    BY <1>3, <1>6 DEF HighIs
  <2> HIDE DEF m
  <2>3. m \in ValuesOf(A \union B) /\ \A x \in ValuesOf(A \union B) : m >= x
    BY <1>1, <2>1, <2>2
  <2>4. HighIs(m, A \union B)
    BY <2>3 DEF HighIs
  <2> QED BY <2>4 DEF m
<1> QED
  BY <1>4, <1>5, <1>6

LEMMA MergedLast ==
    ASSUME NEW A, NEW B, SlotSet(A \union B), NEW g, NEW h, LastIs(g.last, A), LastIs(h.last, B)
    PROVE  LastIs(LaterOf(g, h), A \union B)
<1>1. \A x \in A \union B : x.time \in Nat
  BY SlotFields DEF SlotSet
<1>2. g.last \in A /\ h.last \in B /\ g.last.time \in Nat /\ h.last.time \in Nat
  BY <1>1 DEF LastIs
<1>3. CASE h.last.time >= g.last.time
  <2>1. LaterOf(g, h) = h.last
    BY <1>3 DEF LaterOf
  <2>2. \A y \in A : y.time <= h.last.time
    BY <1>1, <1>2, <1>3 DEF LastIs
  <2> QED BY <1>2, <2>1, <2>2 DEF LastIs
<1>4. CASE ~(h.last.time >= g.last.time)
  <2>1. LaterOf(g, h) = g.last
    BY <1>4 DEF LaterOf
  <2>2. \A y \in B : y.time <= g.last.time
    BY <1>1, <1>2, <1>4 DEF LastIs
  <2> QED BY <1>2, <2>1, <2>2 DEF LastIs
<1> QED
  BY <1>3, <1>4

LEMMA CountsAdd ==
    ASSUME NEW A, NEW B, IsFiniteSet(A), IsFiniteSet(B), A \cap B = {}
    PROVE  Cardinality(A \union B) = Cardinality(A) + Cardinality(B)
<1>1. Cardinality(A) \in Nat /\ Cardinality(B) \in Nat /\ Cardinality({}) = 0
  BY FS_CardinalityType, FS_EmptySet
<1> DEFINE n == Cardinality(A \cap B)
<1>2. Cardinality(A \union B) = Cardinality(A) + Cardinality(B) - n
  BY FS_Union
<1>3. n = 0
  BY <1>1
<1> HIDE DEF n
<1> QED
  BY <1>1, <1>2, <1>3

(* merge_summary merges. *)
LEMMA MergeIsGroup ==
    ASSUME NEW A, NEW B, SlotSet(A \union B), A \cap B = {}, A # {}, B # {}
    PROVE  MergedGroup(GroupOf(A), GroupOf(B)) = GroupOf(A \union B)
<1> DEFINE g == GroupOf(A)
           h == GroupOf(B)
           m == MergedGroup(g, h)
           C == A \union B
<1>1. SlotSet(A) /\ SlotSet(B)
  BY UnionFacts
<1>2. IsGroup(g, A) /\ IsGroup(h, B) /\ g # NoGroup /\ h # NoGroup
  BY <1>1, GroupIs, GroupOfTyped
<1> HIDE DEF g, h
<1>3. m = [count |-> g.count + h.count, invalid |-> g.invalid + h.invalid,
           total |-> g.total + h.total,
           low |-> Better(g.low, h.low, Min), high |-> Better(g.high, h.high, Max),
           origins |-> g.origins \union h.origins, last |-> LaterOf(g, h)]
  BY <1>2 DEF MergedGroup
<1> HIDE DEF m
<1>4. /\ g.count = Cardinality(ValidOf(A)) /\ h.count = Cardinality(ValidOf(B))
      /\ g.invalid = Cardinality(A \ ValidOf(A)) /\ h.invalid = Cardinality(B \ ValidOf(B))
      /\ g.total = SumOf(ValidOf(A)) /\ h.total = SumOf(ValidOf(B))
      /\ g.origins = OriginsOf(A) /\ h.origins = OriginsOf(B)
  <2>1. g = [count |-> Cardinality(ValidOf(A)), invalid |-> Cardinality(A \ ValidOf(A)),
             total |-> SumOf(ValidOf(A)), low |-> g.low, high |-> g.high,
             origins |-> OriginsOf(A), last |-> g.last]
    BY <1>2 DEF IsGroup
  <2>2. h = [count |-> Cardinality(ValidOf(B)), invalid |-> Cardinality(B \ ValidOf(B)),
             total |-> SumOf(ValidOf(B)), low |-> h.low, high |-> h.high,
             origins |-> OriginsOf(B), last |-> h.last]
    BY <1>2 DEF IsGroup
  <2>3. /\ g.count = Cardinality(ValidOf(A)) /\ g.invalid = Cardinality(A \ ValidOf(A))
        /\ g.total = SumOf(ValidOf(A)) /\ g.origins = OriginsOf(A)
    BY <2>1
  <2>4. /\ h.count = Cardinality(ValidOf(B)) /\ h.invalid = Cardinality(B \ ValidOf(B))
        /\ h.total = SumOf(ValidOf(B)) /\ h.origins = OriginsOf(B)
    BY <2>2
  <2> QED BY <2>3, <2>4
<1> DEFINE VA == ValidOf(A)
           VB == ValidOf(B)
           IA == A \ ValidOf(A)
           IB == B \ ValidOf(B)
<1>a. ValidOf(C) = VA \union VB /\ VA \cap VB = {} /\ C \ ValidOf(C) = IA \union IB /\ IA \cap IB = {}
      /\ OriginsOf(C) = OriginsOf(A) \union OriginsOf(B)
  BY UnionFacts
<1>b. IsFiniteSet(VA) /\ IsFiniteSet(VB) /\ IsFiniteSet(IA) /\ IsFiniteSet(IB) /\ Adds(VA) /\ Adds(VB)
  BY <1>1, ValidFacts
<1> HIDE DEF VA, VB, IA, IB
<1>5. g.count + h.count = Cardinality(ValidOf(C))
  <2>1. Cardinality(VA \union VB) = Cardinality(VA) + Cardinality(VB)
    BY <1>a, <1>b, CountsAdd
  <2> QED BY <2>1, <1>4, <1>a DEF VA, VB
<1>6. g.invalid + h.invalid = Cardinality(C \ ValidOf(C))
  <2>1. Cardinality(IA \union IB) = Cardinality(IA) + Cardinality(IB)
    BY <1>a, <1>b, CountsAdd
  <2> QED BY <2>1, <1>4, <1>a DEF IA, IB
<1>7. g.total + h.total = SumOf(ValidOf(C))
  <2>1. SumOf(VA \union VB) = SumOf(VA) + SumOf(VB)
    BY <1>a, <1>b, SumUnion
  <2> QED BY <2>1, <1>4, <1>a DEF VA, VB
<1>8. g.origins \union h.origins = OriginsOf(C)
  BY <1>4, <1>a
<1>9. LowIs(m.low, C) /\ HighIs(m.high, C) /\ LastIs(m.last, C)
  <2>1. m.low = Better(g.low, h.low, Min) /\ m.high = Better(g.high, h.high, Max)
        /\ m.last = LaterOf(g, h)
    BY <1>3
  <2>2. LowIs(Better(g.low, h.low, Min), C)
    BY <1>2, MergedLow DEF IsGroup
  <2>3. HighIs(Better(g.high, h.high, Max), C)
    BY <1>2, MergedHigh DEF IsGroup
  <2>4. LastIs(LaterOf(g, h), C)
    BY <1>2, MergedLast DEF IsGroup
  <2> QED BY <2>1, <2>2, <2>3, <2>4
<1>10. IsGroup(m, C)
  BY <1>3, <1>5, <1>6, <1>7, <1>8, <1>9 DEF IsGroup
<1>11. IsGroup(GroupOf(C), C)
  BY GroupIs
<1>12. m = GroupOf(C)
  BY <1>10, <1>11, GroupUnique
<1> QED
  BY <1>12 DEF m, g, h

LEMMA MergeGroups ==
    ASSUME NEW A, NEW B, SlotSet(A \union B), A \cap B = {}
    PROVE  MergedGroup(GroupOf(A), GroupOf(B)) = GroupOf(A \union B)
<1>1. SlotSet(A) /\ SlotSet(B)
  BY UnionFacts
<1>2. CASE A = {}
  <2>1. GroupOf(A) = NoGroup /\ A \union B = B
    BY <1>1, <1>2, GroupOfTyped
  <2> QED BY <2>1 DEF MergedGroup
<1>3. CASE A # {} /\ B = {}
  <2>1. GroupOf(A) # NoGroup /\ GroupOf(B) = NoGroup /\ A \union B = A
    BY <1>1, <1>3, GroupOfTyped
  <2> QED BY <2>1 DEF MergedGroup
<1> QED
  BY <1>2, <1>3, MergeIsGroup

-----------------------------------------------------------------------------
(* The rows' parts of a bucket, merged in whatever order they come.        *)

LEMMA MinuteFacts ==
    /\ MinuteTicks \in Nat /\ MinuteTicks > 0 /\ MinuteCount \in Nat /\ MinuteCount > 0
    /\ MinuteTicks % 2 = 0 /\ End \in Nat /\ MinuteIds \in SUBSET Nat
BY HistoryAssumption DEF End, MinuteIds

(* An order names each minute once. *)
LEMMA OrdersAreOneToOne ==
    ASSUME NEW order \in ReadOrders
    PROVE  /\ order \in [1 .. MinuteCount -> MinuteIds]
           /\ \A m \in MinuteIds : \E i \in 1 .. MinuteCount : order[i] = m
           /\ \A i, j \in 1 .. MinuteCount : order[i] = order[j] => i = j
<1>1. order \in [1 .. MinuteCount -> MinuteIds] /\ MinuteIds = {order[i] : i \in 1 .. MinuteCount}
  BY DEF ReadOrders
<1>2. \A m \in MinuteIds : \E i \in 1 .. MinuteCount : order[i] = m
  BY <1>1
<1>3. order \in Surjection(1 .. MinuteCount, MinuteIds)
  BY <1>1, <1>2 DEF Surjection
<1>4. IsFiniteSet(1 .. MinuteCount) /\ Cardinality(1 .. MinuteCount) = Cardinality(MinuteIds)
  <2>1. IsFiniteSet(1 .. MinuteCount) /\ Cardinality(1 .. MinuteCount) = MinuteCount
    BY MinuteFacts, FS_Interval
  <2>2. Cardinality(0 .. MinuteCount - 1) = MinuteCount
    BY MinuteFacts, FS_Interval
  <2> QED BY <2>1, <2>2 DEF MinuteIds
<1>5. order \in Injection(1 .. MinuteCount, MinuteIds)
  BY <1>3, <1>4, FS_SurjSameCardinalityImpliesInj
<1>6. \A i, j \in 1 .. MinuteCount : order[i] = order[j] => i = j
  BY <1>5 DEF Injection, IsInjective
<1> QED
  BY <1>1, <1>2, <1>6

(* The slots of the first rows of an order. *)
FirstOf(P, order, i) == UNION {P[order[j]] : j \in 1 .. i}

LEMMA FirstGrows ==
    ASSUME NEW P, NEW order \in ReadOrders, NEW i \in 1 .. MinuteCount,
           SlotSet(UNION {P[m] : m \in MinuteIds}),
           \A m, n \in MinuteIds : m # n => P[m] \cap P[n] = {}
    PROVE  GroupOf(FirstOf(P, order, i)) = MergedGroup(GroupOf(FirstOf(P, order, i - 1)), GroupOf(P[order[i]]))
<1> DEFINE A == FirstOf(P, order, i - 1)
           B == P[order[i]]
           all == UNION {P[m] : m \in MinuteIds}
<1>1. i \in Nat /\ 1 .. i = (1 .. i - 1) \union {i} /\ 1 .. i \subseteq 1 .. MinuteCount
      /\ i \notin 1 .. i - 1
  BY MinuteFacts
<1>2. FirstOf(P, order, i) = A \union B
  BY <1>1 DEF FirstOf
<1>3. \A j \in 1 .. MinuteCount : order[j] \in MinuteIds
  BY OrdersAreOneToOne
<1>4. ASSUME NEW x \in A, x \in B PROVE FALSE
  <2>1. PICK j \in 1 .. i - 1 : x \in P[order[j]]
    BY <1>4 DEF FirstOf
  <2>2. j # i /\ j \in 1 .. MinuteCount /\ i \in 1 .. MinuteCount
    BY <1>1, <2>1
  <2>3. order[j] # order[i]
    BY <2>2, OrdersAreOneToOne
  <2> QED BY <1>3, <1>4, <2>1, <2>2, <2>3
<1>5. A \union B \subseteq all
  <2>1. ASSUME NEW x \in A PROVE x \in all
    <3>1. PICK j \in 1 .. i - 1 : x \in P[order[j]]
      BY <2>1 DEF FirstOf
    <3>2. order[j] \in MinuteIds
      BY <1>1, <1>3, <3>1
    <3> QED BY <3>1, <3>2
  <2>2. ASSUME NEW x \in B PROVE x \in all
    BY <1>3, <2>2
  <2> QED BY <2>1, <2>2
<1> HIDE DEF A, B, all
<1>6. SlotSet(A \union B)
  <2>1. SlotSet(all)
    BY DEF all
  <2>2. IsFiniteSet(A \union B)
    BY <1>5, <2>1, FS_Subset DEF SlotSet
  <2> QED BY <1>5, <2>1, <2>2 DEF SlotSet, TimesApart
<1>7. A \cap B = {}
  BY <1>4
<1>8. MergedGroup(GroupOf(A), GroupOf(B)) = GroupOf(A \union B)
  BY <1>6, <1>7, MergeGroups
<1> QED
  BY <1>2, <1>8 DEF A, B

LEMMA AccumulatedIs ==
    ASSUME NEW q, NEW b, NEW P, NEW order \in ReadOrders,
           SlotSet(UNION {P[m] : m \in MinuteIds}),
           \A m, n \in MinuteIds : m # n => P[m] \cap P[n] = {},
           \A m \in MinuteIds : q.parts[m][b] = GroupOf(P[m])
    PROVE  Accumulated(q, b, order) = GroupOf(UNION {P[m] : m \in MinuteIds})
<1> DEFINE N == MinuteCount
           Up(e) == e = [i \in 0 .. N |-> IF i = 0 THEN NoGroup
                                          ELSE MergedGroup(e[i - 1], q.parts[order[i]][b])]
           f == [i \in 0 .. N |-> GroupOf(FirstOf(P, order, i))]
           add == CHOOSE e : Up(e)
<1>1. Accumulated(q, b, order) = add[N]
  BY DEF Accumulated
<1>2. \A i \in 1 .. N : order[i] \in MinuteIds /\ q.parts[order[i]][b] = GroupOf(P[order[i]])
  BY OrdersAreOneToOne
<1>3. f[0] = NoGroup
  <2>1. FirstOf(P, order, 0) = {}
    BY DEF FirstOf
  <2>2. GroupOf(FirstOf(P, order, 0)) = NoGroup
    BY <2>1 DEF GroupOf
  <2>3. 0 \in 0 .. N
    BY MinuteFacts
  <2> QED BY <2>2, <2>3
<1>4. ASSUME NEW i \in 1 .. N PROVE f[i] = MergedGroup(f[i - 1], q.parts[order[i]][b])
  <2>1. i \in 0 .. N /\ i - 1 \in 0 .. N
    BY MinuteFacts
  <2>2. f[i] = GroupOf(FirstOf(P, order, i)) /\ f[i - 1] = GroupOf(FirstOf(P, order, i - 1))
    BY <2>1
  <2>3. GroupOf(FirstOf(P, order, i)) = MergedGroup(GroupOf(FirstOf(P, order, i - 1)), GroupOf(P[order[i]]))
    BY FirstGrows
  <2> QED BY <1>2, <2>2, <2>3
<1>5. Up(f)
  <2>1. DOMAIN f = 0 .. N /\ f = [i \in 0 .. N |-> f[i]]
    OBVIOUS
  <2>2. ASSUME NEW i \in 0 .. N
        PROVE f[i] = IF i = 0 THEN NoGroup ELSE MergedGroup(f[i - 1], q.parts[order[i]][b])
    <3>1. i # 0 => i \in 1 .. N
      BY MinuteFacts
    <3> HIDE DEF f
    <3> QED BY <1>3, <1>4, <3>1
  <2> HIDE DEF f
  <2> QED BY <2>1, <2>2
<1>6. Up(add)
  <2> HIDE DEF Up
  <2> QED BY <1>5
<1> HIDE DEF add, f
<1>7. add[0] = NoGroup /\ \A i \in 1 .. N : add[i] = MergedGroup(add[i - 1], q.parts[order[i]][b])
  <2>1. 0 \in 0 .. N /\ \A i \in 1 .. N : i \in 0 .. N /\ i # 0
    BY MinuteFacts
  <2> QED BY <1>6, <2>1
<1> HIDE DEF Up
<1> DEFINE T == {i \in 0 .. N : add[i] # f[i]}
<1>8. T = {}
  <2>1. SUFFICES ASSUME T # {} PROVE FALSE
    OBVIOUS
  <2>2. T \in SUBSET Nat
    BY MinuteFacts
  <2>3. PICK i \in T : \A j \in T : i <= j
    <3> HIDE DEF T
    <3> QED BY <2>1, <2>2, SmallestNat
  <2>4. i \in 0 .. N /\ add[i] # f[i]
    OBVIOUS
  <2>5. i # 0
    BY <1>3, <1>7, <2>4
  <2>6. i \in 1 .. N /\ i - 1 \in 0 .. N /\ ~(i <= i - 1)
    BY MinuteFacts, <2>4, <2>5
  <2>7. add[i - 1] = f[i - 1]
    BY <2>3, <2>6
  <2> QED BY <1>4, <1>7, <2>4, <2>6, <2>7
<1>9. add[N] = f[N]
  <2>1. N \in 0 .. N
    BY MinuteFacts
  <2> QED BY <1>8, <2>1
<1>10. f[N] = GroupOf(FirstOf(P, order, N))
  <2>1. N \in 0 .. N
    BY MinuteFacts
  <2> QED BY <2>1 DEF f
<1>11. FirstOf(P, order, N) = UNION {P[m] : m \in MinuteIds}
  <2>1. {order[j] : j \in 1 .. N} = MinuteIds
    BY DEF ReadOrders
  <2>2. {P[order[j]] : j \in 1 .. N} = {P[m] : m \in MinuteIds}
    BY <2>1
  <2> QED BY <2>2 DEF FirstOf
<1> QED
  BY <1>1, <1>9, <1>10, <1>11

-----------------------------------------------------------------------------
(* Rows.  The samples of a row have times of their own, all in its minute. *)

LEMMA DivBounds ==
    ASSUME NEW a \in Nat, NEW d \in Nat, d > 0
    PROVE  a \div d \in Nat /\ (a \div d) * d <= a /\ a < (a \div d) * d + d
OBVIOUS

LEMMA DivUnique ==
    ASSUME NEW a \in Nat, NEW d \in Nat, d > 0, NEW n \in Nat, n * d <= a, a < n * d + d
    PROVE  a \div d = n
OBVIOUS

LEMMA Multiples ==
    ASSUME NEW d \in Nat, NEW e \in Nat, e > 0, d % e = 0
    PROVE  d \div e \in Nat /\ d = (d \div e) * e
OBVIOUS

(* A second lies in one minute. *)
LEMMA MinuteOfSecond ==
    ASSUME NEW t \in Nat
    PROVE  (2 * (t \div 2)) \div MinuteTicks = t \div MinuteTicks
<1> DEFINE s == t \div 2
           m == t \div MinuteTicks
           k == MinuteTicks \div 2
           h == m * MinuteTicks
           j == m * k
<1>1. s \in Nat /\ 2 * s <= t /\ t <= 2 * s + 1
  OBVIOUS
<1>2. MinuteTicks \in Nat /\ MinuteTicks > 0
  BY MinuteFacts
<1>3. m \in Nat /\ h <= t /\ t < h + MinuteTicks
  <2>1. m \in Nat /\ m * MinuteTicks <= t /\ t < m * MinuteTicks + MinuteTicks
    BY <1>2, DivBounds
  <2> QED BY <2>1
<1>4. k \in Nat /\ MinuteTicks = 2 * k
  BY MinuteFacts
<1>5. h = 2 * j /\ j \in Nat
  <2> HIDE DEF k, m
  <2>1. m \in Nat /\ k \in Nat /\ MinuteTicks = 2 * k
    BY <1>3, <1>4
  <2>2. m * k \in Nat /\ m * (2 * k) = 2 * (m * k)
    BY <2>1
  <2> QED BY <2>1, <2>2
<1> HIDE DEF s, m, h, j, k
<1>6. h <= 2 * s /\ 2 * s < h + MinuteTicks
  BY <1>1, <1>3, <1>4, <1>5
<1>7. (2 * s) \div MinuteTicks = m
  <2>1. m * MinuteTicks <= 2 * s /\ 2 * s < m * MinuteTicks + MinuteTicks
    BY <1>6 DEF h
  <2>2. 2 * s \in Nat
    BY <1>1
  <2> QED BY <1>2, <1>3, <2>1, <2>2, DivUnique
<1> QED
  BY <1>7 DEF s, m

LEMMA RowFields ==
    ASSUME NEW m, NEW row, IsRowOf(row, m)
    PROVE  /\ row = [generated |-> row.last.at, last |-> row.last, slots |-> row.slots,
                     summary |-> row.summary]
           /\ row.generated = row.last.at /\ row.last \in Samples /\ row.last \in Messages
           /\ row.last.at \in Nat /\ row.last.at < End /\ row.last.at \div MinuteTicks = m
           /\ row.slots = [s \in DOMAIN row.slots |-> row.slots[s]]
           /\ DOMAIN row.slots \in SUBSET Seconds
           /\ \A s \in DOMAIN row.slots : row.slots[s] \in HeldSlots
<1>1. /\ row = [generated |-> row.last.at, last |-> row.last,
                slots |-> [s \in DOMAIN row.slots |-> row.slots[s]], summary |-> row.summary]
      /\ row.last \in Samples /\ row.last.at \div MinuteTicks = m
      /\ \A s \in DOMAIN row.slots : s \in Seconds /\ IsSlotOf(row.slots[s], s, row.last)
  BY DEF IsRowOf
<1>2. row.slots = [s \in DOMAIN row.slots |-> row.slots[s]] /\ row.generated = row.last.at
  <2> DEFINE F == [s \in DOMAIN row.slots |-> row.slots[s]]
             R == [generated |-> row.last.at, last |-> row.last, slots |-> F, summary |-> row.summary]
  <2>1. row = R
    BY <1>1
  <2>2. R.slots = F /\ R.generated = row.last.at
    OBVIOUS
  <2>3. row.slots = R.slots /\ row.generated = R.generated
    BY <2>1, Zenon
  <2> HIDE DEF R
  <2> QED BY <2>2, <2>3
<1>3. row.last \in Messages /\ row.last.at \in Nat /\ row.last.at < End
  BY <1>1, HistoryAssumption DEF Messages
<1>4. \A s \in DOMAIN row.slots : row.slots[s] \in HeldSlots
  BY <1>1 DEF IsSlotOf
<1>5. DOMAIN row.slots \in SUBSET Seconds
  BY <1>1
<1>6. row = [generated |-> row.last.at, last |-> row.last, slots |-> row.slots,
             summary |-> row.summary]
  BY <1>1, <1>2
<1> QED
  BY <1>1, <1>2, <1>3, <1>4, <1>5, <1>6

LEMMA RowTyped ==
    ASSUME NEW m, NEW row, IsRowOf(row, m), row.summary \in Summaries \union {NoSummary}
    PROVE  row \in Rows /\ row # NoMinute
<1> DEFINE D == DOMAIN row.slots
           Kinds == UNION {[E -> HeldSlots] : E \in SUBSET Seconds}
<1>1. row.slots \in [D -> HeldSlots] /\ D \in SUBSET Seconds
  BY RowFields
<1>2. row.slots \in Kinds
  BY <1>1
<1> HIDE DEF D, Kinds
<1>3. row = [generated |-> row.last.at, last |-> row.last, slots |-> row.slots,
             summary |-> row.summary]
      /\ row.last.at \in Nat /\ row.last \in Messages
  BY RowFields
<1>4. row \in [generated : Nat, last : Messages, slots : Kinds, summary : Summaries \union {NoSummary}]
  BY <1>2, <1>3
<1>5. row \in Rows
  BY <1>4 DEF Rows, Kinds
<1> QED
  BY <1>5, HistoryAssumption

LEMMA SlotIs ==
    ASSUME NEW m, NEW row, IsRowOf(row, m), NEW s \in DOMAIN row.slots
    PROVE  /\ SlotOfRow(row, s) \in Slots
           /\ SlotOfRow(row, s).time \div 2 = s
           /\ SlotOfRow(row, s).time \div MinuteTicks = m
<1> DEFINE slot == row.slots[s]
<1>1. /\ s \in Seconds /\ (2 * s) \div MinuteTicks = m /\ IsSlotOf(slot, s, row.last)
      /\ slot \in HeldSlots
  BY DEF IsRowOf, IsSlotOf
<1>2. s \in Nat
  BY <1>1, MinuteFacts DEF Seconds
<1>3. slot.value \in Values /\ slot.origin \in Inputs
      /\ (slot.at # NoTime => slot.at \in Nat /\ slot.at \div 2 = s)
  BY <1>1 DEF HeldSlots, IsSlotOf
<1>4. row.last \in Messages
  BY RowFields
<1> HIDE DEF slot
<1>5. CASE slot.at = NoTime
  <2>1. SlotOfRow(row, s) = [time |-> 2 * s, value |-> slot.value, origin |-> slot.origin,
                             evidence |-> row.last]
    BY <1>5 DEF SlotOfRow, slot
  <2>2. 2 * s \in Nat /\ (2 * s) \div 2 = s
    BY <1>2
  <2>3. SlotOfRow(row, s) \in Slots
    BY <1>3, <1>4, <2>1, <2>2 DEF Slots
  <2>4. SlotOfRow(row, s).time = 2 * s
    BY <2>1
  <2> QED BY <1>1, <2>2, <2>3, <2>4
<1>6. CASE slot.at # NoTime
  <2> DEFINE own == [at |-> slot.at, origin |-> slot.origin, value |-> slot.value]
  <2>1. SlotOfRow(row, s) = [time |-> slot.at, value |-> slot.value, origin |-> slot.origin,
                             evidence |-> own]
    BY <1>6 DEF SlotOfRow, slot
  <2>2. slot.at \in Nat /\ slot.at \div 2 = s
    BY <1>3, <1>6
  <2>3. own \in Messages
    BY <1>3, <2>2 DEF Messages
  <2>4. slot.at \div MinuteTicks = m
    <3>1. (2 * (slot.at \div 2)) \div MinuteTicks = slot.at \div MinuteTicks
      BY <2>2, MinuteOfSecond
    <3> QED BY <1>1, <2>2, <3>1
  <2> HIDE DEF own
  <2>5. SlotOfRow(row, s) \in Slots
    BY <1>3, <2>1, <2>2, <2>3 DEF Slots
  <2>6. SlotOfRow(row, s).time = slot.at
    BY <2>1
  <2> QED BY <2>2, <2>4, <2>5, <2>6
<1> QED
  BY <1>5, <1>6

LEMMA RowSlots ==
    ASSUME NEW m, NEW row, IsRowOf(row, m)
    PROVE  /\ SlotSet(SlotsOf(row))
           /\ \A x \in SlotsOf(row) : x.time \in Nat /\ x.time \div MinuteTicks = m
<1> DEFINE D == DOMAIN row.slots
           f == [s \in D |-> SlotOfRow(row, s)]
<1>1. \A s \in D : SlotOfRow(row, s) \in Slots /\ SlotOfRow(row, s).time \div 2 = s
                   /\ SlotOfRow(row, s).time \div MinuteTicks = m
  BY SlotIs
<1>2. SlotsOf(row) \subseteq Slots /\ \A x \in SlotsOf(row) : x.time \in Nat
  BY <1>1, SlotFields DEF SlotsOf
<1>3. TimesApart(SlotsOf(row))
  BY <1>1 DEF TimesApart, SlotsOf
<1>4. IsFiniteSet(D)
  <2>1. IsFiniteSet(Seconds)
    <3>1. End \div 2 \in Nat
      BY MinuteFacts
    <3>2. 0 \in Int /\ (End \div 2) - 1 \in Int
      BY <3>1
    <3> QED BY <3>2, FS_Interval DEF Seconds
  <2>2. D \in SUBSET Seconds
    BY RowFields
  <2> QED BY <2>1, <2>2, FS_Subset
<1>5. f \in Surjection(D, SlotsOf(row))
  BY DEF Surjection, SlotsOf
<1>6. IsFiniteSet(SlotsOf(row))
  <2> HIDE DEF f, D
  <2> QED BY <1>4, <1>5, FS_Surjection
<1>7. \A x \in SlotsOf(row) : x.time \div MinuteTicks = m
  BY <1>1 DEF SlotsOf
<1> QED
  BY <1>2, <1>3, <1>6, <1>7 DEF SlotSet

-----------------------------------------------------------------------------
(* Spans.  A minute that is whole in a span lies in one bucket, and every  *)
(* sample of the span is in a minute one of the statements asks for.       *)

LEMMA SpanFacts ==
    ASSUME NEW span \in Spans
    PROVE  /\ span[1] \in Nat /\ span[2] \in Nat /\ span[1] < span[2] /\ span[2] <= End
           /\ span[3] \in Nat /\ span[3] > 0 /\ span[3] % MinuteTicks = 0
BY HistoryAssumption, MinuteFacts

LEMMA MoreMinutes ==
    ASSUME NEW a \in Nat, NEW b \in Nat, NEW d \in Nat, d > 0
    PROVE  /\ a * d < b * d <=> a < b
           /\ a * d <= b * d <=> a <= b
           /\ a < b => a * d + d <= b * d
           /\ a * d \in Nat /\ b * d \in Nat
OBVIOUS

LEMMA StartFacts ==
    ASSUME NEW t \in Nat
    PROVE  /\ MinuteOf(t) \in Nat /\ StartOf(MinuteOf(t)) \in Nat
           /\ StartOf(MinuteOf(t)) <= t /\ t < StartOf(MinuteOf(t)) + MinuteTicks
BY DivBounds, MinuteFacts, MoreMinutes DEF MinuteOf, StartOf

LEMMA StartsAscend ==
    ASSUME NEW m \in Nat, NEW n \in Nat
    PROVE  /\ StartOf(m) < StartOf(n) <=> m < n
           /\ StartOf(m) <= StartOf(n) <=> m <= n
           /\ m < n => StartOf(m) + MinuteTicks <= StartOf(n)
           /\ StartOf(m) \in Nat
BY MoreMinutes, MinuteFacts DEF StartOf

LEMMA WholeMinute ==
    ASSUME NEW span \in Spans, NEW m \in Nat, NEW t \in Nat, MinuteOf(t) = m, WholeInSpan(m, span)
    PROVE  InSpanOf(t, span) /\ BucketOf(t, span) = BucketOf(StartOf(m), span)
<1> DEFINE d == MinuteTicks
           w == span[3]
           k == w \div d
           h == StartOf(m)
           b == h \div w
           j == b * k
           c == b * w
<1>1. d \in Nat /\ d > 0 /\ w \in Nat /\ w > 0 /\ w % d = 0
  BY MinuteFacts, SpanFacts
<1>2. h \in Nat /\ h <= t /\ t < h + d
  BY StartFacts
<1>3. span[1] \in Nat /\ span[2] \in Nat /\ span[1] <= h /\ h + d <= span[2]
  BY SpanFacts DEF WholeInSpan
<1>4. k \in Nat /\ w = k * d
  BY <1>1, Multiples
<1>5. b \in Nat /\ c <= h /\ h < c + w
  BY <1>1, <1>2, DivBounds
<1>6. j \in Nat /\ c = j * d
  <2> HIDE DEF b, k
  <2>1. b * (k * d) = (b * k) * d /\ b * k \in Nat
    BY <1>1, <1>4, <1>5
  <2> QED BY <1>4, <2>1
<1>7. c + w = (j + k) * d /\ j + k \in Nat
  <2> HIDE DEF j, c, k
  <2>1. (j + k) * d = j * d + k * d
    BY <1>1, <1>4, <1>6
  <2> QED BY <1>4, <1>6, <2>1
<1>8. m * d < (j + k) * d
  BY <1>5, <1>7 DEF StartOf
<1>9. m * d + d <= (j + k) * d
  <2> HIDE DEF j, k
  <2>1. m < j + k
    BY <1>1, <1>7, <1>8, MoreMinutes
  <2> QED BY <1>1, <1>7, <2>1, MoreMinutes
<1>10. h + d <= c + w /\ c \in Nat
  BY <1>7, <1>9, <1>1, <1>5 DEF StartOf
<1> HIDE DEF h, j, k, c
<1>11. t \div w = b
  <2>1. c <= t /\ t < c + w
    BY <1>1, <1>2, <1>5, <1>10
  <2>2. b * w <= t /\ t < b * w + w
    BY <2>1 DEF c
  <2> HIDE DEF b, w
  <2> QED BY <1>1, <1>5, <2>2, DivUnique
<1>12. InSpanOf(t, span)
  BY <1>1, <1>2, <1>3 DEF InSpanOf
<1> QED
  BY <1>11, <1>12 DEF BucketOf, h

LEMMA AggregatedAreWhole ==
    ASSUME NEW span \in Spans, NEW m \in Nat, WholeStart(span) <= StartOf(m), StartOf(m) < EndMinute(span)
    PROVE  WholeInSpan(m, span)
<1> DEFINE e == MinuteOf(span[2])
           a == StartOf(MinuteOf(span[1]))
<1>1. span[1] \in Nat /\ span[2] \in Nat /\ MinuteTicks \in Nat /\ StartOf(m) \in Nat
  BY SpanFacts, MinuteFacts, StartsAscend
<1>2. a \in Nat /\ span[1] < a + MinuteTicks /\ e \in Nat /\ StartOf(e) <= span[2]
  BY <1>1, StartFacts
<1>3. WholeStart(span) = IF a = span[1] THEN span[1] ELSE a + MinuteTicks
  BY DEF WholeStart
<1>4. m < e
  BY <1>2, StartsAscend DEF EndMinute
<1>5. StartOf(m) + MinuteTicks <= StartOf(e) /\ StartOf(e) \in Nat
  BY <1>2, <1>4, StartsAscend
<1> HIDE DEF a, e
<1>6. span[1] <= StartOf(m)
  BY <1>1, <1>2, <1>3
<1>7. StartOf(m) + MinuteTicks <= span[2]
  BY <1>1, <1>2, <1>5
<1> QED
  BY <1>6, <1>7 DEF WholeInSpan

LEMMA SamplesAreAskedFor ==
    ASSUME NEW span \in Spans, NEW m \in MinuteIds, NEW t \in Nat, MinuteOf(t) = m, InSpanOf(t, span)
    PROVE  /\ InSpan(m, span)
           /\ m \in Boundaries(span) \/ (WholeStart(span) <= StartOf(m) /\ StartOf(m) < EndMinute(span))
<1> DEFINE a == MinuteOf(span[1])
           e == MinuteOf(span[2])
<1>1. span[1] \in Nat /\ span[2] \in Nat /\ MinuteTicks \in Nat /\ m \in Nat
  BY SpanFacts, MinuteFacts
<1>2. span[1] <= t /\ t < span[2]
  BY DEF InSpanOf
<1>3. StartOf(m) \in Nat /\ StartOf(m) <= t /\ t < StartOf(m) + MinuteTicks
  BY StartFacts
<1>4. a \in Nat /\ StartOf(a) \in Nat /\ StartOf(a) <= span[1] /\ span[1] < StartOf(a) + MinuteTicks
  BY <1>1, StartFacts
<1>5. e \in Nat /\ StartOf(e) \in Nat /\ StartOf(e) <= span[2] /\ span[2] < StartOf(e) + MinuteTicks
  BY <1>1, StartFacts
<1> HIDE DEF a, e
<1>6. a <= m
  <2>1. SUFFICES ASSUME m < a PROVE FALSE
    BY <1>1, <1>4
  <2>2. StartOf(m) + MinuteTicks <= StartOf(a)
    BY <1>1, <1>4, <2>1, StartsAscend
  <2> QED BY <1>1, <1>2, <1>3, <1>4, <2>2
<1>7. m <= e
  <2>1. SUFFICES ASSUME e < m PROVE FALSE
    BY <1>1, <1>5
  <2>2. StartOf(e) + MinuteTicks <= StartOf(m)
    BY <1>1, <1>5, <2>1, StartsAscend
  <2> QED BY <1>1, <1>2, <1>3, <1>5, <2>2
<1>8. InSpan(m, span)
  <2>1. StartOf(a) <= StartOf(m) /\ StartOf(m) < span[2]
    BY <1>1, <1>2, <1>3, <1>4, <1>6, StartsAscend
  <2> QED BY <2>1 DEF InSpan, a
<1>b. ASSUME NEW u \in {span[1], span[2]}, u # StartOf(MinuteOf(u)) PROVE MinuteOf(u) \in Boundaries(span)
  BY <1>b DEF Boundaries
<1>9. CASE m = a /\ StartOf(a) # span[1]
  <2>1. m \in Boundaries(span)
    BY <1>9, <1>b DEF a
  <2> QED BY <1>8, <2>1
<1>10. CASE m = e /\ StartOf(e) # span[2]
  <2>1. m \in Boundaries(span)
    BY <1>10, <1>b DEF e
  <2> QED BY <1>8, <2>1
<1>11. CASE ~(m = a /\ StartOf(a) # span[1]) /\ ~(m = e /\ StartOf(e) # span[2])
  <2>1. WholeStart(span) = IF StartOf(a) = span[1] THEN span[1] ELSE StartOf(a) + MinuteTicks
    BY DEF WholeStart, a
  <2>2. WholeStart(span) <= StartOf(m)
    <3>1. CASE m = a
      BY <1>1, <1>11, <2>1, <3>1
    <3>2. CASE m # a
      <4>1. a < m
        BY <1>1, <1>4, <1>6, <3>2
      <4>2. StartOf(a) + MinuteTicks <= StartOf(m)
        BY <1>1, <1>4, <4>1, StartsAscend
      <4> QED BY <1>1, <1>3, <1>4, <2>1, <4>2
    <3> QED BY <3>1, <3>2
  <2>3. StartOf(m) < StartOf(e)
    <3>1. m # e
      BY <1>1, <1>2, <1>3, <1>11
    <3>2. m < e
      BY <1>1, <1>5, <1>7, <3>1
    <3> QED BY <1>1, <1>5, <3>2, StartsAscend
  <2>4. EndMinute(span) = StartOf(e)
    BY DEF EndMinute, e
  <2> QED BY <1>8, <2>2, <2>3, <2>4
<1> QED
  BY <1>8, <1>9, <1>10, <1>11

LEMMA BoundariesAreMinutes ==
    ASSUME NEW span \in Spans
    PROVE  Boundaries(span) \subseteq MinuteIds
<1>1. SUFFICES ASSUME NEW u \in {span[1], span[2]}, u # StartOf(MinuteOf(u)) PROVE MinuteOf(u) \in MinuteIds
  BY DEF Boundaries
<1>2. u \in Nat /\ u <= End /\ End = StartOf(MinuteCount) /\ MinuteCount \in Nat
  BY SpanFacts, MinuteFacts DEF StartOf, End
<1> DEFINE m == MinuteOf(u)
<1>3. m \in Nat /\ StartOf(m) \in Nat /\ StartOf(m) <= u
  BY <1>2, StartFacts
<1>4. u # StartOf(m)
  BY <1>1
<1> HIDE DEF m
<1>5. StartOf(m) < StartOf(MinuteCount) /\ StartOf(MinuteCount) \in Nat
  BY <1>2, <1>3, <1>4, StartsAscend
<1>6. m < MinuteCount
  BY <1>2, <1>3, <1>5, StartsAscend
<1>7. m \in 0 .. MinuteCount - 1
  BY <1>2, <1>3, <1>6
<1> QED
  BY <1>7 DEF MinuteIds, m

-----------------------------------------------------------------------------
(* The parts of an answer: whichever statement delivered one, it amounts   *)
(* to the samples of its row that the bucket wants.                        *)

Wanted(row, b, span) ==
    {slot \in SlotsOf(row) : InSpanOf(slot.time, span) /\ BucketOf(slot.time, span) = b}

LEMMA AggregatePartIs ==
    ASSUME NEW span \in Spans, NEW m \in MinuteIds, NEW row, IsRowOf(row, m), WholeInSpan(m, span),
           NEW b \in BucketsOf(span)
    PROVE  AggregatePart(row, m, span)[b] = GroupOf(Wanted(row, b, span))
<1>1. m \in Nat
  BY MinuteFacts
<1>2. \A x \in SlotsOf(row) : InSpanOf(x.time, span) /\ BucketOf(x.time, span) = BucketOf(StartOf(m), span)
  BY <1>1, RowSlots, WholeMinute DEF MinuteOf
<1>3. CASE b = BucketOf(StartOf(m), span)
  <2>1. Wanted(row, b, span) = SlotsOf(row)
    BY <1>2, <1>3 DEF Wanted
  <2> QED BY <1>3, <2>1 DEF AggregatePart
<1>4. CASE b # BucketOf(StartOf(m), span)
  <2>1. Wanted(row, b, span) = {}
    BY <1>2, <1>4 DEF Wanted
  <2>2. GroupOf(Wanted(row, b, span)) = NoGroup
    BY <2>1 DEF GroupOf
  <2> QED BY <1>4, <2>2 DEF AggregatePart
<1> QED
  BY <1>3, <1>4

LEMMA SummaryPartIs ==
    ASSUME NEW span \in Spans, NEW m \in MinuteIds, NEW row, IsRowOf(row, m), WholeInSpan(m, span),
           row.summary = SummaryOf(row), NEW b \in BucketsOf(span)
    PROVE  SummaryPart(row, m, span)[b] = GroupOf(Wanted(row, b, span))
<1>1. row.summary.group = GroupOf(SlotsOf(row))
  BY DEF SummaryOf
<1>2. SummaryPart(row, m, span)[b] = AggregatePart(row, m, span)[b]
  BY <1>1 DEF SummaryPart, AggregatePart
<1> QED
  BY <1>2, AggregatePartIs

LEMMA OriginalPartIs ==
    ASSUME NEW span \in Spans, NEW m \in MinuteIds, NEW row, IsRowOf(row, m), NEW b \in BucketsOf(span)
    PROVE  OriginalPart(row, m, span)[b] = GroupOf(Wanted(row, b, span))
<1>1. BoundaryPart(row, span)[b] = GroupOf(Wanted(row, b, span))
  BY DEF BoundaryPart, Wanted
<1>2. CASE HasSummaries /\ WholeInSpan(m, span)
  <2>1. OriginalPart(row, m, span) = AggregatePart(row, m, span)
    BY <1>2 DEF OriginalPart
  <2> QED BY <1>2, <2>1, AggregatePartIs
<1>3. CASE ~(HasSummaries /\ WholeInSpan(m, span))
  <2>1. OriginalPart(row, m, span) = BoundaryPart(row, span)
    BY <1>3 DEF OriginalPart
  <2> QED BY <1>1, <2>1
<1> QED
  BY <1>2, <1>3

-----------------------------------------------------------------------------
(* Writing.                                                                *)

LEMMA SummaryTyped ==
    ASSUME NEW m, NEW row, IsRowOf(row, m)
    PROVE  /\ SummaryOf(row) \in Summaries /\ SummaryOf(row) # NoSummary
           /\ SummaryOf(row).generated = row.generated
<1>1. GroupOf(SlotsOf(row)) \in Groups \union {NoGroup}
  BY RowSlots, GroupOfTyped
<1>2. row.generated \in Nat
  BY RowFields
<1>3. SummaryOf(row) \in Summaries
  BY <1>1, <1>2 DEF SummaryOf, Summaries
<1> QED
  BY <1>3, HistoryAssumption DEF SummaryOf

(* Rows with the same samples amount to the same. *)
LEMMA SameSamples ==
    ASSUME NEW row, NEW other, other.slots = row.slots, other.last = row.last,
           other.generated = row.generated
    PROVE  SlotsOf(other) = SlotsOf(row) /\ SummaryOf(other) = SummaryOf(row)
<1>1. \A s : SlotOfRow(other, s) = SlotOfRow(row, s)
  BY DEF SlotOfRow
<1>2. SlotsOf(other) = SlotsOf(row)
  BY <1>1 DEF SlotsOf
<1> QED
  BY <1>2 DEF SummaryOf

LEMMA SampleFacts ==
    ASSUME NEW sample \in Samples
    PROVE  /\ sample \in Messages /\ sample.at \in Nat /\ sample.at < End /\ sample.origin \in Inputs
           /\ sample.value \in Values
           /\ MinuteOf(sample.at) \in MinuteIds /\ SecondOf(sample.at) \in Seconds
<1>1. sample \in Messages /\ sample.at \in Nat /\ sample.at < End
      /\ sample.origin \in Inputs /\ sample.value \in Values
  BY HistoryAssumption DEF Messages
<1> DEFINE t == sample.at
           m == MinuteOf(t)
<1>2. m \in Nat /\ StartOf(m) \in Nat /\ StartOf(m) <= t
  BY <1>1, StartFacts
<1>3. End = StartOf(MinuteCount) /\ MinuteCount \in Nat
  BY MinuteFacts DEF StartOf, End
<1> HIDE DEF m
<1>4. StartOf(m) < StartOf(MinuteCount)
  <2>1. StartOf(MinuteCount) \in Nat
    BY <1>3, StartsAscend
  <2> QED BY <1>1, <1>2, <1>3, <2>1
<1>5. m \in MinuteIds
  <2>1. m < MinuteCount
    BY <1>2, <1>3, <1>4, StartsAscend
  <2> QED BY <1>2, <1>3, <2>1 DEF MinuteIds
<1>6. SecondOf(t) \in Seconds
  <2>1. End = 2 * (End \div 2) /\ End \in Nat
    <3>1. End = MinuteCount * MinuteTicks /\ MinuteTicks = 2 * (MinuteTicks \div 2)
          /\ MinuteTicks \div 2 \in Nat /\ MinuteCount \in Nat
      BY MinuteFacts DEF End
    <3> DEFINE k == MinuteTicks \div 2
               j == MinuteCount * k
    <3>2. End = 2 * j /\ j \in Nat
      <4> HIDE DEF k
      <4>1. MinuteCount * (2 * k) = 2 * (MinuteCount * k) /\ MinuteCount * k \in Nat
        BY <3>1 DEF k
      <4> QED BY <3>1, <4>1 DEF k
    <3> HIDE DEF j
    <3> QED BY <3>2
  <2>2. t \div 2 \in Nat /\ 2 * (t \div 2) <= t
    BY <1>1
  <2>3. t \div 2 <= (End \div 2) - 1 /\ End \div 2 \in Nat
    BY <1>1, <2>1, <2>2
  <2> QED BY <2>2, <2>3 DEF Seconds, SecondOf
<1> QED
  BY <1>1, <1>5, <1>6 DEF m

LEMMA RowAfterIs ==
    ASSUME NEW sample \in Samples, NEW row, row = NoMinute \/ IsRowOf(row, MinuteOf(sample.at))
    PROVE  /\ IsRowOf(RowAfter(row, sample), MinuteOf(sample.at))
           /\ RowAfter(row, sample).generated = sample.at
           /\ RowAfter(row, sample).summary = SummaryOf(RowAfter(row, sample))
<1> DEFINE m == MinuteOf(sample.at)
           u == SecondOf(sample.at)
           slot == [value |-> sample.value, origin |-> sample.origin, at |-> sample.at]
           slots == IF row = NoMinute THEN [s \in {u} |-> slot]
                    ELSE [s \in DOMAIN row.slots \union {u} |-> IF s = u THEN slot ELSE row.slots[s]]
           after == [generated |-> sample.at, last |-> sample, slots |-> slots, summary |-> NoSummary]
           new == RowAfter(row, sample)
<1>1. new = [generated |-> sample.at, last |-> sample, slots |-> slots, summary |-> SummaryOf(after)]
  BY DEF RowAfter
<1> HIDE DEF new
<1>2. sample.at \in Nat /\ sample.origin \in Inputs /\ sample.value \in Values /\ u \in Seconds
      /\ sample.at # NoTime
  BY SampleFacts, HistoryAssumption
<1>3. slot \in HeldSlots /\ IsSlotOf(slot, u, sample)
  <2>1. slot \in HeldSlots
    BY <1>2 DEF HeldSlots
  <2>2. slot.at = sample.at /\ slot.value = sample.value
    OBVIOUS
  <2> HIDE DEF slot
  <2> QED BY <1>2, <2>1, <2>2 DEF IsSlotOf, SecondOf
<1>4. (2 * u) \div MinuteTicks = m
  BY <1>2, MinuteOfSecond DEF SecondOf, MinuteOf
<1>5. /\ slots = [s \in DOMAIN slots |-> slots[s]]
      /\ \A s \in DOMAIN slots : s \in Seconds /\ (2 * s) \div MinuteTicks = m /\ IsSlotOf(slots[s], s, sample)
  <2>1. CASE row = NoMinute
    <3>1. slots = [s \in {u} |-> slot]
      BY <2>1
    <3> HIDE DEF slots, slot, u, m
    <3> QED BY <1>2, <1>3, <1>4, <3>1
  <2>2. CASE row # NoMinute
    <3>1. IsRowOf(row, m)
      BY <2>2
    <3>2. slots = [s \in DOMAIN row.slots \union {u} |-> IF s = u THEN slot ELSE row.slots[s]]
      BY <2>2
    <3>3. ASSUME NEW s \in DOMAIN row.slots, s # u
          PROVE  s \in Seconds /\ (2 * s) \div MinuteTicks = m /\ IsSlotOf(row.slots[s], s, sample)
      <4>1. s \in Seconds /\ (2 * s) \div MinuteTicks = m /\ IsSlotOf(row.slots[s], s, row.last)
        BY <3>1 DEF IsRowOf
      <4>2. s # sample.at \div 2
        BY <3>3 DEF SecondOf
      <4> QED BY <4>1, <4>2 DEF IsSlotOf
    <3> HIDE DEF slots, slot, u, m
    <3> QED BY <1>2, <1>3, <1>4, <3>2, <3>3
  <2> QED BY <2>1, <2>2
<1> HIDE DEF slots
<1>6. new.generated = sample.at /\ new.last = sample /\ new.slots = slots /\ new.summary = SummaryOf(after)
  BY <1>1
<1>7. IsRowOf(new, m)
  <2>1. new = [generated |-> new.last.at, last |-> new.last,
               slots |-> [s \in DOMAIN new.slots |-> new.slots[s]], summary |-> new.summary]
    BY <1>1, <1>5, <1>6
  <2>2. \A s \in DOMAIN new.slots :
           s \in Seconds /\ (2 * s) \div MinuteTicks = m /\ IsSlotOf(new.slots[s], s, new.last)
    BY <1>5, <1>6
  <2>3. new.last \in Samples /\ new.last.at \div MinuteTicks = m
    BY <1>6 DEF MinuteOf
  <2> HIDE DEF m
  <2> QED BY <2>1, <2>2, <2>3 DEF IsRowOf
<1>8. SummaryOf(after) = SummaryOf(new)
  <2>1. after.slots = slots /\ after.last = sample /\ after.generated = sample.at
    OBVIOUS
  <2> HIDE DEF after
  <2> QED BY <1>6, <2>1, SameSamples
<1> QED
  BY <1>6, <1>7, <1>8 DEF new, m

-----------------------------------------------------------------------------
(* The inductive invariant.                                                *)

(* A message at the time of a row of before there were summaries is the    *)
(* row's own: messages of different kinds do not share that time.          *)
TimesTellRows ==
    \A rows \in LegacyRows, m \in MinuteIds, sample \in Samples :
        rows[m] # NoMinute /\ sample.at = rows[m].generated => sample = rows[m].last

(* A summary that goes by the row's time is that of its samples. *)
RowOK(row, m) ==
    /\ IsRowOf(row, m) /\ row.summary \in Summaries \union {NoSummary}
    /\ Restorable(row) => row.summary = SummaryOf(row)

(* No message to come has the row's time; on PostgreSQL the lock does.     *)
IsOld(sample, times) == times[sample.origin] # NoTime /\ ~(sample.at > times[sample.origin])
SettledAt(row, product, times) ==
    product = "postgresql" \/ \A sample \in Samples : sample.at = row.last.at => IsOld(sample, times)
Settled(row) == SettledAt(row, dialect, newest)

MinutesOK ==
    /\ minutes = [m \in MinuteIds |-> minutes[m]]
    /\ \A m \in MinuteIds : minutes[m] # NoMinute =>
          RowOK(minutes[m], m) /\ (minutes[m].summary = NoSummary => Settled(minutes[m]))

NewestOK == newest \in [Inputs -> Nat \union {NoTime}]

(* What the backfill read is still the row unless a newer message came.    *)
FillingOK ==
    filling # NoMinute =>
        /\ filling.minute \in MinuteIds /\ minutes[filling.minute] # NoMinute
        /\ IsRowOf(filling.row, filling.minute) /\ Settled(filling.row)
        /\ dialect = "postgresql" => minutes[filling.minute] = filling.row
        /\ minutes[filling.minute].generated = filling.row.generated =>
              /\ minutes[filling.minute].last = filling.row.last
              /\ minutes[filling.minute].slots = filling.row.slots

(* A part of an answer amounts to the row it was read from, and a minute   *)
(* that was asked for was read or will be.                                 *)
PartsOK(q) ==
    \A m \in MinuteIds :
        /\ q.seen[m] # NoMinute => IsRowOf(q.seen[m], m)
        /\ \A b \in BucketsOf(q.span) :
              q.parts[m][b] = IF q.seen[m] = NoMinute THEN NoGroup ELSE GroupOf(Wanted(q.seen[m], b, q.span))

IsQuestion(q) ==
    /\ q = [span |-> q.span, begun |-> q.begun, asked |-> q.asked, parts |-> q.parts,
            seen |-> q.seen, receipts |-> q.receipts, left |-> q.left]
    /\ q.span \in Spans /\ q.left \subseteq MinuteIds /\ q.asked \subseteq MinuteIds
    /\ q.receipts \subseteq Samples /\ \A r \in q.receipts : InSpanOf(r.at, q.span)

NoneIsLeftOut(q) ==
    \A m \in q.asked : q.seen[m] # NoMinute \/ (m \in q.left /\ minutes[m] # NoMinute)

QuestionOK == question # NoQuestion => IsQuestion(question) /\ PartsOK(question) /\ NoneIsLeftOut(question)

HInv == NewestOK /\ receipts \subseteq Samples /\ MinutesOK /\ FillingOK /\ QuestionOK

(* The newest of the rows' last messages. *)
LEMMA NewestOfIs ==
    ASSUME NEW L, L \subseteq Samples, NEW i
    PROVE  /\ NewestOf(L, i) \in Nat \union {NoTime}
           /\ \A sample \in L : sample.origin = i =>
                  NewestOf(L, i) # NoTime /\ NewestOf(L, i) >= sample.at
<1> DEFINE times == {sample.at : sample \in {other \in L : other.origin = i}}
<1>1. times \in SUBSET Nat /\ \A t \in times : t <= End
  <2>1. \A sample \in L : sample.at \in Nat /\ sample.at <= End
    BY SampleFacts, MinuteFacts
  <2> QED BY <2>1
<1>2. NewestOf(L, i) = IF times = {} THEN NoTime ELSE Max(times)
  BY DEF NewestOf
<1>3. \A sample \in L : sample.origin = i => sample.at \in times
  OBVIOUS
<1> HIDE DEF times
<1>4. CASE times = {}
  BY <1>2, <1>3, <1>4
<1>5. CASE times # {}
  <2>1. PICK m \in times : \A t \in times : t <= m
    BY <1>1, <1>5, MinuteFacts, GreatestNat
  <2>2. \E m1 \in times : \A t \in times : m1 >= t
    BY <1>1, <2>1
  <2>3. Max(times) \in times /\ \A t \in times : Max(times) >= t
    BY <2>2 DEF Max
  <2> QED BY <1>1, <1>2, <1>3, <1>5, <2>3, HistoryAssumption
<1> QED
  BY <1>4, <1>5

LEMMA HistoryBegins ==
    ASSUME HistoryInit, dialect = "postgresql" \/ TimesTellRows
    PROVE  HInv
<1> DEFINE L == {minutes[m].last : m \in {n \in MinuteIds : minutes[n] # NoMinute}}
<1>1. minutes \in LegacyRows /\ receipts = {} /\ filling = NoMinute /\ question = NoQuestion
      /\ newest = [i \in Inputs |-> NewestOf(L, i)]
  BY DEF HistoryInit
<1>2. \A m \in MinuteIds : minutes[m] # NoMinute =>
          minutes[m].summary = NoSummary /\ IsRowOf(minutes[m], m)
  BY <1>1, HistoryAssumption DEF MinuteIds
<1>3. L \subseteq Samples
  BY <1>2 DEF IsRowOf
<1> HIDE DEF L
<1>4. NewestOK
  <2>1. \A i \in Inputs : NewestOf(L, i) \in Nat \union {NoTime}
    BY <1>3, NewestOfIs
  <2> QED BY <1>1, <2>1 DEF NewestOK
<1>5. ASSUME NEW m \in MinuteIds, minutes[m] # NoMinute PROVE Settled(minutes[m])
  <2>1. CASE dialect = "postgresql"
    BY <2>1 DEF Settled, SettledAt
  <2>2. CASE TimesTellRows
    <3>1. IsRowOf(minutes[m], m)
      BY <1>2, <1>5
    <3>2. minutes[m].generated = minutes[m].last.at /\ minutes[m].last \in Samples
      BY <3>1, RowFields
    <3>3. ASSUME NEW sample \in Samples, sample.at = minutes[m].last.at PROVE IsOld(sample, newest)
      <4>1. sample = minutes[m].last
        BY <1>1, <1>5, <2>2, <3>2, <3>3 DEF TimesTellRows
      <4>2. sample \in L
        BY <1>5, <4>1 DEF L
      <4>3. NewestOf(L, sample.origin) # NoTime /\ NewestOf(L, sample.origin) >= sample.at
            /\ NewestOf(L, sample.origin) \in Nat \union {NoTime}
        BY <1>3, <4>2, NewestOfIs
      <4>4. sample.origin \in Inputs /\ sample.at \in Nat
        BY SampleFacts
      <4>5. newest[sample.origin] = NewestOf(L, sample.origin)
        BY <1>1, <4>4
      <4> QED BY <4>3, <4>4, <4>5 DEF IsOld
    <3> QED BY <3>3 DEF Settled, SettledAt
  <2> QED BY <2>1, <2>2
<1>6. MinutesOK
  <2>1. \A m \in MinuteIds : minutes[m] # NoMinute => RowOK(minutes[m], m)
    BY <1>2 DEF RowOK, Restorable
  <2>2. minutes = [m \in MinuteIds |-> minutes[m]]
    BY <1>1, HistoryAssumption DEF MinuteIds
  <2> QED BY <2>1, <2>2, <1>5 DEF MinutesOK
<1> QED
  BY <1>1, <1>4, <1>6 DEF HInv, FillingOK, QuestionOK

-----------------------------------------------------------------------------
(* Each action keeps it.                                                   *)

(* A question that is not touched stays well while no row goes away.       *)
LEMMA QuestionStays ==
    ASSUME QuestionOK, question' = question,
           \A m \in MinuteIds : minutes[m] # NoMinute => minutes'[m] # NoMinute
    PROVE  QuestionOK'
<1>1. CASE question = NoQuestion
  BY <1>1 DEF QuestionOK
<1>2. CASE question # NoQuestion
  <2>1. IsQuestion(question) /\ PartsOK(question) /\ NoneIsLeftOut(question)
    BY <1>2 DEF QuestionOK
  <2>2. IsQuestion(question)' /\ PartsOK(question)'
    <3>1. IsQuestion(question)'
      BY <2>1 DEF IsQuestion
    <3>2. PartsOK(question)'
      BY <2>1 DEF PartsOK
    <3> QED BY <3>1, <3>2
  <2>3. NoneIsLeftOut(question)'
    BY <2>1 DEF NoneIsLeftOut, IsQuestion
  <2> QED BY <2>2, <2>3 DEF QuestionOK
<1> QED
  BY <1>1, <1>2

(* A newer message leaves settled what was. *)
LEMMA SettledStays ==
    ASSUME NewestOK, NEW sample \in Samples, IsNewer(sample),
           newest' = [newest EXCEPT ![sample.origin] = sample.at], NEW product,
           NEW row, SettledAt(row, product, newest)
    PROVE  SettledAt(row, product, newest')
<1>1. ASSUME NEW other \in Samples, IsOld(other, newest) PROVE IsOld(other, newest')
  <2>1. other.origin \in Inputs /\ sample.origin \in Inputs /\ sample.at \in Nat /\ other.at \in Nat
        /\ sample.at # NoTime
    BY SampleFacts, HistoryAssumption
  <2>2. newest[other.origin] \in Nat /\ ~(other.at > newest[other.origin]) /\ newest[other.origin] # NoTime
    BY <1>1, <2>1 DEF IsOld, NewestOK
  <2>3. CASE other.origin = sample.origin
    <3>1. newest'[other.origin] = sample.at /\ sample.at > newest[other.origin]
      BY <2>1, <2>2, <2>3 DEF NewestOK, IsNewer
    <3>2. ~(other.at > newest'[other.origin]) /\ newest'[other.origin] # NoTime
      BY <2>1, <2>2, <3>1
    <3> QED BY <3>2 DEF IsOld
  <2>4. CASE other.origin # sample.origin
    <3>1. newest'[other.origin] = newest[other.origin]
      BY <2>1, <2>4 DEF NewestOK
    <3> QED BY <2>2, <3>1 DEF IsOld
  <2> QED BY <2>3, <2>4
<1> QED
  BY <1>1 DEF SettledAt

LEMMA RecordSampleKeeps ==
    ASSUME HInv, NEW sample \in Samples, RecordSample(sample)
    PROVE  HInv'
<1> DEFINE m == MinuteOf(sample.at)
           new == RowAfter(minutes[m], sample)
<1>1. /\ IsNewer(sample) /\ newest' = [newest EXCEPT ![sample.origin] = sample.at]
      /\ dialect' = dialect /\ receipts' = receipts /\ filling' = filling /\ question' = question
  BY DEF RecordSample
<1>2. NewestOK /\ MinutesOK /\ FillingOK /\ QuestionOK /\ receipts \subseteq Samples
  BY DEF HInv
<1>3. sample.at \in Nat /\ sample.origin \in Inputs /\ m \in MinuteIds
  BY SampleFacts
<1>4. NewestOK' /\ receipts' \subseteq Samples
  BY <1>1, <1>2, <1>3 DEF NewestOK
<1>5. \A row : Settled(row) => SettledAt(row, dialect', newest')
  BY <1>1, <1>2, SettledStays DEF Settled
<1>6. CASE minutes' = minutes
  <2>1. MinutesOK'
    <3>1. \A n \in MinuteIds : minutes[n] # NoMinute =>
             RowOK(minutes[n], n) /\ (minutes[n].summary = NoSummary => SettledAt(minutes[n], dialect', newest'))
      BY <1>2, <1>5 DEF MinutesOK
    <3> QED BY <1>2, <1>6, <3>1 DEF MinutesOK, RowOK, Restorable, Settled
  <2>2. FillingOK'
    <3>1. CASE filling = NoMinute
      BY <1>1, <3>1 DEF FillingOK
    <3>2. CASE filling # NoMinute
      <4>1. SettledAt(filling.row, dialect', newest')
        BY <1>2, <1>5, <3>2 DEF FillingOK
      <4> QED BY <1>1, <1>2, <1>6, <3>2, <4>1 DEF FillingOK, Settled
    <3> QED BY <3>1, <3>2
  <2>3. QuestionOK'
    BY <1>1, <1>2, <1>6, QuestionStays
  <2> QED BY <1>4, <2>1, <2>2, <2>3 DEF HInv
<1>7. CASE /\ minutes' = [minutes EXCEPT ![m] = new]
           /\ ~(RowLocks /\ filling # NoMinute /\ filling.minute = m)
  <2>1. minutes[m] = NoMinute \/ IsRowOf(minutes[m], m)
    BY <1>2, <1>3 DEF MinutesOK, RowOK
  <2>2. IsRowOf(new, m) /\ new.generated = sample.at /\ new.summary = SummaryOf(new)
    BY <2>1, RowAfterIs
  <2>3. new.summary \in Summaries /\ new.summary # NoSummary
    BY <2>2, SummaryTyped
  <2>4. RowOK(new, m) /\ new # NoMinute
    BY <2>2, <2>3, RowTyped DEF RowOK
  <2> HIDE DEF new, m
  <2>5. /\ minutes' = [n \in MinuteIds |-> IF n = m THEN new ELSE minutes[n]]
        /\ minutes'[m] = new /\ \A n \in MinuteIds : n # m => minutes'[n] = minutes[n]
    BY <1>2, <1>3, <1>7 DEF MinutesOK
  <2>6. MinutesOK'
    <3>1. minutes' = [n \in MinuteIds |-> minutes'[n]]
      BY <2>5
    <3>2. ASSUME NEW n \in MinuteIds, minutes'[n] # NoMinute
          PROVE  RowOK(minutes'[n], n)
                 /\ (minutes'[n].summary = NoSummary => SettledAt(minutes'[n], dialect', newest'))
      <4>1. CASE n = m
        BY <2>3, <2>4, <2>5, <4>1
      <4>2. CASE n # m
        <5>1. minutes'[n] = minutes[n] /\ RowOK(minutes[n], n)
              /\ (minutes[n].summary = NoSummary => Settled(minutes[n]))
          BY <1>2, <2>5, <3>2, <4>2 DEF MinutesOK
        <5>2. minutes[n].summary = NoSummary => SettledAt(minutes[n], dialect', newest')
          BY <1>5, <5>1
        <5> QED BY <5>1, <5>2
      <4> QED BY <4>1, <4>2
    <3> QED BY <3>1, <3>2 DEF MinutesOK, RowOK, Restorable, Settled
  <2>7. FillingOK'
    <3>1. CASE filling = NoMinute
      BY <1>1, <3>1 DEF FillingOK
    <3>2. CASE filling # NoMinute
      <4> DEFINE k == filling.minute
                 row == filling.row
      <4>1. /\ k \in MinuteIds /\ minutes[k] # NoMinute /\ IsRowOf(row, k) /\ Settled(row)
            /\ dialect = "postgresql" => minutes[k] = row
            /\ minutes[k].generated = row.generated => minutes[k].last = row.last /\ minutes[k].slots = row.slots
        BY <1>2, <3>2 DEF FillingOK
      <4> HIDE DEF k, row
      <4>2. SettledAt(row, dialect', newest')
        BY <1>5, <4>1
      <4>3. /\ minutes'[k] # NoMinute
            /\ dialect = "postgresql" => minutes'[k] = row
            /\ minutes'[k].generated = row.generated => minutes'[k].last = row.last /\ minutes'[k].slots = row.slots
        <5>1. CASE k # m
          BY <2>5, <4>1, <5>1
        <5>2. CASE k = m
          <6>1. dialect # "postgresql"
            BY <1>7, <3>2, <5>2 DEF RowLocks, k
          <6>2. sample.at # row.last.at
            BY <1>1, <4>1, <6>1, SampleFacts DEF Settled, SettledAt, IsOld, IsNewer
          <6>3. row.generated = row.last.at
            BY <4>1, RowFields
          <6> QED BY <2>2, <2>4, <2>5, <5>2, <6>1, <6>2, <6>3
        <5> QED BY <5>1, <5>2
      <4> QED BY <1>1, <4>1, <4>2, <4>3 DEF FillingOK, k, row, Settled
    <3> QED BY <3>1, <3>2
  <2>8. QuestionOK'
    <3>1. \A n \in MinuteIds : minutes[n] # NoMinute => minutes'[n] # NoMinute
      BY <2>4, <2>5
    <3> QED BY <1>1, <1>2, <3>1, QuestionStays
  <2> QED BY <1>4, <2>6, <2>7, <2>8 DEF HInv
<1>8. minutes' = minutes \/ (/\ minutes' = [minutes EXCEPT ![m] = new]
                             /\ ~(RowLocks /\ filling # NoMinute /\ filling.minute = m))
  BY DEF RecordSample
<1> QED
  BY <1>6, <1>7, <1>8

LEMMA RecordReceiptKeeps ==
    ASSUME HInv, NEW sample \in Samples, RecordReceipt(sample)
    PROVE  HInv'
<1>1. /\ receipts' = receipts \union {sample} /\ newest' = newest /\ dialect' = dialect
      /\ minutes' = minutes /\ filling' = filling /\ question' = question
  BY DEF RecordReceipt
<1>2. QuestionOK'
  BY <1>1, QuestionStays DEF HInv
<1> QED
  BY <1>1, <1>2 DEF HInv, NewestOK, MinutesOK, FillingOK, RowOK, Restorable, Settled

LEMMA SwitchKeeps ==
    ASSUME HInv, NEW new, SwitchInput(new)
    PROVE  HInv'
<1>1. /\ question' = NoQuestion /\ newest' = newest /\ dialect' = dialect
      /\ minutes' = minutes /\ filling' = filling /\ receipts' = receipts
  BY DEF SwitchInput
<1>2. QuestionOK'
  BY <1>1 DEF QuestionOK
<1> QED
  BY <1>1, <1>2 DEF HInv, NewestOK, MinutesOK, FillingOK, RowOK, Restorable, Settled

LEMMA BackfillReadsKeeps ==
    ASSUME HInv, BackfillReads
    PROVE  HInv'
<1>1. PICK m \in MinuteIds : /\ minutes[m] # NoMinute /\ minutes[m].summary = NoSummary
                             /\ filling' = [minute |-> m, row |-> minutes[m]]
  BY DEF BackfillReads
<1>2. /\ newest' = newest /\ dialect' = dialect /\ minutes' = minutes
      /\ receipts' = receipts /\ question' = question
  BY DEF BackfillReads
<1>3. QuestionOK'
  BY <1>2, QuestionStays DEF HInv
<1>4. IsRowOf(minutes[m], m) /\ SettledAt(minutes[m], dialect, newest)
  BY <1>1 DEF HInv, MinutesOK, RowOK, Settled
<1>5. filling'.minute = m /\ filling'.row = minutes[m]
  BY <1>1
<1>6. FillingOK'
  BY <1>1, <1>2, <1>4, <1>5 DEF FillingOK, Settled
<1> QED
  BY <1>2, <1>3, <1>6 DEF HInv, NewestOK, MinutesOK, RowOK, Restorable, Settled

(* What it commits goes by the row's time only if it is of its samples. *)
LEMMA BackfillCommitsKeeps ==
    ASSUME HInv, BackfillCommits
    PROVE  HInv'
<1> DEFINE k == filling.minute
           row == filling.row
           old == minutes[k]
           new == [old EXCEPT !.summary = SummaryOf(row)]
<1>1. /\ filling # NoMinute /\ minutes' = [minutes EXCEPT ![filling.minute].summary = SummaryOf(filling.row)]
      /\ filling' = NoMinute /\ newest' = newest /\ dialect' = dialect
      /\ receipts' = receipts /\ question' = question
  BY DEF BackfillCommits
<1>2. /\ k \in MinuteIds /\ old # NoMinute /\ IsRowOf(row, k)
      /\ old.generated = row.generated => old.last = row.last /\ old.slots = row.slots
  BY <1>1 DEF HInv, FillingOK
<1>3. MinutesOK
  BY DEF HInv
<1>4. IsRowOf(old, k)
  BY <1>2, <1>3 DEF MinutesOK, RowOK
<1>5. minutes' = [n \in MinuteIds |-> IF n = k THEN new ELSE minutes[n]]
  BY <1>1, <1>2, <1>3 DEF MinutesOK
<1> HIDE DEF k, row, old
<1>6. new = [generated |-> old.generated, last |-> old.last, slots |-> old.slots, summary |-> SummaryOf(row)]
  <2>1. old = [generated |-> old.last.at, last |-> old.last, slots |-> old.slots, summary |-> old.summary]
        /\ old.generated = old.last.at
    BY <1>4, RowFields
  <2> DEFINE u == SummaryOf(row)
  <2> HIDE DEF u
  <2>2. [old EXCEPT !.summary = u] = [generated |-> old.generated, last |-> old.last, slots |-> old.slots, summary |-> u]
    BY <2>1
  <2> QED BY <2>2 DEF u
<1> HIDE DEF new
<1>7. /\ new.generated = old.generated /\ new.last = old.last /\ new.slots = old.slots
      /\ new.summary = SummaryOf(row)
  BY <1>6
<1>8. IsRowOf(new, k)
  <2>1. /\ old.generated = old.last.at /\ old.last \in Samples /\ old.last.at \div MinuteTicks = k
        /\ old.slots = [s \in DOMAIN old.slots |-> old.slots[s]]
    BY <1>4, RowFields
  <2>2. \A s \in DOMAIN old.slots :
            s \in Seconds /\ (2 * s) \div MinuteTicks = k /\ IsSlotOf(old.slots[s], s, old.last)
    BY <1>4 DEF IsRowOf
  <2>3. new = [generated |-> new.last.at, last |-> new.last,
               slots |-> [s \in DOMAIN new.slots |-> new.slots[s]], summary |-> new.summary]
    BY <1>6, <1>7, <2>1
  <2>4. \A s \in DOMAIN new.slots :
            s \in Seconds /\ (2 * s) \div MinuteTicks = k /\ IsSlotOf(new.slots[s], s, new.last)
    BY <1>7, <2>2
  <2>5. new.last \in Samples /\ new.last.at \div MinuteTicks = k
    BY <1>7, <2>1
  <2> QED BY <2>3, <2>4, <2>5 DEF IsRowOf
<1>9. new.summary \in Summaries /\ new.summary # NoSummary /\ new.summary.generated = row.generated
  BY <1>2, <1>7, SummaryTyped
<1>10. RowOK(new, k) /\ new # NoMinute
  <2>1. Restorable(new) => new.summary = SummaryOf(new)
    <3>1. SUFFICES ASSUME Restorable(new) PROVE SummaryOf(row) = SummaryOf(new)
      BY <1>7
    <3>2. old.generated = row.generated
      BY <1>7, <1>9, <3>1 DEF Restorable
    <3> QED BY <1>2, <1>7, <3>2, SameSamples
  <2> QED BY <1>8, <1>9, <2>1, RowTyped DEF RowOK
<1>11. MinutesOK'
  <2>1. minutes' = [n \in MinuteIds |-> minutes'[n]]
    BY <1>5
  <2>2. ASSUME NEW n \in MinuteIds, minutes'[n] # NoMinute
        PROVE  RowOK(minutes'[n], n) /\ (minutes'[n].summary = NoSummary => SettledAt(minutes'[n], dialect, newest))
    <3>1. CASE n = k
      BY <1>5, <1>9, <1>10, <3>1
    <3>2. CASE n # k
      BY <1>3, <1>5, <2>2, <3>2 DEF MinutesOK, Settled
    <3> QED BY <3>1, <3>2
  <2> QED BY <1>1, <2>1, <2>2 DEF MinutesOK, RowOK, Restorable, Settled
<1>12. QuestionOK'
  <2>1. \A n \in MinuteIds : minutes[n] # NoMinute => minutes'[n] # NoMinute
    BY <1>5, <1>10
  <2> QED BY <1>1, <2>1, QuestionStays DEF HInv
<1>13. FillingOK' /\ NewestOK' /\ receipts' \subseteq Samples
  BY <1>1 DEF HInv, FillingOK, NewestOK
<1> QED
  BY <1>11, <1>12, <1>13 DEF HInv

LEMMA BackfillEndsKeeps ==
    ASSUME HInv, BackfillEnds
    PROVE  HInv'
<1>1. /\ filling' = NoMinute /\ newest' = newest /\ dialect' = dialect /\ minutes' = minutes
      /\ receipts' = receipts /\ question' = question
  BY DEF BackfillEnds
<1>2. QuestionOK'
  BY <1>1, QuestionStays DEF HInv
<1> QED
  BY <1>1, <1>2 DEF HInv, NewestOK, MinutesOK, FillingOK, RowOK, Restorable, Settled

LEMMA TransferKeeps ==
    ASSUME HInv, Transfer
    PROVE  HInv'
<1>1. /\ filling' = NoMinute /\ question' = NoQuestion /\ newest' = newest /\ minutes' = minutes
      /\ receipts' = receipts /\ dialect' = "postgresql"
  BY DEF Transfer
<1>2. \A row : SettledAt(row, "postgresql", newest)
  BY DEF SettledAt
<1>3. MinutesOK'
  BY <1>1, <1>2 DEF HInv, MinutesOK, RowOK, Restorable, Settled
<1> QED
  BY <1>1, <1>3 DEF HInv, NewestOK, FillingOK, QuestionOK

LEMMA EndsQuestionKeeps ==
    ASSUME HInv, EndsQuestion
    PROVE  HInv'
<1>1. /\ question' = NoQuestion /\ newest' = newest /\ dialect' = dialect
      /\ minutes' = minutes /\ filling' = filling /\ receipts' = receipts
  BY DEF EndsQuestion
<1>2. QuestionOK'
  BY <1>1 DEF QuestionOK
<1> QED
  BY <1>1, <1>2 DEF HInv, NewestOK, MinutesOK, FillingOK, RowOK, Restorable, Settled

(* What the first statement delivers, and what is left for the second. *)
ReadyAt(span) ==
    IF HasSummaries THEN {m \in MinutesIn(span) : WholeInSpan(m, span) /\ Restorable(minutes[m])}
    ELSE Aggregated(span)
LeftAt(span) == IF HasSummaries THEN MinutesIn(span) \ ReadyAt(span) ELSE Boundaries(span)
FirstPart(m, span) == IF HasSummaries THEN SummaryPart(minutes[m], m, span)
                      ELSE AggregatePart(minutes[m], m, span)

LEMMA ReadyFacts ==
    ASSUME MinutesOK, NEW span \in Spans, NEW m \in ReadyAt(span)
    PROVE  /\ m \in MinuteIds /\ minutes[m] # NoMinute /\ IsRowOf(minutes[m], m)
           /\ \A b \in BucketsOf(span) : FirstPart(m, span)[b] = GroupOf(Wanted(minutes[m], b, span))
<1>1. CASE HasSummaries
  <2>1. m \in MinuteIds /\ minutes[m] # NoMinute /\ WholeInSpan(m, span) /\ Restorable(minutes[m])
    BY <1>1 DEF ReadyAt, MinutesIn
  <2>2. IsRowOf(minutes[m], m) /\ minutes[m].summary = SummaryOf(minutes[m])
    BY <2>1 DEF MinutesOK, RowOK
  <2>3. FirstPart(m, span) = SummaryPart(minutes[m], m, span)
    BY <1>1 DEF FirstPart
  <2> QED BY <2>1, <2>2, <2>3, SummaryPartIs
<1>2. CASE ~HasSummaries
  <2>1. m \in MinuteIds /\ minutes[m] # NoMinute /\ WholeStart(span) <= StartOf(m)
        /\ StartOf(m) < EndMinute(span)
    BY <1>2 DEF ReadyAt, Aggregated
  <2>2. WholeInSpan(m, span)
    BY <2>1, MinuteFacts, AggregatedAreWhole
  <2>3. IsRowOf(minutes[m], m)
    BY <2>1 DEF MinutesOK, RowOK
  <2>4. FirstPart(m, span) = AggregatePart(minutes[m], m, span)
    BY <1>2 DEF FirstPart
  <2> QED BY <2>1, <2>2, <2>3, <2>4, AggregatePartIs
<1> QED
  BY <1>1, <1>2

LEMMA AskedAreReadyOrLeft ==
    ASSUME MinutesOK, NEW span \in Spans, NEW m \in Asked(span)
    PROVE  minutes[m] # NoMinute /\ m \in MinuteIds /\ (m \in ReadyAt(span) \/ m \in LeftAt(span))
<1>1. m \in MinuteIds /\ minutes[m] # NoMinute
  BY DEF Asked
<1>2. PICK slot \in SlotsOf(minutes[m]) : InSpanOf(slot.time, span)
  BY DEF Asked
<1>3. IsRowOf(minutes[m], m)
  BY <1>1 DEF MinutesOK, RowOK
<1>4. slot.time \in Nat /\ MinuteOf(slot.time) = m
  BY <1>2, <1>3, RowSlots DEF MinuteOf
<1>5. /\ InSpan(m, span)
      /\ m \in Boundaries(span) \/ (WholeStart(span) <= StartOf(m) /\ StartOf(m) < EndMinute(span))
  BY <1>1, <1>2, <1>4, SamplesAreAskedFor
<1>6. CASE HasSummaries
  <2>1. m \in MinutesIn(span)
    BY <1>1, <1>5 DEF MinutesIn
  <2> QED BY <1>1, <1>6, <2>1 DEF LeftAt
<1>7. CASE ~HasSummaries
  <2>1. ReadyAt(span) = Aggregated(span) /\ LeftAt(span) = Boundaries(span)
    BY <1>7 DEF ReadyAt, LeftAt
  <2>2. m \in Boundaries(span) \/ m \in Aggregated(span)
    BY <1>1, <1>5 DEF Aggregated
  <2> QED BY <1>1, <2>1, <2>2
<1> QED
  BY <1>6, <1>7

LEMMA AsksKeeps ==
    ASSUME HInv, NEW span \in Spans, Asks(span)
    PROVE  HInv'
<1> DEFINE parts == [m \in MinuteIds |-> EmptyPart(span)]
           seen == [m \in MinuteIds |-> NoMinute]
           stored == {r \in receipts : span[1] <= r.at /\ r.at < span[2]}
           q == [span |-> span, begun |-> FALSE, asked |-> {}, parts |-> parts, seen |-> seen,
                 receipts |-> stored, left |-> {}]
<1>1. question' = q
  BY DEF Asks
<1>2. /\ newest' = newest /\ dialect' = dialect /\ minutes' = minutes /\ filling' = filling
      /\ receipts' = receipts
  BY DEF Asks
<1>3. stored \subseteq Samples /\ \A r \in stored : InSpanOf(r.at, span)
  BY DEF HInv, InSpanOf
<1>4. /\ q.span = span /\ q.asked = {} /\ q.parts = parts /\ q.seen = seen
      /\ q.receipts = stored /\ q.left = {}
      /\ q = [span |-> q.span, begun |-> q.begun, asked |-> q.asked, parts |-> q.parts,
              seen |-> q.seen, receipts |-> q.receipts, left |-> q.left]
  OBVIOUS
<1> HIDE DEF q, stored
<1>5. IsQuestion(q)
  BY <1>3, <1>4 DEF IsQuestion
<1>6. PartsOK(q)
  <2>1. \A m \in MinuteIds : seen[m] = NoMinute /\ parts[m] = EmptyPart(span)
    OBVIOUS
  <2>2. \A b \in BucketsOf(span) : EmptyPart(span)[b] = NoGroup
    BY DEF EmptyPart
  <2> HIDE DEF parts, seen
  <2> QED BY <1>4, <2>1, <2>2 DEF PartsOK
<1>7. QuestionOK'
  <2>1. IsQuestion(question)' /\ PartsOK(question)'
    <3>1. IsQuestion(question)'
      BY <1>1, <1>5 DEF IsQuestion
    <3>2. PartsOK(question)'
      BY <1>1, <1>6 DEF PartsOK
    <3> QED BY <3>1, <3>2
  <2>2. NoneIsLeftOut(question)'
    BY <1>1, <1>4 DEF NoneIsLeftOut
  <2> QED BY <2>1, <2>2 DEF QuestionOK
<1> QED
  BY <1>2, <1>7 DEF HInv, NewestOK, MinutesOK, FillingOK, RowOK, Restorable, Settled

LEMMA ReadSummariesKeeps ==
    ASSUME HInv, ReadSummaries
    PROVE  HInv'
<1> DEFINE span == question.span
           ready == ReadyAt(span)
           parts == [m \in MinuteIds |-> IF m \in ready THEN FirstPart(m, span) ELSE EmptyPart(span)]
           seen == [m \in MinuteIds |-> IF m \in ready THEN minutes[m] ELSE NoMinute]
           q == [span |-> span, begun |-> TRUE, asked |-> Asked(span), parts |-> parts,
                 seen |-> seen, receipts |-> question.receipts, left |-> LeftAt(span)]
<1>1. question' = q
  BY DEF ReadSummaries, ReadyAt, LeftAt, FirstPart
<1>2. /\ newest' = newest /\ dialect' = dialect /\ minutes' = minutes /\ filling' = filling
      /\ receipts' = receipts /\ question # NoQuestion
  BY DEF ReadSummaries
<1>3. MinutesOK /\ IsQuestion(question)
  BY <1>2 DEF HInv, QuestionOK
<1>4. q.span = span /\ q.asked = Asked(span) /\ q.parts = parts /\ q.seen = seen
      /\ q.receipts = question.receipts /\ q.left = LeftAt(span)
  OBVIOUS
<1>5. q = [span |-> q.span, begun |-> q.begun, asked |-> q.asked, parts |-> q.parts,
           seen |-> q.seen, receipts |-> q.receipts, left |-> q.left]
  OBVIOUS
<1>6. /\ span \in Spans /\ question.receipts \subseteq Samples
      /\ \A r \in question.receipts : InSpanOf(r.at, span)
  BY <1>3 DEF IsQuestion
<1>7. LeftAt(span) \subseteq MinuteIds /\ Asked(span) \subseteq MinuteIds
  BY <1>6, BoundariesAreMinutes DEF LeftAt, MinutesIn, Asked
<1> HIDE DEF q, span
<1>8. IsQuestion(q)
  BY <1>4, <1>5, <1>6, <1>7 DEF IsQuestion
<1>9. PartsOK(q)
  <2>1. ASSUME NEW m \in MinuteIds
        PROVE  /\ seen[m] # NoMinute => IsRowOf(seen[m], m)
               /\ \A b \in BucketsOf(span) :
                     parts[m][b] = IF seen[m] = NoMinute THEN NoGroup ELSE GroupOf(Wanted(seen[m], b, span))
    <3>1. CASE m \in ready
      <4>1. /\ minutes[m] # NoMinute /\ IsRowOf(minutes[m], m)
            /\ \A b \in BucketsOf(span) : FirstPart(m, span)[b] = GroupOf(Wanted(minutes[m], b, span))
        BY <1>3, <1>6, <3>1, ReadyFacts
      <4>2. seen[m] = minutes[m] /\ parts[m] = FirstPart(m, span)
        BY <3>1
      <4> HIDE DEF seen, parts
      <4> QED BY <4>1, <4>2
    <3>2. CASE m \notin ready
      <4>1. seen[m] = NoMinute /\ parts[m] = EmptyPart(span)
        BY <3>2
      <4>2. \A b \in BucketsOf(span) : EmptyPart(span)[b] = NoGroup
        BY DEF EmptyPart
      <4> HIDE DEF seen, parts
      <4> QED BY <4>1, <4>2
    <3> QED BY <3>1, <3>2
  <2> HIDE DEF seen, parts
  <2> QED BY <1>4, <2>1 DEF PartsOK
<1>10. ASSUME NEW m \in q.asked PROVE q.seen[m] # NoMinute \/ (m \in q.left /\ minutes[m] # NoMinute)
  <2>1. m \in Asked(span)
    BY <1>4, <1>10
  <2>2. minutes[m] # NoMinute /\ m \in MinuteIds /\ (m \in ready \/ m \in LeftAt(span))
    BY <1>3, <1>6, <2>1, AskedAreReadyOrLeft
  <2>3. CASE m \in ready
    <3>1. seen[m] = minutes[m]
      BY <2>2, <2>3
    <3> QED BY <1>4, <2>2, <3>1
  <2>4. CASE m \notin ready
    BY <1>4, <2>2, <2>4
  <2> QED BY <2>3, <2>4
<1>11. QuestionOK'
  <2>1. NoneIsLeftOut(q)
    BY <1>10 DEF NoneIsLeftOut
  <2>2. IsQuestion(question)'
    BY <1>1, <1>8 DEF IsQuestion
  <2>3. PartsOK(question)'
    BY <1>1, <1>9 DEF PartsOK
  <2>4. NoneIsLeftOut(question)'
    BY <1>1, <1>2, <2>1 DEF NoneIsLeftOut
  <2> QED BY <2>2, <2>3, <2>4 DEF QuestionOK
<1> QED
  BY <1>2, <1>11 DEF HInv, NewestOK, MinutesOK, FillingOK, RowOK, Restorable, Settled

LEMMA ReadOriginalsKeeps ==
    ASSUME HInv, ReadOriginals
    PROVE  HInv'
<1> DEFINE span == question.span
           now == IF HasSummaries THEN {Min(question.left)} ELSE question.left
           found == {m \in now : minutes[m] # NoMinute}
           parts == [m \in MinuteIds |-> IF m \in found THEN OriginalPart(minutes[m], m, span)
                                         ELSE question.parts[m]]
           seen == [m \in MinuteIds |-> IF m \in found THEN minutes[m] ELSE question.seen[m]]
           q == [span |-> span, begun |-> question.begun, asked |-> question.asked, parts |-> parts,
                 seen |-> seen, receipts |-> question.receipts, left |-> question.left \ now]
<1>1. /\ question # NoQuestion /\ question.left # {}
      /\ question' = [question EXCEPT !.parts = parts, !.seen = seen, !.left = question.left \ now]
      /\ newest' = newest /\ dialect' = dialect /\ minutes' = minutes /\ filling' = filling
      /\ receipts' = receipts
  BY DEF ReadOriginals
<1>2. MinutesOK /\ IsQuestion(question) /\ PartsOK(question) /\ NoneIsLeftOut(question)
  BY <1>1 DEF HInv, QuestionOK
<1>3. question = [span |-> span, begun |-> question.begun, asked |-> question.asked,
                  parts |-> question.parts, seen |-> question.seen,
                  receipts |-> question.receipts, left |-> question.left]
      /\ span \in Spans /\ question.left \subseteq MinuteIds /\ question.asked \subseteq MinuteIds
  BY <1>2 DEF IsQuestion
<1>4. now \subseteq question.left
  <2>1. question.left \in SUBSET Nat
    BY <1>3, MinuteFacts
  <2>2. PICK x \in question.left : \A y \in question.left : x <= y
    BY <1>1, <2>1, SmallestNat
  <2>3. Min(question.left) \in question.left
    BY <2>2 DEF Min
  <2> QED BY <2>3
<1>5. found \subseteq MinuteIds /\ \A m \in found : minutes[m] # NoMinute /\ IsRowOf(minutes[m], m)
  <2>1. found \subseteq MinuteIds /\ \A m \in found : minutes[m] # NoMinute
    BY <1>3, <1>4
  <2> HIDE DEF found
  <2> QED BY <1>2, <2>1 DEF MinutesOK, RowOK
<1>6. ASSUME NEW m \in now PROVE m \in found \/ minutes[m] = NoMinute
  BY <1>6
<1> HIDE DEF now, found
<1>7. question' = q
  <2> DEFINE rest == question.left \ now
  <2> HIDE DEF parts, seen, rest
  <2>1. [question EXCEPT !.parts = parts, !.seen = seen, !.left = rest] = [[[question EXCEPT !.parts = parts] EXCEPT !.seen = seen] EXCEPT !.left = rest]
    OBVIOUS
  <2>2. [question EXCEPT !.parts = parts] =
          [span |-> span, begun |-> question.begun, asked |-> question.asked, parts |-> parts,
           seen |-> question.seen, receipts |-> question.receipts, left |-> question.left]
    <3> HIDE DEF span
    <3> QED BY <1>3
  <2> QED BY <1>1, <2>1, <2>2 DEF rest
<1>8. q.span = span /\ q.asked = question.asked /\ q.parts = parts /\ q.seen = seen
      /\ q.receipts = question.receipts /\ q.left = question.left \ now
  OBVIOUS
<1>9. q = [span |-> q.span, begun |-> q.begun, asked |-> q.asked, parts |-> q.parts,
           seen |-> q.seen, receipts |-> q.receipts, left |-> q.left]
  OBVIOUS
<1> HIDE DEF q
<1>10. IsQuestion(q)
  BY <1>2, <1>3, <1>8, <1>9 DEF IsQuestion
<1>11. PartsOK(q)
  <2>1. ASSUME NEW m \in MinuteIds
        PROVE  /\ seen[m] # NoMinute => IsRowOf(seen[m], m)
               /\ \A b \in BucketsOf(span) :
                     parts[m][b] = IF seen[m] = NoMinute THEN NoGroup ELSE GroupOf(Wanted(seen[m], b, span))
    <3>1. CASE m \in found
      <4>1. minutes[m] # NoMinute /\ IsRowOf(minutes[m], m)
        BY <1>5, <3>1
      <4>2. \A b \in BucketsOf(span) :
               OriginalPart(minutes[m], m, span)[b] = GroupOf(Wanted(minutes[m], b, span))
        BY <1>3, <4>1, OriginalPartIs
      <4>3. seen[m] = minutes[m] /\ parts[m] = OriginalPart(minutes[m], m, span)
        BY <3>1
      <4> HIDE DEF seen, parts, span
      <4> QED BY <4>1, <4>2, <4>3
    <3>2. CASE m \notin found
      <4>1. seen[m] = question.seen[m] /\ parts[m] = question.parts[m]
        BY <3>2
      <4> HIDE DEF seen, parts
      <4> QED BY <1>2, <4>1 DEF PartsOK
    <3> QED BY <3>1, <3>2
  <2> HIDE DEF seen, parts, span
  <2> QED BY <1>8, <2>1 DEF PartsOK
<1>12. ASSUME NEW m \in q.asked PROVE q.seen[m] # NoMinute \/ (m \in q.left /\ minutes[m] # NoMinute)
  <2>1. m \in MinuteIds /\ (question.seen[m] # NoMinute \/ (m \in question.left /\ minutes[m] # NoMinute))
    BY <1>2, <1>3, <1>8, <1>12 DEF NoneIsLeftOut
  <2>2. CASE m \in found
    <3>1. seen[m] = minutes[m]
      BY <2>1, <2>2
    <3> QED BY <1>5, <1>8, <2>2, <3>1
  <2>3. CASE m \notin found
    <3>1. seen[m] = question.seen[m]
      BY <2>1, <2>3
    <3>2. m \in question.left /\ minutes[m] # NoMinute => m \notin now
      BY <1>6, <2>3
    <3> QED BY <1>8, <2>1, <3>1, <3>2
  <2> QED BY <2>2, <2>3
<1>13. QuestionOK'
  <2>1. NoneIsLeftOut(q)
    BY <1>12 DEF NoneIsLeftOut
  <2>2. IsQuestion(question)'
    BY <1>7, <1>10 DEF IsQuestion
  <2>3. PartsOK(question)'
    BY <1>7, <1>11 DEF PartsOK
  <2>4. NoneIsLeftOut(question)'
    BY <1>1, <1>7, <2>1 DEF NoneIsLeftOut
  <2> QED BY <2>2, <2>3, <2>4 DEF QuestionOK
<1> QED
  BY <1>1, <1>13 DEF HInv, NewestOK, MinutesOK, FillingOK, RowOK, Restorable, Settled

LEMMA HistoryKeeps ==
    ASSUME HInv, [HistoryNext]_historyVars
    PROVE  HInv'
<1>1. CASE UNCHANGED historyVars
  <2>1. QuestionOK'
    BY <1>1, QuestionStays DEF HInv, historyVars
  <2> QED BY <1>1, <2>1 DEF HInv, NewestOK, MinutesOK, FillingOK, RowOK, Restorable, Settled, historyVars
<1>2. ASSUME NEW sample \in Samples, RecordSample(sample) PROVE HInv'
  BY <1>2, RecordSampleKeeps
<1>3. ASSUME NEW sample \in Samples, RecordReceipt(sample) PROVE HInv'
  BY <1>3, RecordReceiptKeeps
<1>4. ASSUME NEW new \in Inputs \union {"RECEIPTS"}, SwitchInput(new) PROVE HInv'
  BY <1>4, SwitchKeeps
<1>5. ASSUME NEW span \in Spans, Asks(span) PROVE HInv'
  BY <1>5, AsksKeeps
<1> QED
  BY <1>1, <1>2, <1>3, <1>4, <1>5, BackfillReadsKeeps, BackfillCommitsKeeps, BackfillEndsKeeps,
     TransferKeeps, ReadSummariesKeeps, ReadOriginalsKeeps, EndsQuestionKeeps DEF HistoryNext

-----------------------------------------------------------------------------
(* What follows from it for an answer.                                     *)

(* The samples a bucket wants of each minute. *)
WantedOf(q, b) ==
    [m \in MinuteIds |-> IF q.seen[m] = NoMinute THEN {} ELSE Wanted(q.seen[m], b, q.span)]

LEMMA WantedFacts ==
    ASSUME NEW q, PartsOK(q), NEW b \in BucketsOf(q.span)
    PROVE  /\ SlotsSeen(q, b) = UNION {WantedOf(q, b)[m] : m \in MinuteIds}
           /\ SlotSet(SlotsSeen(q, b))
           /\ \A m, n \in MinuteIds : m # n => WantedOf(q, b)[m] \cap WantedOf(q, b)[n] = {}
           /\ \A m \in MinuteIds : q.parts[m][b] = GroupOf(WantedOf(q, b)[m])
<1> DEFINE P == WantedOf(q, b)
           all == {P[m] : m \in MinuteIds}
<1>1. \A m \in MinuteIds : P[m] = IF q.seen[m] = NoMinute THEN {} ELSE Wanted(q.seen[m], b, q.span)
  BY DEF WantedOf
<1> HIDE DEF P
<1>2. SlotsSeen(q, b) = UNION all
  <2>1. SlotsSeen(q, b) = UNION {Wanted(q.seen[m], b, q.span) : m \in {n \in MinuteIds : q.seen[n] # NoMinute}}
    BY DEF SlotsSeen, Wanted
  <2>2. ASSUME NEW x \in SlotsSeen(q, b) PROVE x \in UNION all
    <3>1. PICK m \in MinuteIds : q.seen[m] # NoMinute /\ x \in Wanted(q.seen[m], b, q.span)
      BY <2>1, <2>2
    <3>2. x \in P[m]
      BY <1>1, <3>1
    <3> QED BY <3>2
  <2>3. ASSUME NEW x \in UNION all PROVE x \in SlotsSeen(q, b)
    <3>1. PICK m \in MinuteIds : x \in P[m]
      BY <2>3
    <3>2. q.seen[m] # NoMinute /\ x \in Wanted(q.seen[m], b, q.span)
      BY <1>1, <3>1
    <3> QED BY <2>1, <3>2
  <2> QED BY <2>2, <2>3
<1>3. ASSUME NEW m \in MinuteIds
      PROVE  /\ P[m] \subseteq Slots /\ IsFiniteSet(P[m]) /\ TimesApart(P[m])
             /\ \A x \in P[m] : x.time \in Nat /\ x.time \div MinuteTicks = m
  <2>1. CASE q.seen[m] = NoMinute
    <3>1. P[m] = {}
      BY <1>1, <2>1
    <3> QED BY <3>1, FS_EmptySet DEF TimesApart
  <2>2. CASE q.seen[m] # NoMinute
    <3>1. IsRowOf(q.seen[m], m)
      BY <2>2 DEF PartsOK
    <3>2. SlotSet(SlotsOf(q.seen[m])) /\ \A x \in SlotsOf(q.seen[m]) : x.time \in Nat /\ x.time \div MinuteTicks = m
      BY <3>1, RowSlots
    <3>3. P[m] \in SUBSET SlotsOf(q.seen[m])
      BY <1>1, <2>2 DEF Wanted
    <3>4. IsFiniteSet(P[m])
      BY <3>2, <3>3, FS_Subset DEF SlotSet
    <3> QED BY <3>2, <3>3, <3>4 DEF SlotSet, TimesApart
  <2> QED BY <2>1, <2>2
<1>4. \A m, n \in MinuteIds : m # n => P[m] \cap P[n] = {}
  <2>1. SUFFICES ASSUME NEW m \in MinuteIds, NEW n \in MinuteIds, m # n, NEW x \in P[m], x \in P[n] PROVE FALSE
    OBVIOUS
  <2>2. x.time \div MinuteTicks = m /\ x.time \div MinuteTicks = n
    BY <1>3, <2>1
  <2> QED BY <2>1, <2>2
<1>5. SlotSet(UNION all)
  <2>1. UNION all \subseteq Slots
    BY <1>3
  <2>2. TimesApart(UNION all)
    <3>1. SUFFICES ASSUME NEW x \in UNION all, NEW y \in UNION all, x.time = y.time PROVE x = y
      BY DEF TimesApart
    <3>2. PICK m \in MinuteIds : x \in P[m]
      OBVIOUS
    <3>3. PICK n \in MinuteIds : y \in P[n]
      OBVIOUS
    <3>4. x.time \div MinuteTicks = m /\ y.time \div MinuteTicks = n
      BY <1>3, <3>2, <3>3
    <3>5. m = n
      BY <3>1, <3>4
    <3> QED BY <1>3, <3>1, <3>2, <3>3, <3>5 DEF TimesApart
  <2>3. IsFiniteSet(UNION all)
    <3> DEFINE f == [m \in MinuteIds |-> P[m]]
    <3>1. f \in Surjection(MinuteIds, all)
      BY DEF Surjection
    <3>2. IsFiniteSet(MinuteIds)
      <4>1. 0 \in Int /\ MinuteCount - 1 \in Int
        BY MinuteFacts
      <4> QED BY <4>1, FS_Interval DEF MinuteIds
    <3>3. IsFiniteSet(all)
      <4> HIDE DEF f, all
      <4> QED BY <3>1, <3>2, FS_Surjection
    <3>4. \A T \in all : IsFiniteSet(T)
      BY <1>3
    <3> HIDE DEF all
    <3> QED BY <3>3, <3>4, FS_UNION
  <2> HIDE DEF all
  <2> QED BY <2>1, <2>2, <2>3 DEF SlotSet
<1>6. ASSUME NEW m \in MinuteIds PROVE q.parts[m][b] = GroupOf(P[m])
  <2>1. q.parts[m][b] = IF q.seen[m] = NoMinute THEN NoGroup ELSE GroupOf(Wanted(q.seen[m], b, q.span))
    BY DEF PartsOK
  <2>2. GroupOf({}) = NoGroup
    BY DEF GroupOf
  <2>3. CASE q.seen[m] = NoMinute
    <3>1. P[m] = {}
      BY <1>1, <2>3
    <3> QED BY <2>1, <2>2, <2>3, <3>1
  <2>4. CASE q.seen[m] # NoMinute
    <3>1. P[m] = Wanted(q.seen[m], b, q.span)
      BY <1>1, <2>4
    <3> QED BY <2>1, <2>4, <3>1
  <2> QED BY <2>3, <2>4
<1> HIDE DEF all
<1>7. SlotSet(SlotsSeen(q, b))
  BY <1>2, <1>5
<1> QED
  BY <1>2, <1>4, <1>6, <1>7 DEF P, all

LEMMA AccumulatedIsOriginal ==
    ASSUME NEW q, PartsOK(q), NEW b \in BucketsOf(q.span), NEW order \in ReadOrders
    PROVE  Accumulated(q, b, order) = GroupOf(SlotsSeen(q, b))
<1> DEFINE P == WantedOf(q, b)
           all == UNION {P[m] : m \in MinuteIds}
<1>1. SlotsSeen(q, b) = all /\ SlotSet(SlotsSeen(q, b))
  BY WantedFacts
<1>2. \A m, n \in MinuteIds : m # n => P[m] \cap P[n] = {}
  BY WantedFacts
<1>3. \A m \in MinuteIds : q.parts[m][b] = GroupOf(P[m])
  BY WantedFacts
<1>4. SlotSet(all)
  <2> HIDE DEF all
  <2> QED BY <1>1
<1> HIDE DEF P
<1>5. Accumulated(q, b, order) = GroupOf(all)
  BY <1>2, <1>3, <1>4, AccumulatedIs
<1> HIDE DEF all
<1> QED
  BY <1>1, <1>5

LEMMA AnswersAreOriginal == ASSUME HInv PROVE AnswerIsOfOriginals
<1>1. SUFFICES ASSUME IsAnswered
               PROVE  /\ \A m \in question.asked : question.seen[m] # NoMinute
                      /\ \A order \in ReadOrders, b \in BucketsOf(question.span) :
                            AnswerOf(question, order)[b] =
                              BucketShown(StoredIn(b, question), GroupOf(SlotsSeen(question, b)), question.span)
  BY DEF AnswerIsOfOriginals
<1>2. PartsOK(question) /\ NoneIsLeftOut(question) /\ question.left = {}
  BY <1>1 DEF IsAnswered, HInv, QuestionOK
<1>3. \A m \in question.asked : question.seen[m] # NoMinute
  BY <1>2 DEF NoneIsLeftOut
<1>4. ASSUME NEW order \in ReadOrders, NEW b \in BucketsOf(question.span)
      PROVE  AnswerOf(question, order)[b] =
               BucketShown(StoredIn(b, question), GroupOf(SlotsSeen(question, b)), question.span)
  <2>1. Accumulated(question, b, order) = GroupOf(SlotsSeen(question, b))
    BY <1>2, AccumulatedIsOriginal
  <2>2. AnswerOf(question, order)[b] =
          BucketShown(StoredIn(b, question), Accumulated(question, b, order), question.span)
    BY DEF AnswerOf
  <2> QED BY <2>1, <2>2
<1> QED
  BY <1>3, <1>4

(* The evidence of a slot that is of the slot's second is a message with   *)
(* the slot's value.                                                       *)
LEMMA EvidenceOfSlot ==
    ASSUME NEW m, NEW row, IsRowOf(row, m), NEW x \in SlotsOf(row),
           SecondOf(x.evidence.at) = SecondOf(x.time)
    PROVE  \E sample \in Samples : sample.at = x.evidence.at /\ sample.value = x.value
<1>1. PICK s \in DOMAIN row.slots : x = SlotOfRow(row, s)
  BY DEF SlotsOf
<1> DEFINE slot == row.slots[s]
<1>2. IsSlotOf(slot, s, row.last) /\ x.time \div 2 = s
  BY <1>1, SlotIs DEF IsRowOf
<1>3. row.last \in Samples
  BY RowFields
<1> HIDE DEF slot
<1>4. CASE slot.at = NoTime
  <2>1. x = [time |-> 2 * s, value |-> slot.value, origin |-> slot.origin, evidence |-> row.last]
    BY <1>1, <1>4 DEF SlotOfRow, slot
  <2>2. x.evidence = row.last /\ x.value = slot.value
    BY <2>1
  <2>3. s = row.last.at \div 2
    BY <1>2, <2>2 DEF SecondOf
  <2>4. slot.value = row.last.value
    BY <1>2, <1>4, <2>3 DEF IsSlotOf
  <2> QED BY <1>3, <2>2, <2>4
<1>5. CASE slot.at # NoTime
  <2> DEFINE own == [at |-> slot.at, origin |-> slot.origin, value |-> slot.value]
  <2>1. x = [time |-> slot.at, value |-> slot.value, origin |-> slot.origin, evidence |-> own]
    BY <1>1, <1>5 DEF SlotOfRow, slot
  <2>2. own.at = slot.at
    OBVIOUS
  <2> HIDE DEF own
  <2>3. x.evidence.at = slot.at /\ x.value = slot.value
    BY <2>1, <2>2
  <2>4. \E sample \in Samples : sample.at = slot.at /\ sample.value = slot.value
    BY <1>2, <1>5 DEF IsSlotOf
  <2> QED BY <2>3, <2>4
<1> QED
  BY <1>4, <1>5

(* The newest of the receipts of a bucket is one of them. *)
LEMMA NewestReceipt ==
    ASSUME NEW stored, stored \subseteq Samples, stored # {}
    PROVE  (CHOOSE r \in stored : \A other \in stored : other.at <= r.at) \in stored
<1> DEFINE V == {r.at : r \in stored}
<1>1. V \in SUBSET Nat /\ V # {} /\ \A v \in V : v <= End
  <2>1. \A r \in stored : r.at \in Nat /\ r.at <= End
    BY SampleFacts, MinuteFacts
  <2> QED BY <2>1
<1>2. PICK v \in V : \A w \in V : w <= v
  <2> HIDE DEF V
  <2> QED BY <1>1, MinuteFacts, GreatestNat
<1>3. \E r \in stored : \A other \in stored : other.at <= r.at
  BY <1>2
<1> QED
  BY <1>3

LEMMA EvidenceIsOwn == ASSUME HInv PROVE EvidenceIsOfItsValue
<1> DEFINE span == question.span
           Own(shown) == /\ InSpanOf(shown.generated, span)
                         /\ \E sample \in Samples :
                                /\ sample.at = shown.generated
                                /\ shown.origin # "MIXED" => sample.value = shown.value
<1>1. SUFFICES ASSUME IsAnswered, NEW order \in ReadOrders, NEW b \in BucketsOf(span),
                      AnswerOf(question, order)[b] # NoGroup,
                      AnswerOf(question, order)[b].generated # NoTime
               PROVE  Own(AnswerOf(question, order)[b])
  BY DEF EvidenceIsOfItsValue
<1> DEFINE shown == AnswerOf(question, order)[b]
           A == SlotsSeen(question, b)
           g == GroupOf(A)
           stored == StoredIn(b, question)
           newestOf == CHOOSE r \in stored : \A other \in stored : other.at <= r.at
<1>2. IsQuestion(question) /\ PartsOK(question) /\ question # NoQuestion
  BY <1>1 DEF IsAnswered, HInv, QuestionOK
<1>3. shown = BucketShown(stored, g, span)
  BY <1>1, AnswersAreOriginal DEF AnswerIsOfOriginals
<1>4. stored \subseteq Samples /\ \A r \in stored : InSpanOf(r.at, span)
  BY <1>2 DEF StoredIn, IsQuestion
<1>5. shown = IF g = NoGroup THEN IF stored = {} THEN NoGroup ELSE ShowsReceipt(newestOf)
              ELSE IF stored # {} /\ Shows(g, span).at <= newestOf.at THEN ShowsReceipt(newestOf)
              ELSE Shows(g, span)
  BY <1>3 DEF BucketShown
<1>6. shown # NoGroup /\ shown.generated # NoTime
  BY <1>1
<1>7. stored # {} => newestOf \in stored
  BY <1>4, NewestReceipt
<1>8. SlotSet(A)
  BY <1>1, <1>2, WantedFacts
<1>9. \A x \in A : \E m \in MinuteIds : IsRowOf(question.seen[m], m) /\ x \in SlotsOf(question.seen[m])
  BY <1>2 DEF SlotsSeen, PartsOK
<1> HIDE DEF shown, stored, A
<1>10. CASE stored # {} /\ shown = ShowsReceipt(newestOf)
  <2>1. newestOf \in Samples /\ InSpanOf(newestOf.at, span)
    BY <1>4, <1>7, <1>10
  <2> HIDE DEF newestOf
  <2>2. shown.generated = newestOf.at /\ shown.value = newestOf.value
    BY <1>10 DEF ShowsReceipt
  <2>3. Own(shown)
    BY <2>1, <2>2
  <2> QED BY <2>3 DEF shown
<1>11. CASE g # NoGroup /\ shown = Shows(g, span)
  <2>1. A # {}
    BY <1>11 DEF GroupOf
  <2>2. LastIs(g.last, A)
    BY <1>8, <2>1, GroupIs DEF IsGroup
  <2> DEFINE x == g.last
  <2>3. x \in A
    BY <2>2 DEF LastIs
  <2>4. shown.generated = IF IsRetained(g, span) THEN x.evidence.at ELSE NoTime
    BY <1>11 DEF Shows
  <2>5. shown.origin # "MIXED" => shown.value = x.value
    <3> DEFINE mixed == Cardinality(g.origins) > 1
    <3>1. shown.origin = IF mixed THEN "MIXED"
                         ELSE IF g.origins # {} THEN CHOOSE o \in g.origins : TRUE ELSE g.last.origin
      BY <1>11 DEF Shows
    <3>2. shown.value = IF mixed THEN NoValue ELSE x.value
      BY <1>11 DEF Shows
    <3> HIDE DEF mixed, x
    <3> QED BY <3>1, <3>2
  <2>6. IsRetained(g, span)
    BY <1>6, <2>4
  <2>7. InSpanOf(x.evidence.at, span) /\ SecondOf(x.evidence.at) = SecondOf(x.time)
    BY <2>6 DEF IsRetained
  <2> HIDE DEF x
  <2>8. PICK m \in MinuteIds : IsRowOf(question.seen[m], m) /\ x \in SlotsOf(question.seen[m])
    BY <1>9, <2>3
  <2>9. PICK sample \in Samples : sample.at = x.evidence.at /\ sample.value = x.value
    BY <2>7, <2>8, EvidenceOfSlot
  <2>10. shown.generated = x.evidence.at
    BY <2>4, <2>6
  <2>11. Own(shown)
    BY <2>5, <2>7, <2>9, <2>10
  <2> QED BY <2>11 DEF shown
<1> HIDE DEF g, newestOf
<1> QED
  BY <1>5, <1>6, <1>10, <1>11

(* "Derived history summaries preserve original results" and "Partial-     *)
(* range queries must not borrow the minute's newer last observation":     *)
(* whatever mixture of summaries, aggregates and samples an answer was     *)
(* made of, beside the writer, the backfill and the move to PostgreSQL, it *)
(* is that of the original samples, and its evidence is its own.           *)
THEOREM HistoryOriginal ==
    (dialect = "postgresql" \/ TimesTellRows) /\ HistorySpec => []HistoryIsOriginal
<1>1. (dialect = "postgresql" \/ TimesTellRows) /\ HistoryInit => HInv
  BY HistoryBegins
<1>2. HInv /\ [HistoryNext]_historyVars => HInv'
  BY HistoryKeeps
<1>3. HInv => HistoryIsOriginal
  BY AnswersAreOriginal, EvidenceIsOwn DEF HistoryIsOriginal
<1> QED
  BY <1>1, <1>2, <1>3, PTL DEF HistorySpec
=============================================================================
