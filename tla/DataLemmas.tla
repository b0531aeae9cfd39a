----------------------------- MODULE DataLemmas ------------------------------
(***************************************************************************)
(* Induction without predicates: a nonempty set of natural numbers has a   *)
(* least element, so a claim about all of them is proved by looking at the *)
(* least one that would refute it.  And what that gives for sums.          *)
(***************************************************************************)
EXTENDS Integers, Functions, FiniteSetTheorems, TLAPS

\* First-order leaves go to Zenon; those that need arithmetic, sequences or records
\* cite SMT, with a limit that leaves room for a slow machine.
USE Zenon

\* The least element.
LEMMA LeastNat ==
    ASSUME NEW T \in SUBSET Nat, T # {}
    PROVE  \E n \in T : \A m \in T : n <= m
<1>1. IsWellFoundedOn(OpToRel(<, Nat), Nat)
  BY NatLessThanWellFounded
<1>2. PICK n \in T : \A m \in T : ~(<<m, n>> \in OpToRel(<, Nat))
  BY <1>1, WFMin
<1>3. \A m \in T : ~(m < n)
  BY <1>2 DEF OpToRel
<1> QED
  BY <1>3, SMTT(30)

-----------------------------------------------------------------------------
\* SumFunction takes an element after the other out of the domain.
Pick(s) == CHOOSE x \in s : TRUE

Small(S, n) == {s \in SUBSET S : Cardinality(s) <= n}

SumsOf(f, sets, sum) ==
    sum = [s \in sets |-> IF s = {} THEN 0 ELSE f[Pick(s)] + sum[s \ {Pick(s)}]]

\* What is left is smaller.
LEMMA PickLeaves ==
    ASSUME NEW S, IsFiniteSet(S), NEW s \in SUBSET S
    PROVE  /\ Cardinality(s) \in Nat
           /\ s # {} => /\ Pick(s) \in s
                        /\ s \ {Pick(s)} \in SUBSET S
                        /\ Cardinality(s \ {Pick(s)}) = Cardinality(s) - 1
           /\ Cardinality(s) = 0 => s = {}
<1>1. IsFiniteSet(s) /\ Cardinality(s) \in Nat
  BY FS_Subset, FS_CardinalityType
<1>2. s # {} => Pick(s) \in s
  BY DEF Pick
<1>3. s # {} => Cardinality(s \ {Pick(s)}) = Cardinality(s) - 1
  BY <1>1, <1>2, FS_RemoveElement
<1>4. Cardinality(s) = 0 => s = {}
  BY <1>1, FS_EmptySet
<1> QED
  BY <1>1, <1>2, <1>3, <1>4

\* There is such a function.
LEMMA SumsExist ==
    ASSUME NEW S, IsFiniteSet(S), NEW f
    PROVE  \E sum : SumsOf(f, SUBSET S, sum)
<1> DEFINE Has(n) == \E sum : SumsOf(f, Small(S, n), sum)
           T == {n \in Nat : ~Has(n)}
<1>1. ASSUME T # {} PROVE FALSE
  <2>0. T \in SUBSET Nat
    OBVIOUS
  <2>1. PICK n \in T : \A m \in T : n <= m
    <3> HIDE DEF T
    <3> QED
      BY <1>1, <2>0, LeastNat
  <2>2. CASE n = 0
    <3>1. ASSUME NEW s \in Small(S, 0) PROVE s = {}
      <4>1. s \in SUBSET S /\ Cardinality(s) <= 0
        BY DEF Small
      <4>2. Cardinality(s) \in Nat /\ (Cardinality(s) = 0 => s = {})
        BY <4>1, PickLeaves
      <4> QED
        BY <4>1, <4>2, SMTT(30)
    <3> DEFINE g == [s \in Small(S, 0) |-> 0]
    <3>2. g = [s \in Small(S, 0) |->
                 IF s = {} THEN 0 ELSE f[Pick(s)] + g[s \ {Pick(s)}]]
      BY <3>1
    <3> HIDE DEF g
    <3>3. SumsOf(f, Small(S, 0), g)
      BY <3>2 DEF SumsOf
    <3> QED
      BY <2>1, <2>2, <3>3
  <2>3. CASE n > 0
    <3>1. n \in Nat /\ n - 1 \in Nat /\ n - 1 \notin T
      BY <2>1, <2>3, SMTT(30)
    <3>2. PICK h : SumsOf(f, Small(S, n - 1), h)
      BY <3>1
    <3>3. \A s \in Small(S, n - 1) :
            h[s] = IF s = {} THEN 0 ELSE f[Pick(s)] + h[s \ {Pick(s)}]
      BY <3>2 DEF SumsOf
    <3> DEFINE g == [s \in Small(S, n) |->
                       IF s \in Small(S, n - 1) THEN h[s]
                       ELSE f[Pick(s)] + h[s \ {Pick(s)}]]
    <3>4. ASSUME NEW s \in Small(S, n)
          PROVE  g[s] = IF s = {} THEN 0 ELSE f[Pick(s)] + g[s \ {Pick(s)}]
      <4>1. CASE s = {}
        <5>1. s \in Small(S, n - 1)
          BY <3>1, <4>1, FS_EmptySet, SMTT(30) DEF Small
        <5> QED
          BY <3>3, <4>1, <5>1
      <4>2. CASE s # {}
        <5> DEFINE t == s \ {Pick(s)}
        <5>1. t \in Small(S, n - 1) /\ t \in Small(S, n)
          BY <3>1, <4>2, PickLeaves, SMTT(30) DEF Small
        <5> HIDE DEF t
        <5>2. g[t] = h[t]
          BY <5>1
        <5>3. g[s] = f[Pick(s)] + h[t]
          BY <3>3, <4>2 DEF t
        <5> QED
          BY <4>2, <5>2, <5>3 DEF t
      <4> QED
        BY <4>1, <4>2
    <3>5. g = [s \in Small(S, n) |->
                 IF s = {} THEN 0 ELSE f[Pick(s)] + g[s \ {Pick(s)}]]
      BY <3>4
    <3> HIDE DEF g
    <3>6. SumsOf(f, Small(S, n), g)
      BY <3>5 DEF SumsOf
    <3> QED
      BY <2>1, <3>6
  <2> QED
    BY <2>1, <2>2, <2>3, SMTT(30)
<1>2. Small(S, Cardinality(S)) = SUBSET S /\ Cardinality(S) \in Nat
  BY FS_Subset, FS_CardinalityType DEF Small
<1>3. Has(Cardinality(S))
  BY <1>1, <1>2
<1> QED
  BY <1>2, <1>3

\* So the sum over a set is computed along its subsets.
LEMMA SumUnfolds ==
    ASSUME NEW S, IsFiniteSet(S), NEW f \in [S -> Nat]
    PROVE  \E sum : SumsOf(f, SUBSET S, sum) /\ SumFunction(f) = sum[S]
<1> DEFINE sum == CHOOSE g : SumsOf(f, SUBSET S, g)
<1>0. DOMAIN f = S
  OBVIOUS
<1>1. SumFunction(f) = sum[S]
  BY <1>0 DEF SumFunction, SumFunctionOnSet, FoldFunctionOnSet, MapThenFoldSet, SumsOf, Pick
<1>2. SumsOf(f, SUBSET S, sum)
  BY SumsExist
<1> QED
  BY <1>1, <1>2

\* No value exceeds the sum, and the sum changes by what one value changes by.
LEMMA SumChanges ==
    ASSUME NEW S, IsFiniteSet(S), NEW a \in S,
           NEW f \in [S -> Nat], NEW h \in [S -> Nat],
           \A x \in S \ {a} : h[x] = f[x]
    PROVE  /\ SumFunction(f) \in Nat /\ SumFunction(h) \in Nat
           /\ f[a] <= SumFunction(f)
           /\ SumFunction(h) = SumFunction(f) - f[a] + h[a]
<1>1. PICK F : SumsOf(f, SUBSET S, F) /\ SumFunction(f) = F[S]
  BY SumUnfolds
<1>2. PICK H : SumsOf(h, SUBSET S, H) /\ SumFunction(h) = H[S]
  BY SumUnfolds
<1> DEFINE Good(s) == /\ F[s] \in Nat /\ H[s] \in Nat
                      /\ a \notin s => H[s] = F[s]
                      /\ a \in s => f[a] <= F[s] /\ H[s] = F[s] - f[a] + h[a]
           T == {s \in SUBSET S : ~Good(s)}
           N == {Cardinality(s) : s \in T}
<1>3. ASSUME NEW s \in SUBSET S
      PROVE  /\ F[s] = IF s = {} THEN 0 ELSE f[Pick(s)] + F[s \ {Pick(s)}]
             /\ H[s] = IF s = {} THEN 0 ELSE h[Pick(s)] + H[s \ {Pick(s)}]
  BY <1>1, <1>2 DEF SumsOf
<1>4. ASSUME T # {} PROVE FALSE
  <2>1. N \in SUBSET Nat /\ N # {}
    <3>1. \A s \in SUBSET S : Cardinality(s) \in Nat
      BY PickLeaves
    <3> HIDE DEF Good
    <3> QED
      BY <1>4, <3>1
  <2>2. PICK n \in N : \A m \in N : n <= m
    <3> HIDE DEF N
    <3> QED
      BY <2>1, LeastNat
  <2>3. PICK s \in T : n = Cardinality(s)
    BY <2>2
  <2>4. s \in SUBSET S /\ ~Good(s) /\ n \in Nat
    BY <2>1, <2>2, <2>3
  <2>5. CASE s = {}
    <3>1. F[s] = 0 /\ H[s] = 0 /\ a \notin s
      BY <1>3, <2>4, <2>5
    <3> QED
      BY <2>4, <3>1, SMTT(30)
  <2>6. CASE s # {}
    <3> DEFINE x == Pick(s)
               t == s \ {x}
    <3>1. x \in s /\ t \in SUBSET S /\ Cardinality(t) = n - 1
      BY <2>3, <2>4, <2>6, PickLeaves, SMTT(30)
    <3>2. F[s] = f[x] + F[t] /\ H[s] = h[x] + H[t]
      BY <1>3, <2>4, <2>6
    <3> HIDE DEF x
    <3>3. t \notin T
      BY <2>2, <2>4, <3>1, SMTT(30)
    <3>4. Good(t)
      BY <3>1, <3>3
    <3>5. f[x] \in Nat /\ h[x] \in Nat /\ f[a] \in Nat /\ h[a] \in Nat
      BY <2>4, <3>1
    <3>6. CASE x = a
      BY <2>4, <3>1, <3>2, <3>4, <3>5, <3>6, SMTT(30)
    <3>7. CASE x # a
      <4>1. f[x] = h[x] /\ (a \in s <=> a \in t)
        BY <2>4, <3>1, <3>7
      <4> QED
        BY <2>4, <3>2, <3>4, <3>5, <4>1, SMTT(30)
    <3> QED
      BY <3>6, <3>7
  <2> QED
    BY <2>5, <2>6
<1>5. Good(S)
  BY <1>4
<1> QED
  BY <1>1, <1>2, <1>5

\* Values that are not zero add up to as many at least.
LEMMA SumCounts ==
    ASSUME NEW S, IsFiniteSet(S), NEW f \in [S -> Nat], \A x \in S : f[x] # 0
    PROVE  SumFunction(f) \in Nat /\ Cardinality(S) <= SumFunction(f)
<1>1. PICK F : SumsOf(f, SUBSET S, F) /\ SumFunction(f) = F[S]
  BY SumUnfolds
<1> DEFINE Good(s) == F[s] \in Nat /\ Cardinality(s) <= F[s]
           T == {s \in SUBSET S : ~Good(s)}
           N == {Cardinality(s) : s \in T}
<1>2. ASSUME NEW s \in SUBSET S
      PROVE  F[s] = IF s = {} THEN 0 ELSE f[Pick(s)] + F[s \ {Pick(s)}]
  BY <1>1 DEF SumsOf
<1>3. ASSUME T # {} PROVE FALSE
  <2>1. N \in SUBSET Nat /\ N # {}
    <3>1. \A s \in SUBSET S : Cardinality(s) \in Nat
      BY PickLeaves
    <3> HIDE DEF Good
    <3> QED
      BY <1>3, <3>1
  <2>2. PICK n \in N : \A m \in N : n <= m
    <3> HIDE DEF N
    <3> QED
      BY <2>1, LeastNat
  <2>3. PICK s \in T : n = Cardinality(s)
    BY <2>2
  <2>4. s \in SUBSET S /\ ~Good(s) /\ n \in Nat
    BY <2>1, <2>2, <2>3
  <2>5. CASE s = {}
    <3>1. F[s] = 0 /\ Cardinality(s) = 0
      BY <1>2, <2>4, <2>5, FS_EmptySet
    <3> QED
      BY <2>4, <3>1, SMTT(30)
  <2>6. CASE s # {}
    <3> DEFINE x == Pick(s)
               t == s \ {x}
    <3>1. x \in s /\ t \in SUBSET S /\ Cardinality(t) = n - 1
      BY <2>3, <2>4, <2>6, PickLeaves
    <3>2. F[s] = f[x] + F[t]
      BY <1>2, <2>4, <2>6
    <3> HIDE DEF x
    <3>3. t \notin T
      BY <2>2, <2>4, <3>1, SMTT(30)
    <3>4. Good(t)
      BY <3>1, <3>3
    <3>5. f[x] \in Nat /\ f[x] # 0
      BY <2>4, <3>1
    <3> QED
      BY <2>3, <2>4, <3>1, <3>2, <3>4, <3>5, SMTT(30)
  <2> QED
    BY <2>5, <2>6
<1>4. Good(S)
  BY <1>3
<1> QED
  BY <1>1, <1>4
=============================================================================
