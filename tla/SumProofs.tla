------------------------------ MODULE SumProofs ------------------------------
(***************************************************************************)
(* What MapThenSumSet computes for every finite set: the sum over a set    *)
(* changes by as much as one of its terms does, follows an order of the    *)
(* terms, and counts elements.                                             *)
(*                                                                         *)
(* The induction theorems of the library take an operator, which no prover *)
(* here can be given.  Induction is done on sets instead: a set of numbers, *)
(* or of subsets, that is closed under the step is all of them, because    *)
(* what it lacks would have a minimal element (WFMin).                     *)
(***************************************************************************)
EXTENDS Integers, FiniteSetsExt, FiniteSetTheorems, WellFoundedInduction, TLAPS

\* The sum of h over S.
SumOf(h, S) == MapThenSumSet(LAMBDA x : h[x], S)

\* The element MapThenSumSet takes out of a set first.
Pick(s) == CHOOSE x \in s : TRUE

\* One step of the recursion, g being the sums of smaller sets.
SumAt(g, h, s) == IF s = {} THEN 0 ELSE h[Pick(s)] + g[s \ {Pick(s)}]

\* The recursive function MapThenSumSet is defined by.
Sums(g, h, S) == g = [s \in SUBSET S |-> SumAt(g, h, s)]
\* The function the CHOOSE in MapThenSumSet picks.
TheSums(h, S) == CHOOSE g : Sums(g, h, S)

\* A sum is a value of that function.
LEMMA SumIsChoice ==
  ASSUME NEW h, NEW S
  PROVE  SumOf(h, S) = TheSums(h, S)[S]
  BY DEF SumOf, MapThenSumSet, MapThenFoldSet, Sums, SumAt, TheSums, Pick

\* A set with 0, and with the successor of each of its members, has all numbers.
LEMMA NumberInduction ==
  ASSUME NEW N, 0 \in N, \A n \in Nat : n \in N => n + 1 \in N
  PROVE  Nat \subseteq N
<1> DEFINE R == OpToRel(<, Nat)
           T == Nat \ N
<1>1. SUFFICES ASSUME T # {} PROVE FALSE
  OBVIOUS
<1>2. PICK n \in T : \A m \in T : <<m, n>> \notin R
  <2>1. IsWellFoundedOn(R, Nat)
    BY NatLessThanWellFounded
  <2>2. T \subseteq Nat
    OBVIOUS
  <2> HIDE DEF R, T
  <2> QED
    BY <1>1, <2>1, <2>2, WFMin
<1>3. n - 1 \in Nat /\ <<n - 1, n>> \in R
  BY DEF OpToRel
<1>4. n - 1 \in N
  BY <1>2, <1>3
<1>5. (n - 1) + 1 \in N
  BY <1>3, <1>4
<1> QED
  BY <1>5

\* A set of subsets that has the empty one, and each whose rest after Pick it
\* has, has them all.
LEMMA SubsetInduction ==
  ASSUME NEW S, IsFiniteSet(S), NEW G, {} \in G,
         \A s \in SUBSET S : s # {} /\ s \ {Pick(s)} \in G => s \in G
  PROVE  SUBSET S \subseteq G
<1> DEFINE R == StrictSubsetOrdering(S)
           T == (SUBSET S) \ G
<1>1. SUFFICES ASSUME T # {} PROVE FALSE
  OBVIOUS
<1>2. PICK s \in T : \A t \in T : <<t, s>> \notin R
  <2>1. IsWellFoundedOn(R, SUBSET S)
    BY FS_StrictSubsetOrderingWellFounded, FS_FiniteSubsetsOfFinite
  <2>2. T \subseteq SUBSET S
    OBVIOUS
  <2> HIDE DEF R, T
  <2> QED
    BY <1>1, <2>1, <2>2, WFMin
<1>3. Pick(s) \in s /\ s \ {Pick(s)} \in SUBSET S
  BY DEF Pick
<1>4. <<s \ {Pick(s)}, s>> \in R
  BY <1>3 DEF StrictSubsetOrdering
<1> QED
  BY <1>2, <1>3, <1>4

\* The recursive function exists: up to each size some function satisfies the
\* equation, since one more size only needs the values for the smaller ones.
LEMMA SumsExist ==
  ASSUME NEW S, IsFiniteSet(S), NEW h \in [S -> Int]
  PROVE  \E g \in [SUBSET S -> Int] : Sums(g, h, S)
<1> DEFINE UpTo(g, n) == \A s \in SUBSET S : Cardinality(s) <= n => g[s] = SumAt(g, h, s)
           N == {n \in Nat : \E g \in [SUBSET S -> Int] : UpTo(g, n)}
<1>1. \A s \in SUBSET S : IsFiniteSet(s) /\ Cardinality(s) \in Nat /\ Cardinality(s) <= Cardinality(S)
  BY FS_Subset, FS_CardinalityType
<1>2. \A s \in SUBSET S : s # {} =>
        /\ Pick(s) \in S /\ s \ {Pick(s)} \in SUBSET S
        /\ Cardinality(s \ {Pick(s)}) = Cardinality(s) - 1
  BY <1>1, FS_RemoveElement DEF Pick
<1>3. 0 \in N
  <2> DEFINE g == [s \in SUBSET S |-> 0]
  <2>1. g \in [SUBSET S -> Int]
    OBVIOUS
  <2>2. ASSUME NEW s \in SUBSET S, Cardinality(s) <= 0
        PROVE  g[s] = SumAt(g, h, s)
    <3>1. Cardinality(s) = 0
      BY <1>1, <2>2
    <3>2. s = {}
      BY <1>1, <3>1, FS_EmptySet
    <3> QED
      BY <3>2 DEF SumAt
  <2> HIDE DEF g
  <2> QED
    BY <2>1, <2>2
<1>4. ASSUME NEW n \in Nat, n \in N
      PROVE  n + 1 \in N
  <2>1. PICK g \in [SUBSET S -> Int] : UpTo(g, n)
    BY <1>4
  <2> DEFINE f == [s \in SUBSET S |-> SumAt(g, h, s)]
  <2>2. ASSUME NEW s \in SUBSET S
        PROVE  SumAt(g, h, s) \in Int
    <3>1. CASE s = {}
      BY <3>1 DEF SumAt
    <3>2. CASE s # {}
      <4>1. h[Pick(s)] \in Int /\ g[s \ {Pick(s)}] \in Int
        BY <1>2, <3>2
      <4> QED
        BY <3>2, <4>1 DEF SumAt
    <3> QED
      BY <3>1, <3>2
  <2>3. f \in [SUBSET S -> Int]
    BY <2>2
  <2>4. ASSUME NEW s \in SUBSET S, Cardinality(s) <= n
        PROVE  f[s] = g[s]
    BY <2>1, <2>4
  <2>5. ASSUME NEW s \in SUBSET S, Cardinality(s) <= n + 1
        PROVE  f[s] = SumAt(f, h, s)
    <3>1. f[s] = SumAt(g, h, s)
      OBVIOUS
    <3> HIDE DEF f
    <3>2. ASSUME s # {}
          PROVE  f[s \ {Pick(s)}] = g[s \ {Pick(s)}]
      <4>1. Cardinality(s \ {Pick(s)}) <= n
        <5>1. Cardinality(s \ {Pick(s)}) = Cardinality(s) - 1
          BY <1>2, <3>2
        <5>2. Cardinality(s) \in Nat
          BY <1>1
        <5> QED
          BY <2>5, <5>1, <5>2
      <4> QED
        BY <1>2, <2>4, <3>2, <4>1
    <3> QED
      BY <3>1, <3>2 DEF SumAt
  <2>6. UpTo(f, n + 1)
    <3> HIDE DEF f
    <3> QED
      BY <2>5
  <2> HIDE DEF f
  <2> QED
    BY <2>3, <2>6
<1>5. Cardinality(S) \in N
  <2> HIDE DEF N
  <2> QED
    BY <1>1, <1>3, <1>4, NumberInduction
<1>6. PICK g \in [SUBSET S -> Int] : UpTo(g, Cardinality(S))
  BY <1>5
<1>7. \A s \in SUBSET S : g[s] = SumAt(g, h, s)
  BY <1>1, <1>6
<1> QED
  BY <1>7 DEF Sums

\* What is known of the sums over the subsets of S: they are integers, that of
\* the empty set is 0, and each other one adds one term.
LEMMA SumsFacts ==
  ASSUME NEW S, IsFiniteSet(S), NEW h \in [S -> Int]
  PROVE  /\ TheSums(h, S)[{}] = 0
         /\ \A s \in SUBSET S :
              /\ TheSums(h, S)[s] \in Int
              /\ s # {} => TheSums(h, S)[s] = h[Pick(s)] + TheSums(h, S)[s \ {Pick(s)}]
<1> DEFINE F == TheSums(h, S)
           G == {s \in SUBSET S : F[s] \in Int}
<1>1. Sums(F, h, S)
  BY SumsExist DEF TheSums
<1> HIDE DEF F
<1>2. \A s \in SUBSET S : F[s] = SumAt(F, h, s)
  BY <1>1 DEF Sums
<1>3. F[{}] = 0 /\ \A s \in SUBSET S : s # {} => F[s] = h[Pick(s)] + F[s \ {Pick(s)}]
  BY <1>2 DEF SumAt
<1>4. \A s \in SUBSET S : s # {} /\ s \ {Pick(s)} \in G => s \in G
  <2>1. \A s \in SUBSET S : s # {} => h[Pick(s)] \in Int
    BY DEF Pick
  <2>2. \A s \in SUBSET S : s # {} => s \ {Pick(s)} \in SUBSET S
    OBVIOUS
  <2>3. ASSUME NEW s \in SUBSET S, s # {}, F[s \ {Pick(s)}] \in Int
        PROVE  F[s] \in Int
    BY <1>3, <2>1, <2>3
  <2> QED
    BY <2>2, <2>3
<1>5. {} \in G
  BY <1>3
<1>6. SUBSET S \subseteq G
  <2> HIDE DEF G
  <2> QED
    BY <1>4, <1>5, SubsetInduction
<1> QED
  BY <1>3, <1>6 DEF F

\* The sum over a finite set is an integer.
LEMMA SumType ==
  ASSUME NEW S, IsFiniteSet(S), NEW h \in [S -> Int]
  PROVE  SumOf(h, S) \in Int
  BY SumIsChoice, SumsFacts

\* When one term changes, the sum changes by as much.
LEMMA SumChanges ==
  ASSUME NEW S, IsFiniteSet(S), NEW h \in [S -> Int], NEW k \in [S -> Int], NEW x \in S,
         \A y \in S : y # x => k[y] = h[y]
  PROVE  SumOf(k, S) = SumOf(h, S) + k[x] - h[x]
<1> DEFINE H == TheSums(h, S)
           K == TheSums(k, S)
           G == {s \in SUBSET S : K[s] = H[s] + (IF x \in s THEN k[x] - h[x] ELSE 0)}
<1>1. /\ H[{}] = 0 /\ K[{}] = 0
      /\ \A s \in SUBSET S :
           /\ H[s] \in Int /\ K[s] \in Int
           /\ s # {} => /\ H[s] = h[Pick(s)] + H[s \ {Pick(s)}]
                        /\ K[s] = k[Pick(s)] + K[s \ {Pick(s)}]
  BY SumsFacts
<1> HIDE DEF H, K
<1>2. {} \in G
  BY <1>1
<1>3. ASSUME NEW s \in SUBSET S, s # {}, s \ {Pick(s)} \in G
      PROVE  s \in G
  <2>1. Pick(s) \in s /\ Pick(s) \in S
    BY <1>3 DEF Pick
  <2> DEFINE p == Pick(s)
             r == s \ {p}
  <2>0. /\ r \in SUBSET S /\ H[r] \in Int /\ K[r] \in Int
        /\ H[s] = h[p] + H[r] /\ K[s] = k[p] + K[r]
        /\ K[r] = H[r] + (IF x \in r THEN k[x] - h[x] ELSE 0)
    BY <1>1, <1>3
  <2> HIDE DEF p
  <2>2. h[p] \in Int /\ k[p] \in Int /\ h[x] \in Int /\ k[x] \in Int
    BY <2>1 DEF p
  <2>3. CASE p = x
    <3>1. x \in s /\ x \notin r
      BY <2>1, <2>3 DEF p
    <3>2. K[s] = H[s] + (k[x] - h[x])
      BY <2>0, <2>2, <2>3, <3>1
    <3> QED
      BY <3>1, <3>2
  <2>4. CASE p # x
    <3>1. k[p] = h[p] /\ (x \in s <=> x \in r)
      BY <2>1, <2>4 DEF p
    <3>2. K[s] = h[p] + H[r] + (IF x \in r THEN k[x] - h[x] ELSE 0)
      BY <2>0, <2>2, <3>1
    <3> QED
      BY <2>0, <2>2, <3>1, <3>2
  <2> QED
    BY <2>3, <2>4
<1>4. S \in G
  <2> HIDE DEF G
  <2> QED
    BY <1>2, <1>3, SubsetInduction
<1> QED
  BY <1>4, SumIsChoice DEF H, K

\* Larger terms have a larger sum.
LEMMA SumOrdered ==
  ASSUME NEW S, IsFiniteSet(S), NEW h \in [S -> Int], NEW k \in [S -> Int],
         \A x \in S : h[x] <= k[x]
  PROVE  SumOf(h, S) <= SumOf(k, S)
<1> DEFINE H == TheSums(h, S)
           K == TheSums(k, S)
           G == {s \in SUBSET S : H[s] <= K[s]}
<1>1. /\ H[{}] = 0 /\ K[{}] = 0
      /\ \A s \in SUBSET S :
           /\ H[s] \in Int /\ K[s] \in Int
           /\ s # {} => /\ H[s] = h[Pick(s)] + H[s \ {Pick(s)}]
                        /\ K[s] = k[Pick(s)] + K[s \ {Pick(s)}]
  BY SumsFacts
<1> HIDE DEF H, K
<1>2. {} \in G
  BY <1>1
<1>3. ASSUME NEW s \in SUBSET S, s # {}, s \ {Pick(s)} \in G
      PROVE  s \in G
  <2>1. Pick(s) \in S
    BY <1>3 DEF Pick
  <2>2. h[Pick(s)] \in Int /\ k[Pick(s)] \in Int /\ h[Pick(s)] <= k[Pick(s)]
    BY <2>1
  <2> DEFINE p == Pick(s)
             r == s \ {p}
  <2>3. /\ H[r] \in Int /\ K[r] \in Int /\ H[r] <= K[r]
        /\ H[s] = h[p] + H[r] /\ K[s] = k[p] + K[r]
    BY <1>1, <1>3
  <2> HIDE DEF p
  <2>4. h[p] \in Int /\ k[p] \in Int /\ h[p] <= k[p]
    BY <2>2 DEF p
  <2> QED
    BY <2>3, <2>4
<1>4. S \in G
  <2> HIDE DEF G
  <2> QED
    BY <1>2, <1>3, SubsetInduction
<1> QED
  BY <1>4, SumIsChoice DEF H, K

\* Ones over a part of the set sum up to its size.
LEMMA SumCounts ==
  ASSUME NEW S, IsFiniteSet(S), NEW T \in SUBSET S
  PROVE  SumOf([x \in S |-> IF x \in T THEN 1 ELSE 0], S) = Cardinality(T)
<1> DEFINE h == [x \in S |-> IF x \in T THEN 1 ELSE 0]
           H == TheSums(h, S)
           G == {s \in SUBSET S : H[s] = Cardinality(s \cap T)}
<1>1. h \in [S -> Int] /\ \A x \in S : h[x] = IF x \in T THEN 1 ELSE 0
  OBVIOUS
<1> HIDE DEF h
<1>2. /\ H[{}] = 0
      /\ \A s \in SUBSET S : s # {} => H[s] = h[Pick(s)] + H[s \ {Pick(s)}]
  BY <1>1, SumsFacts
<1> HIDE DEF H
<1>3. {} \in G
  BY <1>2, FS_EmptySet
<1>4. ASSUME NEW s \in SUBSET S, s # {}, s \ {Pick(s)} \in G
      PROVE  s \in G
  <2> DEFINE p == Pick(s)
             rest == (s \ {p}) \cap T
  <2>1. p \in s /\ p \in S
    BY <1>4 DEF Pick
  <2>2. IsFiniteSet(rest) /\ Cardinality(rest) \in Nat
    BY FS_Subset, FS_CardinalityType
  <2>3. H[s] = h[p] + Cardinality(rest)
    BY <1>2, <1>4
  <2> HIDE DEF p
  <2>4. CASE p \in T
    <3>1. s \cap T = rest \cup {p} /\ p \notin rest
      BY <2>1, <2>4
    <3> HIDE DEF rest
    <3>2. Cardinality(s \cap T) = Cardinality(rest) + 1
      BY <2>2, <3>1, FS_AddElement
    <3> QED
      BY <1>1, <2>1, <2>2, <2>3, <2>4, <3>2
  <2>5. CASE p \notin T
    <3>1. s \cap T = rest
      BY <2>1, <2>5
    <3> HIDE DEF rest
    <3> QED
      BY <1>1, <2>1, <2>2, <2>3, <2>5, <3>1
  <2> QED
    BY <2>4, <2>5
<1>5. S \in G
  <2> HIDE DEF G
  <2> QED
    BY <1>3, <1>4, SubsetInduction
<1>6. H[S] = Cardinality(T)
  <2>1. S \cap T = T
    OBVIOUS
  <2> QED
    BY <1>5, <2>1
<1> QED
  BY <1>6, SumIsChoice DEF h, H

\* A sum of natural numbers is one.
LEMMA SumNatural ==
  ASSUME NEW S, IsFiniteSet(S), NEW h \in [S -> Nat]
  PROVE  SumOf(h, S) \in Nat
<1> DEFINE k == [x \in S |-> IF x \in {} THEN 1 ELSE 0]
<1>1. SumOf(k, S) = 0
  BY SumCounts, FS_EmptySet
<1>2. k \in [S -> Int] /\ h \in [S -> Int] /\ \A x \in S : k[x] <= h[x]
  OBVIOUS
<1> HIDE DEF k
<1>3. SumOf(k, S) <= SumOf(h, S)
  BY <1>2, SumOrdered
<1> QED
  BY <1>1, <1>2, <1>3, SumType
=============================================================================
