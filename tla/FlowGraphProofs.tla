--------------------------- MODULE FlowGraphProofs ---------------------------
(***************************************************************************)
(* What the reachability of the flow graphs computes: of a finite graph    *)
(* the least set that has the nodes to start from and the successors of    *)
(* its members, but for the nodes to avoid.  Induction over the naturals   *)
(* is used in a form that speaks of sets, which is derived here.           *)
(***************************************************************************)
EXTENDS FlowGraph, Integers, FiniteSetTheorems, WellFoundedInduction, TLAPS

-----------------------------------------------------------------------------
(* Induction and recursion over the naturals, for sets and functions.        *)

\* A set of naturals has a least member.
LEMMA LeastMember ==
    ASSUME NEW T \in SUBSET Nat, T # {}
    PROVE  \E x \in T : \A y \in T : x <= y
<1> DEFINE R == OpToRel(<, Nat)
<1>1. IsWellFoundedOn(R, Nat)
  BY NatLessThanWellFounded
<1> HIDE DEF R
<1>2. PICK x \in T : \A y \in T : ~ (<<y, x>> \in R)
  BY <1>1, WFMin
<1>3. \A y \in T : y < x => <<y, x>> \in R
  BY SMT DEF R, OpToRel
<1>4. \A y \in T : ~ (y < x)
  BY <1>2, <1>3, Zenon
<1> QED
  BY <1>4

\* A set of naturals with 0 and the successors of its members is all of them.
LEMMA SetInduction ==
    ASSUME NEW T \in SUBSET Nat, 0 \in T, \A n \in T : n + 1 \in T
    PROVE  T = Nat
<1> SUFFICES ASSUME Nat \ T # {}  PROVE FALSE
  OBVIOUS
<1>1. PICK x \in Nat \ T : \A y \in Nat \ T : x <= y
  BY LeastMember
<1>2. x # 0
  OBVIOUS
<1>3. x - 1 \in T
  BY <1>1, <1>2
<1>4. (x - 1) + 1 \in T
  BY <1>3
<1> QED
  BY <1>2, <1>4

\* A function can be iterated.
IsIteration(g, X, F, a) ==
    g \in [Nat -> X] /\ g[0] = a /\ \A n \in Nat : g[n + 1] = F[g[n]]

LEMMA Iterates ==
    ASSUME NEW X, NEW F \in [X -> X], NEW a \in X
    PROVE  \E g : IsIteration(g, X, F, a)
<1> DEFINE Upto(n, g) == g \in [0 .. n -> X] /\ g[0] = a /\ \A i \in 0 .. n - 1 : g[i + 1] = F[g[i]]
           T == {n \in Nat : \E g \in [0 .. n -> X] : Upto(n, g)}
           G == [n \in Nat |-> CHOOSE g : Upto(n, g)]
<1>1. 0 \in T
  <2> DEFINE g == [i \in 0 .. 0 |-> a]
  <2>1. g \in [0 .. 0 -> X] /\ Upto(0, g)
    OBVIOUS
  <2> QED
    BY <2>1
<1>2. ASSUME NEW n \in T  PROVE n + 1 \in T
  <2>1. PICK g \in [0 .. n -> X] : Upto(n, g)
    OBVIOUS
  <2> DEFINE h == [i \in 0 .. n + 1 |-> IF i <= n THEN g[i] ELSE F[g[n]]]
  <2>2. h \in [0 .. n + 1 -> X]
    BY <2>1
  <2>3. h[0] = a /\ \A i \in 0 .. (n + 1) - 1 : h[i + 1] = F[h[i]]
    BY <2>1
  <2> HIDE DEF h
  <2>4. Upto(n + 1, h) /\ n + 1 \in Nat
    BY <2>2, <2>3
  <2> QED
    BY <2>2, <2>4
<1>3. T = Nat
  <2> HIDE DEF T
  <2>1. T \in SUBSET Nat
    BY DEF T
  <2> QED
    BY <1>1, <1>2, <2>1, SetInduction
<1>4. \A n \in Nat : Upto(n, G[n])
  BY <1>3
<1> HIDE DEF G
<1>5. ASSUME NEW n \in Nat  PROVE G[n + 1][n] = G[n][n]
  <2> DEFINE A == {i \in Nat : i <= n => G[n + 1][i] = G[n][i]}
  <2>1. Upto(n, G[n]) /\ Upto(n + 1, G[n + 1])
    BY <1>4
  <2>2. 0 \in A
    BY <2>1
  <2>3. ASSUME NEW i \in A  PROVE i + 1 \in A
    BY <2>1
  <2>4. A = Nat
    <3> HIDE DEF A
    <3>1. A \in SUBSET Nat
      BY DEF A
    <3> QED
      BY <2>2, <2>3, <3>1, SetInduction
  <2> QED
    BY <2>4
<1> DEFINE g == [n \in Nat |-> G[n][n]]
<1>6. g \in [Nat -> X] /\ g[0] = a
  BY <1>4
<1>7. ASSUME NEW n \in Nat  PROVE g[n + 1] = F[g[n]]
  <2>1. G[n + 1][n + 1] = F[G[n + 1][n]]
    BY <1>4
  <2> QED
    BY <2>1, <1>5
<1> QED
  BY <1>6, <1>7 DEF IsIteration

-----------------------------------------------------------------------------
(* Reachability.                                                             *)

IsGraph(succ) == IsFiniteSet(DOMAIN succ) /\ succ \in [DOMAIN succ -> SUBSET DOMAIN succ]

\* The nodes found in one more step.
Further(succ, S, Avoid, T) == (S \cup UNION {succ[b] : b \in T}) \ Avoid

\* The sets of nodes that are found in ever more steps.
IsSearch(r, succ, S, Avoid) ==
    /\ r \in [Nat -> SUBSET DOMAIN succ]
    /\ r[0] = S \ Avoid
    /\ \A n \in Nat : r[n + 1] = Further(succ, S, Avoid, r[n])

LEMMA SearchIterates ==
    ASSUME NEW succ, IsGraph(succ), NEW S \in SUBSET DOMAIN succ, NEW Avoid
    PROVE  \E r : /\ IsSearch(r, succ, S, Avoid)
                  /\ ReachableAvoiding(succ, S, Avoid) = r[Cardinality(DOMAIN succ)]
<1> DEFINE X == SUBSET DOMAIN succ
           F == [T \in X |-> Further(succ, S, Avoid, T)]
           Rec(g) == [i \in Nat |-> IF i = 0 THEN S \ Avoid
                                    ELSE (S \cup UNION {succ[b] : b \in g[i - 1]}) \ Avoid]
           r == CHOOSE g : g = Rec(g)
           a == S \ Avoid
<1>1. F \in [X -> X] /\ a \in X
  BY DEF Further, IsGraph
<1>2. PICK g \in [Nat -> X] : g[0] = S \ Avoid /\ \A n \in Nat : g[n + 1] = F[g[n]]
  <2> HIDE DEF F, X, Rec, r, a
  <2>1. \E g : IsIteration(g, X, F, a)
    BY <1>1, Iterates
  <2> QED
    BY <2>1 DEF a, IsIteration
<1>3. g = Rec(g)
  <2>1. ASSUME NEW i \in Nat  PROVE g[i] = Rec(g)[i]
    <3>1. CASE i = 0
      BY <1>2, <3>1
    <3>2. CASE i # 0
      <4>1. i - 1 \in Nat /\ (i - 1) + 1 = i
        BY <3>2
      <4>2. g[i] = F[g[i - 1]] /\ g[i - 1] \in X
        BY <1>2, <4>1
      <4> QED
        BY <3>2, <4>2 DEF Further
    <3> QED
      BY <3>1, <3>2
  <2> QED
    BY <2>1
<1>4. r = Rec(r)
  BY <1>3
<1> HIDE DEF r
<1>5. r[0] = S \ Avoid
  BY <1>4
<1>6. ASSUME NEW n \in Nat  PROVE r[n + 1] = Further(succ, S, Avoid, r[n])
  <2>1. n + 1 \in Nat /\ n + 1 # 0 /\ (n + 1) - 1 = n
    OBVIOUS
  <2> QED
    BY <1>4, <2>1 DEF Further
<1> DEFINE A == {n \in Nat : r[n] \in X}
<1>7. A = Nat
  <2>1. 0 \in A
    BY <1>5, <1>1
  <2>2. ASSUME NEW n \in A  PROVE n + 1 \in A
    BY <1>6, <1>1 DEF Further, IsGraph
  <2> HIDE DEF A
  <2>3. A \in SUBSET Nat
    BY DEF A
  <2> QED
    BY <2>1, <2>2, <2>3, SetInduction
<1>8. r \in [Nat -> X]
  BY <1>4, <1>7
<1>9. IsSearch(r, succ, S, Avoid)
  BY <1>5, <1>6, <1>8 DEF IsSearch
<1>10. ReachableAvoiding(succ, S, Avoid) = r[Cardinality(DOMAIN succ)]
  BY DEF ReachableAvoiding, r
<1> QED
  BY <1>9, <1>10

LEMMA SearchGrows ==
    ASSUME NEW succ, IsGraph(succ), NEW S \in SUBSET DOMAIN succ, NEW Avoid,
           NEW r, IsSearch(r, succ, S, Avoid), NEW n \in Nat
    PROVE  r[n] \subseteq r[n + 1]
<1> DEFINE A == {i \in Nat : r[i] \subseteq r[i + 1]}
<1>1. 0 \in A
  BY DEF IsSearch, Further
<1>2. ASSUME NEW i \in A  PROVE i + 1 \in A
  <2>1. r[i] \subseteq r[i + 1] /\ i + 1 \in Nat
    OBVIOUS
  <2>2. Further(succ, S, Avoid, r[i]) \subseteq Further(succ, S, Avoid, r[i + 1])
    BY <2>1 DEF Further
  <2>3. r[i + 1] \subseteq r[(i + 1) + 1]
    BY <2>1, <2>2 DEF IsSearch
  <2> QED
    BY <2>1, <2>3
<1> HIDE DEF A
<1>3. A \in SUBSET Nat
  BY DEF A
<1>4. A = Nat
  BY <1>1, <1>2, <1>3, SetInduction
<1> QED
  BY <1>4 DEF A

\* After as many steps as there are nodes nothing new is found.
LEMMA SearchEnds ==
    ASSUME NEW succ, IsGraph(succ), NEW S \in SUBSET DOMAIN succ, NEW Avoid,
           NEW r, IsSearch(r, succ, S, Avoid)
    PROVE  LET N == Cardinality(DOMAIN succ) IN N \in Nat /\ r[N + 1] = r[N]
<1> DEFINE D == DOMAIN succ
           N == Cardinality(D)
           A == {i \in Nat : r[i + 1] = r[i] \/ Cardinality(r[i]) >= i}
<1>1. N \in Nat /\ IsFiniteSet(D)
  BY FS_CardinalityType DEF IsGraph
<1>2. \A i \in Nat : r[i] \subseteq D
  BY DEF IsSearch
<1>3. \A i \in Nat : IsFiniteSet(r[i]) /\ Cardinality(r[i]) \in Nat
  BY <1>1, <1>2, FS_Subset, FS_CardinalityType
<1>4. 0 \in A
  BY <1>3
<1>5. ASSUME NEW i \in A  PROVE i + 1 \in A
  <2>1. i + 1 \in Nat /\ r[i] \subseteq r[i + 1]
    BY SearchGrows
  <2>2. CASE r[i + 1] = r[i]
    <3>1. r[(i + 1) + 1] = r[i + 1]
      BY <2>1, <2>2 DEF IsSearch
    <3> QED
      BY <2>1, <3>1
  <2>3. CASE r[i + 1] # r[i]
    <3>1. Cardinality(r[i]) < Cardinality(r[i + 1])
      BY <1>3, <2>1, <2>3, FS_Subset
    <3>2. Cardinality(r[i]) >= i
      BY <2>3
    <3>3. Cardinality(r[i + 1]) >= i + 1
      BY <1>3, <2>1, <3>1, <3>2
    <3> QED
      BY <2>1, <3>3
  <2> QED
    BY <2>2, <2>3
<1>6. A = Nat
  <2> HIDE DEF A
  <2>1. A \in SUBSET Nat
    BY DEF A
  <2> QED
    BY <1>4, <1>5, <2>1, SetInduction
<1>7. r[N + 1] = r[N]
  <2>1. CASE Cardinality(r[N]) >= N
    <3>1. r[N] = D
      BY <1>1, <1>2, <1>3, <2>1, FS_Subset
    <3>2. N + 1 \in Nat /\ r[N] \subseteq r[N + 1]
      <4> HIDE DEF N
      <4>1. r[N] \subseteq r[N + 1]
        BY <1>1, SearchGrows, Zenon
      <4> QED
        BY <1>1, <4>1
    <3>3. r[N + 1] \subseteq D
      BY <1>2, <3>2
    <3> QED
      BY <3>1, <3>2, <3>3
  <2> QED
    BY <1>1, <1>6, <2>1
<1> QED
  BY <1>1, <1>7

\* What is reachable is closed under the successors, and is within every closed set.
LEMMA ReachableExact ==
    ASSUME NEW succ, IsGraph(succ), NEW S \in SUBSET DOMAIN succ, NEW Avoid
    PROVE  LET R == ReachableAvoiding(succ, S, Avoid) IN
           /\ R \subseteq DOMAIN succ /\ R \cap Avoid = {} /\ S \ Avoid \subseteq R
           /\ \A b \in R : succ[b] \ Avoid \subseteq R
           /\ \A C : S \ Avoid \subseteq C /\ (\A b \in R \cap C : succ[b] \ Avoid \subseteq C)
                       => R \subseteq C
<1> DEFINE R == ReachableAvoiding(succ, S, Avoid)
           N == Cardinality(DOMAIN succ)
<1>1. PICK r : IsSearch(r, succ, S, Avoid) /\ R = r[N]
  BY SearchIterates
<1>2. N \in Nat /\ r[N + 1] = r[N]
  BY <1>1, SearchEnds
<1> HIDE DEF N
<1>3. R = Further(succ, S, Avoid, R) /\ R \subseteq DOMAIN succ
  BY <1>1, <1>2 DEF IsSearch
<1>4. /\ R \subseteq DOMAIN succ /\ R \cap Avoid = {} /\ S \ Avoid \subseteq R
      /\ \A b \in R : succ[b] \ Avoid \subseteq R
  BY <1>3 DEF Further
<1>5. ASSUME NEW C, S \ Avoid \subseteq C, \A b \in R \cap C : succ[b] \ Avoid \subseteq C
      PROVE  R \subseteq C
  <2> DEFINE A == {i \in Nat : r[i] \subseteq C /\ r[i] \subseteq R}
  <2>1. 0 \in A
    BY <1>1, <1>4, <1>5 DEF IsSearch
  <2>2. ASSUME NEW i \in A  PROVE i + 1 \in A
    <3>1. r[i + 1] = Further(succ, S, Avoid, r[i])
      BY <1>1 DEF IsSearch
    <3>2. \A b \in r[i] : succ[b] \ Avoid \subseteq C /\ succ[b] \ Avoid \subseteq R
      BY <1>4, <1>5
    <3> QED
      BY <1>4, <1>5, <3>1, <3>2 DEF Further
  <2> HIDE DEF A
  <2>3. A \in SUBSET Nat
    BY DEF A
  <2>4. A = Nat
    BY <2>1, <2>2, <2>3, SetInduction
  <2> QED
    BY <1>1, <1>2, <2>4 DEF A
<1> QED
  BY <1>4, <1>5

\* The same, when no block is avoided.
LEMMA ReachableLeast ==
    ASSUME NEW succ, IsGraph(succ), NEW S \in SUBSET DOMAIN succ
    PROVE  /\ Reachable(succ, S) \subseteq DOMAIN succ /\ S \subseteq Reachable(succ, S)
           /\ \A b \in Reachable(succ, S) : succ[b] \subseteq Reachable(succ, S)
           /\ \A C : S \subseteq C /\ (\A b \in Reachable(succ, S) \cap C : succ[b] \subseteq C)
                       => Reachable(succ, S) \subseteq C
<1> DEFINE R == ReachableAvoiding(succ, S, {})
<1>1. /\ R \subseteq DOMAIN succ /\ S \ {} \subseteq R
      /\ \A b \in R : succ[b] \ {} \subseteq R
      /\ \A C : S \ {} \subseteq C /\ (\A b \in R \cap C : succ[b] \ {} \subseteq C)
                  => R \subseteq C
  BY ReachableExact, Zenon
<1>2. \A T : T \ {} = T
  OBVIOUS
<1>3. Reachable(succ, S) = R
  BY DEF Reachable
<1> HIDE DEF R
<1> QED
  BY <1>1, <1>2, <1>3
=============================================================================
