----------------------- MODULE ControlDependenceProofs ------------------------
(***************************************************************************)
(* What holds of the control dependence analyses on every graph: the       *)
(* search by counters finds all nodes that inevitably reach its targets,   *)
(* and only those unless a target inevitably returns; NTSCD2 and the       *)
(* fixpoint of Ranganath's algorithm compute the non-termination sensitive *)
(* control dependences, the post-dominance frontiers the standard ones,    *)
(* the closure is the smallest, and DOD finds what is decided in order.    *)
(*                                                                         *)
(* The nodes that inevitably reach T are the smallest closed set that      *)
(* holds T, so no proof needs an induction along paths: a set that is      *)
(* closed and holds T holds all of them.                                   *)
(***************************************************************************)
EXTENDS ControlDependence, FlowGraphProofs

-----------------------------------------------------------------------------
(* Sets of nodes and listings of them.                                       *)

LEMMA GraphType ==
    ASSUME succ \in Graphs
    PROVE  succ \in [Node -> SUBSET Node]
  BY GraphAssumption

\* All the proofs need to know of the width of the counters.
LEMMA LimitType == ShortLimit \in Nat /\ ShortLimit > 1
  BY DEF ShortLimit

\* Sets of nodes are finite, and so small that a counter can count them.
LEMMA NodeSets ==
    ASSUME NEW T \in SUBSET Node
    PROVE  /\ IsFiniteSet(T)
           /\ Cardinality(T) \in Nat
           /\ Cardinality(T) < ShortLimit
<1>1. IsFiniteSet(T) /\ Cardinality(T) <= Cardinality(Node)
  BY GraphAssumption, FS_Subset
<1>2. Cardinality(T) \in Nat
  BY <1>1, FS_CardinalityType
<1>3. Cardinality(Node) \in Nat /\ Cardinality(Node) < ShortLimit
  BY GraphAssumption, FS_CardinalityType
<1>4. ShortLimit \in Nat
  BY LimitType
<1>5. Cardinality(T) < ShortLimit
  BY <1>1, <1>2, <1>3, <1>4
<1> QED
  BY <1>1, <1>2, <1>5

\* A listing of T contains its elements, each at one place.
LEMMA Listing ==
    ASSUME NEW T \in SUBSET Node, NEW s \in SetToSeqs(T)
    PROVE  /\ s \in Seq(Node)
           /\ \A i \in DOMAIN s : s[i] \in T
           /\ \A m \in T : \E i \in DOMAIN s : s[i] = m
           /\ \A i, j \in DOMAIN s : s[i] = s[j] => i = j
<1> DEFINE D == 1 .. Cardinality(T)
<1>1. IsFiniteSet(T) /\ Cardinality(T) \in Nat
  BY NodeSets
<1>2. s \in [D -> T] /\ \A i, j \in D : i # j => s[i] # s[j]
  BY DEF SetToSeqs
<1>3. IsFiniteSet(D) /\ Cardinality(D) = Cardinality(T)
  <2>1. IsFiniteSet(D) /\ Cardinality(D) = IF 1 > Cardinality(T) THEN 0 ELSE Cardinality(T) - 1 + 1
    BY <1>1, FS_Interval
  <2> QED
    BY <2>1, <1>1
<1>4. s \in Injection(D, T)
  BY <1>2 DEF Injection, IsInjective
<1>5. s \in Surjection(D, T)
  BY <1>1, <1>3, <1>4, FS_Injection
<1>6. s \in Seq(Node)
  BY <1>1, <1>2
<1> QED
  BY <1>2, <1>5, <1>6 DEF Surjection

-----------------------------------------------------------------------------
(* Inevitable nodes.                                                         *)

LEMMA InevitableSmallest ==
    ASSUME NEW g, NEW T, NEW C \in SUBSET Node, T \subseteq C, Closed(g, C)
    PROVE  Inevitable(g, T) \subseteq C
  BY DEF Inevitable

LEMMA InevitableHolds ==
    ASSUME NEW g, NEW T \in SUBSET Node
    PROVE  T \subseteq Inevitable(g, T) /\ Inevitable(g, T) \subseteq Node
  BY DEF Inevitable

LEMMA InevitableClosed ==
    ASSUME NEW g, NEW T \in SUBSET Node
    PROVE  Closed(g, Inevitable(g, T))
<1> SUFFICES ASSUME NEW m \in Node, g[m] # {}, g[m] \subseteq Inevitable(g, T),
                    NEW C \in SUBSET Node, T \subseteq C, Closed(g, C)
             PROVE  m \in C
  BY DEF Closed, Inevitable
<1>1. g[m] \subseteq C
  BY InevitableSmallest
<1> QED
  BY <1>1 DEF Closed

\* What inevitably reaches m inevitably reaches what m inevitably reaches.
LEMMA InevitableTransitive ==
    ASSUME NEW g, NEW T \in SUBSET Node, NEW m \in Inevitable(g, T)
    PROVE  Inevitable(g, {m}) \subseteq Inevitable(g, T)
<1>1. Inevitable(g, T) \in SUBSET Node /\ Closed(g, Inevitable(g, T))
  BY InevitableHolds, InevitableClosed
<1> QED
  BY <1>1, InevitableSmallest

-----------------------------------------------------------------------------
(* Types.                                                                    *)

\* A counter that is not 0 counts down; only 1 is followed by 0.
LEMMA DecType ==
    ASSUME NEW c \in 0 .. ShortLimit - 1
    PROVE  /\ Dec(c) \in 0 .. ShortLimit - 1
           /\ c > 0 => Dec(c) = c - 1
           /\ Dec(c) = 0 => c = 1
<1>1. Dec(c) = (c + ShortLimit - 1) % ShortLimit
  BY DEF Dec
<1>2. ASSUME NEW L \in Nat, L > 1, NEW d \in 0 .. L - 1, d > 0
      PROVE  (d + L - 1) % L = d - 1
  BY <1>2
<1>3. ASSUME NEW L \in Nat, L > 1
      PROVE  (0 + L - 1) % L = L - 1
  BY <1>3
<1>4. CASE c = 0
  BY <1>1, <1>3, <1>4, LimitType
<1>5. CASE c > 0
  <2>1. Dec(c) = c - 1
    BY <1>1, <1>2, <1>5, LimitType
  <2> QED
    BY <1>5, <2>1, LimitType
<1> QED
  BY <1>4, <1>5, LimitType

LEMMA CounterType ==
    ASSUME NEW c \in 0 .. ShortLimit - 1
    PROVE  c \in Nat /\ (c >= 1 => c > 0)
  BY LimitType

LEMMA ReleasedType ==
    ASSUME TypeOK, NEW x
    PROVE  Released(x) \subseteq Node
  BY GraphType DEF TypeOK, Released, Pred

LEMMA SplitType ==
    ASSUME NEW C
    PROVE  Split(C) \subseteq Node
  BY DEF Split, Predicates

LEMMA BeginSearchType ==
    ASSUME TypeOK, NEW T \in SUBSET Node, BeginSearch(T)
    PROVE  /\ targets' \subseteq Node /\ colored' \subseteq Node
           /\ counter' \in [Node -> 0 .. ShortLimit - 1]
           /\ stack' \in Seq(Node)
<1>1. ASSUME NEW m \in Node PROVE Cardinality(succ[m]) \in 0 .. ShortLimit - 1
  <2>1. succ[m] \in SUBSET Node
    BY GraphType DEF TypeOK
  <2>2. Cardinality(succ[m]) \in Nat /\ Cardinality(succ[m]) < ShortLimit
    BY <2>1, NodeSets
  <2>3. ShortLimit \in Nat
    BY LimitType
  <2> QED
    BY <2>2, <2>3
<1>2. counter' \in [Node -> 0 .. ShortLimit - 1]
  BY <1>1 DEF BeginSearch
<1>3. stack' \in Seq(Node)
  BY Listing DEF BeginSearch
<1> QED
  BY <1>2, <1>3 DEF BeginSearch

LEMMA processNodeType ==
    ASSUME TypeOK, NEW m \in Node
    PROVE  processNode(m) \in [Node -> [Node -> SUBSET Node]]
  BY DEF TypeOK, processNode

LEMMA InitType == Init => TypeOK
<1> SUFFICES ASSUME Init PROVE TypeOK
  OBVIOUS
<1>1. succ \in [Node -> SUBSET Node]
  BY GraphType DEF Init
<1>2. seed \subseteq Node
  BY GraphAssumption DEF Init
<1>3. counter \in [Node -> 0 .. ShortLimit - 1] /\ stack \in Seq(Node)
  BY LimitType DEF Init
<1>4. S \in [Node -> [Node -> SUBSET Node]]
  BY <1>1 DEF Init
<1>5. cd \in [Node -> SUBSET Node] /\ onPaths \in [Node -> SUBSET Node]
  BY DEF Init
<1> QED
  BY <1>2, <1>3, <1>4, <1>5 DEF Init, TypeOK

LEMMA PopType == TypeOK /\ Pop => TypeOK'
<1> SUFFICES ASSUME TypeOK, Pop PROVE TypeOK'
  OBVIOUS
<1> DEFINE x == Head(stack)
<1>1. colored' \subseteq Node
  BY ReleasedType DEF TypeOK, Pop
<1>2. counter' \in [Node -> 0 .. ShortLimit - 1]
  BY DecType DEF TypeOK, Pop
<1>3. stack' \in Seq(Node)
  <2>1. PICK s \in SetToSeqs(Released(x)) : stack' = s \o Tail(stack)
    BY DEF Pop
  <2>2. s \in Seq(Node)
    BY Listing, ReleasedType
  <2>3. Tail(stack) \in Seq(Node)
    BY DEF TypeOK, Pop
  <2> QED
    BY <2>1, <2>2, <2>3
<1> QED
  BY <1>1, <1>2, <1>3 DEF TypeOK, Pop, input, rounds

LEMMA SearchesType ==
    TypeOK /\ (BeginNTSCD \/ BeginGamma \/ EndNTSCD \/ AddToClosure) => TypeOK'
<1> SUFFICES ASSUME TypeOK, BeginNTSCD \/ BeginGamma \/ EndNTSCD \/ AddToClosure
             PROVE  TypeOK'
  OBVIOUS
<1>1. CASE BeginNTSCD
  <2>1. PICK t \in left : left' = left \ {t} /\ BeginSearch({t})
    BY <1>1 DEF BeginNTSCD
  <2>2. {t} \in SUBSET Node
    BY DEF TypeOK
  <2>3. /\ targets' \subseteq Node /\ colored' \subseteq Node
        /\ counter' \in [Node -> 0 .. ShortLimit - 1]
        /\ stack' \in Seq(Node)
    BY <2>1, <2>2, BeginSearchType
  <2> QED
    BY <1>1, <2>1, <2>3 DEF TypeOK, BeginNTSCD, input, rounds
<1>2. CASE BeginGamma
  <2>1. /\ targets' \subseteq Node /\ colored' \subseteq Node
        /\ counter' \in [Node -> 0 .. ShortLimit - 1]
        /\ stack' \in Seq(Node)
    BY <1>2, BeginSearchType DEF BeginGamma, TypeOK
  <2> QED
    BY <1>2, <2>1 DEF TypeOK, BeginGamma, input, rounds
<1>3. CASE EndNTSCD
  <2>1. cd' \in [Node -> SUBSET Node]
    BY <1>3, SplitType DEF TypeOK, EndNTSCD
  <2>2. onPaths' \in [Node -> SUBSET Node]
    BY <1>3 DEF TypeOK, EndNTSCD
  <2>3. exact' \in BOOLEAN
    BY <1>3 DEF TypeOK, EndNTSCD
  <2> QED
    BY <1>3, <2>1, <2>2, <2>3 DEF TypeOK, EndNTSCD, input, search, rounds
<1>4. CASE AddToClosure
  <2>1. X' \subseteq Node /\ X \subseteq X'
    <3>1. Addable(X, colored) \subseteq Node
      BY DEF Addable
    <3> QED
      BY <1>4, <3>1 DEF TypeOK, AddToClosure
  <2>2. exact' \in BOOLEAN
    BY <1>4 DEF TypeOK, AddToClosure
  <2>3. phase' \in {"done", "idle"}
    BY <1>4 DEF AddToClosure
  <2> QED
    BY <1>4, <2>1, <2>2, <2>3 DEF TypeOK, AddToClosure, input, search, rounds
<1> QED
  BY <1>1, <1>2, <1>3, <1>4

LEMMA NTSCD2Type ==
    TypeOK /\ (BeginNTSCD2 \/ Examine \/ NextRound \/ EndNTSCD2) => TypeOK'
<1> SUFFICES ASSUME TypeOK, BeginNTSCD2 \/ Examine \/ NextRound \/ EndNTSCD2
             PROVE  TypeOK'
  OBVIOUS
<1>1. \A x : Pred(succ, x) \subseteq Node
  BY GraphType DEF Pred, TypeOK
<1>2. CASE BeginNTSCD2
  BY <1>1, <1>2 DEF TypeOK, BeginNTSCD2, input
<1>3. CASE Examine
  <2>1. PICK m \in frontier : frontier' = frontier \ {m} /\ ExamineNode(m)
    BY <1>3 DEF Examine
  <2>2. colored' \subseteq Node /\ next' \subseteq Node /\ progress' \in BOOLEAN
    BY <1>1, <2>1 DEF ExamineNode, TypeOK
  <2> QED
    BY <1>3, <2>1, <2>2 DEF TypeOK, Examine, input
<1>4. CASE NextRound
  BY <1>4 DEF TypeOK, NextRound, input, search
<1>5. CASE EndNTSCD2
  <2>1. cd' \in [Node -> SUBSET Node]
    BY <1>5, SplitType DEF TypeOK, EndNTSCD2
  <2> QED
    BY <1>5, <2>1 DEF TypeOK, EndNTSCD2, input, search, rounds
<1> QED
  BY <1>2, <1>3, <1>4, <1>5

LEMMA RanganathType ==
    TypeOK /\ (ProcessRanganath \/ EndRoundRanganath) => TypeOK'
<1> SUFFICES ASSUME TypeOK, ProcessRanganath \/ EndRoundRanganath PROVE TypeOK'
  OBVIOUS
<1>1. CASE ProcessRanganath
  <2>1. S' \in [Node -> [Node -> SUBSET Node]] /\ left' \subseteq Node
    BY <1>1, processNodeType DEF ProcessRanganath, TypeOK
  <2>2. progress' \in BOOLEAN
    BY <1>1 DEF ProcessRanganath, TypeOK
  <2> QED
    BY <1>1, <2>1, <2>2 DEF TypeOK, ProcessRanganath, input, search
<1>2. CASE EndRoundRanganath
  <2>1. cd' \in [Node -> SUBSET Node] /\ left' \subseteq Node /\ phase' \in {"search", "done"}
    BY <1>2 DEF EndRoundRanganath, TypeOK, Predicates
  <2> QED
    BY <1>2, <2>1 DEF TypeOK, EndRoundRanganath, input, search
<1> QED
  BY <1>1, <1>2

LEMMA FrontierType == TypeOK /\ ComputeFrontier => TypeOK'
<1> SUFFICES ASSUME TypeOK, ComputeFrontier PROVE TypeOK'
  OBVIOUS
<1>1. PICK b \in left :
        /\ left' = left \ {b}
        /\ cd' = [cd EXCEPT ![b] =
              {p \in Pred(succ, b) : ipdom(p) # b}
              \cup {f \in UNION {cd[c] : c \in Children(b)} : Up(b, f)}]
  BY DEF ComputeFrontier
<1>2. Pred(succ, b) \subseteq Node
  BY GraphType DEF Pred, TypeOK
<1>3. UNION {cd[c] : c \in Children(b)} \subseteq Node
  BY DEF Children, TypeOK
<1>4. cd' \in [Node -> SUBSET Node]
  BY <1>1, <1>2, <1>3 DEF TypeOK
<1> QED
  BY <1>1, <1>4 DEF TypeOK, ComputeFrontier, input, search, rounds

\* Every variable keeps its type: in particular no counter leaves the range of an
\* unsigned short, however often a predecessor is decremented, and the set to be closed
\* stays within the closure.
THEOREM TypeCorrect == Spec => []TypeOK
<1>1. Init => TypeOK
  BY InitType
<1>2. TypeOK /\ [Next]_vars => TypeOK'
  <2>1. TypeOK /\ Next => TypeOK'
    BY PopType, SearchesType, NTSCD2Type, RanganathType, FrontierType DEF Next
  <2>2. TypeOK /\ UNCHANGED vars => TypeOK'
    BY DEF TypeOK, vars, input, search, rounds
  <2> QED
    BY <2>1, <2>2
<1> QED
  BY <1>1, <1>2, PTL DEF Spec

-----------------------------------------------------------------------------
(* The search by counters.                                                   *)

Counting == job \in {"NTSCD", "closure"} /\ phase = "search"

OnStack == {stack[i] : i \in DOMAIN stack}

\* Nodes that are done with, unless they are to be pushed again.
Popped == colored \ OnStack

\* What is left of the stack, and what Pop adds to it.
LEMMA PopStack ==
    ASSUME TypeOK, Pop, NEW x, x = Head(stack)
    PROVE  /\ x \in Node /\ x \in OnStack
           /\ \A y : y \in OnStack' <=> y \in Released(x) \/ \E i \in DOMAIN stack : i # 1 /\ stack[i] = y
           /\ /\ Released(x) \cap OnStack = {}
              /\ \A i, j \in DOMAIN stack : stack[i] = stack[j] => i = j
              => \A i, j \in DOMAIN stack' : stack'[i] = stack'[j] => i = j
<1>1. stack \in Seq(Node) /\ stack # <<>>
  BY DEF TypeOK, Pop
<1>2. PICK s \in SetToSeqs(Released(x)) : stack' = s \o Tail(stack)
  BY DEF Pop
<1>3. Released(x) \in SUBSET Node
  BY ReleasedType
<1>4. /\ s \in Seq(Node)
      /\ \A i \in DOMAIN s : s[i] \in Released(x)
      /\ \A m \in Released(x) : \E i \in DOMAIN s : s[i] = m
      /\ \A i, j \in DOMAIN s : s[i] = s[j] => i = j
  BY <1>3, Listing
<1> DEFINE t == Tail(stack)
<1>5. /\ Len(stack) \in Nat /\ Len(stack) >= 1 /\ DOMAIN stack = 1 .. Len(stack)
      /\ t \in Seq(Node) /\ Len(t) = Len(stack) - 1
      /\ \A i \in 1 .. Len(t) : t[i] = stack[i + 1]
  BY <1>1
<1>6. x \in Node /\ x \in OnStack
  BY <1>1, <1>5 DEF OnStack
<1>7. /\ Len(s) \in Nat /\ DOMAIN s = 1 .. Len(s)
      /\ DOMAIN stack' = 1 .. (Len(s) + Len(t))
      /\ \A i \in 1 .. Len(s) : stack'[i] = s[i]
      /\ \A i \in 1 .. Len(t) : stack'[Len(s) + i] = t[i]
      /\ \A i \in DOMAIN stack' : i > Len(s) => stack'[i] = t[i - Len(s)]
  BY <1>2, <1>4, <1>5
<1> HIDE DEF t
<1>8. ASSUME NEW i \in DOMAIN stack'
      PROVE  \/ i \in DOMAIN s /\ stack'[i] = s[i]
             \/ i > Len(s) /\ i - Len(s) + 1 \in DOMAIN stack /\ i - Len(s) + 1 # 1
                /\ stack'[i] = stack[i - Len(s) + 1]
  <2>1. CASE i <= Len(s)
    BY <1>7, <2>1
  <2>2. CASE i > Len(s)
    <3>1. i - Len(s) \in 1 .. Len(t) /\ i - Len(s) + 1 \in 1 .. Len(stack)
      BY <1>5, <1>7, <2>2
    <3>2. stack'[i] = t[i - Len(s)] /\ t[i - Len(s)] = stack[(i - Len(s)) + 1]
      BY <1>5, <1>7, <2>2, <3>1
    <3> QED
      BY <1>5, <1>7, <2>2, <3>1, <3>2
  <2> QED
    BY <1>7, <2>1, <2>2
<1>9. ASSUME NEW y
      PROVE  y \in OnStack' <=> y \in Released(x) \/ \E i \in DOMAIN stack : i # 1 /\ stack[i] = y
  <2>1. ASSUME y \in OnStack'
        PROVE  y \in Released(x) \/ \E i \in DOMAIN stack : i # 1 /\ stack[i] = y
    <3>1. PICK i \in DOMAIN stack' : stack'[i] = y
      BY <2>1 DEF OnStack
    <3> QED
      BY <1>4, <1>8, <3>1
  <2>2. ASSUME y \in Released(x) PROVE y \in OnStack'
    <3>1. PICK i \in DOMAIN s : s[i] = y
      BY <1>4, <2>2
    <3>2. i \in DOMAIN stack' /\ stack'[i] = y
      BY <1>5, <1>7, <3>1
    <3> QED
      BY <3>2 DEF OnStack
  <2>3. ASSUME NEW i \in DOMAIN stack, i # 1, stack[i] = y PROVE y \in OnStack'
    <3>1. i - 1 \in 1 .. Len(t) /\ t[i - 1] = y
      BY <1>5, <2>3
    <3>2. Len(s) + (i - 1) \in DOMAIN stack' /\ stack'[Len(s) + (i - 1)] = y
      BY <1>5, <1>7, <3>1
    <3> QED
      BY <3>2 DEF OnStack
  <2> QED
    BY <2>1, <2>2, <2>3
<1>10. ASSUME Released(x) \cap OnStack = {},
              \A i, j \in DOMAIN stack : stack[i] = stack[j] => i = j,
              NEW i \in DOMAIN stack', NEW j \in DOMAIN stack', stack'[i] = stack'[j]
       PROVE  i = j
  <2>1. i \in Nat /\ j \in Nat
    BY <1>5, <1>7
  <2>2. CASE i \in DOMAIN s /\ stack'[i] = s[i] /\ j \in DOMAIN s /\ stack'[j] = s[j]
    BY <1>4, <1>10, <2>2
  <2>3. ASSUME NEW k \in DOMAIN s, NEW l \in DOMAIN stack, s[k] = stack[l] PROVE FALSE
    BY <1>4, <1>10, <2>3 DEF OnStack
  <2>4. CASE /\ i - Len(s) + 1 \in DOMAIN stack /\ stack'[i] = stack[i - Len(s) + 1]
             /\ j - Len(s) + 1 \in DOMAIN stack /\ stack'[j] = stack[j - Len(s) + 1]
    <3>1. i - Len(s) + 1 = j - Len(s) + 1
      BY <1>10, <2>4
    <3> QED
      BY <1>7, <2>1, <3>1
  <2> QED
    BY <1>8, <1>10, <2>2, <2>3, <2>4
<1> QED
  BY <1>6, <1>9, <1>10

\* A node that is not coloured waits for no more nodes than there are.
Waits ==
    /\ targets \subseteq colored /\ OnStack \subseteq colored
    /\ \A m \in Node \ colored : succ[m] # {} =>
          counter[m] >= 1 /\ counter[m] <= Cardinality(succ[m] \ Popped)

\* Unless a target returns, a node waits for as many as there are.
WaitsExactly ==
    /\ \A i, j \in DOMAIN stack : stack[i] = stack[j] => i = j
    /\ \A m \in Node : counter[m] = Cardinality(succ[m] \ Popped)
    /\ colored \subseteq Inevitable(succ, targets)
    /\ \A m \in colored \ targets : succ[m] # {} /\ succ[m] \subseteq Popped

SearchInv == Counting => Waits /\ (NoReturn => WaitsExactly)

LEMMA BeginInv ==
    ASSUME TypeOK, NEW T \in SUBSET Node, BeginSearch(T), UNCHANGED succ
    PROVE  Waits' /\ (NoReturn' => WaitsExactly')
<1>1. PICK s \in SetToSeqs(T) : stack' = s
  BY DEF BeginSearch
<1>2. /\ \A i \in DOMAIN s : s[i] \in T
      /\ \A m \in T : \E i \in DOMAIN s : s[i] = m
      /\ \A i, j \in DOMAIN s : s[i] = s[j] => i = j
  BY Listing
<1>3. OnStack' = T /\ Popped' = {}
  BY <1>1, <1>2 DEF OnStack, Popped, BeginSearch
<1>4. ASSUME NEW m \in Node
      PROVE  /\ counter'[m] = Cardinality((succ[m] \ Popped)')
             /\ succ[m] # {} => counter'[m] >= 1
  <2>1. succ[m] \in SUBSET Node
    BY GraphType DEF TypeOK
  <2>2. IsFiniteSet(succ[m]) /\ Cardinality(succ[m]) \in Nat
    BY <2>1, NodeSets
  <2>3. succ[m] # {} => Cardinality(succ[m]) # 0
    BY <2>2, FS_EmptySet
  <2>4. counter'[m] = Cardinality(succ[m])
    BY DEF BeginSearch
  <2>5. (succ[m] \ Popped)' = succ[m]
    BY <1>3
  <2> QED
    BY <2>2, <2>3, <2>4, <2>5
<1>5. ASSUME NEW m \in Node \ colored', succ'[m] # {}
      PROVE  counter'[m] >= 1 /\ counter'[m] <= Cardinality((succ[m] \ Popped)')
  <2>1. succ[m] \in SUBSET Node
    BY GraphType DEF TypeOK
  <2>2. Cardinality(succ[m]) \in Nat
    BY <2>1, NodeSets
  <2>3. counter'[m] = Cardinality(succ[m])
    BY DEF BeginSearch
  <2> QED
    BY <1>4, <1>5, <2>2, <2>3
<1>6. Waits'
  BY <1>3, <1>5 DEF Waits, BeginSearch
<1>7. T \subseteq Inevitable(succ, T)
  BY InevitableHolds
<1>8. WaitsExactly'
  BY <1>1, <1>2, <1>3, <1>4, <1>7 DEF WaitsExactly, BeginSearch
<1> QED
  BY <1>6, <1>8

LEMMA PopWaits ==
    ASSUME TypeOK, Waits, Pop
    PROVE  Waits'
<1> DEFINE x == Head(stack)
<1>1. /\ x \in Node /\ x \in OnStack
      /\ \A y : y \in OnStack' <=> y \in Released(x) \/ \E i \in DOMAIN stack : i # 1 /\ stack[i] = y
  BY PopStack
<1>2. /\ colored' = colored \cup Released(x) /\ succ' = succ /\ targets' = targets
      /\ \A m \in Node : counter'[m] = IF x \in succ[m] THEN Dec(counter[m]) ELSE counter[m]
  BY DEF Pop, input
<1> HIDE DEF x
<1>3. targets' \subseteq colored' /\ OnStack' \subseteq colored'
  BY <1>1, <1>2 DEF Waits, OnStack
<1>4. Popped' \subseteq Popped \cup {x} /\ x \notin Popped
  <2>1. ASSUME NEW y \in Popped', y # x PROVE y \in Popped
    <3>1. y \in colored' /\ y \notin OnStack'
      BY DEF Popped
    <3>2. y \notin Released(x) /\ y \in colored
      BY <1>1, <1>2, <3>1
    <3>3. ASSUME NEW i \in DOMAIN stack, stack[i] = y PROVE FALSE
      <4>1. i # 1
        BY <2>1, <3>3 DEF x, TypeOK, Pop
      <4> QED
        BY <1>1, <3>1, <3>3, <4>1
    <3> QED
      BY <3>2, <3>3 DEF Popped, OnStack
  <2> QED
    BY <1>1, <2>1 DEF Popped
<1>5. ASSUME NEW m \in Node \ colored', succ'[m] # {}
      PROVE  counter'[m] >= 1 /\ counter'[m] <= Cardinality(succ'[m] \ Popped')
  <2>1. succ[m] \in SUBSET Node /\ succ \in [Node -> SUBSET Node]
    BY GraphType DEF TypeOK
  <2>2. counter[m] >= 1 /\ counter[m] <= Cardinality(succ[m] \ Popped) /\ counter[m] \in 0 .. ShortLimit - 1
    BY <1>2, <1>5 DEF Waits, TypeOK
  <2>3. counter[m] \in Nat /\ counter[m] > 0
    BY <2>2, CounterType
  <2> DEFINE W == succ[m] \ Popped
             V == succ'[m] \ Popped'
  <2>4. /\ IsFiniteSet(W) /\ Cardinality(W) \in Nat
        /\ IsFiniteSet(V) /\ Cardinality(V) \in Nat
        /\ IsFiniteSet(W \ {x}) /\ Cardinality(W \ {x}) \in Nat
    BY <1>2, <2>1, NodeSets
  <2>5. W \ {x} \subseteq V
    BY <1>2, <1>4
  <2>6. Cardinality(W \ {x}) <= Cardinality(V)
    BY <2>4, <2>5, FS_Subset
  <2>7. CASE x \in succ[m]
    <3>1. counter'[m] = Dec(counter[m]) /\ Dec(counter[m]) = counter[m] - 1
      BY <1>2, <2>2, <2>3, <2>7, DecType
    <3>2. m \notin Released(x)
      BY <1>2, <1>5
    <3>3. Dec(counter[m]) # 0
      BY <2>1, <2>7, <3>2 DEF Released, Pred
    <3>4. Cardinality(W \ {x}) = Cardinality(W) - 1
      BY <1>4, <2>4, <2>7, FS_RemoveElement
    <3> HIDE DEF W, V
    <3>5. counter'[m] >= 1
      BY <2>3, <3>1, <3>3
    <3>6. counter'[m] <= Cardinality(V)
      BY <2>2, <2>3, <2>4, <2>6, <3>1, <3>4 DEF W
    <3> QED
      BY <3>5, <3>6 DEF V
  <2>8. CASE x \notin succ[m]
    <3>1. counter'[m] = counter[m]
      BY <1>2, <2>8
    <3>2. W \ {x} = W
      BY <2>8
    <3> HIDE DEF W, V
    <3>3. counter'[m] <= Cardinality(V)
      BY <2>2, <2>3, <2>4, <2>6, <3>1, <3>2 DEF W
    <3> QED
      BY <2>2, <3>1, <3>3 DEF V
  <2> QED
    BY <2>7, <2>8
<1> QED
  BY <1>3, <1>5 DEF Waits

LEMMA PopWaitsExactly ==
    ASSUME TypeOK, Waits, WaitsExactly, NoReturn, Pop
    PROVE  WaitsExactly'
<1> DEFINE x == Head(stack)
<1>1. /\ x \in Node /\ x \in OnStack
      /\ \A y : y \in OnStack' <=> y \in Released(x) \/ \E i \in DOMAIN stack : i # 1 /\ stack[i] = y
      /\ /\ Released(x) \cap OnStack = {}
         /\ \A i, j \in DOMAIN stack : stack[i] = stack[j] => i = j
         => \A i, j \in DOMAIN stack' : stack'[i] = stack'[j] => i = j
  BY PopStack
<1>2. /\ colored' = colored \cup Released(x) /\ succ' = succ /\ targets' = targets
      /\ \A m \in Node : counter'[m] = IF x \in succ[m] THEN Dec(counter[m]) ELSE counter[m]
  BY DEF Pop, input
<1>3. x = stack[1] /\ 1 \in DOMAIN stack
  BY DEF TypeOK, Pop
<1> HIDE DEF x
<1>4. x \in colored /\ x \notin Popped
  BY <1>1 DEF Waits, Popped
<1>5. ASSUME NEW m \in Node
      PROVE  /\ succ[m] \in SUBSET Node
             /\ counter[m] \in Nat /\ counter[m] = Cardinality(succ[m] \ Popped)
             /\ counter[m] \in 0 .. ShortLimit - 1
             /\ IsFiniteSet(succ[m] \ Popped)
  <2>1. succ[m] \in SUBSET Node
    BY GraphType DEF TypeOK
  <2>2. IsFiniteSet(succ[m] \ Popped) /\ Cardinality(succ[m] \ Popped) \in Nat
    BY <2>1, NodeSets
  <2> QED
    BY <2>1, <2>2 DEF WaitsExactly, TypeOK
\* Who is released waits for x alone, and was not coloured before.
<1>6. ASSUME NEW p \in Released(x)
      PROVE  /\ p \in Node /\ x \in succ[p] /\ succ[p] \subseteq Popped \cup {x}
             /\ p \notin colored /\ p \in Inevitable(succ, targets)
  <2>1. p \in Node /\ x \in succ[p] /\ Dec(counter[p]) = 0
    BY GraphType DEF Released, Pred, TypeOK
  <2>2. counter[p] = 1
    BY <1>5, <2>1, DecType
  <2>3. Cardinality(succ[p] \ Popped) = 1 /\ IsFiniteSet(succ[p] \ Popped)
    BY <1>5, <2>1, <2>2
  <2>4. PICK y : succ[p] \ Popped = {y}
    BY <2>3, FS_Singleton
  <2>5. succ[p] \subseteq Popped \cup {x}
    BY <1>4, <2>1, <2>4
  <2>6. succ[p] \subseteq Inevitable(succ, targets)
    BY <1>4, <2>5 DEF Popped, WaitsExactly
  <2>7. p \notin targets
    BY <2>1, <2>6 DEF NoReturn
  <2>8. p \notin colored
    BY <1>4, <2>1, <2>7 DEF WaitsExactly
  <2>9. p \in Inevitable(succ, targets)
    BY <2>1, <2>6, InevitableClosed DEF Closed, TypeOK
  <2> QED
    BY <2>1, <2>5, <2>8, <2>9
<1>7. \A i, j \in DOMAIN stack' : stack'[i] = stack'[j] => i = j
  <2>1. Released(x) \cap OnStack = {}
    BY <1>6 DEF Waits
  <2> QED
    BY <1>1, <2>1 DEF WaitsExactly
<1>8. Popped' = Popped \cup {x}
  <2>1. ASSUME NEW y \in Popped' PROVE y \in Popped \cup {x}
    <3>1. y \in colored /\ y \notin Released(x)
      BY <1>1, <1>2, <2>1 DEF Popped
    <3>2. ASSUME NEW i \in DOMAIN stack, stack[i] = y PROVE y = x
      BY <1>1, <1>3, <2>1, <3>2 DEF Popped
    <3> QED
      BY <3>1, <3>2 DEF Popped, OnStack
  <2>2. ASSUME NEW y \in Popped \cup {x} PROVE y \in Popped'
    <3>1. y \in colored /\ y \notin Released(x)
      BY <1>4, <1>6, <2>2 DEF Popped
    <3>2. ASSUME NEW i \in DOMAIN stack, i # 1, stack[i] = y PROVE FALSE
      <4>1. y \in OnStack
        BY <3>2 DEF OnStack
      <4>2. y = x
        BY <2>2, <4>1 DEF Popped
      <4> QED
        BY <1>3, <3>2, <4>2 DEF WaitsExactly
    <3> QED
      BY <1>1, <1>2, <3>1, <3>2 DEF Popped
  <2> QED
    BY <2>1, <2>2
<1>9. ASSUME NEW m \in Node PROVE counter'[m] = Cardinality(succ[m] \ (Popped \cup {x}))
  <2> DEFINE W == succ[m] \ Popped
  <2>1. IsFiniteSet(W) /\ counter[m] = Cardinality(W) /\ counter[m] \in Nat
    BY <1>5
  <2>2. succ[m] \ (Popped \cup {x}) = W \ {x}
    OBVIOUS
  <2>3. CASE x \in succ[m]
    <3>1. x \in W
      BY <1>4, <2>3
    <3>2. Cardinality(W \ {x}) = Cardinality(W) - 1
      BY <2>1, <3>1, FS_RemoveElement
    <3>3. counter[m] # 0
      BY <2>1, <3>1, FS_EmptySet
    <3>4. Dec(counter[m]) = counter[m] - 1
      BY <1>5, <2>1, <3>3, DecType
    <3> QED
      BY <1>2, <2>1, <2>2, <2>3, <3>2, <3>4
  <2>4. CASE x \notin succ[m]
    <3>1. W \ {x} = W
      BY <2>4
    <3> QED
      BY <1>2, <2>1, <2>2, <2>4, <3>1
  <2> QED
    BY <2>3, <2>4
<1>10. colored' \subseteq Inevitable(succ, targets)
  BY <1>2, <1>6 DEF WaitsExactly
<1>11. ASSUME NEW m \in colored' \ targets
       PROVE  succ[m] # {} /\ succ[m] \subseteq Popped \cup {x}
  BY <1>2, <1>6, <1>11 DEF WaitsExactly
<1> QED
  BY <1>2, <1>7, <1>8, <1>9, <1>10, <1>11 DEF WaitsExactly

LEMMA SearchInvStep == TypeOK /\ SearchInv /\ [Next]_vars => SearchInv'
<1> SUFFICES ASSUME TypeOK, SearchInv, [Next]_vars, Counting'
             PROVE  Waits' /\ (NoReturn' => WaitsExactly')
  BY DEF SearchInv
<1>1. CASE BeginNTSCD
  <2>1. PICK t \in left : BeginSearch({t})
    BY <1>1 DEF BeginNTSCD
  <2>2. {t} \in SUBSET Node /\ UNCHANGED succ
    BY <1>1 DEF TypeOK, BeginNTSCD, input
  <2> QED
    BY <2>1, <2>2, BeginInv
<1>2. CASE BeginGamma
  <2>1. X \in SUBSET Node /\ UNCHANGED succ /\ BeginSearch(X)
    BY <1>2 DEF TypeOK, BeginGamma, input
  <2> QED
    BY <2>1, BeginInv
<1>3. CASE Pop
  <2>1. Counting /\ UNCHANGED <<succ, targets>>
    BY <1>3 DEF Pop, Counting, input
  <2>2. Waits /\ (NoReturn => WaitsExactly)
    BY <2>1 DEF SearchInv
  <2>3. NoReturn' <=> NoReturn
    BY <2>1 DEF NoReturn
  <2> QED
    BY <1>3, <2>2, <2>3, PopWaits, PopWaitsExactly
<1>4. CASE EndNTSCD \/ AddToClosure
  BY <1>4 DEF EndNTSCD, AddToClosure, Counting
<1>5. CASE BeginNTSCD2 \/ Examine \/ NextRound \/ EndNTSCD2
  BY <1>5 DEF BeginNTSCD2, Examine, NextRound, EndNTSCD2, Counting, input
<1>6. CASE ProcessRanganath \/ EndRoundRanganath
  BY <1>6 DEF ProcessRanganath, EndRoundRanganath, Counting, input
<1>7. CASE ComputeFrontier
  BY <1>7 DEF ComputeFrontier, Counting, input
<1>8. CASE UNCHANGED vars
  BY <1>8 DEF vars, input, search, SearchInv, Counting, Waits, NoReturn, WaitsExactly, Popped, OnStack
<1> QED
  BY <1>1, <1>2, <1>3, <1>4, <1>5, <1>6, <1>7, <1>8 DEF Next

LEMMA SearchInvariant == Spec => [](TypeOK /\ SearchInv)
<1>1. Init => SearchInv
  BY DEF Init, SearchInv, Counting
<1>2. TypeOK /\ SearchInv /\ [Next]_vars => SearchInv'
  BY SearchInvStep
<1> QED
  BY <1>1, <1>2, TypeCorrect, PTL DEF Spec

\* When the stack is empty, no node waits for nothing: the coloured nodes are closed.
\* So the search, in whatever order it takes nodes from its stack and however often it
\* pushes them, misses no node that inevitably reaches the targets.
THEOREM SearchFindsAll == Spec => []SearchComplete
<1>1. TypeOK /\ SearchInv => SearchComplete
  <2> SUFFICES ASSUME TypeOK, SearchInv, SearchDone
               PROVE  Inevitable(succ, targets) \subseteq colored
    BY DEF SearchComplete
  <2>1. Waits /\ Popped = colored
    BY DEF SearchInv, SearchDone, Counting, Popped, OnStack
  <2>2. ASSUME NEW m \in Node, succ[m] # {}, succ[m] \subseteq colored
        PROVE  m \in colored
    <3>1. succ[m] \ Popped = {} /\ Cardinality({}) = 0
      BY <2>1, <2>2, FS_EmptySet
    <3>2. m \notin colored => counter[m] >= 1 /\ counter[m] <= Cardinality(succ[m] \ Popped)
      BY <2>1, <2>2 DEF Waits
    <3>3. counter[m] \in Nat
      BY CounterType DEF TypeOK
    <3> QED
      BY <3>1, <3>2, <3>3
  <2>3. colored \in SUBSET Node /\ targets \subseteq colored /\ Closed(succ, colored)
    BY <2>1, <2>2 DEF TypeOK, Waits, Closed
  <2> QED
    BY <2>3, InevitableSmallest
<1> QED
  BY <1>1, SearchInvariant, PTL

\* Unless a target inevitably returns, a node is pushed once and counts the successors
\* that are not popped: who is released has all successors among the inevitable ones.
THEOREM SearchFindsNoOther == Spec => []SearchExact
<1>1. SearchInv /\ SearchComplete => SearchExact
  BY DEF SearchInv, SearchExact, SearchDone, Counting, WaitsExactly
<1> QED
  BY <1>1, SearchInvariant, SearchFindsAll, PTL

-----------------------------------------------------------------------------
(* NTSCD2.                                                                   *)

\* Every node that could be coloured is in the frontier; what a round without progress
\* has moved to the next one cannot be.
FrontierInv ==
    /\ targets \subseteq colored /\ colored \subseteq Inevitable(succ, targets)
    /\ \A m \in frontier \cup next : succ[m] # {}
    /\ \A m \in Node \ colored : (\E s \in succ[m] : s \in colored) => m \in frontier \cup next
    /\ ~ progress => \A m \in next : ~ (succ[m] \subseteq colored)

\* The nodes that the analysis has turned to have their dependences, but for the one for
\* which it searches.
NTSCD2Inv == job = "NTSCD2" =>
    /\ phase = "search" => FrontierInv /\ \E t \in Node \ left : targets = {t}
    /\ \A m \in Node \ left : (phase = "search" => m \notin targets) => cd[m] = NTSCDOn(m)
    /\ phase = "done" => left = {}

LEMMA SameDependences ==
    ASSUME UNCHANGED succ
    PROVE  \A m : NTSCDOn(m)' = NTSCDOn(m)
  BY DEF NTSCDOn, Split, Predicates, Inevitable, Closed

LEMMA PredType ==
    ASSUME TypeOK, NEW x
    PROVE  \A p : p \in Pred(succ, x) <=> p \in Node /\ x \in succ[p]
  BY GraphType DEF Pred, TypeOK

LEMMA ExamineInv ==
    ASSUME TypeOK, FrontierInv, NEW m \in frontier, ExamineNode(m),
           frontier' = frontier \ {m}, UNCHANGED <<succ, targets>>
    PROVE  FrontierInv'
<1>1. m \in Node /\ succ[m] # {}
  BY DEF FrontierInv, TypeOK
<1>2. CASE succ[m] \subseteq colored
  <2>1. /\ colored' = colored \cup {m}
        /\ next' = next \cup (Pred(succ, m) \ colored') /\ progress' = TRUE
    BY <1>2 DEF ExamineNode
  <2>2. succ[m] \subseteq Inevitable(succ, targets)
    BY <1>2 DEF FrontierInv
  <2>3. m \in Inevitable(succ, targets)
    BY <1>1, <2>2, InevitableClosed DEF Closed, TypeOK
  <2>4. \A p \in next' : succ[p] # {}
    BY <2>1, PredType DEF FrontierInv
  <2>5. ASSUME NEW p \in Node \ colored', NEW s \in succ[p], s \in colored'
        PROVE  p \in frontier' \cup next'
    <3>1. CASE s = m
      BY <2>1, <3>1, PredType
    <3>2. CASE s # m
      BY <2>1, <2>5, <3>2 DEF FrontierInv
    <3> QED
      BY <3>1, <3>2
  <2>6. targets \subseteq colored' /\ colored' \subseteq Inevitable(succ, targets)
    BY <2>1, <2>3 DEF FrontierInv
  <2>7. \A p \in frontier' : succ[p] # {}
    BY DEF FrontierInv
  <2> QED
    BY <2>1, <2>4, <2>5, <2>6, <2>7 DEF FrontierInv
<1>3. CASE ~ (succ[m] \subseteq colored)
  <2>1. next' = next \cup {m} /\ UNCHANGED <<colored, progress>>
    BY <1>3 DEF ExamineNode
  <2> QED
    BY <1>1, <1>3, <2>1 DEF FrontierInv
<1> QED
  BY <1>2, <1>3

\* A round without progress ends with all inevitable nodes coloured.
LEMMA FrontierDone ==
    ASSUME TypeOK, FrontierInv, frontier = {}, ~ progress
    PROVE  colored = Inevitable(succ, targets)
<1>1. ASSUME NEW m \in Node, succ[m] # {}, succ[m] \subseteq colored, m \notin colored
      PROVE  FALSE
  BY <1>1 DEF FrontierInv
<1>2. Closed(succ, colored)
  BY <1>1 DEF Closed
<1> QED
  BY <1>2, InevitableSmallest DEF FrontierInv, TypeOK

LEMMA NTSCD2Step == TypeOK /\ NTSCD2Inv /\ [Next]_vars => NTSCD2Inv'
<1> SUFFICES ASSUME TypeOK, NTSCD2Inv, [Next]_vars, job' = "NTSCD2"
             PROVE  /\ phase' = "search" => FrontierInv' /\ \E t \in Node \ left' : targets' = {t}
                    /\ \A m \in Node \ left' :
                          (phase' = "search" => m \notin targets') => cd'[m] = NTSCDOn(m)'
                    /\ phase' = "done" => left' = {}
  BY DEF NTSCD2Inv
<1>1. CASE BeginNTSCD2
  <2>1. PICK t \in left : /\ left' = left \ {t}
                          /\ targets' = {t} /\ colored' = {t}
                          /\ frontier' = Pred(succ, t) \ {t}
    BY <1>1 DEF BeginNTSCD2
  <2>2. /\ job = "NTSCD2" /\ phase = "idle" /\ phase' = "search" /\ t \in Node
        /\ next' = {} /\ UNCHANGED <<succ, cd>>
    BY <1>1 DEF BeginNTSCD2, input, TypeOK
  <2>3. {t} \subseteq Inevitable(succ, {t})
    BY <2>2, InevitableHolds
  <2>4. FrontierInv'
    BY <2>1, <2>2, <2>3, PredType DEF FrontierInv
  <2>5. ASSUME NEW m \in Node \ left', m \notin targets' PROVE cd'[m] = NTSCDOn(m)'
    BY <2>1, <2>2, <2>5, SameDependences DEF NTSCD2Inv
  <2> QED
    BY <2>1, <2>2, <2>4, <2>5
<1>2. CASE Examine
  <2>1. PICK m \in frontier : frontier' = frontier \ {m} /\ ExamineNode(m)
    BY <1>2 DEF Examine
  <2>2. job = "NTSCD2" /\ phase = "search" /\ UNCHANGED <<succ, targets, phase, left, cd>>
    BY <1>2 DEF Examine, input
  <2>3. FrontierInv /\ FrontierInv'
    BY <2>1, <2>2, ExamineInv DEF NTSCD2Inv
  <2> QED
    BY <2>2, <2>3, SameDependences DEF NTSCD2Inv
<1>3. CASE NextRound
  <2>1. /\ job = "NTSCD2" /\ phase = "search" /\ frontier = {}
        /\ frontier' = next /\ next' = {}
        /\ UNCHANGED <<succ, targets, colored, phase, left, cd>>
    BY <1>3 DEF NextRound, input, search
  <2>2. FrontierInv
    BY <2>1 DEF NTSCD2Inv
  <2>3. FrontierInv'
    BY <2>1, <2>2 DEF FrontierInv
  <2> QED
    BY <2>1, <2>3, SameDependences DEF NTSCD2Inv
<1>4. CASE EndNTSCD2
  <2>1. /\ job = "NTSCD2" /\ phase = "search" /\ frontier = {} /\ ~ progress
        /\ cd' = [m \in Node |-> IF m \in targets THEN Split(colored) ELSE cd[m]]
        /\ phase' = IF left = {} THEN "done" ELSE "idle"
        /\ UNCHANGED <<succ, targets, left>>
    BY <1>4 DEF EndNTSCD2, input, search
  <2>2. FrontierInv
    BY <2>1 DEF NTSCD2Inv
  <2>3. colored = Inevitable(succ, targets)
    BY <2>1, <2>2, FrontierDone
  <2>4. PICK t \in Node \ left : targets = {t}
    BY <2>1 DEF NTSCD2Inv
  <2>5. ASSUME NEW m \in Node \ left' PROVE cd'[m] = NTSCDOn(m)'
    <3>1. CASE m = t
      <4>1. cd'[m] = Split(Inevitable(succ, {m}))
        BY <2>1, <2>3, <2>4, <3>1
      <4> QED
        BY <2>1, <4>1, SameDependences DEF NTSCDOn
    <3>2. CASE m # t
      BY <2>1, <2>4, <3>2, SameDependences DEF NTSCD2Inv
    <3> QED
      BY <3>1, <3>2
  <2> QED
    BY <2>1, <2>5
<1>5. CASE BeginNTSCD \/ Pop \/ EndNTSCD \/ BeginGamma \/ AddToClosure
  BY <1>5 DEF BeginNTSCD, Pop, EndNTSCD, BeginGamma, AddToClosure, input
<1>6. CASE ProcessRanganath \/ EndRoundRanganath \/ ComputeFrontier
  BY <1>6 DEF ProcessRanganath, EndRoundRanganath, ComputeFrontier, input
<1>7. CASE UNCHANGED vars
  <2>1. UNCHANGED <<succ, job, phase, left, targets, colored, frontier, next, progress, cd>>
    BY <1>7 DEF vars, input, search, rounds
  <2>2. FrontierInv' <=> FrontierInv
    BY <2>1 DEF FrontierInv
  <2> QED
    BY <2>1, <2>2, SameDependences DEF NTSCD2Inv
<1> QED
  BY <1>1, <1>2, <1>3, <1>4, <1>5, <1>6, <1>7 DEF Next

-----------------------------------------------------------------------------
(* NTSCDRanganath.                                                           *)

\* All symbols are right, the first ones are there, and the nodes that this round has
\* processed without progress have nothing to pass on.
SymbolInv ==
    /\ \A m, p \in Node : \A q \in S[m][p] :
          p \in Predicates /\ q \in succ[p] /\ q \in Inevitable(succ, {m})
    /\ \A p \in Predicates : \A q \in succ[p] : q \in S[q][p]
    /\ phase = "search" /\ ~ progress => \A m \in Node \ left : processNode(m) = S

RanganathInv == job = "Ranganath" =>
    /\ SymbolInv
    /\ phase = "done" => \A m \in Node : cd[m] = NTSCDOn(m)

\* Sizes tell whether a set of successors is the set of all of them.
LEMMA AllSuccessors ==
    ASSUME TypeOK, NEW p \in Node, NEW T \in SUBSET succ[p]
    PROVE  /\ Cardinality(T) = Cardinality(succ[p]) <=> T = succ[p]
           /\ Cardinality(T) < Cardinality(succ[p]) <=> T # succ[p]
<1>1. succ[p] \in SUBSET Node
  BY GraphType DEF TypeOK
<1>2. IsFiniteSet(succ[p]) /\ Cardinality(succ[p]) \in Nat
  BY <1>1, NodeSets
<1>3. Cardinality(T) \in Nat
  BY <1>1, NodeSets
<1>4. Cardinality(T) <= Cardinality(succ[p]) /\ (Cardinality(T) = Cardinality(succ[p]) => T = succ[p])
  BY <1>2, FS_Subset
<1> QED
  BY <1>2, <1>3, <1>4

LEMMA processNodeAt ==
    ASSUME TypeOK, NEW m \in Node, NEW a \in Node, NEW p \in Node
    PROVE  /\ \A q \in S[a][p] : q \in processNode(m)[a][p]
           /\ \A q \in processNode(m)[a][p] : q \notin S[a][p] =>
                 /\ q \in S[m][p]
                 /\ \/ succ[m] = {a} /\ a # m
                    \/ m \in Predicates /\ p # m /\ Cardinality(S[a][m]) = Cardinality(succ[m])
           /\ succ[m] = {a} /\ a # m => S[m][p] \subseteq processNode(m)[a][p]
           /\ m \in Predicates /\ p # m /\ Cardinality(S[a][m]) = Cardinality(succ[m]) =>
                 S[m][p] \subseteq processNode(m)[a][p]
<1> DEFINE passes == \/ succ[m] = {a} /\ a # m
                     \/ m \in Predicates /\ p # m /\ Cardinality(S[a][m]) = Cardinality(succ[m])
<1>1. processNode(m)[a][p] = S[a][p] \cup IF passes THEN S[m][p] ELSE {}
  BY DEF processNode
<1> QED
  BY <1>1

\* A node passes on only what holds of those that it passes it to: they inevitably
\* reach it.
LEMMA SymbolsRight ==
    ASSUME TypeOK, SymbolInv, NEW m \in Node, NEW a \in Node, NEW p \in Node,
           NEW q \in processNode(m)[a][p]
    PROVE  p \in Predicates /\ q \in succ[p] /\ q \in Inevitable(succ, {a})
<1>1. CASE q \in S[a][p]
  BY <1>1 DEF SymbolInv
<1>2. CASE q \notin S[a][p]
  <2>1. /\ q \in S[m][p]
        /\ \/ succ[m] = {a} /\ a # m
           \/ m \in Predicates /\ p # m /\ Cardinality(S[a][m]) = Cardinality(succ[m])
    BY <1>2, processNodeAt
  <2>2. {a} \subseteq Inevitable(succ, {a}) /\ Closed(succ, Inevitable(succ, {a}))
    BY InevitableHolds, InevitableClosed
  <2>3. succ[m] # {} /\ succ[m] \subseteq Inevitable(succ, {a})
    <3>1. CASE succ[m] = {a}
      BY <2>2, <3>1
    <3>2. CASE m \in Predicates /\ Cardinality(S[a][m]) = Cardinality(succ[m])
      <4>1. S[a][m] \subseteq succ[m] /\ S[a][m] \subseteq Inevitable(succ, {a})
        BY DEF SymbolInv
      <4>2. S[a][m] = succ[m]
        BY <3>2, <4>1, AllSuccessors
      <4>3. succ[m] # {}
        <5>1. Cardinality(succ[m]) > 1
          BY <3>2 DEF Predicates
        <5>2. Cardinality({}) = 0
          BY FS_EmptySet
        <5> QED
          BY <5>1, <5>2
      <4> QED
        BY <4>1, <4>2, <4>3
    <3> QED
      BY <2>1, <3>1, <3>2
  <2>4. m \in Inevitable(succ, {a})
    BY <2>2, <2>3 DEF Closed
  <2>5. p \in Predicates /\ q \in succ[p] /\ q \in Inevitable(succ, {m})
    BY <2>1 DEF SymbolInv
  <2>6. q \in Inevitable(succ, {a})
    BY <2>4, <2>5, InevitableTransitive
  <2> QED
    BY <2>5, <2>6
<1> QED
  BY <1>1, <1>2

\* Where no node has anything to pass on, the nodes whose symbols m has as well are
\* closed: m has the symbols of all nodes that inevitably reach it.
LEMMA SymbolsComplete ==
    ASSUME TypeOK, SymbolInv, \A y \in Node : processNode(y) = S, NEW m \in Node
    PROVE  \A p \in Predicates : S[m][p] = succ[p] \cap Inevitable(succ, {m})
<1> DEFINE C == {y \in Node : y = m \/ \A p \in Node : S[y][p] \subseteq S[m][p]}
<1>1. ASSUME NEW y \in Node, succ[y] # {}, succ[y] \subseteq C
      PROVE  y \in C
  <2> SUFFICES ASSUME y # m PROVE \A p \in Node : S[y][p] \subseteq S[m][p]
    OBVIOUS
  <2>1. succ[y] \in SUBSET Node
    BY GraphType DEF TypeOK
  <2>2. IsFiniteSet(succ[y]) /\ Cardinality(succ[y]) \in Nat
    BY <2>1, NodeSets
  <2>3. CASE y \in Predicates
    <3>1. ASSUME NEW q \in succ[y] PROVE q \in S[m][y]
      <4>1. q \in S[q][y] /\ q \in C
        BY <1>1, <2>3 DEF SymbolInv
      <4> QED
        BY <4>1
    <3>2. S[m][y] = succ[y] /\ S[y][y] \subseteq succ[y]
      BY <3>1 DEF SymbolInv
    <3>3. ASSUME NEW p \in Node, p # y PROVE S[y][p] \subseteq S[m][p]
      <4>1. S[y][p] \subseteq processNode(y)[m][p]
        BY <2>3, <3>2, <3>3, processNodeAt
      <4> QED
        BY <4>1
    <3> QED
      BY <3>2, <3>3
  <2>4. CASE y \notin Predicates
    <3>1. Cardinality(succ[y]) # 0 /\ ~ (Cardinality(succ[y]) > 1)
      BY <1>1, <2>2, <2>4, FS_EmptySet DEF Predicates
    <3>2. Cardinality(succ[y]) = 1
      BY <2>2, <3>1
    <3>3. PICK a : succ[y] = {a}
      BY <2>2, <3>2, FS_Singleton
    <3>4. a \in Node /\ a \in C
      BY <1>1, <2>1, <3>3
    <3>5. CASE a = y
      BY <3>4, <3>5
    <3>6. CASE a # y
      <4>1. ASSUME NEW p \in Node PROVE S[y][p] \subseteq S[a][p]
        <5>1. S[y][p] \subseteq processNode(y)[a][p]
          BY <3>3, <3>4, <3>6, processNodeAt
        <5> QED
          BY <3>4, <5>1
      <4> QED
        BY <3>4, <4>1
    <3> QED
      BY <3>5, <3>6
  <2> QED
    BY <2>3, <2>4
<1>2. Inevitable(succ, {m}) \subseteq C
  <2>1. C \in SUBSET Node /\ {m} \subseteq C /\ Closed(succ, C)
    BY <1>1 DEF Closed
  <2> HIDE DEF C
  <2> QED
    BY <2>1, InevitableSmallest
<1>3. ASSUME NEW p \in Predicates, NEW q \in succ[p], q \in Inevitable(succ, {m})
      PROVE  q \in S[m][p]
  <2>1. q \in S[q][p] /\ p \in Node
    BY DEF SymbolInv, Predicates
  <2>2. q \in C
    BY <1>2, <1>3
  <2> QED
    BY <2>1, <2>2
<1>4. ASSUME NEW p \in Predicates, NEW q \in S[m][p]
      PROVE  q \in succ[p] /\ q \in Inevitable(succ, {m})
  BY DEF SymbolInv, Predicates
<1> QED
  BY <1>3, <1>4

LEMMA RanganathStep == TypeOK /\ RanganathInv /\ [Next]_vars => RanganathInv'
<1> SUFFICES ASSUME TypeOK, RanganathInv, [Next]_vars, job' = "Ranganath"
             PROVE  SymbolInv' /\ (phase' = "done" => \A m \in Node : cd'[m] = NTSCDOn(m)')
  BY DEF RanganathInv
<1>1. CASE ProcessRanganath
  <2>1. PICK m \in left : left' = left \ {m} /\ S' = processNode(m)
    BY <1>1 DEF ProcessRanganath
  <2>2. /\ job = "Ranganath" /\ phase = "search" /\ UNCHANGED <<succ, phase, cd>>
        /\ progress' = (progress \/ S' # S) /\ m \in Node
    BY <1>1 DEF ProcessRanganath, input, TypeOK
  <2>3. SymbolInv
    BY <2>2 DEF RanganathInv
  <2>4. Predicates' = Predicates
    BY <2>2 DEF Predicates
  <2>5. \A a, p \in Node : \A q \in S'[a][p] :
          p \in Predicates /\ q \in succ[p] /\ q \in Inevitable(succ, {a})
    BY <2>1, <2>2, <2>3, SymbolsRight
  <2>6. ASSUME NEW p \in Predicates, NEW q \in succ[p] PROVE q \in S'[q][p]
    <3>1. q \in S[q][p] /\ p \in Node /\ q \in Node
      BY <2>3, GraphType DEF SymbolInv, Predicates, TypeOK
    <3> QED
      BY <2>1, <2>2, <3>1, processNodeAt
  <2>7. ASSUME ~ progress', NEW k \in Node \ left' PROVE processNode(k)' = S'
    <3>1. S' = S /\ ~ progress
      BY <2>2, <2>7
    <3>2. processNode(k)' = processNode(k)
      BY <2>2, <2>4, <3>1 DEF processNode
    <3>3. processNode(k) = S
      BY <2>1, <2>2, <2>3, <2>7, <3>1 DEF SymbolInv
    <3> QED
      BY <3>1, <3>2, <3>3
  <2>8. SymbolInv'
    BY <2>2, <2>4, <2>5, <2>6, <2>7 DEF SymbolInv
  <2> QED
    BY <2>2, <2>8
<1>2. CASE EndRoundRanganath
  <2>1. /\ job = "Ranganath" /\ phase = "search" /\ left = {}
        /\ UNCHANGED <<succ, S>> /\ progress' = FALSE
    BY <1>2 DEF EndRoundRanganath, input
  <2>2. SymbolInv /\ Predicates' = Predicates
    BY <2>1 DEF RanganathInv, Predicates
  <2>3. CASE progress
    <3>1. left' = Node /\ phase' = "search"
      BY <1>2, <2>1, <2>3 DEF EndRoundRanganath
    <3> QED
      BY <2>1, <2>2, <3>1 DEF SymbolInv
  <2>4. CASE ~ progress
    <3>1. /\ phase' = "done"
          /\ cd' = [m \in Node |-> {p \in Predicates :
                      S[m][p] # {} /\ Cardinality(S[m][p]) < Cardinality(succ[p])}]
      BY <1>2, <2>1, <2>4 DEF EndRoundRanganath
    <3>2. \A y \in Node : processNode(y) = S
      BY <2>1, <2>2, <2>4 DEF SymbolInv
    <3>3. ASSUME NEW m \in Node PROVE cd'[m] = NTSCDOn(m)'
      <4>1. ASSUME NEW p \in Predicates
            PROVE  S[m][p] # {} /\ Cardinality(S[m][p]) < Cardinality(succ[p])
                   <=> /\ \E s \in succ[p] : s \in Inevitable(succ, {m})
                       /\ \E s \in succ[p] : s \notin Inevitable(succ, {m})
        <5>1. p \in Node /\ S[m][p] = succ[p] \cap Inevitable(succ, {m})
          BY <2>2, <3>2, SymbolsComplete DEF Predicates
        <5>2. Cardinality(S[m][p]) < Cardinality(succ[p]) <=> S[m][p] # succ[p]
          BY <5>1, AllSuccessors
        <5> QED
          BY <5>1, <5>2
      <4>2. cd'[m] = NTSCDOn(m)
        BY <3>1, <4>1 DEF NTSCDOn, Split
      <4> QED
        BY <2>1, <4>2, SameDependences
    <3>4. SymbolInv'
      BY <2>1, <2>2, <3>1 DEF SymbolInv
    <3> QED
      BY <3>3, <3>4
  <2> QED
    BY <2>3, <2>4
<1>3. CASE BeginNTSCD \/ Pop \/ EndNTSCD \/ BeginGamma \/ AddToClosure
  BY <1>3 DEF BeginNTSCD, Pop, EndNTSCD, BeginGamma, AddToClosure, input
<1>4. CASE BeginNTSCD2 \/ Examine \/ NextRound \/ EndNTSCD2 \/ ComputeFrontier
  BY <1>4 DEF BeginNTSCD2, Examine, NextRound, EndNTSCD2, ComputeFrontier, input
<1>5. CASE UNCHANGED vars
  <2>1. UNCHANGED <<succ, job, phase, left, progress, S, cd>>
    BY <1>5 DEF vars, input, rounds
  <2>2. SymbolInv' <=> SymbolInv
    BY <2>1 DEF SymbolInv, Predicates, processNode
  <2> QED
    BY <2>1, <2>2, SameDependences DEF RanganathInv
<1> QED
  BY <1>1, <1>2, <1>3, <1>4, <1>5 DEF Next

LEMMA InitDependences == Init => NTSCD2Inv /\ RanganathInv
<1> SUFFICES ASSUME Init PROVE NTSCD2Inv /\ RanganathInv
  OBVIOUS
<1>1. NTSCD2Inv
  BY DEF Init, NTSCD2Inv
<1>2. ASSUME job = "Ranganath" PROVE SymbolInv
  <2>1. \A m, p \in Node : S[m][p] = {m} \cap IF p \in Predicates THEN succ[p] ELSE {}
    BY DEF Init
  <2>2. succ \in [Node -> SUBSET Node] /\ Predicates \subseteq Node
    BY GraphType DEF Init, Predicates
  <2>3. \A m, p \in Node : \A q \in S[m][p] : q = m /\ p \in Predicates /\ q \in succ[p]
    BY <2>1
  <2>4. \A m \in Node : m \in Inevitable(succ, {m})
    BY InevitableHolds
  <2>5. \A p \in Predicates : \A q \in succ[p] : q \in S[q][p]
    BY <2>1, <2>2
  <2>6. Node \ left = {}
    BY DEF Init
  <2> QED
    BY <2>3, <2>4, <2>5, <2>6 DEF SymbolInv
<1>3. phase # "done"
  BY DEF Init
<1> QED
  BY <1>1, <1>2, <1>3 DEF RanganathInv

\* NTSCD2 and the fixpoint of Ranganath's algorithm compute the non-termination sensitive
\* control dependences of every graph, in whatever order they take frontiers and nodes.
THEOREM ComputesNTSCD == Spec => []NTSCDExact
<1>1. Init => NTSCD2Inv /\ RanganathInv
  BY InitDependences
<1>2. TypeOK /\ NTSCD2Inv /\ RanganathInv /\ [Next]_vars => NTSCD2Inv' /\ RanganathInv'
  BY NTSCD2Step, RanganathStep
<1>3. NTSCD2Inv /\ RanganathInv => NTSCDExact
  BY DEF NTSCD2Inv, RanganathInv, NTSCDExact
<1> QED
  BY <1>1, <1>2, <1>3, TypeCorrect, PTL DEF Spec

-----------------------------------------------------------------------------
(* StrongControlClosure.                                                     *)

\* The nodes between m and the nodes of N that paths from m meet first.
Between(N, m) == ReachableAvoiding(succ, succ[m], N)

LEMMA SuccessorsGraph ==
    ASSUME TypeOK
    PROVE  DOMAIN succ = Node /\ IsGraph(succ) /\ \A m \in Node : succ[m] \in SUBSET Node
  BY GraphType, GraphAssumption DEF TypeOK, IsGraph

\* What is between m and N is closed but for N, and within every set that is.
LEMMA BetweenLeast ==
    ASSUME TypeOK, NEW N, NEW m \in Node
    PROVE  /\ Between(N, m) \subseteq Node /\ Between(N, m) \cap N = {}
           /\ \A s \in succ[m] : s \in N \/ s \in Between(N, m)
           /\ \A b \in Between(N, m) : \A s \in succ[b] : s \in N \/ s \in Between(N, m)
           /\ \A C : (\A s \in succ[m] : s \in N \/ s \in C)
                     /\ (\A b \in Between(N, m) \cap C : \A s \in succ[b] : s \in N \/ s \in C)
                     => Between(N, m) \subseteq C
<1> DEFINE R == ReachableAvoiding(succ, succ[m], N)
<1>1. DOMAIN succ = Node /\ IsGraph(succ) /\ succ[m] \in SUBSET Node
  BY SuccessorsGraph
<1>2. /\ R \subseteq Node /\ R \cap N = {} /\ succ[m] \ N \subseteq R
      /\ \A b \in R : succ[b] \ N \subseteq R
      /\ \A C : succ[m] \ N \subseteq C /\ (\A b \in R \cap C : succ[b] \ N \subseteq C)
                  => R \subseteq C
  BY <1>1, ReachableExact
<1>3. Between(N, m) = R
  BY DEF Between
<1> HIDE DEF R
<1> QED
  BY <1>2, <1>3

\* The nodes of Y that paths from m, which is not one of them, meet first.
LEMMA ThetaAt ==
    ASSUME TypeOK, NEW Y, NEW m, m \notin Y, NEW z
    PROVE  z \in theta(Y, m) <=>
              z \in Y /\ (z \in succ[m] \/ \E b \in Between(Y, m) : z \in succ[b])
<1>1. theta(Y, m) = Y \cap (succ[m] \cup UNION {succ[b] : b \in Between(Y, m)})
  BY DEF theta, FirstReachable, Between
<1> QED
  BY <1>1

\* A path from a successor of p is one from p.
LEMMA ThetaGrows ==
    ASSUME TypeOK, NEW Y, NEW p \in Node, p \notin Y, NEW r \in succ[p]
    PROVE  theta(Y, r) \subseteq theta(Y, p)
<1> SUFFICES ASSUME NEW z \in theta(Y, r) PROVE z \in theta(Y, p)
  OBVIOUS
<1>0. r \in Node
  BY SuccessorsGraph
<1>1. CASE r \in Y
  BY <1>1, ThetaAt DEF theta
<1>2. CASE r \notin Y
  <2>1. r \in Between(Y, p)
    BY <1>2, BetweenLeast
  <2>2. Between(Y, r) \subseteq Between(Y, p)
    <3>1. \A s \in succ[r] : s \in Y \/ s \in Between(Y, p)
      BY <2>1, BetweenLeast
    <3>2. \A b \in Between(Y, p) : \A s \in succ[b] : s \in Y \/ s \in Between(Y, p)
      BY BetweenLeast
    <3> QED
      BY <1>0, <3>1, <3>2, BetweenLeast
  <2> QED
    BY <1>2, <2>1, <2>2, ThetaAt
<1> QED
  BY <1>1, <1>2

\* What lies between m and Y has no other first nodes than m.
LEMMA ThetaBetween ==
    ASSUME TypeOK, NEW Y, NEW p \in Node, p \notin Y, NEW b \in Between(Y, p)
    PROVE  theta(Y, b) \subseteq theta(Y, p)
<1> DEFINE C == {x \in Node : theta(Y, x) \subseteq theta(Y, p)}
<1>1. \A s \in succ[p] : s \in C
  BY ThetaGrows, SuccessorsGraph
<1>2. ASSUME NEW x \in Between(Y, p) \cap C, NEW s \in succ[x] PROVE s \in C
  <2>1. x \in Node /\ x \notin Y /\ s \in Node
    BY BetweenLeast, SuccessorsGraph
  <2>2. theta(Y, s) \subseteq theta(Y, x)
    BY <2>1, ThetaGrows
  <2> QED
    BY <2>1, <2>2
<1>3. Between(Y, p) \subseteq C
  <2> HIDE DEF C
  <2> QED
    BY <1>1, <1>2, BetweenLeast
<1> QED
  BY <1>3

\* A path to X meets the nodes of a larger set Y before.
LEMMA ThetaThrough ==
    ASSUME TypeOK, NEW Y, NEW W, W \subseteq Y, NEW p \in Node, p \notin Y, NEW z \in theta(W, p)
    PROVE  \E y \in theta(Y, p) : z \in theta(W, y)
<1> DEFINE C == {b \in Node : \/ b \in Between(Y, p)
                             \/ \E y \in theta(Y, p) : y \notin W /\ (b = y \/ b \in Between(W, y))}
<1>1. ASSUME NEW s \in succ[p], s \notin W PROVE s \in C
  <2>1. s \in Node
    BY SuccessorsGraph
  <2>2. CASE s \in Y
    BY <1>1, <2>1, <2>2, ThetaAt
  <2>3. CASE s \notin Y
    BY <2>1, <2>3, BetweenLeast
  <2> QED
    BY <2>2, <2>3
<1>2. ASSUME NEW b \in C, NEW s \in succ[b], s \notin W PROVE s \in C
  <2>1. s \in Node
    BY SuccessorsGraph
  <2>2. CASE b \in Between(Y, p)
    <3>1. CASE s \in Y
      BY <1>2, <2>1, <2>2, <3>1, ThetaAt
    <3>2. CASE s \notin Y
      BY <2>1, <2>2, <3>2, BetweenLeast
    <3> QED
      BY <3>1, <3>2
  <2>3. CASE b \notin Between(Y, p)
    <3>1. PICK y \in theta(Y, p) : y \notin W /\ (b = y \/ b \in Between(W, y))
      BY <2>3
    <3>2. y \in Node
      <4>1. \A x \in succ[p] : x \in Node
        BY SuccessorsGraph
      <4>2. \A x \in Between(Y, p) : \A t \in succ[x] : t \in Node
        BY BetweenLeast, SuccessorsGraph
      <4> QED
        BY <4>1, <4>2, ThetaAt
    <3>3. s \in Between(W, y)
      BY <1>2, <3>1, <3>2, BetweenLeast
    <3> QED
      BY <2>1, <3>1, <3>3
  <2> QED
    BY <2>2, <2>3
<1>3. Between(W, p) \subseteq C
  <2> HIDE DEF C
  <2> QED
    BY <1>1, <1>2, BetweenLeast
<1>4. z \in W /\ z \in theta(W, z)
  BY ThetaAt DEF theta
<1>5. CASE z \in theta(Y, p)
  BY <1>4, <1>5
<1>6. CASE z \notin theta(Y, p)
  <2>1. PICK b \in Between(W, p) : z \in succ[b]
    BY <1>4, <1>6, ThetaAt
  <2>2. b \notin Between(Y, p)
    BY <1>4, <1>6, <2>1, ThetaAt
  <2>3. PICK y \in theta(Y, p) : y \notin W /\ (b = y \/ b \in Between(W, y))
    BY <1>3, <2>1, <2>2
  <2>4. z \in theta(W, y)
    BY <1>4, <2>1, <2>3, ThetaAt
  <2> QED
    BY <2>4
<1> QED
  BY <1>5, <1>6
\* What inevitably reaches T and is not of T has successors, which inevitably reach it too.
LEMMA InevitableSuccessors ==
    ASSUME NEW g, NEW T \in SUBSET Node, NEW m \in Inevitable(g, T), m \notin T
    PROVE  g[m] # {} /\ g[m] \subseteq Inevitable(g, T)
<1> DEFINE I == Inevitable(g, T)
           C == T \cup {x \in I : g[x] # {} /\ g[x] \subseteq I}
<1>1. T \subseteq I /\ I \subseteq Node /\ Closed(g, I)
  BY InevitableHolds, InevitableClosed
<1> HIDE DEF I
<1>2. C \subseteq I
  BY <1>1
<1>3. Closed(g, C)
  <2> SUFFICES ASSUME NEW x \in Node, g[x] # {}, g[x] \subseteq C PROVE x \in C
    BY Zenon DEF Closed
  <2>1. g[x] \subseteq I
    BY <1>2
  <2>2. x \in I
    BY <1>1, <2>1 DEF Closed
  <2> QED
    BY <2>1, <2>2
<1>4. C \in SUBSET Node /\ T \subseteq C
  BY <1>1
<1>5. I \subseteq C
  <2> HIDE DEF C
  <2> QED
    BY <1>3, <1>4, InevitableSmallest DEF I
<1> QED
  BY <1>5 DEF I

\* What lies between m and T inevitably reaches T if m does.
LEMMA InevitableBetween ==
    ASSUME TypeOK, NEW T \in SUBSET Node, NEW m \in Node, m \in Inevitable(succ, T), m \notin T
    PROVE  Between(T, m) \subseteq Inevitable(succ, T)
<1>1. \A s \in succ[m] : s \in Inevitable(succ, T)
  BY InevitableSuccessors
<1>2. ASSUME NEW b \in Between(T, m), b \in Inevitable(succ, T), NEW s \in succ[b]
      PROVE  s \in Inevitable(succ, T)
  <2>1. b \notin T
    BY BetweenLeast
  <2> QED
    BY <1>2, <2>1, InevitableSuccessors
<1> QED
  BY <1>1, <1>2, BetweenLeast

\* What inevitably reaches Y, and meets no other node of Y than y first, inevitably
\* reaches y.
LEMMA InevitableFirst ==
    ASSUME TypeOK, NEW Y \in SUBSET Node, NEW y \in Node, NEW p \in Inevitable(succ, Y),
           theta(Y, p) \subseteq {y}
    PROVE  p \in Inevitable(succ, {y})
<1> DEFINE C == {q \in Node : theta(Y, q) \subseteq {y} => q \in Inevitable(succ, {y})}
<1>1. ASSUME NEW q \in Y PROVE q \in C
  <2> SUFFICES ASSUME theta(Y, q) \subseteq {y} PROVE q \in Inevitable(succ, {y})
    OBVIOUS
  <2>1. q = y
    BY DEF theta
  <2> QED
    BY <2>1, InevitableHolds
<1>2. Closed(succ, C)
  <2> SUFFICES ASSUME NEW q \in Node, succ[q] # {}, succ[q] \subseteq C, q \notin C PROVE FALSE
    BY Zenon DEF Closed
  <2>1. q \notin Y
    BY <1>1
  <2>2. ASSUME NEW s \in succ[q] PROVE s \in Inevitable(succ, {y})
    <3>1. theta(Y, s) \subseteq theta(Y, q)
      BY <2>1, ThetaGrows
    <3> QED
      BY <3>1
  <2>3. Closed(succ, Inevitable(succ, {y}))
    BY InevitableClosed
  <2>4. q \in Inevitable(succ, {y})
    BY <2>2, <2>3 DEF Closed
  <2> QED
    BY <2>4
<1>3. Inevitable(succ, Y) \subseteq C
  <2>1. C \in SUBSET Node /\ Y \subseteq C
    BY <1>1
  <2> HIDE DEF C
  <2> QED
    BY <1>2, <2>1, InevitableSmallest
<1> QED
  BY <1>3

LEMMA ThetaType ==
    ASSUME TypeOK, NEW Y \in SUBSET Node, NEW m \in Node
    PROVE  theta(Y, m) \in SUBSET Y /\ IsFiniteSet(theta(Y, m)) /\ Cardinality(theta(Y, m)) \in Nat
<1>1. theta(Y, m) \in SUBSET Y
  BY ThetaAt DEF theta
<1>2. theta(Y, m) \in SUBSET Node
  BY <1>1
<1> QED
  BY <1>1, <1>2, NodeSets

\* When nothing can be added, the predecessors of a node that meets one node of Y first
\* and inevitably are such nodes; so from those that are not Y cannot be reached.
LEMMA ClosedWhenDone ==
    ASSUME TypeOK, NEW Y \in SUBSET Node, Addable(Y, Inevitable(succ, Y)) = {}
    PROVE  StronglyClosed(Y)
<1> DEFINE I == Inevitable(succ, Y)
           T == UNION {succ[m] : m \in Y}
           R == Reachable(succ, T)
           good(m) == Cardinality(theta(Y, m)) = 1 /\ m \in I
<1>1. T \in SUBSET Node /\ IsGraph(succ) /\ DOMAIN succ = Node
  BY SuccessorsGraph
<1>2. R \subseteq Node /\ T \subseteq R /\ \A b \in R : succ[b] \subseteq R
  BY <1>1, ReachableLeast
<1>3. Reachable(succ, Y) \subseteq Y \cup R
  <2>1. \A b \in Y \cup R : succ[b] \subseteq Y \cup R
    BY <1>2
  <2>2. Y \subseteq Y \cup R
    OBVIOUS
  <2>3. \A C : Y \subseteq C /\ (\A b \in Reachable(succ, Y) \cap C : succ[b] \subseteq C)
                => Reachable(succ, Y) \subseteq C
    BY <1>1, ReachableLeast
  <2> HIDE DEF R, T
  <2> QED
    BY <2>1, <2>2, <2>3, Zenon
<1>4. ASSUME NEW m \in Y PROVE good(m)
  <2>1. theta(Y, m) = {m} /\ m \in Node
    BY DEF theta
  <2> QED
    BY <2>1, FS_Singleton, InevitableHolds
<1>5. ASSUME NEW p \in R, NEW r \in succ[p], good(r) PROVE good(p)
  <2> SUFFICES ASSUME p \notin Y PROVE good(p)
    BY <1>4
  <2>1. p \in Node /\ r \in Node
    BY <1>2, SuccessorsGraph
  <2>2. ~ (Cardinality(theta(Y, p)) >= 2) /\ p \in I
    BY <1>5, <2>1 DEF Addable
  <2>3. theta(Y, r) \subseteq theta(Y, p) /\ theta(Y, r) # {}
    <3>1. theta(Y, r) \subseteq theta(Y, p)
      BY <2>1, ThetaGrows
    <3>2. Cardinality(theta(Y, r)) = 1
      BY <1>5
    <3>3. Cardinality({}) = 0
      BY FS_EmptySet
    <3> HIDE DEF good, I, R, T
    <3> QED
      BY <3>1, <3>2, <3>3
  <2>4. Cardinality(theta(Y, p)) \in Nat /\ Cardinality(theta(Y, p)) # 0
    BY <2>1, <2>3, ThetaType, FS_EmptySet
  <2> QED
    BY <2>2, <2>4
<1> SUFFICES ASSUME NEW m \in Reachable(succ, Y), theta(Y, m) # {}, ~ good(m) PROVE FALSE
  BY DEF StronglyClosed
<1>6. m \in R /\ m \notin Y /\ m \in Node
  BY <1>2, <1>3, <1>4
<1> DEFINE B == {b \in R : ~ good(b)}
<1>7. \A b \in B : \A s \in succ[b] : s \in B
  BY <1>2, <1>5
<1>8. B \cap Y = {}
  BY <1>4
<1>9. Between(Y, m) \subseteq B
  <2>1. m \in B
    BY <1>6
  <2> HIDE DEF B
  <2> QED
    BY <1>6, <1>7, <2>1, BetweenLeast
<1> HIDE DEF B
<1>10. theta(Y, m) = {}
  <2>1. m \in B
    BY <1>6 DEF B
  <2>2. \A z : z \notin theta(Y, m)
    BY <1>6, <1>7, <1>8, <1>9, <2>1, ThetaAt
  <2> QED
    BY <2>2
<1> QED
  BY <1>10

\* What is added to W is in every strongly closed set that holds W.
LEMMA AddedOfNecessity ==
    ASSUME TypeOK, NEW W \in SUBSET Node, NEW p \in Addable(W, Inevitable(succ, W)),
           NEW Y \in SUBSET Node, W \subseteq Y, StronglyClosed(Y)
    PROVE  p \in Y
<1> SUFFICES ASSUME p \notin Y PROVE FALSE
  OBVIOUS
<1> DEFINE I == Inevitable(succ, W)
<1>1. PICK r \in succ[p] :
        /\ p \in Node /\ p \in Reachable(succ, UNION {succ[m] : m \in W})
        /\ Cardinality(theta(W, r)) = 1 /\ r \in I
        /\ Cardinality(theta(W, p)) >= 2 \/ p \notin I
  BY DEF Addable
<1>2. r \in Node /\ p \notin W
  BY <1>1, SuccessorsGraph
<1>3. PICK x : theta(W, r) = {x}
  BY <1>1, <1>2, ThetaType, FS_Singleton
<1>4. PICK y1 \in theta(Y, r) : x \in theta(W, y1)
  <2>1. CASE r \in Y
    BY <1>3, <2>1 DEF theta
  <2>2. CASE r \notin Y
    BY <1>2, <1>3, <2>2, ThetaThrough
  <2> QED
    BY <2>1, <2>2
<1>5. theta(Y, r) \subseteq theta(Y, p)
  BY <1>1, ThetaGrows
<1>6. p \in Reachable(succ, Y)
  <2> DEFINE T == UNION {succ[m] : m \in W}
  <2>1. DOMAIN succ = Node /\ IsGraph(succ) /\ T \in SUBSET Node
    BY SuccessorsGraph
  <2>2. Y \subseteq Reachable(succ, Y) /\ \A b \in Reachable(succ, Y) : succ[b] \subseteq Reachable(succ, Y)
    BY <2>1, ReachableLeast
  <2>3. T \subseteq Reachable(succ, Y)
    BY <2>2
  <2> HIDE DEF T
  <2>4. Reachable(succ, T) \subseteq Reachable(succ, Y)
    BY <2>1, <2>2, <2>3, ReachableLeast
  <2> QED
    BY <1>1, <2>4 DEF T
<1>7. Cardinality(theta(Y, p)) = 1 /\ p \in Inevitable(succ, Y)
  BY <1>4, <1>5, <1>6 DEF StronglyClosed
<1>8. PICK y : theta(Y, p) = {y}
  BY <1>1, <1>7, ThetaType, FS_Singleton
<1>9. y = y1 /\ theta(Y, r) = {y} /\ y \in Y /\ x \in theta(W, y)
  <2>1. y1 \in {y} /\ theta(Y, r) \subseteq {y}
    BY <1>4, <1>5, <1>8
  <2>2. y \in theta(Y, p) /\ theta(Y, p) \subseteq Y
    BY <1>1, <1>8, ThetaType
  <2>3. theta(Y, r) = {y}
    BY <1>4, <2>1
  <2> QED
    BY <1>4, <2>1, <2>2, <2>3
<1>10. p \in Inevitable(succ, {y})
  BY <1>7, <1>8, <1>9, InevitableFirst
\* From y as well W is reached inevitably, at x first.
<1>11. y \in I /\ theta(W, y) \subseteq {x}
  <2>1. CASE y \in W
    BY <1>9, <2>1, InevitableHolds DEF theta
  <2>2. CASE y \notin W /\ r \in Y
    BY <1>1, <1>3, <1>9, <2>2 DEF theta
  <2>3. CASE y \notin W /\ r \notin Y
    <3>1. Between(Y, r) \subseteq Between(W, r)
      <4>1. \A s \in succ[r] : s \in Y \/ s \in Between(W, r)
        BY <1>2, BetweenLeast
      <4>2. \A b \in Between(W, r) : \A s \in succ[b] : s \in Y \/ s \in Between(W, r)
        BY <1>2, BetweenLeast
      <4> QED
        BY <1>2, <4>1, <4>2, BetweenLeast
    <3>2. y \in Between(W, r)
      <4>1. y \in succ[r] \/ \E b \in Between(Y, r) : y \in succ[b]
        BY <1>9, <2>3, ThetaAt
      <4> QED
        BY <1>2, <2>3, <3>1, <4>1, BetweenLeast
    <3>3. r \notin W
      BY <2>3
    <3> QED
      BY <1>1, <1>2, <1>3, <3>2, <3>3, ThetaBetween, InevitableBetween
  <2> QED
    BY <2>1, <2>2, <2>3
<1>12. p \in I
  BY <1>10, <1>11, InevitableTransitive
<1>13. theta(W, p) \subseteq {x}
  BY <1>1, <1>2, <1>8, <1>11, ThetaThrough
<1>14. Cardinality(theta(W, p)) <= 1
  <2>1. IsFiniteSet({x}) /\ Cardinality({x}) = 1
    BY FS_Singleton
  <2> QED
    BY <1>13, <2>1, FS_Subset
<1>15. Cardinality(theta(W, p)) \in Nat
  BY <1>1, ThetaType
<1> QED
  BY <1>1, <1>12, <1>14, <1>15

-----------------------------------------------------------------------------
\* Nothing has been added that a strongly closed set could do without.
ClosureInv == job = "closure" =>
    /\ phase = "search" => targets = X
    /\ exact => \A Y \in SUBSET Node : seed \subseteq Y /\ StronglyClosed(Y) => X \subseteq Y
    /\ phase = "done" /\ exact => StronglyClosed(X)

LEMMA SameClosed ==
    ASSUME UNCHANGED succ
    PROVE  \A Y : StronglyClosed(Y)' <=> StronglyClosed(Y)
  BY DEF StronglyClosed, theta, FirstReachable, Inevitable, Closed

LEMMA ClosureStep ==
    TypeOK /\ SearchComplete /\ ClosureInv /\ [Next]_vars => ClosureInv'
<1> SUFFICES ASSUME TypeOK, SearchComplete, ClosureInv, [Next]_vars, job' = "closure"
             PROVE  /\ phase' = "search" => targets' = X'
                    /\ exact' => \A Y \in SUBSET Node :
                                    seed' \subseteq Y /\ StronglyClosed(Y)' => X' \subseteq Y
                    /\ phase' = "done" /\ exact' => StronglyClosed(X)'
  BY DEF ClosureInv
<1>1. UNCHANGED <<succ, job, seed>>
  BY DEF Next, BeginNTSCD, Pop, EndNTSCD, BeginGamma, AddToClosure, BeginNTSCD2, Examine, NextRound,
         EndNTSCD2, ProcessRanganath, EndRoundRanganath, ComputeFrontier, vars, input
<1>2. CASE BeginGamma
  <2>1. targets' = X /\ UNCHANGED <<X, exact>> /\ phase' = "search"
    BY <1>2 DEF BeginGamma, BeginSearch
  <2> QED
    BY <1>1, <2>1, SameClosed DEF ClosureInv
<1>3. CASE Pop
  <2>1. phase = "search" /\ UNCHANGED <<targets, X, exact, phase>>
    BY <1>3 DEF Pop
  <2> QED
    BY <1>1, <2>1, SameClosed DEF ClosureInv
<1>4. CASE AddToClosure
  <2>1. /\ job = "closure" /\ phase = "search" /\ stack = <<>> /\ phase' # "search"
        /\ exact' = (exact /\ colored \subseteq Inevitable(succ, targets))
        /\ IF Addable(X, colored) = {} THEN phase' = "done" /\ UNCHANGED X
           ELSE phase' = "idle" /\ \E p \in Addable(X, colored) : X' = X \cup {p}
    BY <1>4 DEF AddToClosure
  <2>2. targets = X /\ X \in SUBSET Node
    BY <2>1 DEF ClosureInv, TypeOK
  <2>3. SUFFICES ASSUME exact'
                 PROVE  /\ \A Y \in SUBSET Node : seed \subseteq Y /\ StronglyClosed(Y) => X' \subseteq Y
                        /\ phase' = "done" => StronglyClosed(X')
    <3>1. ASSUME NEW Y \in SUBSET Node PROVE StronglyClosed(Y)' <=> StronglyClosed(Y)
      BY <1>1, SameClosed
    <3>2. StronglyClosed(X)' <=> StronglyClosed(X')
      BY <1>1 DEF StronglyClosed, theta, FirstReachable, Inevitable, Closed
    <3> QED
      BY <1>1, <2>1, <3>1, <3>2
  <2>4. exact /\ colored = Inevitable(succ, X)
    BY <2>1, <2>2, <2>3 DEF SearchComplete, SearchDone
  <2>5. \A Y \in SUBSET Node : seed \subseteq Y /\ StronglyClosed(Y) => X \subseteq Y
    BY <2>1, <2>4 DEF ClosureInv
  <2>6. CASE Addable(X, colored) = {}
    BY <2>1, <2>2, <2>4, <2>5, <2>6, ClosedWhenDone
  <2>7. CASE Addable(X, colored) # {}
    <3>1. PICK p \in Addable(X, colored) : X' = X \cup {p}
      BY <2>1, <2>7
    <3>2. ASSUME NEW Y \in SUBSET Node, seed \subseteq Y, StronglyClosed(Y) PROVE X' \subseteq Y
      <4>1. p \in Addable(X, Inevitable(succ, X)) /\ X \subseteq Y
        BY <2>4, <2>5, <3>2
      <4>2. p \in Y
        BY <2>2, <3>2, <4>1, AddedOfNecessity
      <4> QED
        BY <3>1, <4>1, <4>2
    <3> QED
      BY <2>1, <2>7, <3>2
  <2> QED
    BY <2>6, <2>7
<1>5. CASE BeginNTSCD \/ EndNTSCD \/ BeginNTSCD2 \/ Examine \/ NextRound \/ EndNTSCD2
  BY <1>1, <1>5 DEF BeginNTSCD, EndNTSCD, BeginNTSCD2, Examine, NextRound, EndNTSCD2
<1>6. CASE ProcessRanganath \/ EndRoundRanganath \/ ComputeFrontier
  BY <1>1, <1>6 DEF ProcessRanganath, EndRoundRanganath, ComputeFrontier
<1>7. CASE UNCHANGED vars
  <2>1. UNCHANGED <<targets, X, exact, phase>>
    BY <1>7 DEF vars, search
  <2> QED
    BY <1>1, <2>1, SameClosed DEF ClosureInv
<1> QED
  BY <1>2, <1>3, <1>4, <1>5, <1>6, <1>7 DEF Next

\* Where gamma is right, the closure is the smallest strongly control closed set that
\* holds the given one, whichever of the nodes that can be added is added first.
THEOREM ClosesExactly == Spec => []ClosureExact
<1>1. Init => ClosureInv
  BY DEF Init, ClosureInv
<1>2. TypeOK /\ SearchComplete /\ ClosureInv /\ [Next]_vars => ClosureInv'
  BY ClosureStep
<1>3. ClosureInv => ClosureExact
  BY DEF ClosureInv, ClosureExact
<1> QED
  BY <1>1, <1>2, <1>3, TypeCorrect, SearchFindsAll, PTL DEF Spec

-----------------------------------------------------------------------------
(* Post-dominance.                                                           *)

\* The nodes that d does not post-dominate: a path to an exit avoids it.
Passing(d) == ReachableAvoiding(Reversed(succ), Exits(succ), {d})

\* d is on all paths from a to an exit, and may be a.
PostDominates(d, a) == a \notin Passing(d)

LEMMA PassingAt ==
    ASSUME TypeOK, NEW d
    PROVE  /\ \A a : a \in Passing(d) <=>
                 a \in Node /\ a # d /\ (succ[a] = {} \/ \E s \in succ[a] : s \in Passing(d))
           /\ \A C : (\A a \in Node : a # d /\ (succ[a] = {} \/ \E s \in succ[a] : s \in C /\ s \in Passing(d))
                        => a \in C)
                     => Passing(d) \subseteq C
<1> DEFINE R == Reversed(succ)
           E == Exits(succ)
           A == ReachableAvoiding(R, E, {d})
<1>1. DOMAIN succ = Node /\ IsFiniteSet(Node)
  BY GraphType, GraphAssumption DEF TypeOK
<1>2. \A x, y : y \in Node => (x \in R[y] <=> x \in Node /\ y \in succ[x])
  BY <1>1 DEF Reversed, Pred
<1>3. \A x : x \in E <=> x \in Node /\ succ[x] = {}
  BY <1>1 DEF Exits
<1>4. IsGraph(R) /\ DOMAIN R = Node /\ E \in SUBSET DOMAIN R
  <2>1. R = [b \in Node |-> {a \in Node : b \in succ[a]}]
    BY <1>1 DEF Reversed, Pred
  <2>2. DOMAIN R = Node /\ R \in [Node -> SUBSET Node]
    BY <2>1
  <2> QED
    BY <1>1, <1>3, <2>2 DEF IsGraph
<1> HIDE DEF R, E
<1>5. /\ A \subseteq Node /\ A \cap {d} = {} /\ E \ {d} \subseteq A
      /\ \A b \in A : R[b] \ {d} \subseteq A
      /\ \A C : E \ {d} \subseteq C /\ (\A b \in A \cap C : R[b] \ {d} \subseteq C) => A \subseteq C
  <2>1. PICK Z : Z = {d}
    OBVIOUS
  <2> DEFINE B == ReachableAvoiding(R, E, Z)
  <2>2. /\ B \subseteq Node /\ B \cap Z = {} /\ E \ Z \subseteq B
        /\ \A b \in B : R[b] \ Z \subseteq B
        /\ \A C : E \ Z \subseteq C /\ (\A b \in B \cap C : R[b] \ Z \subseteq C) => B \subseteq C
    BY <1>4, ReachableExact
  <2> QED
    BY <2>1, <2>2
<1>6. Passing(d) = A
  BY DEF Passing, R, E
<1> HIDE DEF A
<1>7. ASSUME NEW C, \A a \in Node : a # d /\ (succ[a] = {} \/ \E s \in succ[a] : s \in C /\ s \in A) => a \in C
      PROVE  A \subseteq C
  <2>1. E \ {d} \subseteq C
    BY <1>3, <1>7
  <2>2. ASSUME NEW b \in A, b \in C, NEW x \in R[b], x # d PROVE x \in C
    <3>1. x \in Node /\ b \in succ[x]
      BY <1>2, <1>5, <2>2
    <3> QED
      BY <1>7, <2>2, <3>1
  <2> QED
    BY <1>5, <2>1, <2>2
<1>8. ASSUME NEW a \in Node, a # d, succ[a] = {} \/ \E s \in succ[a] : s \in A
      PROVE  a \in A
  <2>1. CASE succ[a] = {}
    BY <1>3, <1>5, <1>8, <2>1
  <2>2. CASE \E s \in succ[a] : s \in A
    BY <1>2, <1>5, <1>8, <2>2
  <2> QED
    BY <1>8, <2>1, <2>2
<1>9. A \subseteq {a \in Node : a # d /\ (succ[a] = {} \/ \E s \in succ[a] : s \in A)}
  <2> DEFINE C == {a \in Node : a # d /\ (succ[a] = {} \/ \E s \in succ[a] : s \in A)}
  <2>1. \A a \in Node : a # d /\ (succ[a] = {} \/ \E s \in succ[a] : s \in C /\ s \in A) => a \in C
    OBVIOUS
  <2> HIDE DEF C
  <2>2. A \subseteq C
    BY <1>7, <2>1
  <2> QED
    BY <2>2 DEF C
<1> QED
  BY <1>5, <1>6, <1>7, <1>8, <1>9

\* The strict post-dominators that the analyses use, in these terms.
LEMMA StrictlyPostDominates ==
    ASSUME TypeOK, NEW a
    PROVE  \A d : d \in StrictPostDominators(succ, a) <=> d \in Node /\ d # a /\ PostDominates(d, a)
<1>1. DOMAIN Reversed(succ) = Node
  BY GraphType DEF TypeOK, Reversed
<1> QED
  BY <1>1 DEF StrictPostDominators, StrictDominators, PostDominates, Passing

\* What post-dominates a node post-dominates its successors, unless it is the node.
LEMMA PostDominatesNext ==
    ASSUME TypeOK, NEW a \in Node, NEW d, d # a
    PROVE  PostDominates(d, a) <=> succ[a] # {} /\ \A s \in succ[a] : PostDominates(d, s)
  BY PassingAt DEF PostDominates

LEMMA PostDominatesSelf ==
    ASSUME TypeOK, NEW a
    PROVE  PostDominates(a, a)
  BY PassingAt DEF PostDominates

LEMMA PostDominatesTransitive ==
    ASSUME TypeOK, NEW a \in Node, NEW b \in Node, NEW c, PostDominates(b, a), PostDominates(c, b)
    PROVE  PostDominates(c, a)
<1>1. ASSUME NEW x \in Node, x # c, succ[x] = {} \/ \E s \in succ[x] : s \in Passing(b) /\ s \in Passing(c)
      PROVE  x \in Passing(b)
  <2>1. x \in Passing(c)
    BY <1>1, PassingAt
  <2>2. x # b
    BY <2>1 DEF PostDominates
  <2> QED
    BY <1>1, <2>2, PassingAt
<1>2. Passing(c) \subseteq Passing(b)
  BY <1>1, PassingAt
<1> QED
  BY <1>2 DEF PostDominates

\* From everywhere there is a way out.
LEMMA WayOut ==
    ASSUME TypeOK, Treed, NEW Q \in SUBSET Node, \A q \in Q : succ[q] \subseteq Q, NEW a \in Q
    PROVE  \E x \in Q : succ[x] = {}
<1>1. DOMAIN succ = Node /\ IsGraph(succ) /\ {a} \in SUBSET Node
  BY SuccessorsGraph
<1>2. Reachable(succ, {a}) \subseteq Q
  BY <1>1, ReachableLeast
<1>3. PICK x \in Reachable(succ, {a}) : x \in Exits(succ)
  BY DEF Treed
<1> QED
  BY <1>2, <1>3 DEF Exits

\* Of two post-dominators of a node one post-dominates the other.
LEMMA PostDominatesChain ==
    ASSUME TypeOK, Treed, NEW a \in Node, NEW b, NEW d, PostDominates(b, a), PostDominates(d, a)
    PROVE  PostDominates(b, d) \/ PostDominates(d, b)
<1> SUFFICES ASSUME ~ PostDominates(b, d), ~ PostDominates(d, b) PROVE FALSE
  OBVIOUS
<1> DEFINE Q == {x \in Node : PostDominates(b, x) /\ PostDominates(d, x)}
<1>1. ASSUME NEW x \in Q PROVE x # b /\ x # d
  OBVIOUS
<1>2. ASSUME NEW x \in Q PROVE succ[x] \subseteq Q /\ succ[x] # {}
  <2>1. /\ \A s \in succ[x] : PostDominates(b, s) /\ PostDominates(d, s)
        /\ succ[x] # {}
    BY <1>1, PostDominatesNext
  <2> QED
    BY <2>1, SuccessorsGraph
<1>3. a \in Q /\ Q \in SUBSET Node
  OBVIOUS
<1> HIDE DEF Q
<1> QED
  BY <1>2, <1>3, WayOut

\* Two nodes do not post-dominate each other.
LEMMA PostDominatesOneWay ==
    ASSUME TypeOK, Treed, NEW a \in Node, NEW b \in Node, a # b, PostDominates(b, a)
    PROVE  ~ PostDominates(a, b)
<1> SUFFICES ASSUME PostDominates(a, b) PROVE FALSE
  OBVIOUS
<1> DEFINE Q == {x \in Node : PostDominates(a, x) /\ PostDominates(b, x)}
<1>1. ASSUME NEW x \in Q PROVE succ[x] \subseteq Q /\ succ[x] # {}
  <2>1. CASE x # a
    <3>1. succ[x] # {} /\ \A s \in succ[x] : PostDominates(a, s)
      BY <2>1, PostDominatesNext
    <3>2. \A s \in succ[x] : PostDominates(b, s)
      BY <3>1, PostDominatesTransitive, SuccessorsGraph
    <3> QED
      BY <3>1, <3>2, SuccessorsGraph
  <2>2. CASE x # b
    <3>1. succ[x] # {} /\ \A s \in succ[x] : PostDominates(b, s)
      BY <2>2, PostDominatesNext
    <3>2. \A s \in succ[x] : PostDominates(a, s)
      BY <3>1, PostDominatesTransitive, SuccessorsGraph
    <3> QED
      BY <3>1, <3>2, SuccessorsGraph
  <2> QED
    BY <2>1, <2>2
<1>2. a \in Q /\ Q \in SUBSET Node
  BY PostDominatesSelf
<1> HIDE DEF Q
<1> QED
  BY <1>1, <1>2, WayOut

-----------------------------------------------------------------------------
(* The post-dominator tree.                                                  *)

\* b is the parent of m if it is post-dominated by all other post-dominators of m.
LEMMA ipdomAt ==
    ASSUME TypeOK, Treed, NEW m \in Node, NEW b \in Node
    PROVE  ipdom(m) = b <=>
              /\ b # m /\ PostDominates(b, m)
              /\ \A e \in Node \ {m} : PostDominates(e, m) => PostDominates(e, b)
<1> DEFINE near == {d \in StrictPostDominators(succ, m) :
                      StrictPostDominators(succ, m) = {d} \cup StrictPostDominators(succ, d)}
           nearest(d) == /\ d # m /\ PostDominates(d, m)
                         /\ \A e \in Node \ {m} : PostDominates(e, m) => PostDominates(e, d)
<1>1. ipdom(m) = IF near = {} THEN NoNode ELSE CHOOSE d \in near : TRUE
  <2>1. DOMAIN succ = Node
    BY GraphType DEF TypeOK
  <2>2. \A d \in StrictPostDominators(succ, m) : d \in Node
    BY StrictlyPostDominates
  <2> DEFINE doms == [x \in Node |-> StrictPostDominators(succ, x)]
  <2>3. near = {d \in doms[m] : doms[m] = {d} \cup doms[d]}
    <3>1. doms[m] = StrictPostDominators(succ, m)
      OBVIOUS
    <3>2. \A d \in StrictPostDominators(succ, m) : doms[d] = StrictPostDominators(succ, d)
      BY <2>2
    <3> HIDE DEF doms
    <3> QED
      BY <3>1, <3>2
  <2>4. ipdom(m) = Nearest(doms, m, NoNode)
    BY <2>1 DEF ipdom, IPostDom
  <2> HIDE DEF doms
  <2> QED
    BY <2>3, <2>4, Zenon DEF Nearest
<1>2. ASSUME NEW d \in Node PROVE d \in near <=> nearest(d)
  <2>1. ASSUME d \in near PROVE nearest(d)
    BY <2>1, StrictlyPostDominates, PostDominatesSelf
  <2>2. ASSUME nearest(d) PROVE d \in near
    <3>1. d \in StrictPostDominators(succ, m)
      BY <2>2, StrictlyPostDominates
    <3>2. ASSUME NEW e \in StrictPostDominators(succ, m) PROVE e = d \/ e \in StrictPostDominators(succ, d)
      BY <2>2, <3>2, StrictlyPostDominates
    <3>3. ASSUME NEW e \in StrictPostDominators(succ, d) PROVE e \in StrictPostDominators(succ, m)
      <4>1. e \in Node /\ e # d /\ PostDominates(e, d)
        BY <3>3, StrictlyPostDominates
      <4>2. PostDominates(e, m)
        BY <2>2, <4>1, PostDominatesTransitive
      <4>3. e # m
        BY <2>2, <4>1, PostDominatesOneWay
      <4> QED
        BY <4>1, <4>2, <4>3, StrictlyPostDominates
    <3> QED
      BY <3>1, <3>2, <3>3
  <2> QED
    BY <2>1, <2>2
<1>3. \A d \in near : d \in Node
  BY StrictlyPostDominates
<1> HIDE DEF near
<1>4. ASSUME NEW d \in Node, NEW e \in Node, nearest(d), nearest(e) PROVE d = e
  <2>1. PostDominates(d, e) /\ PostDominates(e, d)
    BY <1>4
  <2> QED
    BY <2>1, PostDominatesOneWay
<1>5. ASSUME nearest(b) PROVE ipdom(m) = b
  <2>1. b \in near
    BY <1>2, <1>5
  <2>2. \A d \in near : d = b
    <3>1. ASSUME NEW d \in near PROVE d = b
      <4>1. d \in Node /\ nearest(d)
        BY <1>2, <1>3
      <4> HIDE DEF nearest
      <4> QED
        BY <1>4, <1>5, <4>1
    <3> QED
      BY <3>1
  <2> HIDE DEF nearest
  <2> QED
    BY <1>1, <2>1, <2>2
<1>6. ASSUME ipdom(m) = b PROVE nearest(b)
  <2>1. near # {}
    BY <1>1, <1>6, GraphAssumption
  <2>2. b \in near
    BY <1>1, <1>6, <2>1
  <2> QED
    BY <1>2, <2>2
<1> QED
  BY <1>5, <1>6

\* Who post-dominates a successor b of p as well as all other paths from p has b as parent.
LEMMA ipdomSuccessor ==
    ASSUME TypeOK, Treed, NEW p \in Node, NEW b \in succ[p], b # p
    PROVE  ipdom(p) = b <=> PostDominates(b, p)
<1>1. b \in Node
  BY SuccessorsGraph
<1>2. ASSUME NEW e \in Node \ {p}, PostDominates(e, p) PROVE PostDominates(e, b)
  BY <1>2, PostDominatesNext
<1> QED
  BY <1>1, <1>2, ipdomAt

\* On the way up the tree from s to a post-dominator b of s there is a child of b.
LEMMA ChildBelow ==
    ASSUME TypeOK, Treed, NEW s \in Node, NEW b \in Node, b # s, PostDominates(b, s)
    PROVE  \E c \in Node : PostDominates(c, s) /\ ipdom(c) = b
<1> DEFINE above(c) == {e \in Node \ {c} : PostDominates(e, c)}
           C == {c \in Node : c # b /\ PostDominates(c, s) /\ PostDominates(b, c)}
           sizes == {Cardinality(above(c)) : c \in C}
<1>1. s \in C
  BY PostDominatesSelf
<1>2. \A c \in C : IsFiniteSet(above(c)) /\ Cardinality(above(c)) \in Nat
  <2>1. \A c \in C : above(c) \in SUBSET Node
    OBVIOUS
  <2> HIDE DEF above, C
  <2> QED
    BY <2>1, NodeSets
<1>3. sizes \in SUBSET Nat /\ sizes # {}
  <2> HIDE DEF C, above
  <2> QED
    BY <1>1, <1>2
<1>4. PICK n \in sizes : \A k \in sizes : n <= k
  <2> HIDE DEF sizes
  <2> QED
    BY <1>3, LeastMember
<1>5. PICK c \in C : n = Cardinality(above(c))
  OBVIOUS
<1>6. ASSUME NEW e \in Node \ {c}, PostDominates(e, c) PROVE PostDominates(e, b)
  <2> SUFFICES ASSUME ~ PostDominates(e, b) PROVE FALSE
    OBVIOUS
  <2>1. PostDominates(b, e) /\ e # b
    BY <1>6, PostDominatesChain, PostDominatesSelf
  <2>2. e \in C
    BY <1>6, <2>1, PostDominatesTransitive
  <2>3. above(e) \subseteq above(c) \ {e}
    <3>1. ASSUME NEW x \in above(e) PROVE x \in above(c)
      <4>1. PostDominates(x, c)
        BY <1>6, <3>1, PostDominatesTransitive
      <4>2. x # c
        BY <1>6, <3>1, PostDominatesOneWay
      <4> QED
        BY <3>1, <4>1, <4>2
    <3> QED
      BY <3>1
  <2>4. e \in above(c)
    BY <1>6
  <2>5. Cardinality(above(e)) < Cardinality(above(c))
    <3>1. IsFiniteSet(above(c)) /\ above(e) \subseteq above(c) /\ above(e) # above(c)
      BY <1>2, <2>3, <2>4
    <3>2. IsFiniteSet(above(e)) /\ Cardinality(above(e)) \in Nat /\ Cardinality(above(c)) \in Nat
      BY <1>2, <2>2
    <3> HIDE DEF above, C
    <3> QED
      BY <3>1, <3>2, FS_Subset
  <2>6. n <= Cardinality(above(e))
    BY <1>4, <2>2
  <2> HIDE DEF above, C, sizes
  <2> QED
    BY <1>2, <1>5, <2>2, <2>5, <2>6
<1>7. ipdom(c) = b
  BY <1>6, ipdomAt
<1> QED
  BY <1>5, <1>7

-----------------------------------------------------------------------------
(* Post-dominance frontiers.                                                 *)

\* The nodes on which b is control dependent, as the analysis is to find them.
StandardOn(b) == {p \in Node :
    /\ ControlDependent(succ, p, b)
    /\ job = "PDF" /\ p = b => b \in succ[b]}

LEMMA ControlDependentAt ==
    ASSUME TypeOK, NEW p \in Node, NEW b \in Node
    PROVE  ControlDependent(succ, p, b) <=>
              /\ \E s \in succ[p] : PostDominates(b, s)
              /\ b = p \/ ~ PostDominates(b, p)
  BY StrictlyPostDominates, PostDominatesSelf DEF ControlDependent

\* Whose frontier a node leaves on the way up: parents in dg, post-dominators in LLVM,
\* which comes to the same for the nodes of the frontier of a child.
LEMMA UpExact ==
    ASSUME TypeOK, Treed, job \in {"PDF", "SCD"}, NEW b \in Node, NEW c \in Node, ipdom(c) = b,
           NEW f \in StandardOn(c)
    PROVE  Up(b, f) <=> (b = f \/ ~ PostDominates(b, f)) /\ (job = "PDF" => f # b)
<1>1. b # c /\ PostDominates(b, c) /\ \A e \in Node \ {c} : PostDominates(e, c) => PostDominates(e, b)
  BY ipdomAt
<1>2. PICK s \in succ[f] : PostDominates(c, s)
  BY ControlDependentAt DEF StandardOn
<1>3. c = f \/ ~ PostDominates(c, f)
  BY ControlDependentAt DEF StandardOn
<1>4. CASE job = "SCD"
  BY <1>4, StrictlyPostDominates DEF Up
<1>5. CASE job = "PDF" /\ f = b
  BY <1>5 DEF Up
<1>6. CASE job = "PDF" /\ f # b
  <2>1. f \in Node /\ s \in Node
    BY SuccessorsGraph DEF StandardOn
  <2>2. ASSUME PostDominates(b, f), NEW e \in Node \ {f}, PostDominates(e, f)
        PROVE  PostDominates(e, b)
    <3> SUFFICES ASSUME ~ PostDominates(e, b) PROVE FALSE
      OBVIOUS
    <3>1. e # b /\ PostDominates(b, e)
      BY <2>1, <2>2, PostDominatesChain, PostDominatesSelf
    <3>2. c # f
      BY <1>1, <2>2
    <3>3. c # e /\ ~ PostDominates(c, f)
      BY <1>3, <2>2, <3>2
    <3>4. PostDominates(e, s)
      BY <2>1, <2>2, PostDominatesNext
    <3>5. CASE PostDominates(e, c)
      BY <1>1, <3>3, <3>5
    <3>6. CASE PostDominates(c, e)
      BY <2>1, <2>2, <3>3, <3>6, PostDominatesTransitive
    <3> QED
      BY <1>2, <2>1, <3>4, <3>5, <3>6, PostDominatesChain
  <2>3. ipdom(f) = b <=> PostDominates(b, f)
    BY <1>6, <2>1, <2>2, ipdomAt
  <2> QED
    BY <1>6, <2>3 DEF Up
<1> QED
  BY <1>4, <1>5, <1>6

\* The frontier of b, from the nodes before it and the frontiers of its children.
LEMMA FrontierExact ==
    ASSUME TypeOK, Treed, job \in {"PDF", "SCD"}, NEW b \in Node,
           \A c \in Children(b) : cd[c] = StandardOn(c)
    PROVE  {p \in Pred(succ, b) : ipdom(p) # b} \cup {f \in UNION {cd[c] : c \in Children(b)} : Up(b, f)}
              = StandardOn(b)
<1> DEFINE local == {p \in Pred(succ, b) : ipdom(p) # b}
           up == {f \in UNION {cd[c] : c \in Children(b)} : Up(b, f)}
<1>1. ASSUME NEW p \in local PROVE p \in StandardOn(b)
  <2>1. p \in Node /\ b \in succ[p] /\ ipdom(p) # b
    BY PredType
  <2>2. b = p \/ ~ PostDominates(b, p)
    BY <2>1, ipdomSuccessor
  <2> QED
    BY <2>1, <2>2, ControlDependentAt, PostDominatesSelf DEF StandardOn
<1>2. ASSUME NEW f \in up PROVE f \in StandardOn(b)
  <2>1. PICK c \in Children(b) : f \in cd[c] /\ Up(b, f)
    OBVIOUS
  <2>2. c \in Node /\ ipdom(c) = b /\ f \in StandardOn(c)
    BY <2>1 DEF Children
  <2>3. f \in Node /\ PostDominates(b, c)
    BY <2>2, ipdomAt DEF StandardOn
  <2>4. PICK s \in succ[f] : PostDominates(c, s)
    BY <2>2, <2>3, ControlDependentAt DEF StandardOn
  <2>5. PostDominates(b, s)
    BY <2>2, <2>3, <2>4, PostDominatesTransitive, SuccessorsGraph
  <2>6. (b = f \/ ~ PostDominates(b, f)) /\ (job = "PDF" => f # b)
    BY <2>1, <2>2, UpExact
  <2> QED
    BY <2>3, <2>5, <2>6, ControlDependentAt DEF StandardOn
<1>3. ASSUME NEW p \in StandardOn(b), p \notin local PROVE p \in up
  <2>1. /\ p \in Node
        /\ b = p \/ ~ PostDominates(b, p)
        /\ job = "PDF" /\ p = b => b \in succ[b]
    BY <1>3, ControlDependentAt DEF StandardOn
  <2>2. PICK s \in succ[p] : PostDominates(b, s)
    BY <1>3, <2>1, ControlDependentAt DEF StandardOn
  <2>3. b \notin succ[p]
    <3>1. ipdom(p) # b
      BY <2>1, ipdomAt
    <3> QED
      BY <1>3, <2>1, <3>1, PredType
  <2>4. s \in Node /\ b # s
    BY <2>1, <2>3, SuccessorsGraph
  <2>5. PICK c \in Node : PostDominates(c, s) /\ ipdom(c) = b
    BY <2>2, <2>4, ChildBelow
  <2>6. b # c /\ PostDominates(b, c)
    BY <2>5, ipdomAt
  <2>7. c = p \/ ~ PostDominates(c, p)
    <3> SUFFICES ASSUME PostDominates(c, p), c # p PROVE FALSE
      OBVIOUS
    <3>1. PostDominates(b, p)
      BY <2>1, <2>5, <2>6, PostDominatesTransitive
    <3>2. b = p
      BY <2>1, <3>1
    <3> QED
      BY <2>6, <3>2, PostDominatesOneWay
  <2>8. c # p
    BY <2>1, <2>6
  <2>9. p \in StandardOn(c)
    BY <2>1, <2>5, <2>7, <2>8, ControlDependentAt DEF StandardOn
  <2>10. Up(b, p)
    BY <2>1, <2>3, <2>5, <2>9, UpExact
  <2>11. c \in Children(b)
    BY <2>5 DEF Children
  <2> QED
    BY <2>9, <2>10, <2>11
<1> HIDE DEF local, up
<1>4. local \cup up = StandardOn(b)
  BY <1>1, <1>2, <1>3
<1> QED
  BY <1>4 DEF local, up

\* The nodes that are done with have their frontiers.
FrontiersInv == job \in {"PDF", "SCD"} =>
    /\ Treed
    /\ \A b \in Node \ left : cd[b] = StandardOn(b)
    /\ phase = "done" => left = {}

LEMMA FrontiersStep == TypeOK /\ FrontiersInv /\ [Next]_vars => FrontiersInv'
<1> SUFFICES ASSUME TypeOK, FrontiersInv, [Next]_vars, job' \in {"PDF", "SCD"}
             PROVE  /\ Treed' /\ \A b \in Node \ left' : cd'[b] = StandardOn(b)'
                    /\ phase' = "done" => left' = {}
  BY DEF FrontiersInv
<1>1. UNCHANGED <<succ, job>>
  BY DEF Next, BeginNTSCD, Pop, EndNTSCD, BeginGamma, AddToClosure, BeginNTSCD2, Examine, NextRound,
         EndNTSCD2, ProcessRanganath, EndRoundRanganath, ComputeFrontier, vars, input
<1>2. Treed /\ Treed' /\ \A b : StandardOn(b)' = StandardOn(b)
  BY <1>1 DEF FrontiersInv, Treed, StandardOn
<1>3. CASE ComputeFrontier
  <2>1. PICK b \in left :
          /\ Children(b) \cap left = {} /\ left' = left \ {b}
          /\ cd' = [cd EXCEPT ![b] =
                {p \in Pred(succ, b) : ipdom(p) # b}
                \cup {f \in UNION {cd[c] : c \in Children(b)} : Up(b, f)}]
    BY <1>3 DEF ComputeFrontier
  <2>2. \A c \in Children(b) : cd[c] = StandardOn(c)
    BY <1>1, <2>1 DEF FrontiersInv, Children
  <2>3. b \in Node /\ job \in {"PDF", "SCD"}
    BY <1>1 DEF TypeOK
  <2>4. cd'[b] = StandardOn(b)
    BY <1>2, <2>1, <2>2, <2>3, FrontierExact DEF TypeOK
  <2>5. \A m \in Node : m # b => cd'[m] = cd[m]
    BY <2>1 DEF TypeOK
  <2>6. phase' = "done" => left' = {}
    BY <1>3 DEF ComputeFrontier
  <2> QED
    BY <1>1, <1>2, <2>1, <2>4, <2>5, <2>6 DEF FrontiersInv
<1>4. CASE BeginNTSCD \/ Pop \/ EndNTSCD \/ BeginGamma \/ AddToClosure
  BY <1>1, <1>4 DEF BeginNTSCD, Pop, EndNTSCD, BeginGamma, AddToClosure
<1>5. CASE BeginNTSCD2 \/ Examine \/ NextRound \/ EndNTSCD2 \/ ProcessRanganath \/ EndRoundRanganath
  BY <1>1, <1>5 DEF BeginNTSCD2, Examine, NextRound, EndNTSCD2, ProcessRanganath, EndRoundRanganath
<1>6. CASE UNCHANGED vars
  BY <1>1, <1>2, <1>6 DEF vars, FrontiersInv
<1> QED
  BY <1>3, <1>4, <1>5, <1>6 DEF Next

\* The frontiers computed bottom-up are, on every graph with a way out from everywhere and
\* whichever child comes first, the control dependences of Ferrante, Ottenstein and Warren.
THEOREM ComputesStandard == Spec => []StandardExact
<1>1. Init => FrontiersInv
  BY DEF Init, FrontiersInv
<1>2. TypeOK /\ FrontiersInv /\ [Next]_vars => FrontiersInv'
  BY FrontiersStep
<1>3. FrontiersInv => StandardExact
  BY DEF FrontiersInv, StandardExact, StandardOn
<1> QED
  BY <1>1, <1>2, <1>3, TypeCorrect, PTL DEF Spec

-----------------------------------------------------------------------------
(* Decisive order dependence: paths through the graph Ap.                    *)

\* The first nodes of N from m are those from its successors.
LEMMA FirstFrom ==
    ASSUME TypeOK, NEW N, NEW m \in Node, NEW z
    PROVE  z \in FirstReachable(N, m) <=> \E s \in succ[m] : z \in theta(N, s)
<1>1. z \in FirstReachable(N, m) <=>
         z \in N /\ (z \in succ[m] \/ \E b \in Between(N, m) : z \in succ[b])
  BY DEF FirstReachable, Between
<1>2. ASSUME NEW s \in succ[m], z \in theta(N, s) PROVE z \in FirstReachable(N, m)
  <2>1. CASE s \in N
    BY <1>1, <1>2, <2>1 DEF theta
  <2>2. CASE s \notin N
    <3>1. s \in Between(N, m) /\ s \in Node
      BY <2>2, BetweenLeast, SuccessorsGraph
    <3>2. Between(N, s) \subseteq Between(N, m)
      <4>1. \A t \in succ[s] : t \in N \/ t \in Between(N, m)
        BY <3>1, BetweenLeast
      <4>2. \A b \in Between(N, m) : \A t \in succ[b] : t \in N \/ t \in Between(N, m)
        BY BetweenLeast
      <4> QED
        BY <3>1, <4>1, <4>2, BetweenLeast
    <3>3. z \in N /\ (z \in succ[s] \/ \E b \in Between(N, s) : z \in succ[b])
      BY <1>2, <2>2, ThetaAt
    <3> QED
      BY <1>1, <3>1, <3>2, <3>3
  <2> QED
    BY <2>1, <2>2
<1>3. ASSUME z \in FirstReachable(N, m) PROVE \E s \in succ[m] : z \in theta(N, s)
  <2> DEFINE C == {b \in Node : \E s \in succ[m] : s \notin N /\ (b = s \/ b \in Between(N, s))}
  <2>0. succ[m] \subseteq Node
    BY SuccessorsGraph
  <2>1. \A s \in succ[m] : s \in N \/ s \in C
    BY <2>0
  <2>2. ASSUME NEW b \in C, NEW t \in succ[b] PROVE t \in N \/ t \in C
    <3>1. PICK s \in succ[m] : s \notin N /\ (b = s \/ b \in Between(N, s))
      OBVIOUS
    <3>2. t \in Node /\ s \in Node
      BY <2>0, SuccessorsGraph
    <3>3. t \in N \/ t \in Between(N, s)
      BY <3>1, <3>2, BetweenLeast
    <3> QED
      BY <3>1, <3>2, <3>3
  <2>3. Between(N, m) \subseteq C
    <3> HIDE DEF C
    <3> QED
      BY <2>1, <2>2, BetweenLeast
  <2>4. z \in N
    BY <1>1, <1>3
  <2>5. CASE z \in succ[m]
    BY <2>4, <2>5 DEF theta
  <2>6. ASSUME NEW b \in Between(N, m), z \in succ[b] PROVE \E s \in succ[m] : z \in theta(N, s)
    <3>1. PICK s \in succ[m] : s \notin N /\ (b = s \/ b \in Between(N, s))
      BY <2>3
    <3> QED
      BY <2>4, <2>6, <3>1, ThetaAt
  <2> QED
    BY <1>1, <1>3, <2>5, <2>6
<1> QED
  BY <1>2, <1>3

\* The same of the nodes that m, which is not one of them, meets first.
LEMMA ThetaFrom ==
    ASSUME TypeOK, NEW N, NEW m \in Node, m \notin N, NEW z
    PROVE  z \in theta(N, m) <=> \E s \in succ[m] : z \in theta(N, s)
<1>1. theta(N, m) = FirstReachable(N, m)
  BY DEF theta
<1> QED
  BY <1>1, FirstFrom

\* What inevitably reaches N meets a node of it first.
LEMMA InevitableTheta ==
    ASSUME TypeOK, NEW N \in SUBSET Node, NEW m \in Inevitable(succ, N)
    PROVE  theta(N, m) # {}
<1> DEFINE C == {n \in Node : theta(N, n) # {}}
<1>1. N \subseteq C
  BY DEF theta
<1>2. ASSUME NEW n \in Node, succ[n] # {}, succ[n] \subseteq C PROVE n \in C
  <2>1. CASE n \in N
    BY <1>1, <2>1
  <2>2. CASE n \notin N
    <3>1. PICK s \in succ[n] : theta(N, s) # {}
      BY <1>2
    <3>2. PICK z : z \in theta(N, s)
      BY <3>1
    <3> QED
      BY <2>2, <3>2, ThetaFrom
  <2> QED
    BY <2>1, <2>2
<1>3. Inevitable(succ, N) \subseteq C
  <2>1. C \in SUBSET Node
    OBVIOUS
  <2> HIDE DEF C
  <2> QED
    BY <1>1, <1>2, <2>1, InevitableSmallest DEF Closed
<1> QED
  BY <1>3

-----------------------------------------------------------------------------
(* The graph Ap.                                                             *)

\* The nodes on all maximal paths from p, and those of them after which a path may come to
\* none of them again.
AllPaths(p) == {m \in Node : p \in Inevitable(succ, {m})}
Escapes(p) ==
    {m \in AllPaths(p) : succ[m] = {} \/ \E s \in succ[m] : s \notin Inevitable(succ, AllPaths(p))}

\* A node that is on all maximal paths from p is met from all successors of p.
LEMMA AllPathsFacts ==
    ASSUME TypeOK, NEW p \in Node
    PROVE  /\ AllPaths(p) \in SUBSET Node /\ p \in AllPaths(p)
           /\ \A m \in AllPaths(p) \ {p} : succ[p] # {} /\ succ[p] \subseteq Inevitable(succ, {m})
           /\ \A m \in AllPaths(p) \ {p} : Inevitable(succ, {m}) \subseteq Inevitable(succ, AllPaths(p))
           /\ \A m \in AllPaths(p) : FirstReachable(AllPaths(p), m) = {} => m \in Escapes(p)
           /\ \A m \in AllPaths(p) : FirstReachable(AllPaths(p), m) \subseteq AllPaths(p)
<1>1. AllPaths(p) \in SUBSET Node /\ p \in AllPaths(p)
  <2>1. {p} \subseteq Inevitable(succ, {p})
    BY InevitableHolds
  <2> QED
    BY <2>1 DEF AllPaths
<1>2. ASSUME NEW m \in AllPaths(p) \ {p} PROVE succ[p] # {} /\ succ[p] \subseteq Inevitable(succ, {m})
  <2>1. {m} \in SUBSET Node /\ p \in Inevitable(succ, {m}) /\ p \notin {m}
    BY DEF AllPaths
  <2> QED
    BY <2>1, InevitableSuccessors
<1>3. ASSUME NEW m \in AllPaths(p) \ {p}
      PROVE  Inevitable(succ, {m}) \subseteq Inevitable(succ, AllPaths(p))
  <2>1. AllPaths(p) \subseteq Inevitable(succ, AllPaths(p))
    BY <1>1, InevitableHolds
  <2> QED
    BY <1>1, <2>1, InevitableTransitive
<1>4. ASSUME NEW m \in AllPaths(p), FirstReachable(AllPaths(p), m) = {} PROVE m \in Escapes(p)
  <2> SUFFICES ASSUME succ[m] # {}, \A s \in succ[m] : s \in Inevitable(succ, AllPaths(p)) PROVE FALSE
    BY DEF Escapes
  <2>1. PICK s \in succ[m] : TRUE
    OBVIOUS
  <2>2. PICK z : z \in theta(AllPaths(p), s)
    BY <1>1, InevitableTheta
  <2> QED
    BY <1>1, <1>4, <2>2, FirstFrom
<1>5. \A m \in AllPaths(p) : FirstReachable(AllPaths(p), m) \subseteq AllPaths(p)
  BY DEF FirstReachable
<1> QED
  BY <1>1, <1>2, <1>3, <1>4, <1>5

\* A way through Ap from p that may go on for ever, or come to none of its nodes any more,
\* has met all of them.
LEMMA WaysMeetAll ==
    ASSUME TypeOK, NEW p \in Node, NEW Z \in SUBSET AllPaths(p),
           p \in Z \/ FirstReachable(AllPaths(p), p) \cap Z # {},
           \A z \in Z : z \in Escapes(p) \/ FirstReachable(AllPaths(p), z) \cap Z # {}
    PROVE  AllPaths(p) \subseteq Z \cup {p}
<1> DEFINE P == AllPaths(p)
<1>0. P \in SUBSET Node /\ p \in P /\ P \subseteq Inevitable(succ, P)
  BY AllPathsFacts, InevitableHolds
<1> SUFFICES ASSUME NEW m \in P, m \notin Z, m # p PROVE FALSE
  OBVIOUS
<1> DEFINE W == Z \cup {n \in Node \ P : n \notin Inevitable(succ, P) \/ theta(P, n) \cap Z # {}}
\* From what is in W there is a next node in W.
<1>1. ASSUME NEW n \in Node, NEW z \in Z, z \in theta(P, n) PROVE n \in W
  BY <1>1 DEF theta
<1>2. ASSUME NEW n \in Node, n \notin Inevitable(succ, P) PROVE n \in W
  BY <1>0, <1>2
<1>3. ASSUME NEW n \in W, succ[n] # {} PROVE \E s \in succ[n] : s \in W
  <2>0. n \in Node /\ succ[n] \subseteq Node
    BY <1>0, SuccessorsGraph
  <2>1. CASE n \in Z
    <3>1. CASE n \in Escapes(p)
      BY <1>2, <1>3, <2>0, <3>1 DEF Escapes
    <3>2. CASE FirstReachable(P, n) \cap Z # {}
      <4>1. PICK z \in Z : z \in FirstReachable(P, n)
        BY <3>2
      <4>2. PICK s \in succ[n] : z \in theta(P, s)
        BY <2>0, <4>1, FirstFrom
      <4> HIDE DEF W
      <4> QED
        BY <1>1, <2>0, <4>2
    <3> QED
      BY <2>1, <3>1, <3>2
  <2>2. CASE n \notin P /\ n \notin Inevitable(succ, P)
    <3>1. \E s \in succ[n] : s \notin Inevitable(succ, P)
      BY <1>0, <1>3, <2>0, <2>2, InevitableClosed DEF Closed
    <3> HIDE DEF W
    <3> QED
      BY <1>2, <2>0, <3>1
  <2>3. CASE n \notin P /\ theta(P, n) \cap Z # {}
    <3>1. PICK z \in Z : z \in theta(P, n)
      BY <2>3
    <3>2. PICK s \in succ[n] : z \in theta(P, s)
      BY <2>0, <2>3, <3>1, ThetaFrom
    <3> HIDE DEF W
    <3> QED
      BY <1>1, <2>0, <3>2
  <2> QED
    BY <2>1, <2>2, <2>3
<1>4. Inevitable(succ, {m}) \subseteq Node \ W
  <2>1. m \notin W
    OBVIOUS
  <2> HIDE DEF W, P
  <2>2. Closed(succ, Node \ W)
    BY <1>3 DEF Closed
  <2>3. {m} \subseteq Node \ W
    BY <1>0, <2>1
  <2> QED
    BY <2>2, <2>3, InevitableSmallest
<1>5. p \in Inevitable(succ, {m}) /\ succ[p] \subseteq Inevitable(succ, {m})
  BY AllPathsFacts DEF AllPaths
<1>6. CASE p \in Z
  BY <1>4, <1>5, <1>6
<1>7. CASE FirstReachable(P, p) \cap Z # {}
  <2>1. PICK z \in Z : z \in FirstReachable(P, p)
    BY <1>7
  <2>2. PICK s \in succ[p] : z \in theta(P, s)
    BY <2>1, FirstFrom
  <2>3. s \in W
    <3> HIDE DEF W
    <3> QED
      BY <1>1, <2>2, SuccessorsGraph
  <2> QED
    BY <1>4, <1>5, <2>3
<1> QED
  BY <1>6, <1>7

-----------------------------------------------------------------------------
(* A graph whose endless ways meet all nodes is a cycle.                     *)

\* A graph F of the nodes P, in which paths may end at the nodes Esc, is decisive when the
\* way out of p is open and every way that may go on for ever or end has met all nodes:
\* what is left out of the ways is left out of none.
WayThrough(P, F, Esc, p, Z) ==
    /\ p \in Z \/ F[p] \cap Z # {}
    /\ \A z \in Z : z \in Esc \/ F[z] \cap Z # {}

Decisive(P, F, Esc, p) ==
    /\ p \in P /\ F \in [P -> SUBSET P]
    /\ \A m \in P : F[m] = {} => m \in Esc
    /\ \A Z \in SUBSET P : WayThrough(P, F, Esc, p, Z) => P \subseteq Z \cup {p}

\* The nodes from which A is reached by way of others than those to avoid.
Back(P, F, A, Avoid) ==
    {z \in P : \A C \in SUBSET P :
        A \subseteq C /\ (\A w \in P \ Avoid : F[w] \cap C # {} => w \in C) => z \in C}

\* They are the least set that holds A and what goes to a member.
LEMMA BackLeast ==
    ASSUME NEW P, NEW F \in [P -> SUBSET P], NEW A \in SUBSET P, NEW Avoid
    PROVE  /\ A \subseteq Back(P, F, A, Avoid) /\ Back(P, F, A, Avoid) \subseteq P
           /\ \A z \in P \ Avoid : F[z] \cap Back(P, F, A, Avoid) # {} => z \in Back(P, F, A, Avoid)
           /\ \A z \in Back(P, F, A, Avoid) \ A :
                 z \notin Avoid /\ F[z] \cap Back(P, F, A, Avoid) # {}
<1> DEFINE B == Back(P, F, A, Avoid)
           Holds(C) == A \subseteq C /\ \A w \in P \ Avoid : F[w] \cap C # {} => w \in C
<1>0. B = {z \in P : \A C \in SUBSET P : Holds(C) => z \in C}
  BY DEF Back
<1> HIDE DEF B
<1>1. A \subseteq B /\ B \subseteq P
  BY <1>0
<1>2. ASSUME NEW z \in P \ Avoid, F[z] \cap B # {} PROVE z \in B
  <2> SUFFICES ASSUME NEW C \in SUBSET P, Holds(C) PROVE z \in C
    BY <1>0
  <2>1. B \subseteq C
    BY <1>0
  <2> QED
    BY <1>2, <2>1
<1>3. ASSUME NEW z \in B \ A, ~ (z \notin Avoid /\ F[z] \cap B # {}) PROVE FALSE
  <2> DEFINE C == B \ {z}
  <2>1. Holds(C)
    BY <1>1, <1>2, <1>3
  <2>2. z \in C
    BY <1>0, <1>1, <2>1
  <2> QED
    BY <2>2
<1> QED
  BY <1>1, <1>2, <1>3 DEF B

\* Let a way lead from x, where p may go, to m, past y, where p may go as well.  Then from m
\* no path ends, and one node comes next, which is not p.
LEMMA NextFrom ==
    ASSUME NEW P, NEW F, NEW Esc, NEW p, Decisive(P, F, Esc, p),
           NEW x \in F[p], NEW y \in F[p], y # p,
           NEW Q \in SUBSET P, x \in Q, y \notin Q,
           NEW m \in Q, m # p, \A z \in Q \ {m} : F[z] \cap Q # {}
    PROVE  m \notin Esc /\ \E n \in P \ {p} : F[m] = {n}
<1>0. /\ p \in P /\ F \in [P -> SUBSET P] /\ y \in P /\ m \in P
      /\ \A w \in P : F[w] = {} => w \in Esc
  BY DEF Decisive
<1>1. ASSUME NEW Z \in SUBSET P, WayThrough(P, F, Esc, p, Z), NEW n \in P, n \notin Z, n # p
      PROVE  FALSE
  BY <1>1 DEF Decisive
<1>2. m \notin Esc
  <2>1. SUFFICES ASSUME m \in Esc PROVE WayThrough(P, F, Esc, p, Q)
    BY <1>0, <1>1
  <2> QED
    BY <2>1 DEF WayThrough
<1>3. F[m] \cap Q = {}
  <2>1. SUFFICES ASSUME F[m] \cap Q # {} PROVE WayThrough(P, F, Esc, p, Q)
    BY <1>0, <1>1
  <2> QED
    BY <2>1 DEF WayThrough
<1>4. p \notin F[m]
  <2> DEFINE Z == Q \cup {p}
  <2>1. SUFFICES ASSUME p \in F[m] PROVE WayThrough(P, F, Esc, p, Z)
    <3>1. Z \in SUBSET P /\ y \notin Z
      BY <1>0
    <3> HIDE DEF Z
    <3> QED
      BY <1>0, <1>1, <2>1, <3>1
  <2>2. ASSUME NEW z \in Z PROVE F[z] \cap Z # {}
    BY <2>1
  <2> QED
    BY <2>2 DEF WayThrough
<1>5. ASSUME NEW n1 \in F[m], NEW n2 \in F[m], n1 # n2 PROVE FALSE
  <2> DEFINE V == {n1, n2}
             U == Back(P, F, Q, V)
             R == P \ U
  <2>0. n1 \in P /\ n2 \in P /\ n1 # p /\ n2 # p /\ n1 \notin Q /\ n2 \notin Q
    BY <1>0, <1>3, <1>4
  <2>1. /\ Q \subseteq U /\ U \subseteq P
        /\ \A z \in P \ {n1, n2} : F[z] \cap U # {} => z \in U
        /\ \A z \in U \ Q : z \notin {n1, n2} /\ F[z] \cap U # {}
    <3> HIDE DEF V
    <3>1. /\ Q \subseteq U /\ U \subseteq P
          /\ \A z \in P \ V : F[z] \cap U # {} => z \in U
          /\ \A z \in U \ Q : z \notin V /\ F[z] \cap U # {}
      BY <1>0, BackLeast
    <3> HIDE DEF U
    <3> QED
      BY <3>1 DEF V
  <2> HIDE DEF U, V
  <2>2. \A z \in U \ {m} : F[z] \cap U # {}
    BY <2>1
  <2>3. n1 \notin U /\ n2 \notin U
    BY <2>0, <2>1
  <2>4. ASSUME NEW k \in F[m], k \in P, k \notin U, NEW l \in P, l \notin U, l # p, l # k,
               F[k] \cap U # {}
        PROVE  FALSE
    <3> DEFINE Z == U \cup {k}
    <3>1. Z \in SUBSET P /\ l \notin Z /\ x \in Z
      BY <2>1, <2>4
    <3>2. ASSUME NEW z \in Z PROVE F[z] \cap Z # {}
      BY <2>2, <2>4
    <3>3. WayThrough(P, F, Esc, p, Z)
      BY <3>1, <3>2 DEF WayThrough
    <3> HIDE DEF Z
    <3> QED
      BY <1>1, <2>4, <3>1, <3>3
  <2>5. F[n1] \cap U = {} /\ F[n2] \cap U = {}
    BY <1>5, <2>0, <2>3, <2>4
  <2>6. ASSUME NEW z \in R PROVE z \in Esc \/ F[z] \cap R # {}
    <3>1. F[z] \cap U = {}
      BY <2>1, <2>5
    <3> QED
      BY <1>0, <3>1
  <2>7. CASE y \notin U
    <3>1. WayThrough(P, F, Esc, p, R)
      BY <1>0, <2>6, <2>7 DEF WayThrough
    <3>2. R \in SUBSET P /\ m \notin R
      BY <2>1
    <3> HIDE DEF R
    <3> QED
      BY <1>0, <1>1, <3>1, <3>2
  <2>8. CASE y \in U
    <3> DEFINE Z == Q \cup R
    <3>1. Z \in SUBSET P /\ y \notin Z /\ x \in Z /\ n1 \in Z
      BY <2>0, <2>3, <2>8
    <3>2. ASSUME NEW z \in Z PROVE z \in Esc \/ F[z] \cap Z # {}
      <4>1. CASE z = m
        BY <1>5, <3>1, <4>1
      <4>2. CASE z \in Q /\ z # m
        BY <4>2
      <4>3. CASE z \in R
        BY <2>6, <4>3
      <4> QED
        BY <4>1, <4>2, <4>3
    <3>3. WayThrough(P, F, Esc, p, Z)
      BY <3>1, <3>2 DEF WayThrough
    <3> HIDE DEF Z
    <3> QED
      BY <1>0, <1>1, <3>1, <3>3
  <2> QED
    BY <2>7, <2>8
<1>6. PICK n \in F[m] : TRUE
  BY <1>0, <1>2
<1>7. F[m] = {n} /\ n \in P \ {p}
  BY <1>0, <1>4, <1>5, <1>6
<1> QED
  BY <1>2, <1>7

\* When p may go to two nodes, no path ends at a node but p, and one node comes next.
LEMMA OneWay ==
    ASSUME NEW P, NEW F, NEW Esc, NEW p, Decisive(P, F, Esc, p),
           NEW x \in F[p], NEW y \in F[p], x # y
    PROVE  /\ p \notin F[p]
           /\ \A m \in P \ {p} : m \notin Esc /\ \E n \in P \ {p} : F[m] = {n}
<1>0. /\ p \in P /\ F \in [P -> SUBSET P] /\ x \in P /\ y \in P
      /\ \A w \in P : F[w] = {} => w \in Esc
  BY DEF Decisive
<1>1. p \notin F[p]
  <2> SUFFICES ASSUME p \in F[p] PROVE FALSE
    OBVIOUS
  <2> DEFINE Z == {p}
  <2>1. WayThrough(P, F, Esc, p, Z) /\ Z \in SUBSET P
    BY <1>0 DEF WayThrough
  <2>2. P \subseteq Z \cup {p}
    <3> HIDE DEF Z
    <3> QED
      BY <2>1 DEF Decisive
  <2> QED
    BY <1>0, <2>2
<1>2. ASSUME NEW m \in P, m # p PROVE m \notin Esc /\ \E n \in P \ {p} : F[m] = {n}
  <2>1. ASSUME m = x \/ m = y PROVE m \notin Esc /\ \E n \in P \ {p} : F[m] = {n}
    <3> DEFINE Q == {m}
    <3>1. Q \in SUBSET P /\ m \in Q /\ \A z \in Q \ {m} : F[z] \cap Q # {}
      OBVIOUS
    <3>2. (m = x /\ x \in Q /\ y \notin Q) \/ (m = y /\ y \in Q /\ x \notin Q)
      BY <2>1
    <3> HIDE DEF Q
    <3>3. CASE m = x /\ x \in Q /\ y \notin Q
      BY <1>1, <1>2, <3>1, <3>3, NextFrom
    <3>4. CASE m = y /\ y \in Q /\ x \notin Q
      BY <1>1, <1>2, <3>1, <3>4, NextFrom
    <3> QED
      BY <3>2, <3>3, <3>4
  <2>2. ASSUME m # x, m # y PROVE m \notin Esc /\ \E n \in P \ {p} : F[m] = {n}
    <3> DEFINE A == {m}
               V == {x, y}
               B == Back(P, F, A, V)
    <3>1. /\ A \subseteq B /\ B \subseteq P
          /\ \A z \in P \ {x, y} : F[z] \cap B # {} => z \in B
          /\ \A z \in B \ A : z \notin {x, y} /\ F[z] \cap B # {}
      <4>1. A \in SUBSET P
        OBVIOUS
      <4> HIDE DEF A, V
      <4>2. /\ A \subseteq B /\ B \subseteq P
            /\ \A z \in P \ V : F[z] \cap B # {} => z \in B
            /\ \A z \in B \ A : z \notin V /\ F[z] \cap B # {}
        BY <1>0, <4>1, BackLeast
      <4> HIDE DEF B
      <4> QED
        BY <4>2 DEF V
    <3> HIDE DEF B, V
    <3>2. m \in B /\ x \notin B /\ y \notin B /\ \A z \in B \ {m} : F[z] \cap B # {}
      BY <2>2, <3>1
    <3>3. ASSUME F[x] \cap B = {}, F[y] \cap B = {} PROVE FALSE
      <4> DEFINE Z == P \ B
      <4>1. ASSUME NEW z \in Z PROVE z \in Esc \/ F[z] \cap Z # {}
        <5>1. F[z] \cap B = {}
          BY <3>1, <3>3
        <5> QED
          BY <1>0, <5>1
      <4>2. WayThrough(P, F, Esc, p, Z) /\ Z \in SUBSET P /\ m \notin Z
        BY <1>0, <3>2, <4>1 DEF WayThrough
      <4> HIDE DEF Z
      <4> QED
        BY <1>2, <4>2 DEF Decisive
    <3>4. ASSUME NEW u \in {x, y}, F[u] \cap B # {}
          PROVE  m \notin Esc /\ \E n \in P \ {p} : F[m] = {n}
      <4> DEFINE Q == B \cup {u}
      <4>1. /\ Q \in SUBSET P /\ u \in Q /\ m \in Q
            /\ \A z \in Q \ {m} : F[z] \cap Q # {}
        BY <1>0, <3>1, <3>2, <3>4
      <4>2. (u = x /\ y \notin Q) \/ (u = y /\ x \notin Q)
        BY <3>2
      <4> HIDE DEF Q
      <4>3. CASE u = x /\ y \notin Q
        BY <1>1, <1>2, <4>1, <4>3, NextFrom
      <4>4. CASE u = y /\ x \notin Q
        BY <1>1, <1>2, <4>1, <4>4, NextFrom
      <4> QED
        BY <4>2, <4>3, <4>4
    <3> QED
      BY <3>3, <3>4
  <2> QED
    BY <2>1, <2>2
<1> QED
  BY <1>1, <1>2

\* c goes through a graph, from a node to which p may go.
IsWalk(c, P, F, p) ==
    /\ c \in [Nat -> P \ {p}] /\ c[0] \in F[p]
    /\ \A i \in Nat : F[c[i]] = {c[i + 1]}

\* Such a walk goes over all nodes, and goes over them in a cycle.
LEMMA WalkCycle ==
    ASSUME NEW P, IsFiniteSet(P), NEW F, NEW Esc, NEW p, Decisive(P, F, Esc, p),
           NEW x \in F[p], NEW y \in F[p], x # y, NEW c, IsWalk(c, P, F, p)
    PROVE  /\ Cardinality(P) - 1 \in Nat \ {0}
           /\ c[Cardinality(P) - 1] = c[0]
           /\ \A m \in P \ {p} : \E i \in 0 .. Cardinality(P) - 2 : c[i] = m
           /\ \A i, j \in 0 .. Cardinality(P) - 2 : c[i] = c[j] => i = j
<1>0. /\ p \in P /\ F \in [P -> SUBSET P] /\ p \notin F[p]
      /\ \A i \in Nat : c[i] \in P \ {p} /\ F[c[i]] = {c[i + 1]}
      /\ c[0] \in F[p]
  <2>1. p \notin F[p]
    BY OneWay
  <2>2. \A i \in Nat : c[i] \in P \ {p}
    BY DEF IsWalk
  <2> QED
    BY <2>1, <2>2 DEF Decisive, IsWalk
<1>1. ASSUME NEW i \in Nat, c[i] \in F[p], NEW m \in P \ {p} PROVE \E j \in Nat : j >= i /\ c[j] = m
  <2> DEFINE Z == {c[j] : j \in {k \in Nat : k >= i}}
  <2>1. Z \in SUBSET P /\ c[i] \in Z
    BY <1>0
  <2>2. ASSUME NEW z \in Z PROVE F[z] \cap Z # {}
    <3>1. PICK j \in Nat : j >= i /\ z = c[j]
      OBVIOUS
    <3>2. F[z] = {c[j + 1]} /\ j + 1 \in Nat /\ j + 1 >= i
      BY <1>0, <3>1
    <3> QED
      BY <3>2
  <2>3. m \in Z
    <3>1. WayThrough(P, F, Esc, p, Z)
      BY <1>1, <2>1, <2>2 DEF WayThrough
    <3> HIDE DEF Z
    <3> QED
      BY <2>1, <3>1 DEF Decisive
  <2> QED
    BY <2>3
\* The walk comes back to where it began.
<1> DEFINE Returns == {j \in Nat \ {0} : c[j] = c[0]}
<1>2. Returns # {}
  <2>1. PICK r \in F[p] : r # c[0]
    OBVIOUS
  <2>2. r \in P \ {p}
    BY <1>0
  <2>3. PICK i \in Nat : c[i] = r
    BY <1>0, <1>1, <2>2
  <2>4. i # 0
    BY <2>1, <2>3
  <2>5. PICK j \in Nat : j >= i /\ c[j] = c[0]
    BY <1>0, <1>1, <2>3
  <2>6. j # 0
    BY <2>4, <2>5
  <2> QED
    BY <2>5, <2>6
<1>3. PICK n \in Returns : \A j \in Returns : n <= j
  <2>1. Returns \in SUBSET Nat
    OBVIOUS
  <2> HIDE DEF Returns
  <2> QED
    BY <1>2, <2>1, LeastMember
<1>4. n \in Nat /\ n # 0 /\ c[n] = c[0] /\ \A j \in Nat \ {0} : c[j] = c[0] => n <= j
  BY <1>3
<1> HIDE DEF Returns
\* Where it is at one place again, it goes on as before.
<1>5. ASSUME NEW i \in Nat, NEW j \in Nat, c[i] = c[j], NEW d \in Nat PROVE c[i + d] = c[j + d]
  <2> DEFINE A == {k \in Nat : c[i + k] = c[j + k]}
  <2>1. 0 \in A
    BY <1>5
  <2>2. ASSUME NEW k \in A PROVE k + 1 \in A
    <3>1. F[c[i + k]] = {c[(i + k) + 1]} /\ F[c[j + k]] = {c[(j + k) + 1]}
      BY <1>0
    <3>2. c[(i + k) + 1] = c[(j + k) + 1]
      BY <3>1, <2>2
    <3>3. (i + k) + 1 = i + (k + 1) /\ (j + k) + 1 = j + (k + 1)
      OBVIOUS
    <3> QED
      BY <3>2, <3>3
  <2>3. A = Nat
    <3>1. A \in SUBSET Nat
      OBVIOUS
    <3> HIDE DEF A
    <3> QED
      BY <2>1, <2>2, <3>1, SetInduction
  <2> QED
    BY <2>3
<1>6. ASSUME NEW i \in 0 .. n - 1, NEW j \in 0 .. n - 1, i < j, c[i] = c[j] PROVE FALSE
  <2>1. n - j \in Nat /\ i \in Nat /\ j \in Nat
    BY <1>4
  <2>2. c[i + (n - j)] = c[j + (n - j)]
    BY <1>5, <1>6, <2>1
  <2>3. j + (n - j) = n /\ i + (n - j) \in Nat \ {0} /\ i + (n - j) < n
    BY <1>4, <1>6
  <2> QED
    BY <1>4, <2>2, <2>3
<1>7. \A k \in Nat : \E i \in 0 .. n - 1 : c[i] = c[k]
  <2> DEFINE A == {k \in Nat : \E i \in 0 .. n - 1 : c[i] = c[k]}
  <2>1. 0 \in A
    BY <1>4
  <2>2. ASSUME NEW k \in A PROVE k + 1 \in A
    <3>1. PICK i \in 0 .. n - 1 : c[i] = c[k]
      OBVIOUS
    <3>2. c[i + 1] = c[k + 1]
      BY <1>4, <1>5, <3>1
    <3>3. CASE i + 1 = n
      BY <1>4, <3>2, <3>3
    <3>4. CASE i + 1 # n
      <4>1. i + 1 \in 0 .. n - 1
        BY <1>4, <3>4
      <4> QED
        BY <3>2, <4>1
    <3> QED
      BY <3>3, <3>4
  <2>3. A = Nat
    <3>1. A \in SUBSET Nat
      OBVIOUS
    <3> HIDE DEF A
    <3> QED
      BY <2>1, <2>2, <3>1, SetInduction
  <2> QED
    BY <2>3
<1>8. \A m \in P \ {p} : \E i \in 0 .. n - 1 : c[i] = m
  <2> SUFFICES ASSUME NEW m \in P \ {p} PROVE \E i \in 0 .. n - 1 : c[i] = m
    OBVIOUS
  <2>1. PICK k \in Nat : c[k] = m
    BY <1>0, <1>1
  <2> QED
    BY <1>7, <2>1
<1>9. Cardinality(P) - 1 = n
  <2> DEFINE I == 0 .. n - 1
             V == P \ {p}
             f == [i \in I |-> c[i]]
  <2>1. f \in Bijection(I, V)
    <3>1. f \in [I -> V]
      BY <1>0, <1>4
    <3>2. \A i, j \in I : f[i] = f[j] => i = j
      <4> SUFFICES ASSUME NEW i \in I, NEW j \in I, c[i] = c[j], i # j PROVE FALSE
        OBVIOUS
      <4>1. CASE i < j
        BY <1>6, <4>1
      <4>2. CASE j < i
        BY <1>6, <4>2
      <4> QED
        BY <1>4, <4>1, <4>2
    <3>3. \A m \in V : \E i \in I : f[i] = m
      BY <1>8
    <3> HIDE DEF I, V, f
    <3> QED
      BY <3>1, <3>2, <3>3 DEF Bijection, Injection, Surjection, IsInjective
  <2>2. IsFiniteSet(I) /\ Cardinality(I) = n
    BY <1>4, FS_Interval
  <2>3. Cardinality(V) = n
    <3>1. ExistsBijection(I, V)
      BY <2>1 DEF ExistsBijection
    <3> HIDE DEF I, V
    <3> QED
      BY <2>2, <3>1, FS_Bijection, Zenon
  <2>4. Cardinality(P) = Cardinality(V) + 1
    <3>1. Cardinality(P \ {p}) = Cardinality(P) - 1 /\ Cardinality(P) \in Nat
      BY <1>0, FS_RemoveElement, FS_CardinalityType
    <3> QED
      BY <3>1
  <2> QED
    BY <1>4, <2>3, <2>4
<1>10. Cardinality(P) - 2 = n - 1
  <2>1. Cardinality(P) \in Nat
    BY FS_CardinalityType
  <2> QED
    BY <1>9, <2>1
<1>11. \A i, j \in 0 .. n - 1 : c[i] = c[j] => i = j
  <2> SUFFICES ASSUME NEW i \in 0 .. n - 1, NEW j \in 0 .. n - 1, c[i] = c[j], i # j PROVE FALSE
    OBVIOUS
  <2>1. CASE i < j
    BY <1>6, <2>1
  <2>2. CASE j < i
    BY <1>6, <2>2
  <2> QED
    BY <1>4, <2>1, <2>2
<1> QED
  BY <1>4, <1>8, <1>9, <1>10, <1>11

-----------------------------------------------------------------------------
(* What is met before what is decided in Ap.                                 *)

\* The nodes from which all maximal paths meet a before b.
Ahead(a, b) == Inevitable([succ EXCEPT ![b] = {}], {a})

\* They are closed but for b, from which no path goes on.
LEMMA AheadFacts ==
    ASSUME TypeOK, NEW a \in Node, NEW b \in Node, a # b
    PROVE  /\ Ahead(a, b) \subseteq Node /\ a \in Ahead(a, b) /\ b \notin Ahead(a, b)
           /\ \A n \in Ahead(a, b) \ {a} : succ[n] # {} /\ succ[n] \subseteq Ahead(a, b)
           /\ \A n \in Node \ {b} : succ[n] # {} /\ succ[n] \subseteq Ahead(a, b) => n \in Ahead(a, b)
<1> DEFINE g == [succ EXCEPT ![b] = {}]
           K == Inevitable(g, {a})
<1>0. \A n \in Node : g[n] = IF n = b THEN {} ELSE succ[n]
  BY SuccessorsGraph
<1>1. Ahead(a, b) = K
  BY DEF Ahead
<1> HIDE DEF g, K
<1>2. K \subseteq Node /\ a \in K
  BY InevitableHolds DEF K
<1>3. b \notin K
  <2> DEFINE C == Node \ {b}
  <2>1. Closed(g, C)
    BY <1>0 DEF Closed
  <2>2. C \in SUBSET Node /\ {a} \subseteq C
    OBVIOUS
  <2>3. K \subseteq C
    <3> HIDE DEF C
    <3> QED
      BY <2>1, <2>2, InevitableSmallest DEF K
  <2> QED
    BY <2>3
<1>4. ASSUME NEW n \in K \ {a} PROVE succ[n] # {} /\ succ[n] \subseteq K
  <2>1. g[n] # {} /\ g[n] \subseteq K
    BY <1>4, InevitableSuccessors DEF K
  <2> QED
    BY <1>0, <1>2, <1>3, <2>1
<1>5. ASSUME NEW n \in Node \ {b}, succ[n] # {}, succ[n] \subseteq K PROVE n \in K
  <2>1. Closed(g, K)
    BY InevitableClosed DEF K
  <2> QED
    BY <1>0, <1>5, <2>1 DEF Closed
<1> QED
  BY <1>1, <1>2, <1>3, <1>4, <1>5

\* No path meets a before b and b before a.
LEMMA AheadOfOne ==
    ASSUME TypeOK, NEW a \in Node, NEW b \in Node, a # b
    PROVE  Ahead(a, b) \cap Ahead(b, a) = {}
<1> DEFINE g == [succ EXCEPT ![b] = {}]
           C == Node \ Ahead(b, a)
<1>1. \A n \in Ahead(b, a) \ {b} : succ[n] # {} /\ succ[n] \subseteq Ahead(b, a)
  BY AheadFacts
<1>2. a \notin Ahead(b, a)
  BY AheadFacts
<1>3. \A n \in Node : g[n] = IF n = b THEN {} ELSE succ[n]
  BY SuccessorsGraph
<1> HIDE DEF g
<1>4. Closed(g, C)
  BY <1>1, <1>3 DEF Closed
<1>5. C \in SUBSET Node /\ {a} \subseteq C
  BY <1>2
<1>6. Inevitable(g, {a}) \subseteq C
  <2> HIDE DEF C
  <2> QED
    BY <1>4, <1>5, InevitableSmallest
<1> QED
  BY <1>6 DEF Ahead, g

\* Whether a is met before b is decided at the node of P that is met first.
LEMMA AheadAtFirst ==
    ASSUME TypeOK, NEW P \in SUBSET Node, NEW a \in P, NEW b \in P, a # b,
           NEW s \in Inevitable(succ, P)
    PROVE  s \in Ahead(a, b) <=> theta(P, s) \subseteq Ahead(a, b)
<1> DEFINE K == Ahead(a, b)
<1>1. /\ K \subseteq Node /\ a \in K /\ b \notin K
      /\ \A n \in K \ {a} : succ[n] # {} /\ succ[n] \subseteq K
      /\ \A n \in Node \ {b} : succ[n] # {} /\ succ[n] \subseteq K => n \in K
  BY AheadFacts
<1> HIDE DEF K
<1>2. ASSUME s \in K, NEW z \in theta(P, s) PROVE z \in K
  <2>1. CASE s \in P
    BY <1>2, <2>1 DEF theta
  <2>2. CASE s \notin P
    <3>0. s \in Node /\ \A t \in succ[s] : t \in P \/ t \in K
      BY <1>1, <1>2, <2>2
    <3>1. Between(P, s) \subseteq K
      <4>1. \A n \in Between(P, s) \cap K : \A t \in succ[n] : t \in P \/ t \in K
        BY <1>1, <3>0, BetweenLeast
      <4> QED
        BY <3>0, <4>1, BetweenLeast
    <3>2. \A n \in Between(P, s) : n \notin P
      BY <3>0, BetweenLeast
    <3>3. z \in succ[s] \/ \E n \in Between(P, s) : z \in succ[n]
      BY <1>2, <2>2, ThetaAt
    <3>4. \A n \in K \ P : succ[n] \subseteq K
      BY <1>1
    <3> QED
      BY <1>2, <2>2, <3>1, <3>2, <3>3, <3>4
  <2> QED
    BY <2>1, <2>2
<1>3. ASSUME theta(P, s) \subseteq K PROVE s \in K
  <2> DEFINE C == {n \in Node : theta(P, n) \subseteq K => n \in K}
  <2>1. ASSUME NEW n \in P PROVE n \in C
    BY DEF theta
  <2>2. ASSUME NEW n \in Node, n \notin P, succ[n] # {}, succ[n] \subseteq C, theta(P, n) \subseteq K
        PROVE  n \in K
    <3>1. \A t \in succ[n] : theta(P, t) \subseteq K
      BY <2>2, ThetaGrows
    <3>2. succ[n] \subseteq K
      BY <2>2, <3>1
    <3> QED
      BY <1>1, <2>2, <3>2
  <2>3. Closed(succ, C)
    BY <2>1, <2>2 DEF Closed
  <2>4. C \in SUBSET Node /\ P \subseteq C
    BY <2>1
  <2>5. Inevitable(succ, P) \subseteq C
    <3> HIDE DEF C
    <3> QED
      BY <2>3, <2>4, InevitableSmallest
  <2> QED
    BY <1>3, <2>5
<1> QED
  BY <1>2, <1>3 DEF K

\* A path that meets a before b does not begin at b.
LEMMA BeforeAtFirst ==
    ASSUME TypeOK, NEW P \in SUBSET Node, NEW a \in P, NEW b \in P, a # b,
           NEW s \in Inevitable(succ, P)
    PROVE  Before(s, a, b) <=> theta(P, s) \subseteq Ahead(a, b)
<1>1. Before(s, a, b) <=> s # b /\ s \in Ahead(a, b)
  BY DEF Before, Ahead
<1>2. b \notin Ahead(a, b)
  BY AheadFacts
<1> QED
  BY <1>1, <1>2, AheadAtFirst

\* The same at a node of Ap and the one that comes next.
LEMMA AheadNext ==
    ASSUME TypeOK, NEW p \in Node, NEW a \in AllPaths(p), NEW b \in AllPaths(p), a # b,
           NEW m \in AllPaths(p), m \notin Escapes(p), m # a, m # b,
           NEW n, FirstReachable(AllPaths(p), m) = {n}
    PROVE  m \in Ahead(a, b) <=> n \in Ahead(a, b)
<1> DEFINE K == Ahead(a, b)
           P == AllPaths(p)
<1>0. P \in SUBSET Node /\ m \in Node /\ succ[m] # {} /\ \A s \in succ[m] : s \in Inevitable(succ, P)
  BY AllPathsFacts DEF Escapes
<1>1. m \in K <=> succ[m] \subseteq K
  BY <1>0, AheadFacts
<1>2. ASSUME NEW s \in succ[m] PROVE theta(P, s) = {n}
  <2>1. theta(P, s) # {}
    BY <1>0, InevitableTheta
  <2>2. \A z \in theta(P, s) : z \in FirstReachable(P, m)
    BY <1>0, FirstFrom
  <2> QED
    BY <2>1, <2>2
<1>3. \A s \in succ[m] : s \in K <=> {n} \subseteq K
  <2> SUFFICES ASSUME NEW s \in succ[m] PROVE s \in K <=> {n} \subseteq K
    OBVIOUS
  <2>1. s \in K <=> theta(P, s) \subseteq K
    BY <1>0, AheadAtFirst
  <2> QED
    BY <1>2, <2>1
<1> QED
  BY <1>0, <1>1, <1>3

\* The graph Ap is decisive.
LEMMA ApDecisive ==
    ASSUME TypeOK, NEW p \in Node
    PROVE  Decisive(AllPaths(p), [m \in AllPaths(p) |-> FirstReachable(AllPaths(p), m)], Escapes(p), p)
<1> DEFINE P == AllPaths(p)
           F == [m \in P |-> FirstReachable(P, m)]
<1>1. /\ P \in SUBSET Node /\ p \in P
      /\ \A m \in P : FirstReachable(P, m) = {} => m \in Escapes(p)
      /\ \A m \in P : FirstReachable(P, m) \subseteq P
  BY AllPathsFacts
<1>2. F \in [P -> SUBSET P] /\ \A m \in P : F[m] = {} => m \in Escapes(p)
  BY <1>1
<1>3. ASSUME NEW Z \in SUBSET P, WayThrough(P, F, Escapes(p), p, Z) PROVE P \subseteq Z \cup {p}
  <2>1. /\ p \in Z \/ FirstReachable(P, p) \cap Z # {}
        /\ \A z \in Z : z \in Escapes(p) \/ FirstReachable(P, z) \cap Z # {}
    BY <1>1, <1>3 DEF WayThrough
  <2> QED
    BY <2>1, WaysMeetAll
<1> QED
  BY <1>1, <1>2, <1>3 DEF Decisive

-----------------------------------------------------------------------------
(* Colours round a cycle.                                                    *)

\* A bounded set of naturals has a greatest member.
LEMMA GreatestMember ==
    ASSUME NEW n \in Nat, NEW T \in SUBSET (0 .. n), T # {}
    PROVE  \E x \in T : \A y \in T : y <= x
<1> DEFINE D == {d \in Nat : n - d \in T}
<1>1. D # {}
  <2>1. PICK x \in T : TRUE
    OBVIOUS
  <2>2. n - x \in Nat /\ n - (n - x) = x
    OBVIOUS
  <2> QED
    BY <2>1, <2>2
<1>2. PICK d \in D : \A e \in D : d <= e
  <2>1. D \in SUBSET Nat
    OBVIOUS
  <2> HIDE DEF D
  <2> QED
    BY <1>1, <2>1, LeastMember
<1>3. ASSUME NEW y \in T PROVE y <= n - d
  <2>1. y \in Nat /\ n - y \in Nat /\ n - (n - y) = y
    OBVIOUS
  <2>2. n - y \in D
    BY <2>1
  <2>3. d <= n - y /\ d \in Nat
    BY <1>2, <2>2
  <2> QED
    BY <2>1, <2>3
<1> QED
  BY <1>2, <1>3

\* A set that has with a number the next one, and the reverse, has all or none of a stretch.
LEMMA AllOrNone ==
    ASSUME NEW T \in SUBSET Nat, NEW u \in Nat, NEW v \in Nat,
           \A k \in u .. v - 1 : k \in T <=> k + 1 \in T
    PROVE  \A k \in u .. v : k \in T <=> u \in T
<1> DEFINE A == {d \in Nat : u + d <= v => (u + d \in T <=> u \in T)}
<1>1. 0 \in A
  OBVIOUS
<1>2. ASSUME NEW d \in A PROVE d + 1 \in A
  <2> SUFFICES ASSUME u + (d + 1) <= v PROVE u + (d + 1) \in T <=> u \in T
    OBVIOUS
  <2>1. u + d \in u .. v - 1 /\ (u + d) + 1 = u + (d + 1)
    OBVIOUS
  <2>2. u + d \in T <=> u \in T
    BY <2>1
  <2> QED
    BY <2>1, <2>2
<1>3. A = Nat
  <2>1. A \in SUBSET Nat
    OBVIOUS
  <2> HIDE DEF A
  <2> QED
    BY <1>1, <1>2, <2>1, SetInduction
<1> SUFFICES ASSUME NEW k \in u .. v PROVE k \in T <=> u \in T
  OBVIOUS
<1>4. k - u \in Nat /\ u + (k - u) = k /\ k <= v
  OBVIOUS
<1>5. k - u \in A
  BY <1>3, <1>4
<1> QED
  BY <1>4, <1>5

\* From k on, round a cycle, i comes before j.
InTurn(k, i, j) == IF i < j THEN k <= i \/ j < k ELSE j < k /\ k <= i

\* A set that changes round a cycle after i and after j only.
LEMMA Turns ==
    ASSUME NEW n \in Nat, NEW i \in 0 .. n - 1, NEW j \in 0 .. n - 1, i # j,
           NEW T \in SUBSET Nat, i \in T, j \notin T, 0 \in T <=> n \in T,
           \A k \in 0 .. n - 1 : k # i /\ k # j => (k \in T <=> k + 1 \in T)
    PROVE  \A k \in 0 .. n - 1 : k \in T <=> InTurn(k, i, j)
<1> DEFINE lo == IF i < j THEN i ELSE j
           hi == IF i < j THEN j ELSE i
<1>0. lo \in Nat /\ hi \in Nat /\ lo < hi /\ hi <= n - 1 /\ {lo, hi} = {i, j}
  OBVIOUS
<1>1. ASSUME NEW u \in Nat, NEW v \in Nat, v <= n, \A k \in u .. v - 1 : k # i /\ k # j,
             NEW k \in u .. v, NEW l \in u .. v
      PROVE  k \in T <=> l \in T
  <2>1. \A x \in u .. v - 1 : x \in T <=> x + 1 \in T
    BY <1>1
  <2> QED
    BY <2>1, AllOrNone
<1> HIDE DEF lo, hi
<1>2. ASSUME NEW k \in 0 .. lo PROVE k \in T <=> lo \in T
  <2>1. \A x \in 0 .. lo - 1 : x # i /\ x # j
    BY <1>0
  <2>2. lo \in 0 .. lo /\ lo <= n
    BY <1>0
  <2> QED
    BY <1>0, <1>1, <2>1, <2>2
<1>3. ASSUME NEW k \in lo + 1 .. hi PROVE k \in T <=> hi \in T
  <2>1. \A x \in lo + 1 .. hi - 1 : x # i /\ x # j
    BY <1>0
  <2>2. hi \in lo + 1 .. hi /\ hi <= n /\ lo + 1 \in Nat
    BY <1>0
  <2> QED
    BY <1>0, <1>1, <2>1, <2>2
<1>4. ASSUME NEW k \in hi + 1 .. n PROVE k \in T <=> lo \in T
  <2>0. /\ n \in Nat /\ n <= n /\ n \in hi + 1 .. n /\ hi + 1 \in Nat
        /\ \A x \in hi + 1 .. n - 1 : x # i /\ x # j
    BY <1>0
  <2>1. k \in T <=> n \in T
    BY <1>1, <2>0
  <2>2. 0 \in T <=> lo \in T
    BY <1>0, <1>2
  <2> QED
    BY <2>1, <2>2
<1> SUFFICES ASSUME NEW k \in 0 .. n - 1 PROVE k \in T <=> InTurn(k, i, j)
  OBVIOUS
<1>5. \/ k \in 0 .. lo /\ (k \in T <=> lo \in T)
      \/ k \in lo + 1 .. hi /\ (k \in T <=> hi \in T)
      \/ k \in hi + 1 .. n /\ (k \in T <=> lo \in T)
  <2>1. k \in 0 .. lo \/ k \in lo + 1 .. hi \/ k \in hi + 1 .. n
    BY <1>0
  <2> QED
    BY <1>2, <1>3, <1>4, <2>1
<1>6. CASE i < j
  <2>1. lo = i /\ hi = j
    BY <1>6 DEF lo, hi
  <2>2. k \in T <=> k \notin i + 1 .. j
    BY <1>0, <1>5, <2>1
  <2> QED
    BY <1>6, <2>2 DEF InTurn
<1>7. CASE ~ (i < j)
  <2>1. lo = j /\ hi = i
    BY <1>7 DEF lo, hi
  <2>2. k \in T <=> k \in j + 1 .. i
    BY <1>0, <1>5, <2>1
  <2> QED
    BY <1>7, <2>2 DEF InTurn
<1> QED
  BY <1>6, <1>7

\* Colours of the places of a cycle: the red ones are all after u, up to v, without a blue
\* one among them.
Separates(B, R, u, v) == u < v /\ R \subseteq u + 1 .. v /\ B \cap (u + 1 .. v) = {}

\* From the one colour i comes before j, from the other j before i.
LEMMA TurnsSeparate ==
    ASSUME NEW n \in Nat, NEW i \in 0 .. n - 1, NEW j \in 0 .. n - 1, i # j,
           NEW B \in SUBSET (0 .. n - 1), NEW R \in SUBSET (0 .. n - 1), 0 \in B, R # {}
    PROVE  \/ (\A k \in B : InTurn(k, i, j)) /\ (\A k \in R : InTurn(k, j, i))
           \/ (\A k \in R : InTurn(k, i, j)) /\ (\A k \in B : InTurn(k, j, i))
           <=> Separates(B, R, i, j) \/ Separates(B, R, j, i)
<1>1. ASSUME NEW u \in 0 .. n - 1, NEW v \in 0 .. n - 1, u < v
      PROVE  /\ (\A k \in B : InTurn(k, u, v)) <=> B \cap (u + 1 .. v) = {}
             /\ (\A k \in R : InTurn(k, v, u)) <=> R \subseteq u + 1 .. v
             /\ ~ \A k \in B : InTurn(k, v, u)
  <2>1. \A k \in 0 .. n - 1 : InTurn(k, u, v) <=> k \notin u + 1 .. v
    BY <1>1 DEF InTurn
  <2>2. \A k \in 0 .. n - 1 : InTurn(k, v, u) <=> k \in u + 1 .. v
    BY <1>1 DEF InTurn
  <2>3. 0 \notin u + 1 .. v
    OBVIOUS
  <2> QED
    BY <2>1, <2>2, <2>3
<1>2. CASE i < j
  BY <1>1, <1>2 DEF Separates
<1>3. CASE j < i
  BY <1>1, <1>3 DEF Separates
<1> QED
  BY <1>2, <1>3

\* The arcs that computeDOD finds are the places from which or up to which the red places
\* can be separated.
LEMMA ArcsExact ==
    ASSUME NEW n \in Nat, NEW c, NEW blue, NEW red, blue \cap red = {},
           NEW B \in SUBSET (0 .. n - 1), \A k \in 0 .. n - 1 : k \in B <=> c[k] \in blue,
           NEW R \in SUBSET (0 .. n - 1), \A k \in 0 .. n - 1 : k \in R <=> c[k] \in red,
           0 \in B, R # {}
    PROVE  \A a : a \in Arcs(c, n, blue, red) <=>
              \E i \in 0 .. n - 1 :
                 /\ c[i] = a
                 /\ \E l \in 0 .. n - 1 : Separates(B, R, i, l) \/ Separates(B, R, l, i)
<1> DEFINE
      r1 == CHOOSE i \in 0 .. n - 1 : c[i] \in red /\ \A j \in 0 .. i - 1 : c[j] \notin red
      b2 == CHOOSE i \in 0 .. r1 - 1 : c[i] \in blue /\ \A j \in i + 1 .. r1 - 1 : c[j] \notin blue
      b3 == CHOOSE i \in r1 + 1 .. n :
                (i = n \/ c[i] \in blue) /\ \A j \in r1 + 1 .. i - 1 : c[j] \notin blue
      r2 == CHOOSE i \in r1 .. b3 - 1 : c[i] \in red /\ \A j \in i + 1 .. b3 - 1 : c[j] \notin red
      Places == (b2 .. r1 - 1) \cup (r2 .. b3 - 1)
<1>0. Arcs(c, n, blue, red) =
        IF \E j \in b3 .. n - 1 : c[j] \in red THEN {} ELSE {c[j] : j \in Places}
  BY DEF Arcs
<1>1. /\ R \cap B = {} /\ R \in SUBSET Nat /\ B \in SUBSET Nat
      /\ \A k \in B \cup R : k \in 0 .. n
  OBVIOUS
<1>2. r1 \in R /\ \A j \in R : r1 <= j
  <2>1. PICK x \in R : \A y \in R : x <= y
    BY <1>1, LeastMember
  <2>2. x \in 0 .. n - 1 /\ c[x] \in red /\ \A j \in 0 .. x - 1 : c[j] \notin red
    <3>1. \A j \in 0 .. x - 1 : j \in 0 .. n - 1 /\ ~ (x <= j)
      OBVIOUS
    <3> QED
      BY <2>1, <3>1
  <2>3. r1 \in 0 .. n - 1 /\ c[r1] \in red /\ \A j \in 0 .. r1 - 1 : c[j] \notin red
    BY <2>2
  <2> HIDE DEF r1
  <2>4. \A j \in R : ~ (j \in 0 .. r1 - 1)
    BY <2>3
  <2> QED
    BY <2>3, <2>4
<1> HIDE DEF r1
<1>3. r1 \in 1 .. n - 1
  BY <1>1, <1>2
<1>4. b2 \in B /\ b2 < r1 /\ \A j \in B : j < r1 => j <= b2
  <2> DEFINE U == {k \in B : k < r1}
  <2>1. U \in SUBSET (0 .. n) /\ 0 \in U
    <3>1. 0 \in U
      BY <1>3
    <3>2. \A k \in U : k \in B
      OBVIOUS
    <3> HIDE DEF U
    <3> QED
      BY <1>1, <3>1, <3>2
  <2>2. PICK x \in U : \A y \in U : y <= x
    <3> HIDE DEF U
    <3> QED
      BY <2>1, GreatestMember
  <2>3. x \in 0 .. r1 - 1 /\ c[x] \in blue /\ \A j \in x + 1 .. r1 - 1 : c[j] \notin blue
    <3>1. \A j \in x + 1 .. r1 - 1 : j \in 0 .. n - 1 /\ j < r1 /\ ~ (j <= x)
      BY <1>3
    <3>2. \A j \in x + 1 .. r1 - 1 : j \notin U
      BY <2>2, <3>1
    <3> QED
      BY <1>3, <3>1, <3>2
  <2>4. b2 \in 0 .. r1 - 1 /\ c[b2] \in blue /\ \A j \in b2 + 1 .. r1 - 1 : c[j] \notin blue
    BY <2>3
  <2> HIDE DEF b2
  <2>5. \A j \in B : ~ (j \in b2 + 1 .. r1 - 1)
    BY <2>4
  <2> QED
    BY <1>3, <2>4, <2>5
<1> HIDE DEF b2
<1>5. b3 \in r1 + 1 .. n /\ (b3 = n \/ b3 \in B) /\ \A j \in B : j > r1 => b3 <= j
  <2> DEFINE U == {k \in r1 + 1 .. n : k = n \/ k \in B}
  <2>1. U \in SUBSET Nat /\ n \in U
    BY <1>3
  <2>2. PICK x \in U : \A y \in U : x <= y
    <3> HIDE DEF U
    <3> QED
      BY <2>1, LeastMember
  <2>3. x \in r1 + 1 .. n /\ (x = n \/ c[x] \in blue) /\ \A j \in r1 + 1 .. x - 1 : c[j] \notin blue
    <3>1. \A j \in r1 + 1 .. x - 1 : j \in r1 + 1 .. n /\ j \in 0 .. n - 1 /\ ~ (x <= j)
      BY <1>3
    <3>2. \A j \in r1 + 1 .. x - 1 : j \notin U
      BY <2>2, <3>1
    <3> QED
      BY <3>1, <3>2
  <2>4. b3 \in r1 + 1 .. n /\ (b3 = n \/ c[b3] \in blue) /\ \A j \in r1 + 1 .. b3 - 1 : c[j] \notin blue
    BY <2>3
  <2> HIDE DEF b3
  <2>5. \A j \in B : ~ (j \in r1 + 1 .. b3 - 1)
    BY <2>4
  <2>6. b3 = n \/ b3 \in B
    BY <1>3, <2>4
  <2> QED
    BY <1>3, <2>4, <2>5, <2>6
<1> HIDE DEF b3
<1>6. r2 \in R /\ r1 <= r2 /\ r2 < b3 /\ \A j \in R : j < b3 => j <= r2
  <2> DEFINE U == {k \in R : k < b3}
  <2>1. U \in SUBSET (0 .. n) /\ r1 \in U
    <3>1. r1 \in U
      BY <1>2, <1>5
    <3>2. \A k \in U : k \in R
      OBVIOUS
    <3> HIDE DEF U
    <3> QED
      BY <1>1, <3>1, <3>2
  <2>2. PICK x \in U : \A y \in U : y <= x
    <3> HIDE DEF U
    <3> QED
      BY <2>1, GreatestMember
  <2>3. x \in r1 .. b3 - 1 /\ c[x] \in red /\ \A j \in x + 1 .. b3 - 1 : c[j] \notin red
    <3>1. \A j \in x + 1 .. b3 - 1 : j \in 0 .. n - 1 /\ j < b3 /\ ~ (j <= x)
      BY <1>5
    <3>2. \A j \in x + 1 .. b3 - 1 : j \notin U
      BY <2>2, <3>1
    <3> QED
      BY <1>2, <1>3, <1>5, <3>1, <3>2
  <2>4. r2 \in r1 .. b3 - 1 /\ c[r2] \in red /\ \A j \in r2 + 1 .. b3 - 1 : c[j] \notin red
    BY <2>3
  <2> HIDE DEF r2
  <2>5. \A j \in R : ~ (j \in r2 + 1 .. b3 - 1)
    BY <2>4
  <2> QED
    BY <1>3, <1>5, <2>4, <2>5
<1> HIDE DEF r2
<1>7. /\ r1 \in Nat /\ b2 \in Nat /\ b3 \in Nat /\ r2 \in Nat /\ b3 <= n /\ b2 < r1 /\ r1 < n
      /\ r1 < b3 /\ r1 <= r2 /\ r2 < b3
  BY <1>3, <1>4, <1>5, <1>6
<1>8. ASSUME NEW u \in 0 .. n - 1, NEW v \in 0 .. n - 1, Separates(B, R, u, v)
      PROVE  b2 <= u /\ u < r1 /\ r2 <= v /\ v < b3 /\ \A j \in R : j < b3
  <2>1. u < r1 /\ r1 <= v /\ r2 <= v
    BY <1>2, <1>6, <1>7, <1>8 DEF Separates
  <2>2. b2 <= u
    <3>1. b2 \notin u + 1 .. v
      BY <1>4, <1>8 DEF Separates
    <3> QED
      BY <1>7, <2>1, <3>1
  <2>3. v < b3
    <3>1. b3 \notin B \/ b3 \notin u + 1 .. v
      BY <1>8 DEF Separates
    <3> QED
      BY <1>5, <1>7, <2>1, <3>1
  <2>4. \A j \in R : j <= v
    BY <1>8 DEF Separates
  <2> QED
    BY <1>1, <1>7, <2>1, <2>2, <2>3, <2>4
<1>9. ASSUME \A j \in R : j < b3, NEW u \in b2 .. r1 - 1, NEW v \in r2 .. b3 - 1
      PROVE  u \in 0 .. n - 1 /\ v \in 0 .. n - 1 /\ Separates(B, R, u, v)
  <2>1. u \in 0 .. n - 1 /\ v \in 0 .. n - 1 /\ u < v
    BY <1>7
  <2>2. \A j \in R : j \in u + 1 .. v
    BY <1>1, <1>2, <1>6, <1>7, <1>9
  <2>3. ASSUME NEW j \in B, j \in u + 1 .. v PROVE FALSE
    <3>1. j # r1 /\ j \in Nat
      BY <1>1, <1>2
    <3>2. j < r1 => j <= b2
      BY <1>4
    <3>3. j > r1 => b3 <= j
      BY <1>5
    <3> QED
      BY <1>7, <2>3, <3>1, <3>2, <3>3
  <2> QED
    BY <2>1, <2>2, <2>3 DEF Separates
<1> DEFINE Good == {k \in 0 .. n - 1 :
                       \E l \in 0 .. n - 1 : Separates(B, R, k, l) \/ Separates(B, R, l, k)}
<1> SUFFICES Arcs(c, n, blue, red) = {c[i] : i \in Good}
  OBVIOUS
<1>10. CASE \E j \in b3 .. n - 1 : c[j] \in red
  <2>1. PICK j \in b3 .. n - 1 : c[j] \in red
    BY <1>10
  <2>2. j \in R /\ ~ (j < b3)
    BY <1>7, <2>1
  <2>3. Good = {}
    BY <1>8, <2>2
  <2> HIDE DEF Good
  <2> QED
    BY <1>0, <1>10, <2>3
<1>11. CASE ~ \E j \in b3 .. n - 1 : c[j] \in red
  <2>1. \A j \in R : j < b3
    BY <1>7, <1>11
  <2>2. Good \subseteq Places
    <3> SUFFICES ASSUME NEW k \in 0 .. n - 1, NEW l \in 0 .. n - 1,
                        Separates(B, R, k, l) \/ Separates(B, R, l, k)
                 PROVE  k \in Places
      OBVIOUS
    <3>1. CASE Separates(B, R, k, l)
      <4>1. b2 <= k /\ k < r1
        BY <1>8, <3>1
      <4> QED
        BY <1>7, <4>1
    <3>2. CASE Separates(B, R, l, k)
      <4>1. r2 <= k /\ k < b3
        BY <1>8, <3>2
      <4> QED
        BY <1>7, <4>1
    <3> QED
      BY <3>1, <3>2
  <2>3. Places \subseteq Good
    <3> SUFFICES ASSUME NEW k \in Places PROVE k \in Good
      OBVIOUS
    <3>0. r1 - 1 \in b2 .. r1 - 1 /\ r2 \in r2 .. b3 - 1
      BY <1>7
    <3>1. CASE k \in b2 .. r1 - 1
      <4>1. k \in 0 .. n - 1 /\ r2 \in 0 .. n - 1 /\ Separates(B, R, k, r2)
        BY <1>9, <2>1, <3>0, <3>1
      <4> QED
        BY <4>1
    <3>2. CASE k \in r2 .. b3 - 1
      <4>1. r1 - 1 \in 0 .. n - 1 /\ k \in 0 .. n - 1 /\ Separates(B, R, r1 - 1, k)
        BY <1>9, <2>1, <3>0, <3>2
      <4> QED
        BY <4>1
    <3> QED
      BY <3>1, <3>2
  <2>4. Good = Places
    BY <2>2, <2>3
  <2> HIDE DEF Good, Places
  <2> QED
    BY <1>0, <1>11, <2>4
<1> QED
  BY <1>10, <1>11

-----------------------------------------------------------------------------
(* The nodes whose order is decided are those of the arcs.                   *)

\* The edges of Ap.
Ap(p) == [m \in AllPaths(p) |-> FirstReachable(AllPaths(p), m)]

\* On the cycle of Ap, the nodes from which a is met before b are those from which a comes
\* before b round the cycle.
LEMMA WalkTurns ==
    ASSUME TypeOK, NEW p \in Node, NEW c, IsWalk(c, AllPaths(p), Ap(p), p),
           NEW n \in Nat, c[n] = c[0],
           \A k, l \in 0 .. n - 1 : c[k] = c[l] => k = l,
           \A m \in AllPaths(p) \ {p} : m \notin Escapes(p),
           NEW i \in 0 .. n - 1, NEW j \in 0 .. n - 1, i # j
    PROVE  \A k \in 0 .. n - 1 : c[k] \in Ahead(c[i], c[j]) <=> InTurn(k, i, j)
<1> DEFINE P == AllPaths(p)
           K == Ahead(c[i], c[j])
           T == {k \in Nat : c[k] \in K}
<1>0. /\ \A k \in Nat : c[k] \in P \ {p} /\ FirstReachable(P, c[k]) = {c[k + 1]}
      /\ P \in SUBSET Node
  <2>1. \A k \in Nat : c[k] \in P \ {p}
    BY DEF IsWalk
  <2> QED
    BY <2>1, AllPathsFacts DEF IsWalk, Ap
<1>1. i \in Nat /\ j \in Nat /\ c[i] \in P /\ c[j] \in P /\ c[i] # c[j]
  <2>1. i \in Nat /\ j \in Nat
    OBVIOUS
  <2> QED
    BY <1>0, <2>1
<1>2. i \in T /\ j \notin T
  BY <1>0, <1>1, AheadFacts
<1>3. 0 \in T <=> n \in T
  OBVIOUS
<1>4. ASSUME NEW k \in 0 .. n - 1, k # i, k # j PROVE k \in T <=> k + 1 \in T
  <2>1. k \in Nat /\ k + 1 \in Nat /\ c[k] # c[i] /\ c[k] # c[j]
    BY <1>4
  <2>2. c[k] \in P \ {p} /\ FirstReachable(P, c[k]) = {c[k + 1]} /\ c[k] \notin Escapes(p)
    BY <1>0, <2>1
  <2>3. c[k] \in K <=> c[k + 1] \in K
    <3> HIDE DEF K
    <3> QED
      BY <1>1, <2>1, <2>2, AheadNext DEF K
  <2> QED
    BY <2>1, <2>3
<1>5. T \in SUBSET Nat
  OBVIOUS
<1>6. \A k \in 0 .. n - 1 : k \in T <=> InTurn(k, i, j)
  <2> HIDE DEF T
  <2> QED
    BY <1>2, <1>3, <1>4, <1>5, Turns
<1> QED
  BY <1>6

\* The order of a and b is decided by p when the first nodes of one colour are ahead of b
\* and those of the other one ahead of a.
Decided(p, s1, s2, a, b) ==
    \/ theta(AllPaths(p), s1) \subseteq Ahead(a, b) /\ theta(AllPaths(p), s2) \subseteq Ahead(b, a)
    \/ theta(AllPaths(p), s2) \subseteq Ahead(a, b) /\ theta(AllPaths(p), s1) \subseteq Ahead(b, a)

\* That is when from one successor a is met before b and from another b before a.
LEMMA DecidedAt ==
    ASSUME TypeOK, NEW p \in Node, NEW s1, NEW s2, succ[p] = {s1, s2},
           NEW a \in AllPaths(p) \ {p}, NEW b \in AllPaths(p) \ {p}, a # b
    PROVE  /\ (\E s \in succ[p] : Before(s, a, b)) /\ (\E s \in succ[p] : Before(s, b, a))
                <=> Decided(p, s1, s2, a, b)
           /\ theta(AllPaths(p), s1) # {} /\ theta(AllPaths(p), s2) # {}
           /\ Decided(p, s1, s2, a, b) => theta(AllPaths(p), s1) \cap theta(AllPaths(p), s2) = {}
<1> DEFINE P == AllPaths(p)
<1>0. P \in SUBSET Node /\ \A s \in succ[p] : s \in Inevitable(succ, P)
  BY AllPathsFacts
<1>1. \A s \in succ[p] : theta(P, s) # {}
  BY <1>0, InevitableTheta
<1>2. \A s \in succ[p] : Before(s, a, b) <=> theta(P, s) \subseteq Ahead(a, b)
  <2> SUFFICES ASSUME NEW s \in succ[p] PROVE Before(s, a, b) <=> theta(P, s) \subseteq Ahead(a, b)
    OBVIOUS
  <2> QED
    BY <1>0, BeforeAtFirst
<1>3. \A s \in succ[p] : Before(s, b, a) <=> theta(P, s) \subseteq Ahead(b, a)
  <2> SUFFICES ASSUME NEW s \in succ[p] PROVE Before(s, b, a) <=> theta(P, s) \subseteq Ahead(b, a)
    OBVIOUS
  <2> QED
    BY <1>0, BeforeAtFirst
<1>4. Ahead(a, b) \cap Ahead(b, a) = {}
  BY <1>0, AheadOfOne
<1>5. \A s \in succ[p] : ~ (Before(s, a, b) /\ Before(s, b, a))
  BY <1>1, <1>2, <1>3, <1>4
<1> QED
  BY <1>1, <1>2, <1>3, <1>4, <1>5 DEF Decided

\* The nodes that depend on p, in terms of what comes first in Ap.
LEMMA DODOnAt ==
    ASSUME TypeOK, NEW p \in Node, NEW s1, NEW s2, succ[p] = {s1, s2}
    PROVE  DODOn(p) = {a \in AllPaths(p) \ {p} :
                          \E b \in AllPaths(p) \ {p} : a # b /\ Decided(p, s1, s2, a, b)}
<1>1. AllPaths(p) \in SUBSET Node
  BY AllPathsFacts
<1>2. \A a \in AllPaths(p) \ {p}, b \in AllPaths(p) \ {p} : a # b =>
         ((\E s \in succ[p] : Before(s, a, b)) /\ (\E s \in succ[p] : Before(s, b, a))
            <=> Decided(p, s1, s2, a, b))
  BY DecidedAt
<1>3. \A a : a \in DODOn(p) <=>
         /\ a \in AllPaths(p) \ {p}
         /\ \E b \in AllPaths(p) \ {p} :
               /\ a # b
               /\ \E s \in succ[p] : Before(s, a, b)
               /\ \E s \in succ[p] : Before(s, b, a)
  BY Zenon DEF DODOn, AllPaths
<1> QED
  BY <1>1, <1>2, <1>3

\* Two elements, or three.
LEMMA AtLeast ==
    ASSUME NEW P \in SUBSET Node, NEW a \in P, NEW b \in P, a # b
    PROVE  /\ Cardinality(P) \in Nat /\ Cardinality(P) >= 2
           /\ \A p \in P \ {a, b} : Cardinality(P) >= 3
<1>1. IsFiniteSet(P) /\ Cardinality(P) \in Nat
  BY NodeSets
<1>2. IsFiniteSet(P \ {a}) /\ Cardinality(P \ {a}) = Cardinality(P) - 1
  BY <1>1, FS_RemoveElement
<1>3. IsFiniteSet((P \ {a}) \ {b}) /\ Cardinality((P \ {a}) \ {b}) = Cardinality(P) - 2
  <2>1. b \in P \ {a}
    OBVIOUS
  <2>2. IsFiniteSet((P \ {a}) \ {b}) /\ Cardinality((P \ {a}) \ {b}) = Cardinality(P \ {a}) - 1
    BY <1>2, <2>1, FS_RemoveElement
  <2> QED
    BY <1>1, <1>2, <2>2
<1>4. Cardinality((P \ {a}) \ {b}) \in Nat
  BY <1>3, FS_CardinalityType
<1>5. ASSUME NEW p \in P \ {a, b} PROVE Cardinality(P) >= 3
  <2>1. p \in (P \ {a}) \ {b}
    OBVIOUS
  <2>2. Cardinality((P \ {a}) \ {b}) # 0
    BY <1>3, <2>1, FS_EmptySet
  <2> QED
    BY <1>1, <1>3, <1>4, <2>2
<1> QED
  BY <1>1, <1>3, <1>4, <1>5

\* Where onPaths holds the nodes on all maximal paths from p, which goes two ways, the walk
\* over the cycle of Ap finds the nodes that depend on p.
LEMMA DODRight ==
    ASSUME TypeOK, NEW p \in Node, onPaths[p] = AllPaths(p),
           NEW s1, NEW s2, succ[p] = {s1, s2}
    PROVE  DODOf(p, s1, s2) = DODOn(p)
<1> DEFINE P == AllPaths(p)
           F == Ap(p)
           V == P \ {p}
           blue == theta(P, s1)
           red == theta(P, s2)
           len == Cardinality(P) - 1
           Rec(f) == [i \in Nat |-> IF i = 0 THEN CHOOSE b \in blue : TRUE
                                    ELSE CHOOSE m \in F[f[i - 1]] : TRUE]
           c == CHOOSE f : f = Rec(f)
<1>1. DODOf(p, s1, s2) = IF len < 2 \/ Cardinality(F[p]) < 2 \/ blue \cap red # {} THEN {}
                         ELSE Arcs(c, len, blue, red)
  <2>1. ApEdges(p) = F /\ Paint(p, s1) = blue /\ Paint(p, s2) = red
    BY DEF ApEdges, Ap, Paint, theta
  <2> QED
    BY <2>1 DEF DODOf
<1>2. P \in SUBSET Node /\ p \in P /\ IsFiniteSet(P) /\ Cardinality(P) \in Nat
  BY AllPathsFacts, NodeSets
<1>3. DODOn(p) = {a \in V : \E b \in V : a # b /\ Decided(p, s1, s2, a, b)}
  BY DODOnAt
<1>4. F[p] = blue \cup red /\ F[p] \in SUBSET Node
  <2>1. F[p] = FirstReachable(P, p)
    BY <1>2 DEF Ap
  <2>2. \A z : z \in FirstReachable(P, p) <=> z \in blue \/ z \in red
    <3> SUFFICES ASSUME NEW z PROVE z \in FirstReachable(P, p) <=> z \in blue \/ z \in red
      OBVIOUS
    <3> QED
      BY FirstFrom
  <2>3. FirstReachable(P, p) \subseteq P
    BY <1>2, AllPathsFacts
  <2> QED
    BY <1>2, <2>1, <2>2, <2>3
<1> HIDE DEF c, Rec
\* Where there is no cycle, or the colours meet, p decides no order.
<1>5. ASSUME len < 2 \/ Cardinality(F[p]) < 2 \/ blue \cap red # {} PROVE DODOn(p) = {}
  <2> SUFFICES ASSUME NEW a \in V, NEW b \in V, a # b, Decided(p, s1, s2, a, b) PROVE FALSE
    BY <1>3
  <2>1. blue # {} /\ red # {} /\ blue \cap red = {}
    BY DecidedAt
  <2>2. Cardinality(P) >= 3
    BY <1>2, AtLeast
  <2>3. PICK x \in blue, y \in red : TRUE
    BY <2>1
  <2>4. x \in F[p] /\ y \in F[p] /\ x # y
    BY <1>4, <2>1
  <2>5. Cardinality(F[p]) >= 2 /\ Cardinality(F[p]) \in Nat
    BY <1>4, <2>4, AtLeast
  <2> QED
    BY <1>2, <1>5, <2>1, <2>2, <2>5
<1>6. ASSUME len >= 2, Cardinality(F[p]) >= 2, blue \cap red = {}
      PROVE  Arcs(c, len, blue, red) = DODOn(p)
  <2>1. blue # {} /\ red # {}
    <3>1. P # {p}
      BY <1>2, <1>6, FS_Singleton
    <3>2. PICK m \in P : m # p
      BY <1>2, <3>1
    <3>3. succ[p] \subseteq Inevitable(succ, P)
      BY <3>2, AllPathsFacts
    <3> QED
      BY <1>2, <3>3, InevitableTheta
  <2>2. PICK x \in blue, y \in red : x # y
    BY <1>6, <2>1
  <2>3. Decisive(P, F, Escapes(p), p) /\ x \in F[p] /\ y \in F[p]
    BY <1>4, ApDecisive DEF Ap
  <2>4. p \notin F[p] /\ \A m \in V : m \notin Escapes(p) /\ \E n \in V : F[m] = {n}
    BY <2>2, <2>3, OneWay
  <2>5. F[p] \subseteq V
    BY <1>2, <2>3, <2>4 DEF Decisive
  \* The walk of the code is one that goes round.
  <2>6. IsWalk(c, P, F, p) /\ c[0] \in blue
    <3> DEFINE G == [m \in V |-> CHOOSE n \in F[m] : TRUE]
               b0 == CHOOSE b \in blue : TRUE
    <3>1. G \in [V -> V] /\ b0 \in V /\ b0 \in blue /\ \A m \in V : F[m] = {G[m]}
      <4>1. \A m \in V : (CHOOSE n \in F[m] : TRUE) \in V
                         /\ F[m] = {CHOOSE n \in F[m] : TRUE}
        BY <2>4
      <4>2. b0 \in blue
        BY <2>1
      <4>3. b0 \in V
        BY <1>4, <2>5, <4>2
      <4> QED
        BY <4>1, <4>2, <4>3
    <3>2. \E g : IsIteration(g, V, G, b0)
      <4> HIDE DEF G, V, b0
      <4> QED
        BY <3>1, Iterates
    <3>3. PICK g : IsIteration(g, V, G, b0)
      BY <3>2
    <3>4. g \in [Nat -> V] /\ g[0] = b0 /\ \A n \in Nat : g[n + 1] = G[g[n]]
      BY <3>3, Zenon DEF IsIteration
    <3>5. g = Rec(g)
      <4>1. ASSUME NEW i \in Nat PROVE g[i] = Rec(g)[i]
        <5>1. CASE i = 0
          BY <3>4, <5>1 DEF Rec
        <5>2. CASE i # 0
          <6>1. i - 1 \in Nat /\ (i - 1) + 1 = i
            BY <5>2
          <6>2. g[i] = G[g[i - 1]] /\ g[i - 1] \in V
            BY <3>4, <6>1
          <6>3. Rec(g)[i] = CHOOSE m \in F[g[i - 1]] : TRUE
            BY <5>2 DEF Rec
          <6> QED
            BY <6>2, <6>3
        <5> QED
          BY <5>1, <5>2
      <4>2. g = [i \in Nat |-> g[i]]
        BY <3>4
      <4>3. Rec(g) = [i \in Nat |-> Rec(g)[i]]
        BY DEF Rec
      <4> QED
        BY <4>1, <4>2, <4>3
    <3>6. c = Rec(c)
      BY <3>5 DEF c
    <3>7. c[0] = b0
      <4>1. Rec(c)[0] = b0
        BY DEF Rec
      <4> QED
        BY <3>6, <4>1
    <3>8. ASSUME NEW n \in Nat, c[n] \in V PROVE c[n + 1] \in V /\ F[c[n]] = {c[n + 1]}
      <4>1. n + 1 \in Nat /\ n + 1 # 0 /\ (n + 1) - 1 = n
        OBVIOUS
      <4>2. Rec(c)[n + 1] = CHOOSE m \in F[c[n]] : TRUE
        BY <4>1 DEF Rec
      <4>3. c[n + 1] = G[c[n]]
        BY <3>6, <3>8, <4>2
      <4> HIDE DEF G
      <4> QED
        BY <3>1, <3>8, <4>3
    <3> DEFINE A == {n \in Nat : c[n] \in V}
    <3>9. A = Nat
      <4>1. A \in SUBSET Nat
        OBVIOUS
      <4>2. 0 \in A
        BY <3>1, <3>7
      <4>3. \A n \in A : n + 1 \in A
        BY <3>8
      <4> HIDE DEF A
      <4> QED
        BY <4>1, <4>2, <4>3, SetInduction
    <3>10. \A n \in Nat : c[n] \in V
      BY <3>9
    <3>11. c \in [Nat -> V]
      <4>1. DOMAIN Rec(c) = Nat /\ Rec(c) = [i \in Nat |-> Rec(c)[i]]
        BY DEF Rec
      <4>2. c = [i \in Nat |-> c[i]]
        BY <3>6, <4>1
      <4> QED
        BY <3>10, <4>2
    <3> QED
      BY <1>4, <3>1, <3>7, <3>8, <3>10, <3>11 DEF IsWalk
  <2>7. /\ len \in Nat \ {0} /\ c[len] = c[0]
        /\ \A m \in V : \E i \in 0 .. len - 1 : c[i] = m
        /\ \A i, j \in 0 .. len - 1 : c[i] = c[j] => i = j
        /\ \A i \in 0 .. len - 1 : c[i] \in V
    <3>1. /\ Cardinality(P) - 1 \in Nat \ {0} /\ c[Cardinality(P) - 1] = c[0]
          /\ \A m \in P \ {p} : \E i \in 0 .. Cardinality(P) - 2 : c[i] = m
          /\ \A i, j \in 0 .. Cardinality(P) - 2 : c[i] = c[j] => i = j
      <4> HIDE DEF P, F
      <4> QED
        BY <1>2, <2>2, <2>3, <2>6, WalkCycle
    <3>2. Cardinality(P) - 2 = len - 1
      BY <1>2
    <3>3. \A i \in Nat : c[i] \in V
      BY <2>6 DEF IsWalk
    <3> QED
      BY <3>1, <3>2, <3>3
  <2> HIDE DEF len
  <2>8. \A i, j \in 0 .. len - 1 : i # j =>
           \A k \in 0 .. len - 1 : c[k] \in Ahead(c[i], c[j]) <=> InTurn(k, i, j)
    <3> SUFFICES ASSUME NEW i \in 0 .. len - 1, NEW j \in 0 .. len - 1, i # j
                 PROVE  \A k \in 0 .. len - 1 : c[k] \in Ahead(c[i], c[j]) <=> InTurn(k, i, j)
      OBVIOUS
    <3> HIDE DEF c
    <3> QED
      BY <2>4, <2>6, <2>7, WalkTurns
  <2> DEFINE B == {k \in 0 .. len - 1 : c[k] \in blue}
             R == {k \in 0 .. len - 1 : c[k] \in red}
  <2>9. 0 \in B /\ R # {}
    <3>1. y \in V
      BY <2>3, <2>5
    <3> QED
      BY <2>2, <2>6, <2>7, <3>1
  <2>10. ASSUME NEW i \in 0 .. len - 1, NEW j \in 0 .. len - 1, i # j
         PROVE  Decided(p, s1, s2, c[i], c[j]) <=> Separates(B, R, i, j) \/ Separates(B, R, j, i)
    <3>1. \A z \in blue : \E k \in B : c[k] = z
      BY <1>4, <2>5, <2>7
    <3>2. \A z \in red : \E k \in R : c[k] = z
      BY <1>4, <2>5, <2>7
    <3>3. blue \subseteq Ahead(c[i], c[j]) <=> \A k \in B : InTurn(k, i, j)
      BY <2>8, <2>10, <3>1
    <3>4. blue \subseteq Ahead(c[j], c[i]) <=> \A k \in B : InTurn(k, j, i)
      BY <2>8, <2>10, <3>1
    <3>5. red \subseteq Ahead(c[i], c[j]) <=> \A k \in R : InTurn(k, i, j)
      BY <2>8, <2>10, <3>2
    <3>6. red \subseteq Ahead(c[j], c[i]) <=> \A k \in R : InTurn(k, j, i)
      BY <2>8, <2>10, <3>2
    <3>7. Decided(p, s1, s2, c[i], c[j]) <=>
            \/ (\A k \in B : InTurn(k, i, j)) /\ (\A k \in R : InTurn(k, j, i))
            \/ (\A k \in R : InTurn(k, i, j)) /\ (\A k \in B : InTurn(k, j, i))
      BY <3>3, <3>4, <3>5, <3>6 DEF Decided
    <3>8. B \in SUBSET (0 .. len - 1) /\ R \in SUBSET (0 .. len - 1)
      OBVIOUS
    <3> HIDE DEF B, R
    <3>9. len \in Nat /\ 0 \in B /\ R # {}
      BY <2>7, <2>9
    <3>10. \/ (\A k \in B : InTurn(k, i, j)) /\ (\A k \in R : InTurn(k, j, i))
           \/ (\A k \in R : InTurn(k, i, j)) /\ (\A k \in B : InTurn(k, j, i))
           <=> Separates(B, R, i, j) \/ Separates(B, R, j, i)
      BY <2>10, <3>8, <3>9, TurnsSeparate
    <3> QED
      BY <3>7, <3>10
  <2>11. \A a : a \in Arcs(c, len, blue, red) <=>
            \E i \in 0 .. len - 1 :
               /\ c[i] = a
               /\ \E l \in 0 .. len - 1 : Separates(B, R, i, l) \/ Separates(B, R, l, i)
    <3>1. /\ B \in SUBSET (0 .. len - 1) /\ \A k \in 0 .. len - 1 : k \in B <=> c[k] \in blue
          /\ R \in SUBSET (0 .. len - 1) /\ \A k \in 0 .. len - 1 : k \in R <=> c[k] \in red
      OBVIOUS
    <3>2. len \in Nat /\ blue \cap red = {} /\ 0 \in B /\ R # {}
      BY <1>6, <2>7, <2>9
    <3> HIDE DEF B, R, blue, red
    <3> QED
      BY <3>1, <3>2, ArcsExact
  <2>12. \A i \in 0 .. len - 1, j \in 0 .. len - 1 : c[i] # c[j] <=> i # j
    BY <2>7
  <2>13. \A i \in 0 .. len - 1 : ~ Separates(B, R, i, i)
    BY DEF Separates
  <2> HIDE DEF B, R
  <2>14. Arcs(c, len, blue, red) \subseteq DODOn(p)
    <3> SUFFICES ASSUME NEW i \in 0 .. len - 1, NEW l \in 0 .. len - 1,
                        Separates(B, R, i, l) \/ Separates(B, R, l, i)
                 PROVE  c[i] \in DODOn(p)
      BY <2>11
    <3>1. i # l
      BY <2>13
    <3>2. Decided(p, s1, s2, c[i], c[l]) /\ c[i] # c[l] /\ c[i] \in V /\ c[l] \in V
      BY <2>7, <2>10, <2>12, <3>1
    <3> QED
      BY <1>3, <3>2
  <2>15. DODOn(p) \subseteq Arcs(c, len, blue, red)
    <3> SUFFICES ASSUME NEW a \in V, NEW b \in V, a # b, Decided(p, s1, s2, a, b)
                 PROVE  a \in Arcs(c, len, blue, red)
      BY <1>3
    <3>1. PICK i \in 0 .. len - 1, j \in 0 .. len - 1 : c[i] = a /\ c[j] = b
      BY <2>7
    <3>2. i # j
      BY <3>1
    <3>3. Separates(B, R, i, j) \/ Separates(B, R, j, i)
      BY <2>10, <3>1, <3>2
    <3> QED
      BY <2>11, <3>1, <3>3
  <2> QED
    BY <2>14, <2>15
<1>7. Cardinality(F[p]) \in Nat /\ len \in Int
  BY <1>2, <1>4, NodeSets
<1> QED
  BY <1>1, <1>5, <1>6, <1>7

-----------------------------------------------------------------------------
(* AllMaxPath, DOD and DODNTSCD.                                             *)

\* AllMaxPath has found, for every node that it has turned to but the one for which it
\* searches, the nodes from which all maximal paths meet it.
PathsInv == job = "NTSCD" =>
    /\ phase = "search" => \E t \in Node \ left : targets = {t}
    /\ phase = "done" => left = {}
    /\ exact => \A n \in Node :
          onPaths[n] = {m \in Node \ left : (phase = "search" => m \notin targets)
                                            /\ n \in Inevitable(succ, {m})}

\* The end of a search adds its target where the search was right.
LEMMA PathsStep == TypeOK /\ SearchComplete /\ PathsInv /\ [Next]_vars => PathsInv'
<1> SUFFICES ASSUME TypeOK, SearchComplete, PathsInv, [Next]_vars, job' = "NTSCD" PROVE PathsInv'
  BY DEF PathsInv
<1>1. UNCHANGED <<succ, job>>
  BY DEF Next, BeginNTSCD, Pop, EndNTSCD, BeginGamma, AddToClosure, BeginNTSCD2, Examine, NextRound,
         EndNTSCD2, ProcessRanganath, EndRoundRanganath, ComputeFrontier, vars, input
<1>2. \A m : Inevitable(succ, {m})' = Inevitable(succ, {m})
  BY <1>1 DEF Inevitable, Closed
<1>3. left \subseteq Node
  BY DEF TypeOK
<1>4. CASE BeginNTSCD
  <2>1. /\ phase = "idle" /\ phase' = "search" /\ UNCHANGED <<onPaths, exact>>
        /\ \E t \in left : left' = left \ {t} /\ targets' = {t}
    BY <1>4 DEF BeginNTSCD, BeginSearch
  <2>2. PICK t \in left : left' = left \ {t} /\ targets' = {t}
    BY <2>1
  <2>3. \E u \in Node \ left' : targets' = {u}
    BY <1>3, <2>2
  <2>4. ASSUME exact', NEW n \in Node
        PROVE  onPaths'[n] = {m \in Node \ left' : (phase' = "search" => m \notin targets')
                                                  /\ n \in Inevitable(succ, {m})'}
    <3>1. onPaths[n] = {m \in Node \ left : n \in Inevitable(succ, {m})}
      BY <1>1, <2>1, <2>4 DEF PathsInv
    <3>2. \A m : m \in Node \ left <=> m \in Node \ left' /\ m \notin targets'
      BY <1>3, <2>2
    <3>3. onPaths'[n] = {m \in Node \ left' : m \notin targets' /\ n \in Inevitable(succ, {m})}
      BY <2>1, <3>1, <3>2
    <3> QED
      BY <1>2, <2>1, <3>3
  <2> QED
    BY <2>1, <2>3, <2>4 DEF PathsInv
<1>5. CASE Pop
  <2>1. UNCHANGED <<phase, left, targets, onPaths, exact>>
    BY <1>5 DEF Pop
  <2> QED
    BY <1>1, <1>2, <2>1 DEF PathsInv
<1>6. CASE EndNTSCD
  <2>1. /\ phase = "search" /\ stack = <<>> /\ UNCHANGED <<left, targets>>
        /\ onPaths' = [m \in Node |-> IF m \in colored THEN onPaths[m] \cup targets ELSE onPaths[m]]
        /\ exact' = (exact /\ colored \subseteq Inevitable(succ, targets))
        /\ phase' = IF left = {} THEN "done" ELSE "idle"
    BY <1>6 DEF EndNTSCD, search
  <2>2. PICK t \in Node \ left : targets = {t}
    BY <1>1, <2>1 DEF PathsInv
  <2>3. ASSUME exact', NEW n \in Node
        PROVE  onPaths'[n] = {m \in Node \ left' : (phase' = "search" => m \notin targets')
                                                  /\ n \in Inevitable(succ, {m})'}
    <3>1. exact /\ colored = Inevitable(succ, {t})
      BY <1>1, <2>1, <2>2, <2>3 DEF SearchComplete, SearchDone
    <3>2. onPaths[n] = {m \in Node \ left : m # t /\ n \in Inevitable(succ, {m})}
      BY <1>1, <2>1, <2>2, <3>1 DEF PathsInv
    <3>3. onPaths'[n] = IF n \in colored THEN onPaths[n] \cup {t} ELSE onPaths[n]
      BY <2>1, <2>2
    <3>4. phase' # "search"
      BY <2>1
    <3>5. \A m : m \in onPaths'[n] <=> m \in Node \ left /\ n \in Inevitable(succ, {m})
      <4>1. CASE n \in colored
        <5>1. n \in Inevitable(succ, {t}) /\ onPaths'[n] = onPaths[n] \cup {t}
          BY <3>1, <3>3, <4>1
        <5> QED
          BY <2>2, <3>2, <5>1
      <4>2. CASE n \notin colored
        <5>1. n \notin Inevitable(succ, {t}) /\ onPaths'[n] = onPaths[n]
          BY <3>1, <3>3, <4>2
        <5> QED
          BY <2>2, <3>2, <5>1
      <4> QED
        BY <4>1, <4>2
    <3>6. onPaths'[n] = {m \in Node \ left : n \in Inevitable(succ, {m})}
      <4>1. onPaths'[n] \subseteq Node
        BY <3>5
      <4> QED
        BY <3>5, <4>1
    <3>7. \A m : /\ m \in Node \ left' /\ (phase' = "search" => m \notin targets')
                 /\ n \in Inevitable(succ, {m})'
                 <=> m \in Node \ left /\ n \in Inevitable(succ, {m})
      BY <1>2, <2>1, <3>4
    <3> QED
      BY <3>6, <3>7
  <2>4. phase' # "search" /\ (phase' = "done" => left' = {})
    BY <2>1
  <2> QED
    BY <2>3, <2>4 DEF PathsInv
<1>7. CASE BeginGamma \/ AddToClosure \/ BeginNTSCD2 \/ Examine \/ NextRound \/ EndNTSCD2
  BY <1>1, <1>7 DEF BeginGamma, AddToClosure, BeginNTSCD2, Examine, NextRound, EndNTSCD2
<1>8. CASE ProcessRanganath \/ EndRoundRanganath \/ ComputeFrontier
  BY <1>1, <1>8 DEF ProcessRanganath, EndRoundRanganath, ComputeFrontier
<1>9. CASE UNCHANGED vars
  <2>1. UNCHANGED <<phase, left, targets, onPaths, exact>>
    BY <1>9 DEF vars, search
  <2> QED
    BY <1>1, <1>2, <2>1 DEF PathsInv
<1> QED
  BY <1>4, <1>5, <1>6, <1>7, <1>8, <1>9 DEF Next

LEMMA PathsInvariant == Spec => [](TypeOK /\ PathsInv)
<1>1. TypeOK /\ Init => PathsInv
  <2> SUFFICES ASSUME Init PROVE PathsInv
    OBVIOUS
  <2>1. left = Node /\ onPaths = [m \in Node |-> {}]
    BY DEF Init
  <2>2. job = "NTSCD" => phase = "idle"
    BY DEF Init
  <2> QED
    BY <2>1, <2>2 DEF PathsInv
<1>2. TypeOK /\ SearchComplete /\ PathsInv /\ [Next]_vars => PathsInv'
  BY PathsStep
<1> QED
  BY <1>1, <1>2, TypeCorrect, SearchFindsAll, PTL DEF Spec

\* When all searches were right, onPaths holds the nodes on all maximal paths.
LEMMA PathsDone ==
    ASSUME TypeOK, PathsInv, job = "NTSCD", phase = "done", exact, NEW n \in Node
    PROVE  onPaths[n] = AllPaths(n)
<1>1. onPaths[n] = {m \in Node \ left : (phase = "search" => m \notin targets)
                                        /\ n \in Inevitable(succ, {m})}
  BY DEF PathsInv
<1>2. left = {}
  BY DEF PathsInv
<1> QED
  BY <1>1, <1>2 DEF AllPaths

\* In a set of two, two different elements are all.
LEMMA BothOf ==
    ASSUME NEW T \in SUBSET Node, Cardinality(T) <= 2, NEW a \in T, NEW b \in T, a # b
    PROVE  T = {a, b}
<1> SUFFICES ASSUME NEW x \in T \ {a, b} PROVE FALSE
  OBVIOUS
<1>1. Cardinality(T) >= 3 /\ Cardinality(T) \in Nat
  BY AtLeast
<1> QED
  BY <1>1

\* What checkAp asserts of the graph Ap of a node: the nodes but p form one cycle.
CheckedAp(p) ==
    LET len == Cardinality(onPaths[p]) - 1
    IN  /\ len \in Nat \ {0, 1}
        /\ \E c \in [Nat -> onPaths[p] \ {p}] :
              /\ c[len] = c[0]
              /\ \A m \in onPaths[p] \ {p} : \E i \in 0 .. len - 1 : c[i] = m
              /\ \A i, j \in 0 .. len - 1 : c[i] = c[j] => i = j
              /\ \A i \in Nat : ApEdges(p)[c[i]] = {c[i + 1]}

\* When p goes to two of them, they do.
LEMMA ApChecked ==
    ASSUME TypeOK, NEW p \in Node, onPaths[p] = AllPaths(p), Cardinality(ApEdges(p)[p]) >= 2
    PROVE  CheckedAp(p)
<1> DEFINE P == AllPaths(p)
           F == Ap(p)
           V == P \ {p}
           len == Cardinality(P) - 1
<1>0. ApEdges(p) = F
  BY DEF ApEdges, Ap
<1>1. P \in SUBSET Node /\ p \in P /\ IsFiniteSet(P) /\ Cardinality(P) \in Nat
  BY AllPathsFacts, NodeSets
<1>2. Decisive(P, F, Escapes(p), p)
  BY ApDecisive DEF Ap
<1>3. PICK x \in F[p], y \in F[p] : x # y
  <2>1. F[p] \in SUBSET P
    BY <1>2 DEF Decisive
  <2>2. IsFiniteSet(F[p])
    BY <1>1, <2>1, NodeSets
  <2>3. Cardinality(F[p]) # 0 /\ Cardinality(F[p]) # 1
    BY <1>0
  <2> HIDE DEF F
  <2>4. F[p] # {} /\ ~ \E z : F[p] = {z}
    BY <2>2, <2>3, FS_EmptySet, FS_Singleton
  <2>5. PICK u : u \in F[p]
    BY <2>4
  <2>6. F[p] # {u}
    BY <2>4
  <2> QED
    BY <2>5, <2>6
<1>4. p \notin F[p] /\ \A m \in V : m \notin Escapes(p) /\ \E n \in V : F[m] = {n}
  <2> HIDE DEF F
  <2> QED
    BY <1>2, <1>3, OneWay
<1>5. x \in V /\ y \in V
  BY <1>2, <1>3, <1>4 DEF Decisive
<1> DEFINE G == [m \in V |-> CHOOSE n \in F[m] : TRUE]
<1>6. G \in [V -> V] /\ \A m \in V : F[m] = {G[m]}
  <2>1. \A m \in V : (CHOOSE n \in F[m] : TRUE) \in V /\ F[m] = {CHOOSE n \in F[m] : TRUE}
    BY <1>4
  <2> QED
    BY <2>1
<1>7. PICK c : IsIteration(c, V, G, x)
  <2> HIDE DEF G, V
  <2> QED
    BY <1>5, <1>6, Iterates
<1>8. c \in [Nat -> V] /\ c[0] = x /\ \A i \in Nat : F[c[i]] = {c[i + 1]}
  <2>1. c \in [Nat -> V] /\ c[0] = x /\ \A i \in Nat : c[i + 1] = G[c[i]]
    BY <1>7, Zenon DEF IsIteration
  <2> HIDE DEF G
  <2> QED
    BY <1>6, <2>1
<1>9. /\ len \in Nat \ {0} /\ c[len] = c[0]
      /\ \A m \in V : \E i \in 0 .. len - 1 : c[i] = m
      /\ \A i, j \in 0 .. len - 1 : c[i] = c[j] => i = j
  <2>1. IsWalk(c, P, F, p)
    BY <1>3, <1>8 DEF IsWalk
  <2>2. /\ Cardinality(P) - 1 \in Nat \ {0} /\ c[Cardinality(P) - 1] = c[0]
        /\ \A m \in P \ {p} : \E i \in 0 .. Cardinality(P) - 2 : c[i] = m
        /\ \A i, j \in 0 .. Cardinality(P) - 2 : c[i] = c[j] => i = j
    <3> HIDE DEF P, F
    <3> QED
      BY <1>1, <1>2, <1>3, <2>1, WalkCycle
  <2>3. Cardinality(P) - 2 = len - 1
    BY <1>1
  <2> QED
    BY <2>2, <2>3
<1>10. len # 1
  <2>1. Cardinality(P) >= 3
    BY <1>1, <1>3, <1>5, AtLeast
  <2> QED
    BY <1>1, <2>1
<1> QED
  BY <1>0, <1>8, <1>9, <1>10 DEF CheckedAp

\* What checkAp asserts of a graph before the order is computed from it holds: the nodes
\* on all maximal paths from p, but p, form one cycle.
THEOREM ApIsCycle ==
    Spec => [](job = "NTSCD" /\ phase = "done" /\ exact =>
                 \A p \in Node : Cardinality(ApEdges(p)[p]) >= 2 => CheckedAp(p))
<1>1. TypeOK /\ PathsInv =>
        (job = "NTSCD" /\ phase = "done" /\ exact =>
           \A p \in Node : Cardinality(ApEdges(p)[p]) >= 2 => CheckedAp(p))
  BY PathsDone, ApChecked
<1> QED
  BY <1>1, PathsInvariant, PTL

\* Where AllMaxPath is right, the walk over the cycle of Ap finds the nodes of all pairs
\* whose order a predicate decides, and NTSCDOf the control dependences that DODNTSCD adds,
\* on every graph in which predicates have two successors.
THEOREM ComputesDOD == Spec => []DODExact
<1>1. TypeOK /\ PathsInv => DODExact
  <2> SUFFICES ASSUME TypeOK, PathsInv, Binary, job = "NTSCD", phase = "done", exact,
                      NEW p \in Predicates, NEW s1 \in succ[p], NEW s2 \in succ[p], s1 # s2
               PROVE  /\ DODOf(p, s1, s2) = DODOn(p)
                      /\ NTSCDOf(s1, s2) = {m \in Node : p \in NTSCDOn(m)}
    BY DEF DODExact
  <2>1. p \in Node /\ succ[p] \in SUBSET Node
    BY SuccessorsGraph DEF Predicates
  <2>2. succ[p] = {s1, s2}
    BY <2>1, BothOf DEF Binary
  <2>3. DODOf(p, s1, s2) = DODOn(p)
    BY <2>1, <2>2, PathsDone, DODRight
  <2>4. NTSCDOf(s1, s2) = {m \in Node : p \in NTSCDOn(m)}
    <3>1. onPaths[s1] = AllPaths(s1) /\ onPaths[s2] = AllPaths(s2)
      BY <2>1, PathsDone
    <3>2. \A m : m \in NTSCDOf(s1, s2) <=>
             m \in Node /\ ~ (s1 \in Inevitable(succ, {m}) <=> s2 \in Inevitable(succ, {m}))
      BY <3>1 DEF NTSCDOf, AllPaths
    <3>3. \A m : p \in NTSCDOn(m) <=>
             ~ (s1 \in Inevitable(succ, {m}) <=> s2 \in Inevitable(succ, {m}))
      BY <2>2 DEF NTSCDOn, Split
    <3> QED
      BY <3>2, <3>3
  <2> QED
    BY <2>3, <2>4
<1> QED
  BY <1>1, PathsInvariant, PTL

\* What the analyses compute are the relations of the literature, on every graph: for
\* closures and decisive order this has the condition that the searches were right, and
\* for decisive order that predicates have two successors.
THEOREM ComputesRelations == Spec => []RelationsExact
<1>1. NTSCDExact /\ StandardExact /\ ClosureExact /\ DODExact => RelationsExact
  BY DEF RelationsExact
<1> QED
  BY <1>1, ComputesNTSCD, ComputesStandard, ClosesExactly, ComputesDOD, PTL
===============================================================================
