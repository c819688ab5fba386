-------------------------- MODULE ControlDependence ---------------------------
(***************************************************************************)
(* The control dependence analyses of one procedure, src/lib/              *)
(* ControlDependence and the post-dominance frontiers, on its control flow *)
(* graph.  The central step of most of them is a search backwards from a   *)
(* set of targets for the nodes that inevitably reach the targets:         *)
(*                                                                         *)
(*   "NTSCD"     NTSCD and, with the results of all searches kept,         *)
(*               AllMaxPath, on which DOD and DODNTSCD are built           *)
(*   "closure"   StrongControlClosure, whose gamma is the same search      *)
(*   "NTSCD2"    searches with a frontier in the place of counters         *)
(*   "Ranganath" NTSCDRanganath, with the fixpoint                         *)
(*   "PDF"       PostDominanceFrontiers on dg's own blocks                 *)
(*   "SCD"       the PostDominanceFrontiers of SCD.cpp on LLVM's           *)
(***************************************************************************)
EXTENDS FlowGraph, Integers, SequencesExt

CONSTANTS
    Node,    \* nodes of the graph
    NoNode,  \* virtual root of the post-dominator tree
    Graphs,  \* the control flow graphs considered, as in FlowGraph
    Jobs,    \* the analyses considered
    Seeds    \* the sets to be closed

ShortLimit == 65536 \* 2^16: the counters are unsigned short

ASSUME GraphAssumption ==
    /\ IsFiniteSet(Node) /\ NoNode \notin Node
    /\ Graphs \subseteq [Node -> SUBSET Node]
    /\ Cardinality(Node) < ShortLimit
    /\ Jobs \subseteq {"NTSCD", "closure", "NTSCD2", "Ranganath", "PDF", "SCD"}
    /\ Seeds \subseteq SUBSET Node

VARIABLES
    succ,     \* constant: successors of each node
    job,      \* constant: which analysis
    phase,    \* "idle" between searches, "search", "done"
    left,     \* nodes the analysis has yet to turn to
    targets,  \* targets of the present search
    colored,  \* Info::colored
    counter,  \* Info::counter
    stack,    \* the LIFO queue, top first
    frontier, \* NTSCD2: nodes of the frontier not looked at in this round
    next,     \* NTSCD2: new_frontier
    progress, \* something changed in this round
    S,        \* Ranganath: S[m][p]: successors through which p always reaches m
    seed, X,  \* closure: the given set (constant), and as it grows
    cd,       \* CD: cd[m]: nodes on which m depends
    onPaths,  \* AllMaxPath: onPaths[n]: nodes found on all maximal paths from n
    exact     \* history: no search by counters has coloured too much

input == <<succ, job, seed>>
search == <<targets, colored, counter, stack>>
rounds == <<frontier, next, progress>>
vars == <<input, phase, left, search, rounds, S, X, cd, onPaths, exact>>

Predicates == {p \in Node : Cardinality(succ[p]) > 1}

\* The predicates that have a successor in C and one that is not.
Split(C) == {p \in Predicates : (\E s \in succ[p] : s \in C) /\ (\E s \in succ[p] : s \notin C)}

\* Types; what is given does not change.
TypeOK ==
    /\ succ \in Graphs /\ job \in Jobs /\ seed \subseteq X
    /\ phase \in {"idle", "search", "done"}
    /\ left \subseteq Node /\ targets \subseteq Node /\ colored \subseteq Node
    /\ counter \in [Node -> 0 .. ShortLimit - 1] /\ stack \in Seq(Node)
    /\ frontier \subseteq Node /\ next \subseteq Node /\ progress \in BOOLEAN
    /\ S \in [Node -> [Node -> SUBSET Node]]
    /\ X \subseteq Node
    /\ cd \in [Node -> SUBSET Node] /\ onPaths \in [Node -> SUBSET Node]
    /\ exact \in BOOLEAN

-----------------------------------------------------------------------------
(* What the searches are to find.                                            *)

\* C holds every node all of whose successors it holds.
Closed(g, C) == \A m \in Node : g[m] # {} /\ g[m] \subseteq C => m \in C

\* The nodes from which every maximal path meets T: the smallest closed set with T.
Inevitable(g, T) == {m \in Node : \A C \in SUBSET Node : T \subseteq C /\ Closed(g, C) => m \in C}

-----------------------------------------------------------------------------
(* NTSCD, AllMaxPath and gamma.                                              *)

Dec(c) == (c + ShortLimit - 1) % ShortLimit

\* Fault: the counters of nodes coloured by the search before are not reset.
BeginWithoutReset(T) ==
    /\ targets' = T /\ colored' = T
    /\ counter' = [m \in Node |-> IF m \in colored THEN counter[m] ELSE Cardinality(succ[m])]
    /\ \E s \in SetToSeqs(T) : stack' = s

\* The search begins: a node waits for all of its successors.
BeginSearch(T) ==
    /\ targets' = T /\ colored' = T
    /\ counter' = [m \in Node |-> Cardinality(succ[m])]
    /\ \E s \in SetToSeqs(T) : stack' = s

\* Fault: a node that waits for one more successor is coloured.
ReleasedEarly(x) == {p \in Pred(succ, x) : Dec(counter[p]) <= 1}

\* Nodes that wait for nothing any more once x is popped.
Released(x) == {p \in Pred(succ, x) : Dec(counter[p]) = 0}

\* A released node is pushed, one that is coloured already as well.
Pop ==
    /\ job \in {"NTSCD", "closure"} /\ phase = "search" /\ stack # <<>>
    /\ LET x == Head(stack) IN
          /\ counter' = [p \in Node |-> IF x \in succ[p] THEN Dec(counter[p]) ELSE counter[p]]
          /\ colored' = colored \cup Released(x)
          /\ \E s \in SetToSeqs(Released(x)) : stack' = s \o Tail(stack)
    /\ UNCHANGED <<input, phase, left, targets, rounds, S, X, cd, onPaths, exact>>

BeginNTSCD ==
    /\ job = "NTSCD" /\ phase = "idle"
    /\ \E t \in left : left' = left \ {t} /\ BeginSearch({t})
    /\ phase' = "search"
    /\ UNCHANGED <<input, rounds, S, X, cd, onPaths, exact>>

\* NTSCD::compute keeps the dependences, AllMaxPath::compute the colours.
EndNTSCD ==
    /\ job = "NTSCD" /\ phase = "search" /\ stack = <<>>
    /\ cd' = [m \in Node |-> IF m \in targets THEN Split(colored) ELSE cd[m]]
    /\ onPaths' = [m \in Node |-> IF m \in colored THEN onPaths[m] \cup targets ELSE onPaths[m]]
    /\ exact' = (exact /\ colored \subseteq Inevitable(succ, targets))
    /\ phase' = IF left = {} THEN "done" ELSE "idle"
    /\ UNCHANGED <<input, left, search, rounds, S, X>>

-----------------------------------------------------------------------------
(* StrongControlClosure.                                                     *)

\* foreachFirstReachable: nodes of N that paths from the successors of m meet first.
FirstReachable(N, m) ==
    LET between == ReachableAvoiding(succ, succ[m], N)
    IN  N \cap (succ[m] \cup UNION {succ[b] : b \in between})

theta(Y, m) == IF m \in Y THEN {m} ELSE FirstReachable(Y, m)

\* The nodes p with an edge p -> r for which closeSet adds p to Y, when C are the
\* nodes that gamma(Y) does not return.
Addable(Y, C) ==
    {p \in Node : \E r \in succ[p] :
        /\ p \in Reachable(succ, UNION {succ[m] : m \in Y})
        /\ Cardinality(theta(Y, r)) = 1 /\ r \in C
        /\ Cardinality(theta(Y, p)) >= 2 \/ p \notin C}

BeginGamma ==
    /\ job = "closure" /\ phase = "idle"
    /\ BeginSearch(X)
    /\ phase' = "search"
    /\ UNCHANGED <<input, left, rounds, S, X, cd, onPaths, exact>>

AddToClosure ==
    /\ job = "closure" /\ phase = "search" /\ stack = <<>>
    /\ IF Addable(X, colored) = {} THEN phase' = "done" /\ UNCHANGED X
       ELSE phase' = "idle" /\ \E p \in Addable(X, colored) : X' = X \cup {p}
    /\ exact' = (exact /\ colored \subseteq Inevitable(succ, targets))
    /\ UNCHANGED <<input, left, search, rounds, S, cd, onPaths>>

-----------------------------------------------------------------------------
(* NTSCD2.                                                                   *)

BeginNTSCD2 ==
    /\ job = "NTSCD2" /\ phase = "idle"
    /\ \E t \in left :
          /\ left' = left \ {t}
          /\ targets' = {t} /\ colored' = {t}
          /\ frontier' = Pred(succ, t) \ {t}
    /\ next' = {} /\ progress' = FALSE
    /\ phase' = "search"
    /\ UNCHANGED <<input, counter, stack, S, X, cd, onPaths, exact>>

\* Fault: a node that is looked at again counts as progress.
ExamineProgress(m) ==
    /\ progress' = TRUE
    /\ IF succ[m] \subseteq colored
         THEN /\ colored' = colored \cup {m}
              /\ next' = next \cup (Pred(succ, m) \ colored')
         ELSE next' = next \cup {m} /\ UNCHANGED colored

\* One iteration of the inner loop.
ExamineNode(m) ==
    IF succ[m] \subseteq colored
      THEN /\ colored' = colored \cup {m}
           /\ next' = next \cup (Pred(succ, m) \ colored')
           /\ progress' = TRUE
      ELSE next' = next \cup {m} /\ UNCHANGED <<colored, progress>>

Examine ==
    /\ job = "NTSCD2" /\ phase = "search"
    /\ \E m \in frontier : frontier' = frontier \ {m} /\ ExamineNode(m)
    /\ UNCHANGED <<input, phase, left, targets, counter, stack, S, X, cd, onPaths, exact>>

NextRound ==
    /\ job = "NTSCD2" /\ phase = "search" /\ frontier = {} /\ progress
    /\ frontier' = next /\ next' = {} /\ progress' = FALSE
    /\ UNCHANGED <<input, phase, left, search, S, X, cd, onPaths, exact>>

EndNTSCD2 ==
    /\ job = "NTSCD2" /\ phase = "search" /\ frontier = {} /\ ~ progress
    /\ cd' = [m \in Node |-> IF m \in targets THEN Split(colored) ELSE cd[m]]
    /\ phase' = IF left = {} THEN "done" ELSE "idle"
    /\ UNCHANGED <<input, left, search, rounds, S, X, onPaths, exact>>

-----------------------------------------------------------------------------
(* NTSCDRanganath.  The symbol t_pq in S[m][p] is q here.                    *)

\* Fault: a predicate passes its symbols on when some of its successors lead to a.
processNodeSome(m) ==
    [a \in Node |-> [p \in Node |->
        S[a][p] \cup
        IF \/ succ[m] = {a} /\ a # m
           \/ m \in Predicates /\ p # m /\ S[a][m] # {}
        THEN S[m][p] ELSE {}]]

\* What processNode(m) makes of S.
processNode(m) ==
    [a \in Node |-> [p \in Node |->
        S[a][p] \cup
        IF \/ succ[m] = {a} /\ a # m
           \/ m \in Predicates /\ p # m /\ Cardinality(S[a][m]) = Cardinality(succ[m])
        THEN S[m][p] ELSE {}]]

\* A round goes over all nodes, left are those to come.
ProcessRanganath ==
    /\ job = "Ranganath" /\ phase = "search"
    /\ \E m \in left : left' = left \ {m} /\ S' = processNode(m)
    /\ progress' = (progress \/ S' # S)
    /\ UNCHANGED <<input, phase, search, frontier, next, X, cd, onPaths, exact>>

EndRoundRanganath ==
    /\ job = "Ranganath" /\ phase = "search" /\ left = {}
    /\ IF progress THEN left' = Node /\ UNCHANGED <<phase, cd>>
       ELSE /\ phase' = "done"
            /\ cd' = [m \in Node |-> {p \in Predicates :
                        S[m][p] # {} /\ Cardinality(S[m][p]) < Cardinality(succ[p])}]
            /\ UNCHANGED left
    /\ progress' = FALSE
    /\ UNCHANGED <<input, search, frontier, next, S, X, onPaths, exact>>

-----------------------------------------------------------------------------
(* Post-dominance frontiers, bottom-up.                                      *)

ipdom(m) == IPostDom(succ, m, NoNode)
Children(b) == {m \in Node : ipdom(m) = b}

\* A node f in the frontier of a child of b is in that of b.
Up(b, f) == IF job = "PDF" THEN ipdom(f) # b /\ f # b ELSE b \notin StrictPostDominators(succ, f)

ComputeFrontier ==
    /\ job \in {"PDF", "SCD"} /\ phase = "idle"
    /\ \E b \in left :
          /\ Children(b) \cap left = {}
          /\ left' = left \ {b}
          /\ cd' = [cd EXCEPT ![b] =
                {p \in Pred(succ, b) : ipdom(p) # b}
                \cup {f \in UNION {cd[c] : c \in Children(b)} : Up(b, f)}]
    /\ phase' = IF left' = {} THEN "done" ELSE "idle"
    /\ UNCHANGED <<input, search, rounds, S, X, onPaths, exact>>

-----------------------------------------------------------------------------
\* What LLVM's post-dominator tree holds of nodes from which there is no way out
\* differs between its versions.
Treed == \A m \in Node : Reachable(succ, {m}) \cap Exits(succ) # {}

Init ==
    /\ succ \in Graphs /\ job \in Jobs
    /\ job \in {"PDF", "SCD"} => Treed
    /\ seed \in IF job = "closure" THEN Seeds ELSE {{}}
    /\ X = seed
    /\ left = Node
    /\ phase = IF job = "Ranganath" THEN "search" ELSE "idle"
    /\ targets = {} /\ colored = {} /\ counter = [m \in Node |-> 0] /\ stack = <<>>
    /\ frontier = {} /\ next = {} /\ progress = FALSE
    /\ S = [m \in Node |-> [p \in Node |->
              {m} \cap IF p \in Predicates THEN succ[p] ELSE {}]]
    /\ cd = [m \in Node |-> {}] /\ onPaths = [m \in Node |-> {}]
    /\ exact = TRUE

Next ==
    \/ BeginNTSCD \/ Pop \/ EndNTSCD
    \/ BeginGamma \/ AddToClosure
    \/ BeginNTSCD2 \/ Examine \/ NextRound \/ EndNTSCD2
    \/ ProcessRanganath \/ EndRoundRanganath
    \/ ComputeFrontier

\* One sequential program.
Spec == Init /\ [][Next]_vars /\ WF_vars(Next)

-----------------------------------------------------------------------------
(* Decisive order dependence, computed from the results of AllMaxPath.       *)

\* Edges of the graph Ap of p: from the nodes on all maximal paths from p to those
\* that come next.
ApEdges(p) == [m \in onPaths[p] |-> FirstReachable(onPaths[p], m)]

\* Colour of a successor of p: the nodes of Ap met first.
Paint(p, s) == IF s \in onPaths[p] THEN {s} ELSE FirstReachable(onPaths[p], s)

\* Fault: the nodes before the first red one are forgotten.
ArcsToBlue(cycle, len, blue, red) ==
    LET r1 == CHOOSE i \in 0 .. len - 1 : cycle[i] \in red /\ \A j \in 0 .. i - 1 : cycle[j] \notin red
        b3 == CHOOSE i \in r1 + 1 .. len :
                 (i = len \/ cycle[i] \in blue) /\ \A j \in r1 + 1 .. i - 1 : cycle[j] \notin blue
        r2 == CHOOSE i \in r1 .. b3 - 1 : cycle[i] \in red /\ \A j \in i + 1 .. b3 - 1 : cycle[j] \notin red
    IN  IF \E j \in b3 .. len - 1 : cycle[j] \in red THEN {} ELSE {cycle[j] : j \in r2 .. b3 - 1}

\* computeDOD for a cycle that begins with a blue node: unless the colours alternate
\* more than once, the nodes from the last blue node up to the first red one, and
\* those from the last red one up to the next blue one.
Arcs(cycle, len, blue, red) ==
    LET r1 == CHOOSE i \in 0 .. len - 1 : cycle[i] \in red /\ \A j \in 0 .. i - 1 : cycle[j] \notin red
        b2 == CHOOSE i \in 0 .. r1 - 1 : cycle[i] \in blue /\ \A j \in i + 1 .. r1 - 1 : cycle[j] \notin blue
        b3 == CHOOSE i \in r1 + 1 .. len :
                 (i = len \/ cycle[i] \in blue) /\ \A j \in r1 + 1 .. i - 1 : cycle[j] \notin blue
        r2 == CHOOSE i \in r1 .. b3 - 1 : cycle[i] \in red /\ \A j \in i + 1 .. b3 - 1 : cycle[j] \notin red
    IN  IF \E j \in b3 .. len - 1 : cycle[j] \in red THEN {}
        ELSE {cycle[j] : j \in (b2 .. r1 - 1) \cup (r2 .. b3 - 1)}

\* The nodes that depend on p when s1 is its blue successor and s2 the red one.
DODOf(p, s1, s2) ==
    LET edges == ApEdges(p)
        blue == Paint(p, s1)
        red == Paint(p, s2)
        len == Cardinality(onPaths[p]) - 1
        cycle[i \in Nat] == IF i = 0 THEN CHOOSE b \in blue : TRUE
                            ELSE CHOOSE m \in edges[cycle[i - 1]] : TRUE
    IN  IF len < 2 \/ Cardinality(edges[p]) < 2 \/ blue \cap red # {} THEN {}
        ELSE Arcs(cycle, len, blue, red)

\* DODNTSCD: nodes that are on all maximal paths from one successor only depend on p
\* as well.
NTSCDOf(s1, s2) == (onPaths[s1] \ onPaths[s2]) \cup (onPaths[s2] \ onPaths[s1])

-----------------------------------------------------------------------------
(* Properties.                                                               *)

SearchDone == job \in {"NTSCD", "closure"} /\ phase = "search" /\ stack = <<>>

\* The search by counters misses no node that inevitably reaches the targets, although
\* nodes are pushed again and their counters run below zero.
SearchComplete == SearchDone => Inevitable(succ, targets) \subseteq colored

\* From the successors of a target, if it has any, the targets are not inevitable.
NoReturn ==
    \A t \in targets : succ[t] = {} \/ ~ (succ[t] \subseteq Inevitable(succ, targets))

\* Nor does it colour another node, unless a target inevitably returns to the targets:
\* then it is pushed again, and its predecessors are released by it twice.
SearchExact ==
    /\ SearchComplete
    /\ SearchDone /\ NoReturn => colored \subseteq Inevitable(succ, targets)

\* m depends on p: all maximal paths from one successor of p meet m, from another one
\* they do not.
NTSCDOn(m) == Split(Inevitable(succ, {m}))

\* NTSCD2, whichever the order in which it looks at its frontier, and the fixpoint of
\* Ranganath's algorithm compute the non-termination sensitive control dependences.
NTSCDExact == job \in {"NTSCD2", "Ranganath"} /\ phase = "done" => \A m \in Node : cd[m] = NTSCDOn(m)

\* The frontiers computed bottom-up are the control dependences of Ferrante, Ottenstein
\* and Warren; of the nodes that depend on themselves, dg's keep the one-node loops.
StandardExact ==
    job \in {"PDF", "SCD"} /\ phase = "done" =>
        \A m \in Node : cd[m] = {p \in Node :
            /\ ControlDependent(succ, p, m)
            /\ job = "PDF" /\ p = m => m \in succ[m]}

\* From s all maximal paths meet a before they meet b.
Before(s, a, b) == s # b /\ s \in Inevitable([succ EXCEPT ![b] = {}], {a})

\* The nodes of the pairs whose order p decides.
DODOn(p) ==
    {a \in Node \ {p} : \E b \in Node \ {p, a} :
        /\ p \in Inevitable(succ, {a}) /\ p \in Inevitable(succ, {b})
        /\ \E s \in succ[p] : Before(s, a, b)
        /\ \E s \in succ[p] : Before(s, b, a)}

\* No node has more than two successors, as computeDOD asserts of predicates.
Binary == \A p \in Node : Cardinality(succ[p]) <= 2

\* Where AllMaxPath is right, so are DOD and DODNTSCD: the walk over the cycle of Ap
\* finds the nodes of all pairs whose order the predicate decides.
DODExact ==
    job = "NTSCD" /\ phase = "done" /\ exact /\ Binary =>
        \A p \in Predicates : \A s1, s2 \in succ[p] : s1 # s2 =>
            /\ DODOf(p, s1, s2) = DODOn(p)
            /\ NTSCDOf(s1, s2) = {m \in Node : p \in NTSCDOn(m)}

\* Every node reachable from Y from which Y can be reached inevitably reaches it, and
\* meets one node of Y first.
StronglyClosed(Y) ==
    \A m \in Reachable(succ, Y) :
        \/ theta(Y, m) = {}
        \/ Cardinality(theta(Y, m)) = 1 /\ m \in Inevitable(succ, Y)

\* Where gamma is right, the closure is the smallest strongly control closed set that holds the given one.
ClosureExact ==
    job = "closure" /\ phase = "done" /\ exact =>
        /\ StronglyClosed(X)
        /\ \A Y \in SUBSET Node : seed \subseteq Y /\ StronglyClosed(Y) => X \subseteq Y

\* The relations of NTSCD2, Ranganath's fixpoint, the frontiers, the closure, DOD and
\* DODNTSCD are those of their definitions, in whatever order the analyses work.
RelationsExact == NTSCDExact /\ StandardExact /\ ClosureExact /\ DODExact

\* The searches end, in spite of the nodes that are pushed again.
Terminates == <>(phase = "done")
===============================================================================
