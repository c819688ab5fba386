------------------------------ MODULE LegacyNTSCD -------------------------------
(***************************************************************************)
(* The legacy non-termination sensitive control dependences, which the     *)
(* dependence graph takes its edges from: blocks are split behind calls,   *)
(* loops without a way out get an edge to the exit of their function, the  *)
(* search counts the successors of each node down, and the dependences of  *)
(* nodes become edges between instructions.                                *)
(***************************************************************************)
EXTENDS ControlDependenceAnalysis

VARIABLES
    mode,       \* "idle", "function" (computeOnDemand), "module" (computeDependencies)
                \* and "finished"
    order,      \* constant: order of the pointers of the nodes, "up" or "down"
    functions,  \* GraphBuilder::_functions: the graph of each function built
    toCompute,  \* nodes whose dependences are to be computed
    controlDependency, \* pairs: the second node depends on the first one
    edges,      \* control edges of the dependence graph, from terminators and calls
    noreturns   \* instructions that control the noreturn node of their function

legacyVars == <<mode, order, functions, toCompute, controlDependency, edges, noreturns>>

-----------------------------------------------------------------------------
(* GraphBuilder.                                                             *)

ExitNode(f) == <<f, 0, 0>>

\* With the results of the pointer analysis all calls are resolved.
\* "return": a node for the return of the call follows; "fork": the block is split only.
SplitAfter(p, f, c) ==
    IF ~ IsCall(p, c) \/ At(p, c).to \cap Defined(p) = {} THEN "none"
    ELSE IF At(p, c).op = "create" THEN "fork" ELSE "return"

NewNode(isReturn) == [instrs |-> <<>>, isReturn |-> isReturn]

\* The instruction at c is added to the last node, or to a new one.
AddInstruction(acc, c, split) ==
    LET nodes == IF acc.createBlock THEN Append(acc.nodes, NewNode(FALSE)) ELSE acc.nodes
        filled == [nodes EXCEPT ![Len(nodes)].instrs = Append(@, c)]
    IN  [nodes |-> IF split = "return" THEN Append(filled, NewNode(TRUE)) ELSE filled,
         createBlock |-> split # "none"]

\* The nodes of block b; only buildFunction(F, true) looks at calls.
NodesOfBlock(p, f, b, recursively) ==
    LET acc[i \in 0 .. Size(p, f, b)] ==
            IF i = 0 THEN [nodes |-> <<>>, createBlock |-> TRUE]
            ELSE AddInstruction(acc[i - 1], <<f, b, i>>,
                                IF recursively THEN SplitAfter(p, f, <<f, b, i>>) ELSE "none")
    IN  acc[Size(p, f, b)].nodes

isReachable(p, f, b) == b = 1 \/ Pred(p[f].succ, b) # {}

NodesOf(p, f, recursively) ==
    [b \in {x \in Blocks(p, f) : isReachable(p, f, x)} |-> NodesOfBlock(p, f, b, recursively)]

NodeIds(f, nodes) == {ExitNode(f)} \cup UNION {{<<f, b, k>> : k \in DOMAIN nodes[b]} : b \in DOMAIN nodes}

\* Fault: the first node of a block is linked to the next blocks.
Links_FromFront(p, f, nodes) ==
    [n \in NodeIds(f, nodes) |->
        IF n = ExitNode(f) THEN {}
        ELSE (IF n[3] < Len(nodes[n[2]]) THEN {<<f, n[2], n[3] + 1>>} ELSE {}) \cup
             (IF n[3] > 1 THEN {}
              ELSE IF p[f].succ[n[2]] = {} THEN {ExitNode(f)}
              ELSE {<<f, s, 1>> : s \in p[f].succ[n[2]]})]

\* Within a block in a row; the last node goes to the first ones of the next blocks, or,
\* where there is none, to the exit, also if it ends the program.
Links(p, f, nodes) ==
    [n \in NodeIds(f, nodes) |->
        IF n = ExitNode(f) THEN {}
        ELSE IF n[3] < Len(nodes[n[2]]) THEN {<<f, n[2], n[3] + 1>>}
        ELSE IF p[f].succ[n[2]] = {} THEN {ExitNode(f)}
        ELSE {<<f, s, 1>> : s \in p[f].succ[n[2]]}]

-----------------------------------------------------------------------------
(* TarjanAnalysis.                                                           *)

\* The successors in the order of their pointers.
Earlier(x, y) == IF x[2] = y[2] THEN x[3] < y[3] ELSE x[2] < y[2]
InOrder(up, ns) == SetToSortSeq(ns, LAMBDA x, y : IF up THEN Earlier(x, y) ELSE Earlier(y, x))

Lowered(t, n, v) == [t EXCEPT !.low[n] = IF v < @ THEN v ELSE @]

\* The component of n is on top of the stack, n is its last node.
PopComponent(t, n) ==
    LET k == CHOOSE i \in DOMAIN t.stack : t.stack[i] = n
    IN  [t EXCEPT !.stack = SubSeq(@, k + 1, Len(@)),
                  !.components = @ \cup {SubSeq(t.stack, 1, k)}]

RECURSIVE TarjanVisit(_, _, _, _), TarjanSuccessors(_, _, _, _, _)
TarjanVisit(g, up, t, n) ==
    LET entered == [t EXCEPT !.index = @ + 1, !.dfsId[n] = t.index + 1, !.low[n] = t.index + 1,
                             !.stack = <<n>> \o @]
        left == TarjanSuccessors(g, up, entered, n, InOrder(up, g[n]))
    IN  IF left.low[n] = left.dfsId[n] THEN PopComponent(left, n) ELSE left

TarjanSuccessors(g, up, t, n, rest) ==
    IF rest = <<>> THEN t
    ELSE IF t.dfsId[Head(rest)] = 0
         THEN LET deep == TarjanVisit(g, up, t, Head(rest))
              IN  TarjanSuccessors(g, up, Lowered(deep, n, deep.low[Head(rest)]), n, Tail(rest))
         ELSE IF \E i \in DOMAIN t.stack : t.stack[i] = Head(rest)
         THEN TarjanSuccessors(g, up, Lowered(t, n, t.dfsId[Head(rest)]), n, Tail(rest))
         ELSE TarjanSuccessors(g, up, t, n, Tail(rest))

Tarjan(g, up, entry) ==
    TarjanVisit(g, up, [index |-> 0, dfsId |-> [n \in DOMAIN g |-> 0], low |-> [n \in DOMAIN g |-> 0],
                        stack |-> <<>>, components |-> {}], entry).components

\* Components that no edge leaves, other than the exit.
DeadEnds(g, f, components) ==
    {s \in components : /\ UNION {g[n] : n \in ToSet(s)} \subseteq ToSet(s)
                        /\ s # <<ExitNode(f)>>}

\* Their last node gets an edge to the exit.
WithExits(g, f, components) ==
    [n \in DOMAIN g |->
        g[n] \cup IF \E s \in DeadEnds(g, f, components) : s[Len(s)] = n THEN {ExitNode(f)} ELSE {}]

\* buildFunction: the nodes by block, and the graph.
Built(p, f, recursively, up) ==
    LET nodes == NodesOf(p, f, recursively)
        g == Links(p, f, nodes)
    IN  [nodes |-> nodes, graph |-> WithExits(g, f, Tarjan(g, up, <<f, 1, 1>>))]

\* Functions that a call instruction of f makes the builder build, without their calls.
BuiltWith(p, f) == UNION {At(p, c).to \cap Defined(p) : c \in Calls(p, f)}

BuildModule(p, up) ==
    [f \in {Main} \cup BuiltWith(p, Main) |-> Built(p, f, f = Main, up)]

-----------------------------------------------------------------------------
(* The search.                                                               *)

RECURSIVE VisitAll(_, _, _), VisitNode(_, _, _)
VisitAll(g, acc, ns) ==
    IF ns = {} THEN acc
    ELSE LET n == CHOOSE x \in ns : TRUE IN VisitAll(g, VisitNode(g, acc, n), ns \ {n})

\* Fault: a node waits for one successor only.
VisitNode_Any(g, acc, n) ==
    IF acc.outDegree[n] = 0 THEN acc
    ELSE VisitAll(g, [outDegree |-> [acc.outDegree EXCEPT ![n] = 0], red |-> acc.red \cup {n}],
                  Pred(g, n))

\* visit: the last of its successors makes a node red.
VisitNode(g, acc, n) ==
    IF acc.outDegree[n] = 0 THEN acc
    ELSE LET counted == [acc EXCEPT !.outDegree[n] = @ - 1]
         IN  IF counted.outDegree[n] > 0 THEN counted
             ELSE VisitAll(g, [counted EXCEPT !.red = @ \cup {n}], Pred(g, n))

\* visitInitialNode, for a new nodeInfo.
RedNodes(g, n) ==
    VisitAll(g, [outDegree |-> [m \in DOMAIN g |-> Cardinality(g[m])], red |-> {n}], Pred(g, n)).red

\* The nodes with a red successor and one that is not.
WithRedAndNonRed(g, red) == {m \in DOMAIN g : g[m] \cap red # {} /\ ~ (g[m] \subseteq red)}

-----------------------------------------------------------------------------
(* computeInterprocDependencies.                                             *)

ReturnNodes(fun) ==
    {n \in DOMAIN fun.graph : n[2] # 0 /\ fun.nodes[n[2]][n[3]].isReturn}

\* The call whose return n is: the last instruction of the node before.
CallOf(fun, n) == LET is == fun.nodes[n[2]][n[3] - 1].instrs IN is[Len(is)]

\* The return of a call depends on the exit of each function called or joined, and what
\* comes after it on the return.
InterprocDependencies(p, fun) ==
    UNION {{<<ExitNode(g), n>> : g \in At(p, CallOf(fun, n)).to \cap Defined(p)}
           \cup {<<n, m>> : m \in Reachable(fun.graph, fun.graph[n]) \ {n}} : n \in ReturnNodes(fun)}

-----------------------------------------------------------------------------
(* computeNonTerminationControlDependencies: the edges of the dependence      *)
(* graph.  Nodes without instructions control nothing.                       *)

InstructionsOf(n) == IF n[2] = 0 THEN <<>> ELSE functions[n[1]].nodes[n[2]][n[3]].instrs
LastInstruction(n) == InstructionsOf(n)[Len(InstructionsOf(n))]
Controlling == {d \in controlDependency : InstructionsOf(d[1]) # <<>>}

EdgesToInstructions ==
    UNION {{<<LastInstruction(d[1]), c>> : c \in ToSet(InstructionsOf(d[2]))} : d \in Controlling}
ControlsOfExits == {LastInstruction(d[1]) : d \in {x \in Controlling : x[2][2] = 0}}

-----------------------------------------------------------------------------
(* The steps.                                                                *)

LegacyIdle ==
    /\ mode = "idle" /\ order = "up" /\ functions = <<>> /\ toCompute = {}
    /\ controlDependency = {} /\ edges = {} /\ noreturns = {}

LegacyInit ==
    /\ mode \in {"function", "module"} /\ order \in {"up", "down"}
    /\ functions = <<>> /\ toCompute = {} /\ controlDependency = {} /\ edges = {} /\ noreturns = {}

BuildGraphs ==
    /\ mode # "idle" /\ functions = <<>>
    /\ functions' = IF mode = "module" THEN BuildModule(program, order = "up")
                    ELSE Main :> Built(program, Main, FALSE, order = "up")
    /\ toCompute' = UNION {DOMAIN functions'[f].graph : f \in DOMAIN functions'}
    /\ UNCHANGED <<mode, order, controlDependency, edges, noreturns>>

\* computeIntraprocDependencies: an iteration for one node of a function.
ComputeDependenciesOf(n) ==
    LET g == functions[n[1]].graph
    IN  /\ controlDependency' = controlDependency \cup
              {<<m, n>> : m \in WithRedAndNonRed(g, RedNodes(g, n))}
        /\ toCompute' = toCompute \ {n}
        /\ UNCHANGED <<mode, order, functions, edges, noreturns>>

\* The functions are taken in turn, and so are the nodes of each.
ComputeNext ==
    toCompute # {} /\ ComputeDependenciesOf(CHOOSE n \in toCompute : TRUE)

FinishModule ==
    /\ mode = "module" /\ functions # <<>> /\ toCompute = {}
    /\ mode' = "finished"
    /\ controlDependency' = controlDependency \cup
          UNION {InterprocDependencies(program, functions[f]) : f \in DOMAIN functions}
    /\ edges' = EdgesToInstructions
    /\ noreturns' = ControlsOfExits
    /\ UNCHANGED <<order, functions, toCompute>>

LegacyNext == BuildGraphs \/ ComputeNext \/ FinishModule

-----------------------------------------------------------------------------
(* Properties.                                                               *)

LegacyDone == mode # "idle" /\ functions # <<>> /\ toCompute = {}

\* Unless n inevitably comes back to itself, see SearchExact of ControlDependence.
NotInevitablyBack(g, n) == g[n] = {} \/ ~ (g[n] \subseteq InevitablyTo(g, n))

\* The control dependences of every node, the exit included, are those of the graph.
NodesExact(f) ==
    LET g == functions[f].graph
    IN  \A n \in DOMAIN g : NotInevitablyBack(g, n) =>
            {m \in DOMAIN g : Cardinality(g[m]) > 1 /\ <<m, n>> \in controlDependency} = Deciding(g, n)

\* However its nodes are visited, of every loop without a way out exactly one node leads
\* to the exit, and nothing else is changed.
LoopsOpened(f) ==
    LET g == functions[f].graph
        closed == Links(program, f, functions[f].nodes)
        opened == {n \in DOMAIN g : g[n] # closed[n]}
    IN  /\ \A n \in opened : g[n] = closed[n] \cup {ExitNode(f)}
        /\ \A n \in Reachable(g, {<<f, 1, 1>>}) : ExitNode(f) \in Reachable(g, {n})
        /\ \A n \in opened : Reachable(closed, {n}) \cap opened = {n}

\* Every run of f can still leave it.
CanLeave(f) ==
    \A b \in Blocks(program, f) : Reachable(program[f].succ, {b}) \cap Exits(program[f].succ) # {}

\* The edges of the dependence graph tell of every instruction what the graph of the
\* instructions does: splitting blocks behind calls makes no difference.
EdgesExact(f) ==
    LET g == buildInstructions(program, f)
    IN  mode = "finished" /\ CanLeave(f) =>
            \A c \in Positions(program, f) : NotInevitablyBack(g, c) =>
                {e[1] : e \in {x \in edges : x[2] = c}} = Deciding(g, c)

\* All three of every function, unless a node inevitably comes back to itself.
LegacyExact ==
    LegacyDone => \A f \in DOMAIN functions : NodesExact(f) /\ LoopsOpened(f) /\ EdgesExact(f)
=============================================================================
