--------------------------- MODULE DependenceGraph ---------------------------
(***************************************************************************)
(* The construction of the dependence graph that Cape walks over: the      *)
(* nodes and parameters of the functions, built function by function where *)
(* a call first reaches them (LLVMDependenceGraph::build and               *)
(* buildSubgraph), then the use edges (LLVMDefUseAnalysis), then the       *)
(* control dependences on calls that may not return.                       *)
(*                                                                         *)
(* A program gives "args", the formal arguments of its functions;          *)
(* "blocks", their basic blocks, each a sequence of instructions; "succ",  *)
(* the successors of a block.  An instruction has a name, also the name of *)
(* its value, an "op" and "args", its operands in order.  A "memory"       *)
(* instruction is a load, a store or a getelementptr.  A "call" has the    *)
(* called function as "callee", a "pcall" a pointer to the functions in    *)
(* "pts"; all of them return values.  pthread_create runs one of the       *)
(* functions in "runs", which its third operand points to, and passes its  *)
(* fourth operand on.  A "phi" has its incoming blocks in "from".          *)
(*                                                                         *)
(* A node is a tuple: <<"inst", i>>, <<"global", v>>, the <<"entry", f>>   *)
(* and <<"exit", f>> of a function, its formal parameters <<"fin", f, v>>  *)
(* and <<"fout", f, v>>, the actual ones of a call <<"ain", i, v>> and     *)
(* <<"aout", i, v>>, or <<"gin", i, v>> and <<"gout", i, v>> for a global, *)
(* and the nodes of not returning, <<"fnoret", f>> and <<"anoret", i>>.    *)
(***************************************************************************)
EXTENDS Naturals, Sequences, FiniteSets, FiniteSetsExt

CONSTANTS Programs,  \* programs whose graph is built
          Globals    \* global variables

VARIABLES program,   \* the program
          stack,     \* functions being built, the innermost first
          graph,     \* the graph
          phase,     \* what is built next
          visited    \* blocks that have their use edges

vars == <<program, stack, graph, phase, visited>>

MainFunction == "main"

-----------------------------------------------------------------------------
\* The program

Functions == DOMAIN program.args

\* The instructions of a function in the order of its blocks.
RECURSIVE Concat(_, _)
Concat(blocks, k) == IF k > Len(blocks) THEN <<>> ELSE blocks[k] \o Concat(blocks, k + 1)

Code(f) == Concat(program.blocks[f], 1)

\* The instructions of a block.
Elements(f, k) == {program.blocks[f][k][j] : j \in DOMAIN program.blocks[f][k]}

InstsOf(f) == {Code(f)[k] : k \in DOMAIN Code(f)}

Insts == UNION {InstsOf(f) : f \in Functions}

Names(S) == {n.name : n \in S}

FunctionOf(i) == CHOOSE f \in Functions : i \in Names(InstsOf(f))

Inst(i) == CHOOSE n \in Insts : n.name = i

OperandsOf(n) == {n.args[k] : k \in DOMAIN n.args}

-----------------------------------------------------------------------------
\* Parameters

inst(i) == <<"inst", i>>
entry(f) == <<"entry", f>>
exit(f) == <<"exit", f>>

From(n, S) == {<<n, m>> : m \in S}

Formals(g, f) == g.globals[f] \cup g.params[f]

FormalNodes(f, S) == {<<"fin", f, v>> : v \in S} \cup {<<"fout", f, v>> : v \in S}

\* New formal parameters, globals and others; those of the main function
\* depend on the global's own node.
addFormals(g, f, globs, pars) ==
    LET new == (globs \cup pars) \ Formals(g, f)
    IN  [g EXCEPT !.has = @ \cup (IF globs \cup pars = {} THEN {} ELSE {f}),
                  !.globals[f] = @ \cup (globs \cap new),
                  !.params[f] = @ \cup (pars \cap new),
                  !.control = @ \cup From(entry(f), FormalNodes(f, new))
                                \cup (IF f = MainFunction
                                      THEN {<< <<"global", v>>, <<"fin", f, v>> >> : v \in globs \cap new}
                                      ELSE {})]

addFormalParameter(g, f, v) == addFormals(g, f, {}, {v})

addFormalParameters(g, f) ==
    addFormals(g, f, {}, {program.args[f][k] : k \in DOMAIN program.args[f]})

\* The parameters of a function that its callers take over: globals and the
\* memory it allocates.
HeapOf(g, f) == g.params[f] \cap Names(Insts)

\* The actual parameter of a call for an operand: one that the call has
\* already, as an operand or as a global, or a new one.
ActualIn(g, i, v) ==
    IF v \in g.aglobals[i] /\ v \notin g.aparams[i] THEN <<"gin", i, v>> ELSE <<"ain", i, v>>

ActualOut(g, i, v) ==
    IF v \in g.aglobals[i] /\ v \notin g.aparams[i] THEN <<"gout", i, v>> ELSE <<"aout", i, v>>

\* Connects the actual parameter of a call with a formal one.
Connect(g, i, f, in, out, v) ==
    [g EXCEPT !.control = @ \cup From(inst(i), {in, out}),
              !.data = @ \cup {<<in, <<"fin", f, v>> >>, << <<"fout", f, v>>, out>>}]

addOperand(g, i, f, v, formal) ==
    [Connect(g, i, f, ActualIn(g, i, v), ActualOut(g, i, v), formal)
        EXCEPT !.aparams[i] = IF v \in g.aglobals[i] THEN @ ELSE @ \cup {v}]

\* Fault: the operands of pthread_create itself are passed.
PassedFromFirst(n, k, fork) == n.args[k]

\* The argument at position k of a call, after pthread_create's own three.
Passed(n, k, fork) == n.args[IF fork THEN k + 3 ELSE k]

RECURSIVE addOperandsParams(_, _, _, _, _)
addOperandsParams(g, n, f, fork, k) ==
    IF k > Len(program.args[f]) THEN g
    ELSE addOperandsParams(addOperand(g, n.name, f, Passed(n, k, fork), program.args[f][k]),
                           n, f, fork, k + 1)

addGlobalsParams(g, i, f) ==
    LET add(v, h) == [Connect(h, i, f, <<"gin", i, v>>, <<"gout", i, v>>, v)
                        EXCEPT !.aglobals[i] = @ \cup {v}]
    IN  FoldSet(add, g, g.globals[f])

addDynMemoryParams(g, i, f) ==
    LET add(v, h) == addOperand(h, i, f, v, v)
    IN  FoldSet(add, g, HeapOf(g, f))

addActualParameters(g, i, f, fork) ==
    IF f \notin g.has THEN g
    ELSE LET h == [g EXCEPT !.ahas = @ \cup {i}]
             k == addOperandsParams(h, Inst(i), f, fork, 1)
         IN  addDynMemoryParams(addGlobalsParams(k, i, f), i, f)

\* The later update of a call: only of one that names a function with a body
\* itself, so neither of one through a pointer nor of pthread_create's.
updateActualParameters(g, i, f) ==
    IF Inst(i).op = "call" /\ Inst(i).callee \in Functions THEN addActualParameters(g, i, f, FALSE) ELSE g

\* Fault: only the globals of the callee are taken over.
TakeOverGlobals(g, f, sub) == addFormals(g, f, g.globals[sub], {})

\* The caller takes over the parameters of the callee; when it gets new ones
\* so do its own callers, those that are known by now.
RECURSIVE addSubgraphGlobalParameters(_, _, _)
addSubgraphGlobalParameters(g, f, sub) ==
    LET globs == g.globals[sub]
        heap == HeapOf(g, sub)
        up(i, h) == updateActualParameters(addSubgraphGlobalParameters(h, FunctionOf(i), f), i, f)
    IN  IF globs \cup heap \subseteq Formals(g, f) THEN g
        ELSE FoldSet(up, addFormals(g, f, globs, heap), {s[1] : s \in {r \in g.subgraphs : r[2] = f}})

-----------------------------------------------------------------------------
\* Calls

PthreadCreate == "pthread_create"
Malloc == "malloc"

IsCall(n) == n.op \in {"call", "pcall"}

callIsCompatible(f, n) == Len(program.args[f]) <= Len(n.args)

\* What a call runs.  Only a function that a pointer points to is asked
\* whether it can be called that way; a direct call is taken to pass all of
\* the arguments.
Called(n) ==
    CASE n.op = "call"  -> {n.callee}
      [] n.op = "pcall" -> {f \in n.pts : f \in Functions => callIsCompatible(f, n)}
      [] OTHER          -> {}

\* The functions whose graphs a call is connected to, with TRUE for the ones
\* that run as threads.
Callees(n) ==
    {<<f, FALSE>> : f \in Called(n) \cap Functions}
        \cup IF PthreadCreate \in Called(n) THEN {<<r, TRUE>> : r \in n.runs} ELSE {}

\* A call of a function that has a node for not returning gets one too.
addNoReturn(g, i, f) ==
    IF f \notin g.fnoret THEN g
    ELSE [g EXCEPT !.anoret = @ \cup {i},
                   !.control = @ \cup {<<inst(i), <<"anoret", i>> >>,
                                       << <<"fnoret", f>>, <<"anoret", i>> >>}]

\* The end of buildSubgraph: the call is connected to the built graph.
connected(g, f, n, c) ==
    LET h == [g EXCEPT !.control = @ \cup {<<inst(n.name), entry(c[1])>>}]
        k == addActualParameters(addSubgraphGlobalParameters(h, f, c[1]), n.name, c[1], c[2])
    IN  [addNoReturn(k, n.name, c[1]) EXCEPT !.subgraphs = @ \cup {<<n.name, c[1]>>}]

-----------------------------------------------------------------------------
\* Instructions and functions

GlobalsOf(n) == OperandsOf(n) \cap Globals

\* The effect of an instruction besides its calls; "prev" is the node before
\* it in its block.
handled(g, f, n, prev) ==
    CASE n.op = "call" /\ n.callee = Malloc -> addFormalParameter(g, f, n.name)
      [] n.op = "memory" -> IF GlobalsOf(n) = {} THEN g ELSE addFormals(g, f, GlobalsOf(n), {})
      [] n.op = "unreachable" ->
            [g EXCEPT !.has = @ \cup {f}, !.fnoret = @ \cup {f},
                      !.control = @ \cup {<<m, <<"fnoret", f>> >> : m \in {entry(f), inst(n.name)} \cup prev}]
      [] OTHER -> g

PrevOf(f, n) ==
    {inst(m.name) : m \in {h \in InstsOf(f) : \E k \in DOMAIN program.blocks[f] :
        LET b == program.blocks[f][k] IN \E j \in 2..Len(b) : b[j - 1] = h /\ b[j] = n}}

\* The control dependences of an instruction: on the entry of the function,
\* and the exit's on a return.
withControl(g, f, n) ==
    [g EXCEPT !.control = @ \cup {<<entry(f), inst(n.name)>>}
                            \cup (IF n.op = "ret" THEN {<<inst(n.name), exit(f)>>} ELSE {})]

LastOf(f, k) == LET b == program.blocks[f][k] IN inst(b[Len(b)].name)

\* A phi depends on the ends of its incoming blocks, but for its own.
PHIControls(f) ==
    UNION {{<<LastOf(f, b), inst(n.name)>> : b \in {j \in n.from : n \notin Elements(f, j)}}
             : n \in {m \in InstsOf(f) : m.op = "phi"}}

Graph0 ==
    [built |-> {MainFunction}, has |-> {}, ahas |-> {}, fnoret |-> {}, anoret |-> {},
     globals |-> [f \in Functions |-> {}], params |-> [f \in Functions |-> {}],
     aglobals |-> [i \in Names(Insts) |-> {}], aparams |-> [i \in Names(Insts) |-> {}],
     subgraphs |-> {}, control |-> {}, data |-> {}, use |-> {}]

\* A function that is being built: its next instruction, the graphs still to
\* be connected to it, and the one that is being built for it, if any.
Frame(f, at) ==
    [fun |-> f, at |-> at, callee |-> {},
     todo |-> IF at > Len(Code(f)) THEN {} ELSE Callees(Code(f)[at])]

Init ==
    /\ program \in Programs
    /\ stack = <<Frame(MainFunction, 1)>>
    /\ graph = addFormalParameters(Graph0, MainFunction)
    /\ phase = "build"
    /\ visited = {}

Current == Head(stack)

NextInst == Code(Current.fun)[Current.at]

Building == phase = "build" /\ stack # <<>>

\* A callee is taken; its graph is built first when there is none.
BuildSubgraph ==
    /\ Building /\ Current.callee = {}
    /\ \E c \in Current.todo :
        LET rest == [Current EXCEPT !.todo = @ \ {c}, !.callee = {c}]
            new == c[1] \notin graph.built
        IN  /\ stack' = (IF new THEN <<Frame(c[1], 1)>> ELSE <<>>) \o <<rest>> \o Tail(stack)
            /\ graph' = IF new
                        THEN addFormalParameters([graph EXCEPT !.built = @ \cup {c[1]}], c[1])
                        ELSE graph
    /\ UNCHANGED <<program, phase, visited>>

ConnectSubgraph ==
    /\ Building /\ Current.callee # {}
    /\ \E c \in Current.callee : graph' = connected(graph, Current.fun, NextInst, c)
    /\ stack' = <<[Current EXCEPT !.callee = {}]>> \o Tail(stack)
    /\ UNCHANGED <<program, phase, visited>>

HandleInstruction ==
    /\ Building /\ Current.callee = {} /\ Current.todo = {} /\ Current.at <= Len(Code(Current.fun))
    /\ graph' = withControl(handled(graph, Current.fun, NextInst, PrevOf(Current.fun, NextInst)),
                            Current.fun, NextInst)
    /\ stack' = <<Frame(Current.fun, Current.at + 1)>> \o Tail(stack)
    /\ UNCHANGED <<program, phase, visited>>

FinishFunction ==
    /\ Building /\ Current.at > Len(Code(Current.fun))
    /\ graph' = [graph EXCEPT !.control = @ \cup PHIControls(Current.fun)]
    /\ stack' = Tail(stack)
    /\ phase' = IF Tail(stack) = <<>> THEN "defuse" ELSE phase
    /\ UNCHANGED <<program, visited>>

-----------------------------------------------------------------------------
\* Use edges

\* The node of an operand in a function: an instruction of it, a formal
\* parameter, or a node all functions share; constants have none.
NodeOf(g, f, v) ==
    IF v \in Names(InstsOf(f)) THEN {inst(v)}
    ELSE IF v \in Formals(g, f) THEN {<<"fin", f, v>>}
    ELSE IF v \in Globals THEN {<<"global", v>>}
    ELSE IF v \in g.built THEN {entry(v)} ELSE {}

handleOperands(g, f, n) ==
    LET used == OperandsOf(n) \cup IF IsCall(n) THEN {n.callee} ELSE {}
    IN  [g EXCEPT !.use = @ \cup UNION {{<<m, inst(n.name)>> : m \in NodeOf(g, f, v)} : v \in used}]

\* Edges from the exits of the called functions and into the actual
\* parameters of a call.
handleCallInst(g, f, n) ==
    LET exits == {exit(s[2]) : s \in {r \in g.subgraphs : r[1] = n.name}}
        passed == OperandsOf(n) \cap (g.aglobals[n.name] \cup g.aparams[n.name])
        into(v) == {<<m, ActualIn(g, n.name, v)>> : m \in NodeOf(g, f, v)}
    IN  [g EXCEPT !.data = @ \cup {<<x, inst(n.name)>> : x \in exits},
                  !.use = @ \cup UNION {into(v) : v \in passed}]

RECURSIVE runOnNodes(_, _, _, _)
runOnNodes(g, f, b, k) ==
    IF k > Len(b) THEN g
    ELSE LET h == handleOperands(g, f, b[k])
         IN  runOnNodes(IF IsCall(b[k]) THEN handleCallInst(h, f, b[k]) ELSE h, f, b, k + 1)

\* The blocks that the traversal queues after a block: the entries of the
\* graphs it calls and its successors.
NextBlocks(f, k) ==
    {<<s[2], 1>> : s \in {r \in graph.subgraphs : r[1] \in Names(Elements(f, k))}}
        \cup {<<f, j>> : j \in program.succ[f][k]}

Queued ==
    ({<<MainFunction, 1>>} \cup UNION {NextBlocks(b[1], b[2]) : b \in visited}) \ visited

RunOnBlock ==
    /\ phase = "defuse"
    /\ \E b \in Queued :
        /\ graph' = runOnNodes(graph, b[1], program.blocks[b[1]][b[2]], 1)
        /\ visited' = visited \cup {b}
    /\ UNCHANGED <<program, stack, phase>>

DefUseDone ==
    /\ phase = "defuse" /\ Queued = {}
    /\ phase' = "noreturn"
    /\ UNCHANGED <<program, stack, graph, visited>>

-----------------------------------------------------------------------------
\* Control dependences on calls that may not return

RECURSIVE ReachedFrom(_, _, _)
ReachedFrom(f, seen, todo) ==
    IF todo = {} THEN seen
    ELSE LET next == UNION {program.succ[f][k] : k \in todo}
         IN  ReachedFrom(f, seen \cup next, next \ seen)

\* Fault: only the blocks after the one of the call.
AfterBlock(f, k, j) == {inst(i) : i \in UNION {Names(Elements(f, m)) : m \in ReachedFrom(f, {}, {k})}}

\* What depends on the call at position j of block k: the rest of the block,
\* and all of the blocks that are reached after it.
AfterCall(f, k, j) ==
    LET b == program.blocks[f][k]
        blocks == ReachedFrom(f, {}, {k})
        exits == \E m \in blocks \cup {k} : \E n \in Elements(f, m) : n.op = "ret"
    IN  {inst(b[p].name) : p \in j + 1..Len(b)}
        \cup {inst(i) : i \in UNION {Names(Elements(f, m)) : m \in blocks}}
        \cup IF exits THEN {exit(f)} ELSE {}

addNoreturnDependencies(g, f) ==
    LET calls == {p \in UNION {{<<k, j>> : j \in DOMAIN program.blocks[f][k]}
                                 : k \in DOMAIN program.blocks[f]} :
                    program.blocks[f][p[1]][p[2]].name \in g.anoret}
        node(p) == <<"anoret", program.blocks[f][p[1]][p[2]].name>>
    IN  [g EXCEPT !.control = @ \cup UNION {From(node(p), AfterCall(f, p[1], p[2])) : p \in calls}]

NoReturns ==
    /\ phase = "noreturn"
    /\ graph' = FoldSet(LAMBDA f, g : addNoreturnDependencies(g, f), graph, graph.built)
    /\ phase' = "done"
    /\ UNCHANGED <<program, stack, visited>>

-----------------------------------------------------------------------------

Next ==
    \/ BuildSubgraph \/ ConnectSubgraph \/ HandleInstruction \/ FinishFunction
    \/ RunOnBlock \/ DefUseDone \/ NoReturns

Spec == Init /\ [][Next]_vars

-----------------------------------------------------------------------------
\* Properties

Done == phase = "done"

\* The functions that a call may run, with the position of the first operand
\* that it passes to them.
Runs(n) ==
    IF n.op \notin {"call", "pcall"} THEN {}
    ELSE LET named == IF n.op = "call" THEN {n.callee} ELSE n.pts
         IN  {<<f, 0>> : f \in {h \in named \cap Functions : Len(program.args[h]) <= Len(n.args)}}
             \cup IF "pthread_create" \in named THEN {<<r, 3>> : r \in n.runs} ELSE {}

RunBy(S) == UNION {{r[1] : r \in Runs(n)} : n \in UNION {InstsOf(f) : f \in S}}

RECURSIVE Closure(_)
Closure(S) == IF RunBy(S) \subseteq S THEN S ELSE Closure(S \cup RunBy(S))

Reached == Closure({MainFunction})

Recursive(f) == f \in Closure(RunBy({f}))

\* The node that has a value of a function.
Has(f, v) == IF v \in Names(InstsOf(f)) THEN inst(v) ELSE <<"fin", f, v>>

\* The values of a function: of its instructions and of its arguments.
ValuesOf(f) == Names(InstsOf(f)) \cup {program.args[f][k] : k \in DOMAIN program.args[f]}

OperandFlows(f, n) ==
    \A v \in OperandsOf(n) \cap ValuesOf(f) : <<Has(f, v), inst(n.name)>> \in graph.use

ArgumentFlows(f, n, r) ==
    \A k \in DOMAIN program.args[r[1]] :
        LET v == n.args[k + r[2]]
        IN  v \in ValuesOf(f) =>
                \E e \in graph.use : /\ e[1] = Has(f, v)
                                     /\ <<e[2], <<"fin", r[1], program.args[r[1]][k]>> >> \in graph.data

ReturnFlows(n, h) ==
    \A m \in InstsOf(h) :
        m.op = "ret" => /\ <<inst(m.name), exit(h)>> \in graph.control
                        /\ <<exit(h), inst(n.name)>> \in graph.data

\* A value that an instruction uses, that a call passes to a function it may
\* run, a thread's routine included, or that a function returns to a call of
\* it, has a path of edges there (LLVMDefUseAnalysis, addOperandsParams).
ValueFlows ==
    Done => \A f \in Reached : \A n \in InstsOf(f) :
                /\ OperandFlows(f, n)
                /\ \A r \in Runs(n) : ArgumentFlows(f, n, r) /\ ReturnFlows(n, r[1])

\* Globals that a function or one that it runs accesses, and the memory they
\* allocate.
SharedBy(f) ==
    LET code == UNION {InstsOf(h) : h \in Closure({f})}
    IN  UNION {OperandsOf(n) \cap Globals : n \in {m \in code : m.op = "memory"}}
        \cup {n.name : n \in {m \in code : m.op = "call" /\ m.callee = "malloc"}}

\* What a call may access, without recursion below it, is a parameter of the
\* call, connected with one of the function it runs, and a parameter of the
\* function of the call (addSubgraphGlobalParameters, addActualParameters).
ParametersPassed ==
    Done => \A f \in Reached : \A n \in InstsOf(f) : \A r \in Runs(n) :
                (\A h \in Closure({r[1]}) : ~Recursive(h)) =>
                    \A v \in SharedBy(r[1]) :
                        /\ <<entry(f), <<"fin", f, v>> >> \in graph.control
                        /\ f = MainFunction /\ v \in Globals =>
                                << <<"global", v>>, <<"fin", f, v>> >> \in graph.control
                        /\ \E e \in graph.control : /\ e[1] = inst(n.name)
                                                    /\ <<e[2], <<"fin", r[1], v>> >> \in graph.data
                        /\ \E e \in graph.data : /\ e[1] = <<"fout", r[1], v>>
                                                 /\ <<inst(n.name), e[2]>> \in graph.control

\* Both: what goes from one function to another has a path.
FlowsPassed == ValueFlows /\ ParametersPassed

\* Whether a run of a function may go on from position p to position q, pairs
\* of a block and an index in it.
FollowsIn(f, p, q) ==
    LET next == {e \in (DOMAIN program.blocks[f]) \X (DOMAIN program.blocks[f]) : e[2] \in program.succ[f][e[1]]}
        RECURSIVE From1(_)
        From1(S) == LET T == S \cup {e[2] : e \in {d \in next : d[1] \in S}} IN IF T = S THEN S ELSE From1(T)
    IN  (p[1] = q[1] /\ p[2] < q[2]) \/ q[1] \in From1({e[2] : e \in {d \in next : d[1] = p[1]}})

Positions(f) == UNION {{<<k, j>> : j \in DOMAIN program.blocks[f][k]} : k \in DOMAIN program.blocks[f]}

At(f, p) == program.blocks[f][p[1]][p[2]]

\* Whatever may run after a call of a function that may end the program
\* depends on it (getOrCreateNoReturn, addNoreturnDependencies).
NoReturnControls ==
    Done => \A f \in Reached : \A p \in Positions(f) : \A r \in Runs(At(f, p)) :
                (f \notin Closure({r[1]}) /\ \E m \in InstsOf(r[1]) : m.op = "unreachable") =>
                    LET noret == <<"anoret", At(f, p).name>>
                    IN  /\ << <<"fnoret", r[1]>>, noret>> \in graph.control
                        /\ \A q \in Positions(f) :
                               FollowsIn(f, p, q) => <<noret, inst(At(f, q).name)>> \in graph.control
=============================================================================
