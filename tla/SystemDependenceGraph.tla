------------------------- MODULE SystemDependenceGraph --------------------------
(***************************************************************************)
(* llvmdg::SystemDependenceGraph, the successor of LLVMDependenceGraph     *)
(* that dg is moving to: a graph for each function, built from what the    *)
(* control dependence analysis answers on demand while the graph is built. *)
(* A call that may not return has an artificial node, its noret, and so has*)
(* each function; they link what comes after a call with what ends the     *)
(* program behind it.  Uses, memory dependences and dependences within a   *)
(* function are edges copied from other analyses and are left out.         *)
(***************************************************************************)
EXTENDS ControlDependenceAnalysis

VARIABLES
    stage,     \* "none", "nodes", or "aborted" by abort() or an assertion
    toProcess, \* functions that processFuns has not come to
    control    \* control edges: <<element, what it depends on>>

sdgVars == <<stage, toProcess, control>>

\* A call of a function that is in the module; any other is an instruction.
IsCallNode(p, c) == IsCall(p, c) /\ getCalledFunctions(p, c) # {}

\* The two kinds of artificial nodes: getParameters().getNoReturn() of a call and of a graph.
CallNoret(c) == <<"call">> \o c
FormalNoret(f) == <<"formal", f>>

\* The callee of a call has to be known from the text.
BuildNodes ==
    /\ stage = "none" /\ requests = 0 /\ frames = <<>>
    /\ IF \E f \in Defined(program) : \E c \in Calls(program, f) : At(program, c).ptr
       THEN stage' = "aborted" /\ UNCHANGED toProcess
       ELSE stage' = "nodes" /\ toProcess' = Defined(program)
    /\ UNCHANGED <<control, anaVars>>

\* Fault: the node of a call is not linked with those of the functions called.
addControlDep_NotToCallees(p, elem, on) ==
    IF IsCallNode(p, on) THEN {<<elem, CallNoret(on)>>} ELSE {<<elem, on>>}

\* elem depends on a call: that is, on its noret, which depends on those of the callees.
addControlDep(p, elem, on) ==
    IF IsCallNode(p, on)
    THEN {<<elem, CallNoret(on)>>}
         \cup {<<CallNoret(on), FormalNoret(g)>> : g \in getCalledFunctions(p, on)}
    ELSE {<<elem, on>>}

addControlDependencies(p, deps) ==
    UNION {UNION {addControlDep(p, c, on) : on \in deps[c]} : c \in DOMAIN deps}

\* The noret of f depends on what ends the program in f and on the noret of each call
\* that may not return; a call that nothing depends on has none.
noretDeps(p, f, norets) ==
    {<<FormalNoret(f), IF IsCallNode(p, c) THEN CallNoret(c) ELSE c>> : c \in norets}

\* processDG(f), with the first question about f the analysis computes what it needs.
ProcessDG(f) ==
    /\ stage = "nodes" /\ f \in toProcess
    /\ WithCD(f)
    /\ computed' = computeOnDemand(f)
    /\ LET deps == [c \in Positions(program, f) |-> instrCD'[c] \cup blockCD'[f][c[2]]]
           now == control \cup addControlDependencies(program, deps)
       IN  IF \E c \in infos'[f] : IsCallNode(program, c) /\ \A e \in now : e[1] # CallNoret(c)
           THEN stage' = "aborted" /\ UNCHANGED <<control, toProcess>>
           ELSE /\ control' = now \cup noretDeps(program, f, infos'[f])
                /\ toProcess' = toProcess \ {f}
                /\ UNCHANGED stage
    /\ UNCHANGED <<program, algorithm, asked, answer, requests, frames>>

Complete == stage = "nodes" /\ toProcess = {}

SDGInit == stage = "none" /\ toProcess = {} /\ control = {}

\* A client asks its questions, or builds the graph and then runs the program.
SDGNext ==
    \/ stage = "none" /\ Question /\ UNCHANGED sdgVars
    \/ BuildNodes
    \/ \E f \in toProcess : ProcessDG(f)
    \/ (stage = "aborted" \/ Complete) /\ StartRun /\ UNCHANGED sdgVars
    \/ RunStep /\ UNCHANGED sdgVars

-----------------------------------------------------------------------------
(* Properties.                                                               *)

\* Edges as a graph, and the ends of the program an element depends on.
ControlGraph ==
    [x \in {e[1] : e \in control} \cup {e[2] : e \in control} |->
        {e[2] : e \in {d \in control : d[1] = x}}]
Ends(p, f) == {Terminator(p, f, b) : b \in p[f].stops}
EndsBehind(x) ==
    IF x \in DOMAIN ControlGraph
    THEN Reachable(ControlGraph, ControlGraph[x]) \cap UNION {Ends(program, f) : f \in Defined(program)}
    ELSE {}

\* No assertion fails, and as soon as every function has been processed, in whichever order,
\* each instruction is linked with exactly the ends of the program in the functions
\* that calls before it lead to.
LinksExact ==
    /\ stage = "aborted" =>
         \E f \in Defined(program) : \E c \in Calls(program, f) : At(program, c).ptr
    /\ Complete /\ frames = <<>> =>
         \A f \in Defined(program) : \A c \in Positions(program, f) :
            LET before == {d \in Calls(program, f) : c \in After(program, d)}
                callees == UNION {getCalledFunctions(program, d) : d \in before}
            IN  EndsBehind(c) = UNION {Ends(program, h) : h \in Reachable(CallGraph(program), callees)}

\* When a run ends, what the open calls would have been followed by is linked with the place.
EndsLinked ==
    frames # <<>> /\ Complete /\ Ended =>
        \A i \in 1 .. Len(frames) - 1 : \A c \in After(program, frames[i]) :
            Terminator(program, Here[1], Here[2]) \in EndsBehind(c)

\* The dependences between functions are those of the program text, both as answers and as
\* edges, and no run escapes them.
InterprocExact == AnswersExact /\ EndsCovered /\ LinksExact /\ EndsLinked
=============================================================================
