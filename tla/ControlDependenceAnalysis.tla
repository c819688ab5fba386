------------------------ MODULE ControlDependenceAnalysis ------------------------
(***************************************************************************)
(* LLVMControlDependenceAnalysis: the analyses of ControlDependence as a   *)
(* client asks for them, by the function and on demand, on a graph of the  *)
(* blocks or of the instructions of the function, beside LLVMInterprocCD:  *)
(* what follows a call depends on the call if it may not return.  A run of *)
(* the program tells which calls do not.                                   *)
(***************************************************************************)
EXTENDS FlowGraph, Integers, SequencesExt, TLC

CONSTANTS
    Programs,   \* the programs considered, see ProgramType
    Algorithms, \* the options considered
    Main,       \* the function where a run begins
    Requests,   \* bound: questions asked
    Depth       \* bound: calls open in a run

(***************************************************************************)
(* A function has blocks 1, 2, ... of which 1 is the entry, its graph, the *)
(* instructions of each block before the terminator, and the blocks without*)
(* successors that end the program, in the place of returning.  A call     *)
(* names functions or takes one through a pointer; a function that is not  *)
(* in the program is one of a library.                                     *)
(***************************************************************************)
Instruction == [op : {"other", "call", "create", "join"}, to : SUBSET STRING, ptr : BOOLEAN]

ProgramType(p) ==
    \A f \in DOMAIN p :
        /\ p[f].succ \in [DOMAIN p[f].succ -> SUBSET DOMAIN p[f].succ] /\ 1 \in DOMAIN p[f].succ
        /\ \A b \in DOMAIN p[f].succ : p[f].code[b] \in Seq(Instruction)
        /\ p[f].stops \subseteq Exits(p[f].succ)

VARIABLES
    program,     \* constant
    algorithm,   \* constant: the option, which chooses the implementation
    computed,    \* functions whose graph or frontiers the implementation has
    infos,       \* LLVMInterprocCD: noret of the functions that have a FuncInfo
    hasCD,       \* those with FuncInfo::hasCD
    instrCD,     \* _instrCD
    blockCD,     \* _blockCD
    asked,       \* the instruction asked for last
    answer,      \* what LLVMInterprocCD says of it
    requests,    \* questions asked so far
    frames       \* the run: the position in each open function, the last one runs

interproc == <<infos, hasCD, instrCD, blockCD>>
anaVars == <<program, algorithm, computed, interproc, asked, answer, requests, frames>>

-----------------------------------------------------------------------------
(* Positions.  The terminator of a block comes last.                         *)

Blocks(p, f) == DOMAIN p[f].succ
Size(p, f, b) == Len(p[f].code[b]) + 1
Positions(p, f) == UNION {{<<f, b, i>> : i \in 1 .. Size(p, f, b)} : b \in Blocks(p, f)}
Terminator(p, f, b) == <<f, b, Size(p, f, b)>>
At(p, c) == p[c[1]].code[c[2]][c[3]]
IsCall(p, c) == c[3] < Size(p, c[1], c[2]) /\ At(p, c).op # "other"

\* Positions that come next within the function.
NextIn(p, c) ==
    IF c[3] < Size(p, c[1], c[2]) THEN {<<c[1], c[2], c[3] + 1>>}
    ELSE {<<c[1], b, 1>> : b \in p[c[1]].succ[c[2]]}

-----------------------------------------------------------------------------
(* CDGraphBuilder.                                                           *)

buildBlocks(p, f) == [b \in Blocks(p, f) |-> p[f].succ[b]]

\* Fault: the instructions of a block are not put in a row.
buildInstructions_Unchained(p, f) ==
    [c \in Positions(p, f) |->
        UNION {{<<f, b, 1>> : b \in p[f].succ[c[2]]} : t \in {c} \cap {Terminator(p, f, c[2])}}]

\* The successor of an instruction, and of the last one the first of each next block.
buildInstructions(p, f) == [c \in Positions(p, f) |-> NextIn(p, c)]

\* What is computed on either graph (see ControlDependence): the nodes from which
\* every maximal path meets m ...
RECURSIVE InevitablyIn(_, _)
InevitablyIn(g, reached) ==
    LET more == {n \in DOMAIN g \ reached : g[n] # {} /\ g[n] \subseteq reached}
    IN  IF more = {} THEN reached ELSE InevitablyIn(g, reached \cup more)

InevitablyTo(g, m) == InevitablyIn(g, {m})

\* ... and the nodes where it is decided whether m is met.
Deciding(g, m) ==
    LET always == InevitablyTo(g, m)
    IN  {n \in DOMAIN g : g[n] \cap always # {} /\ ~ (g[n] \subseteq always)}

-----------------------------------------------------------------------------
(* DODRanganath: for each pair of nodes the predicates that decide which one *)
(* is met first.                                                             *)

\* Depth first, until a path ends, or comes back to a node it has met, without the target.
RECURSIVE OnAllPathsFrom(_, _, _, _)
OnAllPathsFrom(g, node, target, search) ==
    LET Successor(s, q) ==
            IF ~ s.all \/ q \in s.onstack THEN [s EXCEPT !.all = FALSE]
            ELSE IF q \in s.visited THEN s
            ELSE LET t == OnAllPathsFrom(g, q, target, [s EXCEPT !.onstack = @ \cup {q}])
                 IN  [t EXCEPT !.onstack = @ \ {q}]
    IN  IF node = target THEN search
        ELSE IF g[node] = {} THEN [search EXCEPT !.all = FALSE]
        ELSE FoldLeft(Successor, [search EXCEPT !.visited = @ \cup {node}], SetToSeq(g[node]))

\* Fault: some path is enough, as in the method of this name, of which the code says that
\* the paper uses it and is wrong.
reachable(g, from, n) == n \in Reachable(g, {from})

onallpaths(g, from, n) ==
    OnAllPathsFrom(g, from, n, [all |-> TRUE, onstack |-> {from}, visited |-> {}]).all

\* Post-order: a node has the colour of its successors if they agree.
RECURSIVE coloredDAG(_, _, _)
coloredDAG(g, search, n) ==
    IF n \in search.visited THEN search
    ELSE LET seen == [search EXCEPT !.visited = @ \cup {n}]
             below == FoldLeft(LAMBDA s, q : coloredDAG(g, s, q), seen, SetToSeq(g[n]))
             colors == {below.color[q] : q \in g[n]}
         IN  IF g[n] = {} THEN seen
             ELSE [below EXCEPT !.color[n] = IF Cardinality(colors) = 1 THEN below.color[SetToSeq(g[n])[1]]
                                             ELSE "UNCOLORED"]

\* One successor of n leads to m before p, another one to p before m.
dependence(g, n, m, p) ==
    LET start == [visited |-> {m, p},
                  color |-> [x \in DOMAIN g |-> IF x = p THEN "BLACK" ELSE IF x = m THEN "WHITE"
                                                ELSE "UNCOLORED"]]
        end == coloredDAG(g, start, n)
    IN  {"WHITE", "BLACK"} \subseteq {end.color[q] : q \in g[n]}

PairsOf(g, n) ==
    {x \in (DOMAIN g) \X (DOMAIN g) :
        /\ Cardinality(g[n]) > 1 /\ x[1] # x[2]
        /\ onallpaths(g, x[1], x[2]) /\ onallpaths(g, x[2], x[1])
        /\ dependence(g, n, x[2], x[1])}

\* The results of compute(): revCD of a predicate holds the predicate, too.
DODRanganath(g) ==
    [CD |-> [m \in DOMAIN g |-> {n \in DOMAIN g : \E x \in PairsOf(g, n) : m \in {x[1], x[2]}}],
     revCD |-> [n \in DOMAIN g |-> UNION {{x[1], n} : x \in PairsOf(g, n)}]]

-----------------------------------------------------------------------------
(* LLVMInterprocCD.                                                          *)

Defined(p) == DOMAIN p

\* LLVMControlDependenceAnalysis makes the object without a pointer analysis: nothing
\* is known of a call through a pointer.
getCalledFunctions(p, c) ==
    IF At(p, c).op = "call" /\ ~ At(p, c).ptr THEN At(p, c).to \cap Defined(p) ELSE {}

Calls(p, f) == {c \in Positions(p, f) : IsCall(p, c)}
CallPairs(p, f) == UNION {{<<c, g>> : g \in getCalledFunctions(p, c)} : c \in Calls(p, f)}

\* Blocks that neither go on nor return.
noretTerminators(p, f) == {Terminator(p, f, b) : b \in p[f].stops}

\* Fault: the stack is shared by all calls, functions that were left stay on it.
RECURSIVE HandleCalls_SharedStack(_, _, _, _, _)
HandleCalls_SharedStack(p, known, f, stack, pairs) ==
    IF pairs = {} THEN known
    ELSE LET c == (CHOOSE x \in pairs : TRUE)[1]
             g == (CHOOSE x \in pairs : TRUE)[2]
             rest == pairs \ {<<c, g>>}
             deep == IF g \in stack \/ g \in DOMAIN known THEN known
                     ELSE HandleCalls_SharedStack(p, known @@ (g :> noretTerminators(p, g)), g,
                                                  stack \cup {g}, CallPairs(p, g))
             noret == IF g \in stack \/ deep[g] # {} THEN {c} ELSE {}
         IN  HandleCalls_SharedStack(p, [deep EXCEPT ![f] = @ \cup noret], f, stack \cup {g}, rest)

\* The calls of f one after the other; stack holds f and the functions it is entered from.
RECURSIVE HandleCalls(_, _, _, _, _)
HandleCalls(p, known, f, stack, pairs) ==
    IF pairs = {} THEN known
    ELSE LET c == (CHOOSE x \in pairs : TRUE)[1]
             g == (CHOOSE x \in pairs : TRUE)[2]
             rest == pairs \ {<<c, g>>}
             deep == IF g \in stack \/ g \in DOMAIN known THEN known
                     ELSE HandleCalls(p, known @@ (g :> noretTerminators(p, g)), g,
                                      stack \cup {g}, CallPairs(p, g))
             noret == IF g \in stack \/ deep[g] # {} THEN {c} ELSE {}
         IN  HandleCalls(p, [deep EXCEPT ![f] = @ \cup noret], f, stack, rest)

computeFuncInfo(p, known, f) ==
    IF f \in DOMAIN known THEN known
    ELSE HandleCalls(p, known @@ (f :> noretTerminators(p, f)), f, {f}, CallPairs(p, f))

\* BlkInfo::noret: the calls in a block that may not return.
noretCalls(p, known, f, b) ==
    {c \in Calls(p, f) : c[2] = b /\ \E g \in getCalledFunctions(p, c) : known[g] # {}}

\* What the predecessors of block b hand on.
Merged(p, norets, cds, f, b) ==
    UNION {cds[a] \cup norets[a] : a \in Pred(buildBlocks(p, f), b)}

\* Fault: the successors of a block that has changed are not looked at again.
RECURSIVE Fixpoint_OneStep(_, _, _, _, _)
Fixpoint_OneStep(p, norets, f, queue, cds) ==
    IF queue = <<>> THEN cds
    ELSE Fixpoint_OneStep(p, norets, f, Tail(queue),
            [cds EXCEPT ![Head(queue)] = @ \cup Merged(p, norets, cds, f, Head(queue))])

\* The LIFO queue until nothing changes.
RECURSIVE Fixpoint(_, _, _, _, _)
Fixpoint(p, norets, f, queue, cds) ==
    IF queue = <<>> THEN cds
    ELSE LET b == Head(queue)
             new == cds[b] \cup Merged(p, norets, cds, f, b)
             more == IF new = cds[b] THEN <<>> ELSE SetToSeq(p[f].succ[b])
         IN  Fixpoint(p, norets, f, more \o Tail(queue), [cds EXCEPT ![b] = new])

\* _blockCD as computeCD(f) fills it.
BlockCD(p, known, f) ==
    LET norets == [b \in Blocks(p, f) |-> noretCalls(p, known, f, b)]
        queue == SetToSeq(UNION {p[f].succ[b] : b \in {x \in Blocks(p, f) : norets[x] # {}}})
    IN  Fixpoint(p, norets, f, queue, [b \in Blocks(p, f) |-> {}])

\* _instrCD: the calls before the instruction in its own block.
InstrCD(p, known, f) ==
    [c \in Positions(p, f) |-> {n \in noretCalls(p, known, f, c[2]) : n[3] < c[3]}]

-----------------------------------------------------------------------------
(* The questions.                                                            *)

NoPosition == <<>>

\* The graph is built and the algorithm of the option run over it.
computeOnDemand(f) == computed \cup {f}

\* What compute(F) of the implementation chosen adds to what it has: asked a second
\* time for the same function most take up the whole module.
computedBy(f) ==
    IF algorithm \in {"standard", "strongCC"} \/ f \notin computed THEN computeOnDemand(f)
    ELSE Defined(program)

\* compute(F): LLVMInterprocCD finds the no-return points only.
Compute(f) ==
    /\ requests < Requests /\ frames = <<>>
    /\ computed' = computedBy(f)
    /\ infos' = computeFuncInfo(program, infos, f)
    /\ requests' = requests + 1
    /\ UNCHANGED <<program, algorithm, hasCD, instrCD, blockCD, asked, answer, frames>>

RECURSIVE InfosOfAll(_, _)
InfosOfAll(infosNow, fs) ==
    IF fs = {} THEN infosNow
    ELSE LET f == CHOOSE x \in fs : TRUE
         IN  InfosOfAll(computeFuncInfo(program, infosNow, f), fs \ {f})

\* compute() is for the whole module; StrongControlClosure does not know it.
ComputeModule ==
    /\ requests < Requests /\ frames = <<>> /\ algorithm # "strongCC"
    /\ computed' = Defined(program)
    /\ infos' = InfosOfAll(infos, Defined(program))
    /\ requests' = requests + 1
    /\ UNCHANGED <<program, algorithm, hasCD, instrCD, blockCD, asked, answer, frames>>

\* computeFuncInfo and computeCD unless f has been asked for before.
known(f) == computeFuncInfo(program, infos, f)
WithCD(f) ==
    /\ infos' = known(f)
    /\ hasCD' = hasCD \cup {f}
    /\ IF f \in hasCD THEN UNCHANGED <<instrCD, blockCD>>
       ELSE /\ instrCD' = instrCD @@ InstrCD(program, known(f), f)
            /\ blockCD' = blockCD @@ (f :> BlockCD(program, known(f), f))

\* getDependencies(I); an implementation asked for an instruction answers nothing
\* unless its graph is one of instructions.
GetDependencies(c) ==
    /\ requests < Requests /\ frames = <<>>
    /\ WithCD(c[1])
    /\ asked' = c
    /\ answer' = instrCD'[c] \cup blockCD'[c[1]][c[2]]
    /\ requests' = requests + 1
    /\ UNCHANGED <<program, algorithm, computed, frames>>

\* getDependencies(BB): LLVMInterprocCD has no answer for blocks; StrongControlClosure
\* aborts.
GetDependenciesOfBlock(f) ==
    /\ requests < Requests /\ frames = <<>> /\ algorithm # "strongCC"
    /\ computed' = computeOnDemand(f)
    /\ requests' = requests + 1
    /\ UNCHANGED <<program, algorithm, interproc, asked, answer, frames>>

-----------------------------------------------------------------------------
(* A run of the program, for which the client asks for what it has not yet.  *)

StartRun ==
    /\ frames = <<>> /\ requests = 0
    /\ infos' = InfosOfAll(infos, Defined(program))
    /\ instrCD' = instrCD @@ [c \in UNION {Positions(program, f) : f \in Defined(program) \ hasCD} |->
                                InstrCD(program, infos', c[1])[c]]
    /\ blockCD' = blockCD @@ [f \in Defined(program) \ hasCD |-> BlockCD(program, infos', f)]
    /\ hasCD' = Defined(program)
    /\ frames' = <<<<Main, 1, 1>>>>
    /\ UNCHANGED <<program, algorithm, computed, asked, answer, requests>>

Here == frames[Len(frames)]
AtTerminator == Here[3] = Size(program, Here[1], Here[2])
Ended == AtTerminator /\ Here[2] \in program[Here[1]].stops
Entered == IF IsCall(program, Here) /\ At(program, Here).op = "call"
           THEN At(program, Here).to \cap Defined(program) ELSE {}

\* The function goes on, over a call of a library function as over other instructions.
Proceed ==
    /\ frames # <<>> /\ Entered = {}
    /\ \E c \in NextIn(program, Here) : frames' = [frames EXCEPT ![Len(frames)] = c]
    /\ UNCHANGED <<program, algorithm, computed, interproc, asked, answer, requests>>

EnterCall ==
    /\ frames # <<>> /\ Len(frames) < Depth
    /\ \E f \in Entered : frames' = Append(frames, <<f, 1, 1>>)
    /\ UNCHANGED <<program, algorithm, computed, interproc, asked, answer, requests>>

ReturnFromCall ==
    /\ Len(frames) > 1 /\ AtTerminator /\ ~ Ended /\ NextIn(program, Here) = {}
    /\ \E c \in NextIn(program, frames[Len(frames) - 1]) :
          frames' = Append(SubSeq(frames, 1, Len(frames) - 2), c)
    /\ UNCHANGED <<program, algorithm, computed, interproc, asked, answer, requests>>

AnalysisInit ==
    /\ program \in Programs
    /\ algorithm \in Algorithms
    /\ computed = {} /\ infos = <<>> /\ hasCD = {} /\ instrCD = <<>> /\ blockCD = <<>>
    /\ asked = NoPosition /\ answer = {} /\ requests = 0 /\ frames = <<>>

Question ==
    \/ \E f \in Defined(program) :
         \/ Compute(f) \/ GetDependenciesOfBlock(f)
         \/ \E c \in Positions(program, f) : GetDependencies(c)
    \/ ComputeModule

RunStep == Proceed \/ EnterCall \/ ReturnFromCall

-----------------------------------------------------------------------------
(* Properties.                                                               *)

CallGraph(p) == [f \in Defined(p) |-> UNION {getCalledFunctions(p, c) : c \in Calls(p, f)}]

\* g, or a function it leads to, can end the program or be entered again for ever.
MayNotReturn(p, g) ==
    \E h \in Reachable(CallGraph(p), {g}) :
        p[h].stops # {} \/ h \in Reachable(CallGraph(p), CallGraph(p)[h])

\* Positions that a run may come to after c in the same activation.
After(p, c) == Reachable(buildInstructions(p, c[1]), NextIn(p, c))

\* Whatever was asked before, in whichever order, an instruction depends on exactly the
\* calls that come before it, also around a loop, of functions that may not return.
AnswersExact ==
    asked # NoPosition =>
        answer = {c \in Calls(program, asked[1]) :
                    /\ \E g \in getCalledFunctions(program, c) : MayNotReturn(program, g)
                    /\ asked \in After(program, c)}

DirectCall(c) == ~ At(program, c).ptr

\* If the program ends, or a function is entered again, then no open call from there on
\* need ever return, and what would come after it depends on it, unless one
\* of the calls went through a pointer.
EndsCovered ==
    frames # <<>> =>
        \A i \in 1 .. Len(frames) - 1 :
            /\ \A k \in i .. Len(frames) - 1 : DirectCall(frames[k])
            /\ Ended \/ \E j, k \in i .. Len(frames) : j < k /\ frames[j][1] = frames[k][1]
            => \A c \in After(program, frames[i]) :
                  frames[i] \in instrCD[c] \cup blockCD[c[1]][c[2]]
=============================================================================
