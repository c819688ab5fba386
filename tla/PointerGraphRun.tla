--------------------------- MODULE PointerGraphRun ---------------------------
(***************************************************************************)
(* The pointer graph of an LLVM program is analysed while functions that   *)
(* are called through pointers, or run by threads, are added to it         *)
(* (DGLLVMPointerAnalysisImpl); then the program itself runs.  The         *)
(* analysis is that of PointerAnalysis, in rounds in which all the nodes   *)
(* that its search reaches are processed.                                  *)
(*                                                                         *)
(* In the running program a value is a pointer <<"ptr", site, instance,    *)
(* offset>> into an object allocated by the value "site", a function       *)
(* <<"fun", f>>, <<"null">>, an aggregate <<"agg", cells>>, a thread       *)
(* <<"thread", id>> or <<"num">>, anything else.                           *)
(***************************************************************************)
EXTENDS PointerGraphBuilder

CONSTANTS
    MaxOffset,    \* bound: no memory is larger
    MaxInstance,  \* bound: objects allocated at one site
    MaxDepth      \* bound: frames

VARIABLES
    pts, mem, \* see PointerAnalysis
    active,   \* nodes that the search of the analysis reaches
    run       \* the running program, see Idle

vars == <<program, phase, graph, stack, pts, mem, active, run>>

Ids == 1 .. MaxNode
Field(x, field, default) == IF x <= Count(graph) THEN graph.nodes[x][field] ELSE default

Subject ==
    [type |-> [x \in Ids |-> Field(x, "type", "NOOP")],
     operands |-> [x \in Ids |-> Field(x, "operands", <<>>)],
     arg |-> [x \in Ids |-> Field(x, "arg", 0)],
     size |-> [x \in Ids |-> Field(x, "size", 0)],
     fieldSensitivity |-> FieldSensitivity]

\* The empty sets are left out of pts and mem.
PtsOf(x) == IF x \in DOMAIN pts THEN pts[x] ELSE {}
MemOf(a, o) == IF a \in DOMAIN mem THEN mem[a][o] ELSE {}

PA == INSTANCE PointerAnalysis WITH
    pts <- [x \in Ids |-> PtsOf(x)],
    mem <- [a \in Ids |-> [o \in (0 .. MaxOffset) \cup {UnknownOffset} |-> MemOf(a, o)]],
    Node <- Ids, Programs <- {}, program <- Subject,
    zero <- {x \in Ids : Field(x, "zero", FALSE)},
    callees <- [x \in Ids |-> {}], joins <- [x \in Ids |-> {}], queue <- <<>>, seen <- {},
    toProcess <- <<>>, changed <- <<>>, n <- 0

(***************************************************************************)
(* The analysis.                                                           *)
(***************************************************************************)
RECURSIVE ReachOver(_, _, _)
ReachOver(succ, found, frontier) ==
    IF frontier = {} THEN found
    ELSE LET next == {e[2] : e \in {d \in succ : d[1] \in frontier}} \ found
         IN  ReachOver(succ, found \cup next, next)

\* Loops of more than one node, and nodes whose only successor is the node itself.
InLoop(g, x) ==
    LET others == Successors(g, x) \ {x} IN
    Successors(g, x) = {x} \/ x \in ReachOver(g.succ, others, others)

\* preprocessGEPs: in the functions that are built when the analysis begins.
PreprocessGeps ==
    /\ phase = "built"
    /\ phase' = "analyse"
    /\ graph' = [graph EXCEPT !.nodes =
          [x \in DOMAIN @ |-> IF @[x].type = "GEP" /\ InLoop(graph, x)
                                THEN [@[x] EXCEPT !.arg = UnknownOffset] ELSE @[x]]]
    /\ active' = ReachableNodes(graph', TRUE) \cup ToSet(graph.globals)
    /\ UNCHANGED <<program, stack, pts, mem, run>>

\* The pointers that a node has from the start.
Initially(x) ==
    CASE TypeOf(graph, x) \in {"ALLOC", "FUNCTION"} -> {<<x, 0>>}
      [] TypeOf(graph, x) = "CONSTANT" -> {PointerOf(graph, x)}
      [] OTHER -> {PA!UnknownPointer : y \in {x} \cap graph.anyResult}

\* The pointers of node x after it is processed.
ProcessedValue(x) ==
    LET ops == UNION {PA!PointsTo(graph.nodes[x].operands[k]) : k \in DOMAIN graph.nodes[x].operands}
    IN  CASE TypeOf(graph, x) = "LOAD" -> PtsOf(x) \cup UNION {PA!LoadThrough(p) : p \in ops}
          [] TypeOf(graph, x) = "GEP" ->
               PA!AddEach(PtsOf(x), {PA!Shift(p, graph.nodes[x].arg) : p \in ops})
          [] TypeOf(graph, x) \in {"CAST", "PHI", "RETURN", "CALL_RETURN"} -> PtsOf(x) \cup ops
          [] OTHER -> PtsOf(x)

ActiveOf(type) == {x \in active : TypeOf(graph, x) = type}

\* What the active STOREs write: memory, offset and pointer.
Written ==
    UNION {PA!Targets(x) \X PA!PointsTo(graph.nodes[x].operands[1]) : x \in ActiveOf("STORE")}

RoundPts ==
    [x \in NodeIds(graph) |->
        Initially(x) \cup (IF x \in active THEN ProcessedValue(x) ELSE PtsOf(x))]

RoundMem(written, copies) ==
    [a \in {x \in NodeIds(graph) : TypeOf(graph, x) = "ALLOC"} |->
        [o \in PA!Offset |-> MemOf(a, o) \cup {w[2] : w \in {v \in written : v[1] = <<a, o>>}}
                              \cup UNION {PA!CopiedInto(x, a, o) : x \in copies}]]

\* A MEMCPY of all of a zeroed object marks its target.
RoundNodes ==
    LET zeroed == {a \in NodeIds(graph) : \E x \in ActiveOf("MEMCPY") : \E p \in PA!Sources(x) :
                      \E to \in PA!Targets(x) : to[1] = a /\ PA!Zeroed(x, p, to)}
    IN  [x \in NodeIds(graph) |->
            IF x \in zeroed THEN [graph.nodes[x] EXCEPT !.zero = TRUE] ELSE graph.nodes[x]]

(***************************************************************************)
(* Functions found by the analysis.                                        *)
(***************************************************************************)
FunctionOf(x) == graph.nodes[x].user[2]

\* callIsCompatible: the call has enough arguments.
CallIsCompatible(x, f) == program.funs[f].args <= Len(Actuals(Inst(graph.nodes[x].user[2])))

\* Calls and FORKs with pointers to functions that were not handled yet.
Found == {<<x, p>> \in (ActiveOf("CALL_FUNCPTR") \cup ActiveOf("FORK")) \X (Ids \X {0, UnknownOffset}) :
             p \in PA!NewFunctions(x)}

\* The threads whose handle may be that of JOIN x, which is given as a load of it.
HandleOfJoin(x) == graph.nodes[graph.nodes[graph.nodes[x].paired].operands[1]].operands[1]
HandleOfFork(x) == graph.nodes[graph.nodes[x].paired].operands[1]
Matching(x) ==
    {k \in NodeIds(graph) : TypeOf(graph, k) = "FORK" /\
        {p[1] : p \in PA!PointsTo(HandleOfFork(k))}
        \cap {p[1] : p \in PA!PointsTo(HandleOfJoin(x))} # {}}

\* matchJoinToRightCreate: the functions that are joined from now on.
FoundJoins ==
    {<<x, f>> \in ActiveOf("JOIN") \X DOMAIN graph.subgraphs :
        /\ <<x, f>> \notin graph.functions
        /\ \E k \in Matching(x) : \E p \in PA!PointsTo(graph.nodes[k].operands[1]) :
              TypeOf(graph, p[1]) = "FUNCTION" /\ FunctionOf(p[1]) = f}

Settled(x, p) == pts' = (x :> PA!AddEach(PtsOf(x), {p})) @@ pts

Analysing == phase = "analyse" /\ stack = <<>>

\* functionPointerCall of a function that is only declared: it may return any pointer.
CallUndefined(x, p) ==
    /\ ~ Defined(FunctionOf(p[1])) /\ Settled(x, p)
    /\ graph' = [graph EXCEPT !.anyResult = @ \cup {graph.nodes[x].paired}]
    /\ UNCHANGED stack

CallIncompatible(x, p) ==
    /\ Defined(FunctionOf(p[1])) /\ TypeOf(graph, x) # "FORK" /\ ~ CallIsCompatible(x, FunctionOf(p[1]))
    /\ Settled(x, p)
    /\ UNCHANGED <<graph, stack>>

\* functionPointerCall and handleFork build the function first.
CallDefined(x, p) ==
    LET f == FunctionOf(p[1]) IN
    /\ Defined(f) /\ (TypeOf(graph, x) = "FORK" \/ CallIsCompatible(x, f))
    /\ IF f \notin DOMAIN graph.subgraphs THEN Enter(f) /\ UNCHANGED pts
       ELSE /\ graph' = IF TypeOf(graph, x) = "FORK" THEN AddFunctionToFork(graph, f, x)
                        ELSE InsertFunctionCall(graph, f, x)
            /\ Settled(x, p)
            /\ UNCHANGED stack

ResolvePointer ==
    /\ Analysing
    /\ \E c \in Found : CallUndefined(c[1], c[2]) \/ CallIncompatible(c[1], c[2])
                        \/ CallDefined(c[1], c[2])
    /\ UNCHANGED <<program, phase, mem, active, run>>

MatchJoin ==
    /\ Analysing /\ Found = {}
    /\ \E c \in FoundJoins : graph' = AddFunctionToJoin(graph, c[2], c[1])
    /\ UNCHANGED <<program, phase, stack, pts, mem, active, run>>

\* One round; the program runs when nothing changes any more.
Round ==
    /\ Analysing /\ Found = {} /\ FoundJoins = {}
    /\ pts' = RoundPts
    /\ mem' = RoundMem(Written, ActiveOf("MEMCPY"))
    /\ graph' = [graph EXCEPT !.nodes = RoundNodes]
    /\ active' = ReachableNodes(graph, TRUE) \cup ToSet(graph.globals)
    /\ phase' = IF <<pts', mem', graph', active'>> = <<pts, mem, graph, active>> THEN "run" ELSE phase
    /\ UNCHANGED <<program, stack, run>>

-----------------------------------------------------------------------------
(***************************************************************************)
(* The running program.                                                    *)
(***************************************************************************)
Frame(f, args, thread) ==
    [fun |-> f, at |-> <<EntryBlock, 1>>, from |-> EntryBlock,
     args |-> SubSeq(args, 1, Min({Len(args), program.funs[f].args})),
     more |-> SubSeq(args, program.funs[f].args + 1, Len(args)),
     regs |-> [id \in {} |-> <<"num">>], thread |-> thread]

\* Cells that an initialiser fills.
RECURSIVE ConstantValue(_)
ConstantValue(v) ==
    CASE v[1] = "global" -> <<"ptr", v, 1, 0>>
      [] v[1] = "fun" -> v
      [] IsZero(v) -> <<"null">>
      [] v[1] \in {"cast", "bits"} -> ConstantValue(v[2])
      [] v[1] \in {"gep", "add"} /\ v[2][1] \in {"global", "cast", "gep", "add"} ->
           LET p == ConstantValue(v[2]) IN <<"ptr", p[2], p[3], p[4] + v[3]>>
      [] OTHER -> <<"num">>

InitialCells(k) ==
    LET scalars == ToSet(Scalars(program.globals[k], 0)) IN
    [o \in 0 .. program.size[k] - 1 |->
        IF \E s \in scalars : s[2] = o /\ s[1][1] # "none"
          THEN ConstantValue((CHOOSE s \in scalars : s[2] = o)[1])
          ELSE <<"null">>]

\* heap: <<site, instance>> to cells; waiting: threads that did not begin yet; results:
\* of those that ended; a run that did something undefined stops.
Idle == [frames |-> <<>>, heap |-> [x \in {} |-> 0], waiting |-> {}, results |-> [t \in {} |-> 0]]

StartRun ==
    /\ phase = "run" /\ run = Idle
    /\ run' = [Idle EXCEPT
          !.frames = <<Frame("main", <<>>, 0)>>,
          !.heap = [x \in {<<<<"global", k>>, 1>> : k \in DOMAIN program.globals} |->
                       InitialCells(x[1][2])]]
    /\ UNCHANGED <<program, phase, graph, stack, pts, mem, active>>

Now == Last(run.frames)
Step == At(Now.fun, Now.at)

RECURSIVE Eval(_)
Eval(v) ==
    CASE v[1] = "val" -> IF v[2] \in DOMAIN Now.regs THEN Now.regs[v[2]] ELSE <<"num">>
      [] v[1] = "arg" -> Now.args[v[3]]
      [] v[1] \in {"cast", "gep", "add"} /\ v[2][1] \in {"val", "arg"} -> Eval(v[2])
      [] OTHER -> ConstantValue(v)

Arg(k) == Eval(Step.args[k])

IsPtr(v) == v[1] = "ptr"
ObjectOf(v) == <<v[2], v[3]>>
Cells(v) == run.heap[ObjectOf(v)]
Accessible(v) == IsPtr(v) /\ v[4] \in DOMAIN Cells(v)

\* Pointer v moved by k, within or just past its object; other values keep no offset.
Moved(v, k) ==
    IF ~ IsPtr(v) THEN {v}
    ELSE {<<"ptr", v[2], v[3], o>> : o \in {q \in 0 .. Cardinality(DOMAIN Cells(v)) :
                                              k = UnknownOffset \/ q = v[4] + k}}

NextFrames(regs) ==
    {[Now EXCEPT !.regs = regs, !.at = q, !.from = Now.at[1]] : q \in NextPositions(Now.fun, Now.at)}

\* The step gives v as the result of its instruction and changes the heap.
Advance(v, heap) ==
    \E f \in NextFrames((Step.id :> v) @@ Now.regs) :
        run' = [run EXCEPT !.frames[Len(run.frames)] = f, !.heap = heap]

\* What an instruction without effect on memory may compute.
Incoming(i) == {Eval(i.args[k]) : k \in {j \in DOMAIN i.args : i.n[j] = Now.from}}
Results(i) ==
    CASE i.op = "gep" -> Moved(Arg(1), i.n)
      [] i.op = "add" -> IF i.args[1][1] = "int" THEN Moved(Arg(2), i.args[1][2])
                         ELSE IF i.args[2][1] = "int" THEN Moved(Arg(1), i.args[2][2]) ELSE {}
      [] i.op = "sub" -> Moved(Arg(1), 0 - i.args[2][2])
      [] i.op = "select" -> {Arg(1), Arg(2)}
      [] i.op = "phi" -> Incoming(i)
      [] i.op \in {"cast", "inttoptr", "ptrtoint", "bits"} -> {Arg(1)}
      [] i.op \in {"asm", "extern", "icmp", "br", "extvoid"} -> {<<"num">>}
      [] i.op = "load" /\ i.n = 0 -> {Cells(v)[v[4]] : v \in {w \in {Arg(1)} : Accessible(w)}}
      [] i.op = "load" /\ i.n # 0 -> {<<"agg", Cells(v)>> : v \in {w \in {Arg(1)} : Accessible(w)}}
      [] i.op \in {"extract", "extractelement"} ->
           {v[2][i.n] : v \in {w \in {Arg(1)} : w[1] = "agg"}}
      [] i.op = "insertelement" ->
           {<<"agg", (i.n :> Arg(2)) @@ (IF Arg(1)[1] = "agg" THEN Arg(1)[2] ELSE [o \in 0 .. 1 |-> <<"num">>])>>}
      [] OTHER -> {}

Running == phase = "run" /\ run.frames # <<>>

RunValue ==
    /\ Running
    /\ \E v \in Results(Step) : Advance(v, run.heap)

\* A new object of site i.
Fresh(i) == CHOOSE k \in 1 .. MaxInstance : <<Result(i), k>> \notin DOMAIN run.heap
CanAllocate(i) == \E k \in 1 .. MaxInstance : <<Result(i), k>> \notin DOMAIN run.heap
NewCells(i) ==
    CASE i.op = "realloc" -> [o \in 0 .. i.n - 1 |->
             IF Accessible(Arg(1)) /\ o \in DOMAIN Cells(Arg(1)) THEN Cells(Arg(1))[o] ELSE <<"num">>]
      [] OTHER -> [o \in 0 .. i.n - 1 |-> IF i.op = "calloc" THEN <<"null">> ELSE <<"num">>]

RunAllocate ==
    /\ Running /\ Step.op \in {"alloca", "malloc", "calloc", "realloc"} /\ CanAllocate(Step)
    /\ Advance(<<"ptr", Result(Step), Fresh(Step), 0>>,
               (<<Result(Step), Fresh(Step)>> :> NewCells(Step)) @@ run.heap)

\* The pointers that the analysis has for value v.
Known(v) == PA!PointsTo(IF v \in DOMAIN graph.map THEN Representant(graph, v)
                        ELSE IF IsZero(v) THEN Null ELSE Unknown)

\* Stores through a pointer of which the analysis knows nothing are not part of it; a run
\* stops at one.
KnowsTarget(v) == Known(v) # {} /\ PA!UnknownPointer \notin Known(v)

Put(to, v) == [run.heap EXCEPT ![ObjectOf(to)][to[4]] = v]

RunStore ==
    /\ Running /\ Step.op = "store" /\ Accessible(Arg(2)) /\ KnowsTarget(Step.args[2])
    /\ Advance(<<"num">>, Put(Arg(2), Arg(1)))

RunMemset ==
    /\ Running /\ Step.op = "memset" /\ Accessible(Arg(1))
    /\ Advance(<<"num">>, [run.heap EXCEPT ![ObjectOf(Arg(1))] =
          [o \in DOMAIN @ |-> IF IsZero(Step.args[2]) THEN <<"null">> ELSE <<"num">>]])

RunMemcpy ==
    LET from == Arg(2)  to == Arg(1) IN
    /\ Running /\ Step.op = "memcpy" /\ Accessible(from) /\ Accessible(to)
    /\ KnowsTarget(Step.args[1])
    /\ \E len \in 1 .. MaxOffset :
          /\ Step.n \in {len, UnknownOffset}
          /\ from[4] + len - 1 \in DOMAIN Cells(from) /\ to[4] + len - 1 \in DOMAIN Cells(to)
          /\ Advance(<<"num">>, [run.heap EXCEPT ![ObjectOf(to)] =
                [o \in DOMAIN @ |-> IF o \in to[4] .. to[4] + len - 1
                                      THEN Cells(from)[o - to[4] + from[4]] ELSE @[o]]])

\* va_start: all of its argument points to the variable arguments.
RunVastart ==
    LET area == <<"ptr", Result(Step), Fresh(Step), 0>> IN
    /\ Running /\ Step.op = "vastart" /\ CanAllocate(Step) /\ Accessible(Arg(1))
    /\ Advance(<<"num">>,
               (ObjectOf(area) :> [o \in 0 .. Len(Now.more) - 1 |-> Now.more[o + 1]])
               @@ [run.heap EXCEPT ![ObjectOf(Arg(1))] = [o \in DOMAIN @ |-> area]])

ArgsOf(i) == [k \in DOMAIN Actuals(i) |-> Eval(Actuals(i)[k])]
Callee(i) == IF i.op = "call" THEN <<"fun", i.fn>> ELSE Arg(1)

RunCall ==
    LET f == Callee(Step)[2] IN
    /\ Running /\ Step.op \in {"call", "pcall"} /\ Callee(Step)[1] = "fun"
    /\ IF ~ Defined(f) THEN Advance(<<"num">>, run.heap)
       ELSE /\ Len(run.frames) < MaxDepth /\ program.funs[f].args <= Len(Actuals(Step))
            /\ run' = [run EXCEPT !.frames = Append(@, Frame(f, ArgsOf(Step), 0))]

Returned == IF Step.args = <<>> THEN <<"num">> ELSE Arg(1)

\* Frames of a thread are on top of those of the thread that it interrupts.
ThreadDepth == CHOOSE k \in DOMAIN run.frames :
    \A j \in k + 1 .. Len(run.frames) : run.frames[j].thread = 0
    /\ (k = 1 \/ run.frames[k].thread # 0)

EndThread(depth, v) ==
    run' = [run EXCEPT !.frames = SubSeq(@, 1, depth - 1),
                       !.results = (run.frames[depth].thread :> v) @@ @]

RunReturn ==
    /\ Running /\ Step.op \in {"ret", "retagg"}
    /\ IF Now.thread # 0 \/ Len(run.frames) = 1 THEN EndThread(Len(run.frames), Returned)
       ELSE LET caller == run.frames[Len(run.frames) - 1]  i == At(caller.fun, caller.at) IN
            \E q \in NextPositions(caller.fun, caller.at) :
               run' = [run EXCEPT !.frames = Append(SubSeq(@, 1, Len(@) - 2),
                  [caller EXCEPT !.regs = (i.id :> Returned) @@ @, !.at = q, !.from = caller.at[1]])]

RunExit ==
    /\ Running /\ Step.op = "exit"
    /\ EndThread(ThreadDepth, Arg(1))

\* A thread waits until it runs.
RunCreate ==
    LET t == Step.id IN
    /\ Running /\ Step.op = "create" /\ Accessible(Arg(1)) /\ Arg(3)[1] = "fun"
    /\ t \notin DOMAIN run.results /\ \A w \in run.waiting : w.thread # t
    /\ \A k \in DOMAIN run.frames : run.frames[k].thread # t
    /\ \E f \in NextFrames((t :> <<"num">>) @@ Now.regs) :
          run' = [run EXCEPT !.frames[Len(run.frames)] = f, !.heap = Put(Arg(1), <<"thread", t>>),
                             !.waiting = @ \cup {Frame(Arg(3)[2], <<Arg(4)>>, t)}]

\* It runs as a whole, between any two steps of the others.
RunThread ==
    /\ Running /\ Len(run.frames) < MaxDepth
    /\ \E w \in run.waiting :
          run' = [run EXCEPT !.frames = Append(@, w), !.waiting = @ \ {w}]

RunJoin ==
    LET t == Arg(1) IN
    /\ Running /\ Step.op = "join" /\ t[1] = "thread" /\ t[2] \in DOMAIN run.results
    /\ IF Arg(2) = <<"null">> THEN Advance(<<"num">>, run.heap)
       ELSE Accessible(Arg(2)) /\ KnowsTarget(Step.args[2])
            /\ Advance(<<"num">>, Put(Arg(2), run.results[t[2]]))

RunStep ==
    /\ \/ RunValue \/ RunAllocate \/ RunStore \/ RunMemset \/ RunMemcpy \/ RunVastart
       \/ RunCall \/ RunReturn \/ RunExit \/ RunCreate \/ RunThread \/ RunJoin
    /\ UNCHANGED <<program, phase, graph, stack, pts, mem, active>>

-----------------------------------------------------------------------------
Init ==
    /\ BuildInit
    /\ pts = <<>> /\ mem = <<>>
    /\ active = {} /\ run = Idle

Next ==
    \/ BuildNext /\ UNCHANGED <<pts, mem, active, run>>
    \/ PreprocessGeps \/ ResolvePointer \/ MatchJoin \/ Round
    \/ StartRun \/ RunStep

Spec == Init /\ [][Next]_vars

\* What pointer v is in the graph.
PointerInGraph(v) ==
    IF v[1] = "fun" THEN <<graph.map[v].representant, 0>> ELSE <<graph.map[v[2]].seq[1], v[4]>>

Covered(v, value) ==
    v[1] \in {"ptr", "fun"} /\ PA!UnknownPointer \notin Known(value) =>
        /\ v[1] = "fun" => v \in DOMAIN graph.map
        /\ PA!Covers(Known(value), PointerInGraph(v))

\* The search of the analysis reaches the first node of every instruction that the program
\* executes, and the pointers that instructions and arguments have in the running program
\* are among those that the analysis reports for them: whatever calls, threads, variadic
\* arguments and initialisers they went through, functions called by pointers included.
RunCovered ==
    phase = "run" /\ run.frames # <<>> =>
        /\ IsRelevant(Step) => Result(Step) \in DOMAIN graph.map
                               /\ graph.map[Result(Step)].seq[1] \in active
        /\ \A id \in DOMAIN Now.regs : Covered(Now.regs[id], <<"val", id>>)
        /\ \A k \in DOMAIN Now.args : Covered(Now.args[k], <<"arg", Now.fun, k>>)
=============================================================================
