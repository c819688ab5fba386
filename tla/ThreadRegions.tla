---------------------------- MODULE ThreadRegions ----------------------------
(***************************************************************************)
(* Programs with threads: the control flow graph of the whole program with *)
(* the edges between threads, its thread regions and critical sections,    *)
(* and the dependences that are added to the dependence graph from them.   *)
(* lib/llvm/ThreadRegions, lib/llvm/ForkJoin, LLVMDependenceGraph.cpp.     *)
(*                                                                         *)
(* What the pointer analysis says is part of the program: the functions    *)
(* that a pointer call may call, those that a thread may start with, the   *)
(* forks and functions that belong to a join, the targets of accesses.     *)
(***************************************************************************)
EXTENDS FlowGraph, Sequences, TLC

CONSTANTS
    Programs,   \* [inst, code, succ, fun, entry]: instructions, and blocks of them
    Top,        \* the offset that is not known
    Own         \* the callee in a node that is the node of its instruction

ASSUME TopIsNat == Top \in Nat

(***************************************************************************)
(* What LLVM makes sure of: blocks are not empty, each instruction is in   *)
(* one place, functions have entry blocks without predecessors, a return   *)
(* comes last, and so does a call only where the end of the block cannot be*)
(* reached.  And the pointer analysis: the functions of a join are those   *)
(* of its forks.                                                           *)
(***************************************************************************)
Library == {"pthread_create", "pthread_join", "pthread_mutex_lock", "pthread_mutex_unlock",
            "pthread_exit", "extern", "unknown", "return"}

Placed(p) ==
    /\ p.code \in [DOMAIN p.code -> Seq(DOMAIN p.inst) \ {<<>>}]
    /\ \A b, c \in DOMAIN p.code : \A k \in DOMAIN p.code[b], m \in DOMAIN p.code[c] :
          p.code[b][k] = p.code[c][m] => b = c /\ k = m
    /\ \A b \in DOMAIN p.code : \A k \in DOMAIN p.code[b] :
          /\ p.inst[p.code[b][k]].op = "ret" => k = Len(p.code[b]) /\ p.succ[b] = {}
          /\ p.inst[p.code[b][k]].op = "call" /\ k = Len(p.code[b]) => p.succ[b] = {}

InFunctions(p) ==
    /\ p.succ \in [DOMAIN p.code -> SUBSET DOMAIN p.code]
    /\ p.fun \in [DOMAIN p.code -> DOMAIN p.entry]
    /\ p.entry \in [DOMAIN p.entry -> DOMAIN p.code]
    /\ "main" \in DOMAIN p.entry /\ (Library \cup {Own}) \cap DOMAIN p.entry = {}
    /\ \A f \in DOMAIN p.entry : p.fun[p.entry[f]] = f /\ Pred(p.succ, p.entry[f]) = {}
    /\ \A b \in DOMAIN p.code : \A c \in p.succ[b] : p.fun[c] = p.fun[b]

CallsAnalysed(p) ==
    \A i \in {j \in DOMAIN p.inst : p.inst[j].op = "call"} :
        /\ IsFiniteSet(p.inst[i].funs) /\ p.inst[i].direct \in BOOLEAN
        /\ p.inst[i].funs \cap {"unknown", "return", Own} = {}
        /\ p.inst[i].direct => Cardinality(p.inst[i].funs) = 1
        /\ "pthread_join" \in p.inst[i].funs =>
              \A j \in p.inst[i].forks \cap DOMAIN p.inst :
                 /\ p.inst[j].op = "call" /\ "pthread_create" \in p.inst[j].funs
                 /\ p.inst[j].start \cap DOMAIN p.entry \subseteq p.inst[i].joins

WellFormed(p) ==
    /\ IsFiniteSet(DOMAIN p.inst) /\ IsFiniteSet(DOMAIN p.code) /\ IsFiniteSet(DOMAIN p.entry)
    /\ Placed(p) /\ InFunctions(p) /\ CallsAnalysed(p)

ASSUME ProgramsAssumption ==
    (\A p \in Programs : WellFormed(p)) /\ Own \notin Library

VARIABLES
    program,
    graph,      \* graph[n]: the successors of node n, those in other threads too
    phase,      \* "sections", "regions" or "run"
    stack,      \* the nodes that are being visited, <<node, successors to go>>
    examined,   \* nodes whose visit is over
    unlocks,    \* the unlocks that the search for a critical section has not met
    section,    \* section[l]: the nodes of the critical section of the lock call l
    region      \* region[n]: the founding node of the region of n

vars == <<program, graph, phase, stack, examined, unlocks, section, region>>

Inst == DOMAIN program.inst
Block == DOMAIN program.code
IsCall(i) == program.inst[i].op = "call"
Functions(i) == program.inst[i].funs
Defined(g) == g \in DOMAIN program.entry

(***************************************************************************)
(* Nodes are <<type, instruction or 0, callee>>.  A direct call or another *)
(* instruction has one that is its own; the others are artificial.         *)
(***************************************************************************)
Entry(g) == <<"ENTRY", 0, g>>
Exit(g) == <<"EXIT", 0, g>>
IsArtificial(n) == n[3] # Own

TypeOfCall(g) ==
    CASE g = "pthread_create" -> "FORK"
      [] g = "pthread_join" -> "JOIN"
      [] g = "pthread_mutex_lock" -> "LOCK"
      [] g = "pthread_mutex_unlock" -> "UNLOCK"
      [] OTHER -> "CALL"

\* The node of call i for callee g, which is unknown if the analysis knows of none.
CallNode(i, g) == <<TypeOfCall(g), i, IF program.inst[i].direct THEN Own ELSE g>>

\* The last node of the sequence of nodes for it.
CalleeLast(i, g) ==
    CASE Defined(g) -> Exit(g)
      [] g = "pthread_exit" -> <<"RETURN", i, g>>
      [] OTHER -> CallNode(i, g)

InstFirst(i) ==
    CASE IsCall(i) /\ program.inst[i].direct -> CallNode(i, CHOOSE g \in Functions(i) : TRUE)
      [] IsCall(i) /\ ~ program.inst[i].direct -> <<"CALL_FUNCPTR", i, Own>>
      [] program.inst[i].op = "ret" -> <<"RETURN", i, Own>>
      [] OTHER -> <<"GENERAL", i, Own>>

InstLast(i) ==
    IF ~ IsCall(i) THEN InstFirst(i)
    ELSE IF Functions(i) = {} THEN CallNode(i, "unknown")
    ELSE IF Cardinality(Functions(i)) > 1 THEN <<"CALL_RETURN", i, "return">>
    ELSE CalleeLast(i, CHOOSE g \in Functions(i) : TRUE)

\* Functions that a call of pthread_create may start.
Started(i) == {h \in program.inst[i].start : Defined(h)}

InsertFunction(i, g) ==
    CASE Defined(g) -> {<<CallNode(i, g), Entry(g)>>}
      [] g = "pthread_exit" -> {<<CallNode(i, g), CalleeLast(i, g)>>}
      [] g = "pthread_create" -> {<<CallNode(i, g), Entry(h)>> : h \in Started(i)}
      [] OTHER -> {}

InstEdges(i) ==
    IF ~ IsCall(i) THEN {}
    ELSE (UNION {InsertFunction(i, g) : g \in Functions(i)})
         \cup (IF program.inst[i].direct THEN {}
               ELSE IF Functions(i) = {} THEN {<<InstFirst(i), InstLast(i)>>}
               ELSE {<<InstFirst(i), CallNode(i, g)>> : g \in Functions(i)})
         \cup (IF Cardinality(Functions(i)) > 1
                 THEN {<<CalleeLast(i, g), InstLast(i)>> : g \in Functions(i)}
                 ELSE {})

(***************************************************************************)
(* A block ends with its first sequence that ends in a return.             *)
(***************************************************************************)
Length(b) ==
    LET returns == {k \in DOMAIN program.code[b] : InstLast(program.code[b][k])[1] = "RETURN"}
    IN  IF returns = {} THEN Len(program.code[b])
        ELSE CHOOSE k \in returns : \A j \in returns : k <= j
Built(b) == {program.code[b][k] : k \in 1 .. Length(b)}
BlockFirst(b) == InstFirst(program.code[b][1])
BlockLast(b) == InstLast(program.code[b][Length(b)])

BlockEdges(b) ==
    {<<InstLast(program.code[b][k]), InstFirst(program.code[b][k + 1])>> : k \in 1 .. Length(b) - 1}
    \cup (UNION {InstEdges(i) : i \in Built(b)})

IsReachable(b) == Pred(program.succ, b) # {} \/ b = program.entry[program.fun[b]]
BlocksOf(f) == {b \in Block : program.fun[b] = f /\ IsReachable(b)}

FunctionEdges(f) ==
    (UNION {BlockEdges(b) : b \in BlocksOf(f)})
    \cup {<<Entry(f), BlockFirst(b)>> : b \in {c \in BlocksOf(f) : Pred(program.succ, c) = {}}}
    \cup {<<BlockLast(b), Exit(f)>> : b \in {c \in BlocksOf(f) : program.succ[c] = {}}}
    \cup (UNION {{<<BlockLast(b), BlockFirst(c)>> : c \in program.succ[b]} : b \in BlocksOf(f)})

\* Functions are built when a call or fork that is built first mentions them.
Mentioned(i) ==
    IF ~ IsCall(i) THEN {}
    ELSE {g \in Functions(i) : Defined(g)}
         \cup (IF "pthread_create" \in Functions(i) THEN Started(i) ELSE {})
BuiltFunctions ==
    Reachable([f \in DOMAIN program.entry |->
                  UNION {Mentioned(i) : i \in UNION {Built(b) : b \in BlocksOf(f)}}], {"main"})
BuiltInsts == UNION {Built(b) : b \in UNION {BlocksOf(f) : f \in BuiltFunctions}}

CallsOf(g) == {i \in BuiltInsts : IsCall(i) /\ g \in Functions(i)}

\* The exits of the threads that a join waits for.
joinFunctions(j) == program.inst[j].joins
matchJoin(j) == program.inst[j].forks
JoinEdges ==
    UNION {{<<Exit(h), CallNode(j, "pthread_join")>> :
               h \in joinFunctions(j) \cap BuiltFunctions} : j \in CallsOf("pthread_join")}

\* Fault: the forks are looked up by the node of the join's own instruction.
ForksOfOwnNode(j) ==
    {i \in matchJoin(j) \cap BuiltInsts : InstFirst(i)[1] = "FORK" /\ InstFirst(j)[1] = "JOIN"}

\* A fork that is called through a pointer has another node than its instruction.
CorrespondingForks(j) ==
    {i \in matchJoin(j) \cap BuiltInsts : InstFirst(i)[1] = "FORK"}

\* What the pointer analysis has for a call of pthread_mutex_lock or _unlock is the value
\* of the call: an unknown pointer, or the callees if the call is one through a pointer.
PointsToOfCall(i) == IF program.inst[i].direct THEN {"unknown"} ELSE Functions(i)
CorrespondingUnlocks(l) ==
    {CallNode(u, "pthread_mutex_unlock") :
        u \in {i \in CallsOf("pthread_mutex_unlock") :
                  PointsToOfCall(l) \cap PointsToOfCall(i) # {}}}

Edges == (UNION {FunctionEdges(f) : f \in BuiltFunctions}) \cup JoinEdges
Ends(edges) == {e[1] : e \in edges} \cup {e[2] : e \in edges}
Graph(edges) == [n \in Ends(edges) |-> {e[2] : e \in {d \in edges : d[1] = n}}]

Locks == {CallNode(l, "pthread_mutex_lock") : l \in CallsOf("pthread_mutex_lock")}

Predecessors(n) == Pred(graph, n)
OnStack == {stack[k][1] : k \in DOMAIN stack}
Current == stack[Len(stack)]
Pushed(n, todo) == Append(stack, <<n, todo>>)
Taken(s) == [stack EXCEPT ![Len(stack)] = <<Current[1], Current[2] \ {s}>>]
Popped == SubSeq(stack, 1, Len(stack) - 1)

(***************************************************************************)
(* Critical sections: a search from each lock until all its unlocks have   *)
(* been met.  From then on no visit goes further, in any branch.           *)
(***************************************************************************)
BuildCriticalSection ==
    /\ phase = "sections" /\ stack = <<>>
    /\ \E l \in Locks :
          /\ l[2] \notin DOMAIN section
          /\ unlocks' = CorrespondingUnlocks(l[2])
          /\ stack' = << <<l, IF unlocks' = {} THEN {} ELSE graph[l]>> >>
    /\ examined' = {}
    /\ UNCHANGED <<program, graph, phase, section, region>>

\* Fault: the first unlock ends the search.
VisitUntilAnyUnlock ==
    /\ phase = "sections" /\ stack # <<>>
    /\ \E s \in Current[2] :
          IF s \in OnStack \cup examined
            THEN stack' = Taken(s) /\ UNCHANGED unlocks
            ELSE /\ unlocks' = IF s \in unlocks THEN {} ELSE unlocks
                 /\ stack' = Append(Taken(s), <<s, IF unlocks' = {} THEN {} ELSE graph[s]>>)
    /\ UNCHANGED <<program, graph, phase, examined, section, region>>

VisitInSection ==
    /\ phase = "sections" /\ stack # <<>>
    /\ \E s \in Current[2] :
          IF s \in OnStack \cup examined
            THEN stack' = Taken(s) /\ UNCHANGED unlocks
            ELSE /\ unlocks' = unlocks \ {s}
                 /\ stack' = Append(Taken(s), <<s, IF unlocks' = {} THEN {} ELSE graph[s]>>)
    /\ UNCHANGED <<program, graph, phase, examined, section, region>>

PostVisit ==
    /\ phase = "sections" /\ stack # <<>> /\ Current[2] = {}
    /\ examined' = IF Len(stack) > 1 THEN examined \cup {Current[1]} ELSE {}
    /\ section' = IF Len(stack) > 1 THEN section
                  ELSE [l \in DOMAIN section \cup {Current[1][2]} |->
                           IF l = Current[1][2] THEN examined ELSE section[l]]
    /\ stack' = Popped
    /\ UNCHANGED <<program, graph, phase, unlocks, region>>

(***************************************************************************)
(* Regions: a search from the entry of main.  The edges between regions,   *)
(* which are only printed, are left out.                                   *)
(***************************************************************************)
StartRegions ==
    /\ phase = "sections" /\ stack = <<>>
    /\ {l[2] : l \in Locks} \subseteq DOMAIN section
    /\ phase' = "regions"
    /\ stack' = << <<Entry("main"), graph[Entry("main")]>> >>
    /\ region' = [n \in {Entry("main")} |-> Entry("main")]
    /\ UNCHANGED <<program, graph, examined, unlocks, section>>

\* Fault: where branches meet the region goes on.
NewRegionBetweenThreads(caller, successor) ==
    caller[1] \in {"EXIT", "FORK"} \/ successor[1] \in {"ENTRY", "JOIN"}

ShouldCreateNewRegion(caller, successor) ==
    \/ caller[1] \in {"EXIT", "FORK"}
    \/ successor[1] \in {"ENTRY", "JOIN"}
    \/ Cardinality(Predecessors(successor)) > 1

\* A node that was visited before is left alone: it founds its region.
VisitInRegion ==
    /\ phase = "regions" /\ stack # <<>>
    /\ \E s \in Current[2] :
          IF s \in OnStack \/ (s \in DOMAIN region /\ region[s] \in examined)
            THEN stack' = Taken(s) /\ UNCHANGED region
            ELSE /\ stack' = Append(Taken(s), <<s, graph[s]>>)
                 /\ region' = [n \in DOMAIN region \cup {s} |->
                        IF n # s THEN region[n]
                        ELSE IF ShouldCreateNewRegion(Current[1], s) THEN s ELSE region[Current[1]]]
    /\ UNCHANGED <<program, graph, phase, examined, unlocks, section>>

Examine ==
    /\ phase = "regions" /\ stack # <<>> /\ Current[2] = {}
    /\ stack' = Popped
    /\ IF Len(stack) = 1 THEN phase' = "run" /\ examined' = {}
       ELSE examined' = examined \cup {Current[1]} /\ UNCHANGED phase
    /\ UNCHANGED <<program, graph, unlocks, section, region>>

Init ==
    /\ program \in Programs
    /\ graph = Graph(Edges)
    /\ phase = "sections"
    /\ stack = <<>>
    /\ examined = {}
    /\ unlocks = {}
    /\ section = [l \in {} |-> {}]
    /\ region = [n \in {} |-> n]

Next ==
    \/ BuildCriticalSection \/ VisitInSection \/ PostVisit
    \/ StartRegions \/ VisitInRegion \/ Examine

(***************************************************************************)
(* The dependences that are added to the dependence graph, as pairs of     *)
(* instructions.                                                           *)
(***************************************************************************)
InstsOf(founder) == {n[2] : n \in {m \in DOMAIN region : region[m] = founder /\ ~ IsArtificial(m)}}
Loads(insts) == {i \in insts : program.inst[i].op = "load"}
Stores(insts) == {i \in insts : program.inst[i].op = "store"}

PointsToUnknown(i) == \E p \in program.inst[i].pts : p.obj = "unknown"

\* Fault: the unknown offset is an offset like others.
MayInterfereAtOffset(load, store) ==
    \/ program.inst[load].pts \cap program.inst[store].pts # {}
    \/ PointsToUnknown(load) \/ PointsToUnknown(store)

\* The offsets of the targets have to be equal: partial overlaps are not considered.
MayInterfere(load, store) ==
    \/ \E p \in program.inst[load].pts, q \in program.inst[store].pts :
          p.obj = q.obj /\ (p.off = q.off \/ Top \in {p.off, q.off})
    \/ PointsToUnknown(load) \/ PointsToUnknown(store)

\* No two regions are told apart: every region may run in parallel with every other.
ParallelRegions(founder) == {region[n] : n \in DOMAIN region}

InterferenceDependent(load, store) ==
    /\ MayInterfere(load, store)
    /\ \E p \in {region[n] : n \in DOMAIN region} : \E q \in ParallelRegions(p) :
          load \in Loads(InstsOf(p)) /\ store \in Stores(InstsOf(q))

\* The fork is control dependent on the join.
ForkJoinDependences ==
    UNION {{<<j, i>> : i \in CorrespondingForks(j)} : j \in CallsOf("pthread_join")}

CriticalSectionDependences ==
    UNION {{<<l, n[2]>> : n \in {m \in section[l] : ~ IsArtificial(m)}}
           \cup {<<u[2], l>> : u \in CorrespondingUnlocks(l)} : l \in DOMAIN section}
=============================================================================
