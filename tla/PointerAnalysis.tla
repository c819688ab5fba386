--------------------------- MODULE PointerAnalysis ---------------------------
(***************************************************************************)
(* The flow-insensitive pointer analysis (PointerAnalysisFI) of a pointer  *)
(* graph: it processes the nodes of the graph in breadth-first order, then *)
(* again those reachable from the nodes that changed something, until      *)
(* nothing changes.  Calls through pointers, threads and joins add edges   *)
(* to the graph while it runs.                                             *)
(*                                                                         *)
(* A node stands for the pointers it may have, "pts", and an allocation    *)
(* also for the pointers that may be stored in its memory, "mem".          *)
(***************************************************************************)
EXTENDS Integers, FiniteSets, SequencesExt

CONSTANTS
    Node,          \* nodes of the pointer graphs
    Null, Unknown, \* NULLPTR and UNKNOWN_MEMORY: operands, and targets of pointers
    UnknownOffset, \* Offset::UNKNOWN
    MaxOffset,     \* bound: no memory is larger
    Programs       \* the programs considered, see ProgramType

ASSUME PointerAssumption ==
    /\ IsFiniteSet(Node)
    /\ MaxOffset \in Nat /\ UnknownOffset \notin Int
    /\ Null \notin Node /\ Unknown \notin Node /\ Null # Unknown

Operand == Node \cup {Null, Unknown}
Offset == (0 .. MaxOffset) \cup {UnknownOffset}
Pointer == Operand \X Offset

NullPointer == <<Null, 0>>
UnknownPointer == <<Unknown, UnknownOffset>>

Types == {"ALLOC", "FUNCTION", "CONSTANT", "LOAD", "STORE", "GEP", "PHI", "CAST", 
          "MEMCPY", "CALL", "CALL_FUNCPTR", "CALL_RETURN", "ENTRY", "RETURN",
          "FORK", "JOIN", "NOOP"}

ProgramType ==
    [type : [Node -> Types],
     operands : [Node -> Seq(Operand)],  \* FORK: function, handle; JOIN: the handle, the
                                         \* call has no place for the thread's value
     succ : [Node -> SUBSET Node],       \* edges inside a procedure
     arg : [Node -> Offset],             \* GEP, CONSTANT: offset; MEMCPY: length
     size : [Node -> 0 .. MaxOffset],
     zero : SUBSET Node,                 \* allocations initialised to zero
     globals : Seq(Node),
     root : Node,
     entry : [Node -> Node \cup {Unknown}], \* FUNCTION: its ENTRY; Unknown if only declared
     formals : [Node -> Seq(Node)],      \* FUNCTION: the PHIs of its arguments
     rets : [Node -> SUBSET Node],       \* FUNCTION: its RETURNs
     calls : [Node -> SUBSET Node],      \* CALL: the function, FORK: that if it is known
     actuals : [Node -> Seq(Operand)],   \* calls and FORKs
     callReturn : [Node -> Node],        \* calls with a callee
     fieldSensitivity : Nat \ {0},
     maxIterations : Nat]

\* Operands that a node of a type has at least, those the program gives a CALL_RETURN,
\* RETURN or PHI aside.
Arity(t) == CASE t \in {"STORE", "MEMCPY", "FORK"} -> 2
              [] t \in {"CONSTANT", "LOAD", "GEP", "CAST", "CALL_FUNCPTR", "JOIN"} -> 1
              [] OTHER -> 0

\* The functions that are called by name are defined.
ASSUME ProgramsAssumption ==
    /\ Programs \subseteq ProgramType
    /\ \A p \in Programs : \A x \in Node :
          /\ Len(p.operands[x]) >= Arity(p.type[x])
          /\ \A f \in p.calls[x] : p.entry[f] # Unknown

VARIABLES
    program,   \* constant
    phase,     \* "globals", "queue", "process" or "done"
    pts,       \* pts[n]: PSNode::pointsTo
    mem,       \* mem[a][o]: the pointers in memory object a at offset o
    zero,      \* allocations that are marked as zero-initialised
    callees,   \* callees[c]: functions that a call or FORK is connected to
    joins,     \* joins[j]: functions of the threads that a JOIN may wait for
    queue,     \* nodes getNodes found and has not taken yet, first to last
    seen,      \* nodes it has found
    toProcess, \* nodes still to be processed in this iteration, first to last
    changed,   \* processed nodes of this iteration that changed something
    n          \* iterations begun, if their number is limited

graph == <<callees, joins>>
points == <<pts, mem, zero>>
vars == <<program, phase, points, graph, queue, seen, toProcess, changed, n>>

Type(x) == IF x \in Node THEN program.type[x] ELSE "NONE"
IsCall(x) == Type(x) \in {"CALL", "CALL_FUNCPTR"}
SizeOf(t) == IF t \in Node THEN program.size[t] ELSE 0

TypeOK ==
    /\ phase \in {"globals", "queue", "process", "done"}
    /\ pts \in [Node -> SUBSET Pointer]
    /\ mem \in [Node -> [Offset -> SUBSET Pointer]]
    /\ zero \subseteq Node
    /\ callees \in [Node -> SUBSET Node] /\ joins \in [Node -> SUBSET Node]
    /\ queue \in Seq(Node) /\ seen \subseteq Node
    /\ toProcess \in Seq(Node) /\ changed \in Seq(Node)
    /\ n \in Nat

(***************************************************************************)
(* The graph.                                                              *)
(***************************************************************************)
\* The calls and FORKs whose actual arguments function f gets.
CallersOf(f) == {c \in Node : f \in callees[c]}

\* Operands: those in the program, and of an argument those of all the callers, of a
\* CALL_RETURN the RETURNs of all the callees.
OperandsOf(x) ==
    ToSet(program.operands[x])
    \cup {a \in Operand : \E f \in Node : \E c \in CallersOf(f) :
              \E i \in DOMAIN program.formals[f] :
                 /\ program.formals[f][i] = x
                 /\ i \in DOMAIN program.actuals[c] /\ program.actuals[c][i] = a}
    \cup {r \in Node : \E c \in Node :
              /\ IsCall(c) /\ program.callReturn[c] = x /\ Type(x) = "CALL_RETURN"
              /\ \E f \in callees[c] : r \in program.rets[f]}

ReturnSites(r) ==
    {program.callReturn[c] : c \in
        {d \in Node : IsCall(d) /\ \E f \in callees[d] : r \in program.rets[f]}}

\* Where getNodes goes from x: not past a call with a callee, which it enters, and
\* from a RETURN only to the return sites if it has any.
WalkEdges(x) ==
    LET entries == {program.entry[f] : f \in callees[x]}
        joined == {j \in Node : \E f \in joins[j] : x \in program.rets[f]}
    IN  CASE IsCall(x) /\ callees[x] # {} -> entries
          [] Type(x) = "RETURN" /\ ReturnSites(x) # {} -> ReturnSites(x)
          [] OTHER -> program.succ[x] \cup joined
                      \cup (IF Type(x) = "FORK" THEN entries ELSE {})

(***************************************************************************)
(* Points-to sets (PointerIdPointsToSet).  A pointer with an unknown       *)
(* offset stands for all the pointers to its target: adding it one by one  *)
(* replaces them, the union of two sets does not.                          *)
(***************************************************************************)
AnyOffset(p) == <<p[1], UnknownOffset>>

Covers(S, p) == p \in S \/ AnyOffset(p) \in S

\* Fault: a pointer with an unknown offset replaces the pointers to other targets.
AddEachForgets(S, P) ==
    IF \E p \in P : p[2] = UnknownOffset /\ p \notin S THEN P ELSE S \cup P

AddEach(S, P) ==
    {p \in S : AnyOffset(p) \in S \/ AnyOffset(p) \notin P}
    \cup {p \in P : AnyOffset(p) \notin S /\ (p[2] = UnknownOffset \/ AnyOffset(p) \notin P)}

PointsTo(x) ==
    IF x = Null THEN {NullPointer} ELSE IF x = Unknown THEN {UnknownPointer} ELSE pts[x]

CanBeDereferenced(p) == p[1] \in Node /\ Type(p[1]) # "FUNCTION"

\* Fault: a load at a known offset ignores what was stored at an unknown one.
LoadKnownOffsetOnly(p) ==
    CASE p[1] = Unknown -> {UnknownPointer}
      [] p[1] # Unknown /\ ~ CanBeDereferenced(p) -> {}
      [] OTHER -> mem[p[1]][p[2]]

\* The pointers that can be loaded through p: an unknown offset reads all of the
\* object, a known one what was stored there or at an unknown offset.
LoadThrough(p) ==
    LET read == IF p[2] = UnknownOffset THEN Offset ELSE {p[2]}
        found == UNION {mem[p[1]][o] : o \in read}
    IN  CASE p[1] = Unknown -> {UnknownPointer}
          [] p[1] # Unknown /\ ~ CanBeDereferenced(p) -> {}
          [] OTHER -> found \cup mem[p[1]][UnknownOffset]
                      \cup (IF found = {} /\ p[1] \in zero THEN {NullPointer} ELSE {})

\* processGep: offsets outside of the memory, or too large to be tracked, are unknown.
Shift(p, by) ==
    IF p[2] = UnknownOffset \/ by = UnknownOffset THEN AnyOffset(p)
    ELSE LET o == p[2] + by IN
         IF (o = 0 \/ o < SizeOf(p[1])) /\ o < program.fieldSensitivity
           THEN <<p[1], o>> ELSE AnyOffset(p)

\* The nodes of the procedures that there are before anything is processed: those
\* that a call or FORK by name leads to.
BuiltAtStart ==
    LET with(x) == {x} \cup program.succ[x] \cup {program.entry[f] : f \in program.calls[x]}
                   \cup (IF IsCall(x) /\ program.calls[x] # {} THEN {program.callReturn[x]} ELSE {})
        r[i \in Nat] == IF i = 0 THEN {program.root} ELSE UNION {with(x) : x \in r[i - 1]}
    IN  r[Cardinality(Node)]

InLoop(x) ==
    LET r[i \in Nat] == IF i = 0 THEN {}
                        ELSE program.succ[x] \cup UNION {program.succ[y] : y \in r[i - 1]}
    IN  x \in r[Cardinality(Node)]

\* preprocessGEPs: the offset of a GEP in a loop of its procedure is unknown, if the
\* procedure is there at the start.
GepOffset(x) == IF InLoop(x) /\ x \in BuiltAtStart THEN UnknownOffset ELSE program.arg[x]

\* What a node that computes a pointer computes from the present sets.
Computed(x) ==
    LET ops == UNION {PointsTo(o) : o \in OperandsOf(x)} IN
    CASE Type(x) = "LOAD" -> pts[x] \cup UNION {LoadThrough(p) : p \in ops}
      [] Type(x) = "GEP" -> AddEach(pts[x], {Shift(p, GepOffset(x)) : p \in ops})
      [] OTHER -> pts[x] \cup ops

(***************************************************************************)
(* Memory.                                                                 *)
(***************************************************************************)
Stored(x) ==
    [a \in Node |-> [o \in Offset |->
        mem[a][o] \cup
        (IF <<a, o>> \in {p \in PointsTo(program.operands[x][2]) : CanBeDereferenced(p)}
           THEN PointsTo(program.operands[x][1]) ELSE {})]]

\* processMemcpy: what is at offset o of the source p goes where to points plus the
\* distance of o from p, or to the unknown offset if one of the three is unknown or
\* the sum is not inside.  If the source is marked as zero, null may be anywhere.
CopiedFrom(x, p, o) ==
    \/ o = UnknownOffset \/ p[2] = UnknownOffset
    \/ p[2] <= o /\ (program.arg[x] = UnknownOffset \/ o - p[2] < program.arg[x])

CopiedTo(p, o, to) ==
    IF UnknownOffset \in {o, p[2], to[2]} THEN UnknownOffset
    ELSE LET off == o - p[2] + to[2] IN
         IF off < SizeOf(to[1]) /\ off < program.fieldSensitivity THEN off ELSE UnknownOffset

\* The memory becomes marked as zero: all of a zeroed source of the same size is copied.
Zeroed(x, p, to) ==
    /\ p[1] \in zero /\ p[2] = 0
    /\ SizeOf(p[1]) = SizeOf(to[1]) /\ program.arg[x] = SizeOf(p[1])

Sources(x) == {p \in PointsTo(program.operands[x][1]) : CanBeDereferenced(p)}
Targets(x) == {p \in PointsTo(program.operands[x][2]) : CanBeDereferenced(p)}

Copies(x, a, o) ==
    {c \in Sources(x) \X Targets(x) \X Offset :
        c[2][1] = a /\ CopiedFrom(x, c[1], c[3]) /\ o = CopiedTo(c[1], c[3], c[2])}

CopiesNull(x, a) ==
    \E p \in Sources(x) : \E to \in Targets(x) :
        to[1] = a /\ p[1] \in zero /\ ~ Zeroed(x, p, to)

\* What a MEMCPY adds to memory object a at offset o.
CopiedInto(x, a, o) ==
    {p \in {NullPointer} : o = UnknownOffset /\ CopiesNull(x, a)}
    \cup UNION {mem[c[1][1]][c[3]] : c \in Copies(x, a, o)}

Copied(x) ==
    [a \in Node |-> [o \in Offset |-> mem[a][o] \cup CopiedInto(x, a, o)]]

(***************************************************************************)
(* The actions process the first node of toProcess.  A node has changed    *)
(* something if a set of pointers grew or a JOIN got an edge; a mark as    *)
(* zero-initialised does not count.                                        *)
(***************************************************************************)
\* Fault: a node that has pointers counts as changed.
TakeChanged(x) ==
    /\ toProcess' = Tail(toProcess)
    /\ changed' = IF pts'[x] # {} \/ mem' # mem \/ joins' # joins
                    THEN Append(changed, x) ELSE changed
    /\ UNCHANGED <<program, phase, queue, seen, n>>

Take(x) ==
    /\ toProcess' = Tail(toProcess)
    /\ changed' = IF pts' # pts \/ mem' # mem \/ joins' # joins
                    THEN Append(changed, x) ELSE changed
    /\ UNCHANGED <<program, phase, queue, seen, n>>

ProcessValue(x) ==
    /\ Type(x) \in {"LOAD", "GEP", "CAST", "PHI", "RETURN", "CALL_RETURN"}
    /\ pts' = [pts EXCEPT ![x] = Computed(x)]
    /\ UNCHANGED <<mem, zero, graph>>
    /\ Take(x)

ProcessStore(x) ==
    /\ Type(x) = "STORE"
    /\ mem' = Stored(x)
    /\ UNCHANGED <<pts, zero, graph>>
    /\ Take(x)

ProcessMemcpy(x) ==
    /\ Type(x) = "MEMCPY"
    /\ mem' = Copied(x)
    /\ zero' = zero \cup {a \in Node : \E p \in Sources(x) : \E to \in Targets(x) :
                             to[1] = a /\ Zeroed(x, p, to)}
    /\ UNCHANGED <<pts, graph>>
    /\ Take(x)

\* The functions among the new pointers of a CALL_FUNCPTR or FORK.
NewFunctions(x) ==
    LET functions == {p \in PointsTo(program.operands[x][1]) : Type(p[1]) = "FUNCTION"}
    IN  AddEach(pts[x], functions) \ pts[x]

Defined(f) == program.entry[f] # Unknown

\* functionPointerCall: a defined function is connected to the call, one that is only
\* declared may return any pointer.
ProcessFuncptr(x) ==
    /\ Type(x) = "CALL_FUNCPTR"
    /\ LET new == NewFunctions(x)
           called == {p[1] : p \in new}
           found == [pts EXCEPT ![x] = AddEach(@, new)]
           ret == program.callReturn[x]
       IN  /\ callees' = [callees EXCEPT ![x] = @ \cup {f \in called : Defined(f)}]
           /\ pts' = IF \A f \in called : Defined(f) THEN found
                     ELSE [found EXCEPT ![ret] = AddEach(@, {UnknownPointer})]
    /\ UNCHANGED <<mem, zero, joins>>
    /\ Take(x)

\* handleFork: the thread's function is connected to the FORK.  The analysis ends at
\* an assertion of buildFunction if it is only declared.
ProcessFork(x) ==
    /\ Type(x) = "FORK"
    /\ \A p \in NewFunctions(x) : Defined(p[1])
    /\ pts' = [pts EXCEPT ![x] = AddEach(@, NewFunctions(x))]
    /\ callees' = [callees EXCEPT ![x] = @ \cup {p[1] : p \in NewFunctions(x)}]
    /\ UNCHANGED <<mem, zero, joins>>
    /\ Take(x)

\* matchJoinToRightCreate: the threads whose handle may be that of the JOIN.
Matching(x) ==
    {k \in Node :
        /\ Type(k) = "FORK"
        /\ \E p \in PointsTo(program.operands[k][2]) :
              \E q \in PointsTo(program.operands[x][1]) : p[1] = q[1]}

ThreadFunctions(k) ==
    LET f == program.operands[k][1] IN
    IF Type(f) = "FUNCTION" THEN {f}
    ELSE {p[1] : p \in {q \in PointsTo(f) : Type(q[1]) = "FUNCTION"}}

\* The thread's returns lead to the JOIN.  Its value is not stored: see ProgramType.
ProcessJoin(x) ==
    /\ Type(x) = "JOIN"
    /\ joins' = [joins EXCEPT ![x] = @ \cup UNION {ThreadFunctions(k) : k \in Matching(x)}]
    /\ UNCHANGED <<pts, mem, zero, callees>>
    /\ Take(x)

ProcessOther(x) ==
    /\ Type(x) \in {"ALLOC", "FUNCTION", "CONSTANT", "CALL", "ENTRY", "NOOP"}
    /\ UNCHANGED <<points, graph>>
    /\ Take(x)

Process ==
    /\ phase \in {"globals", "process"} /\ toProcess # <<>>
    /\ LET x == Head(toProcess) IN
       \/ ProcessValue(x) \/ ProcessStore(x) \/ ProcessMemcpy(x) \/ ProcessFuncptr(x)
       \/ ProcessFork(x) \/ ProcessJoin(x) \/ ProcessOther(x)

(***************************************************************************)
(* getNodes: a breadth-first search from the nodes in "start".  The order  *)
(* in which it finds the successors of one node is that of the program.    *)
(***************************************************************************)
Search(start) == queue' = start /\ seen' = ToSet(start) /\ phase' = "queue"

Visit ==
    /\ phase = "queue" /\ queue # <<>>
    /\ LET x == Head(queue) IN
       /\ toProcess' = Append(toProcess, x)
       /\ \E found \in SetToSeqs(WalkEdges(x) \ seen) : queue' = Tail(queue) \o found
       /\ seen' = seen \cup WalkEdges(x)
    /\ UNCHANGED <<program, phase, points, graph, changed, n>>

\* The globals are processed once, in the order of their creation.
GlobalsDone ==
    /\ phase = "globals" /\ toProcess = <<>>
    /\ changed' = <<>>
    /\ Search(<<program.root>>)
    /\ UNCHANGED <<program, points, graph, toProcess, n>>

GaveUp == program.maxIterations > 0 /\ n > program.maxIterations

Iterate ==
    /\ phase = "queue" /\ queue = <<>> /\ ~ GaveUp
    /\ n' = IF program.maxIterations > 0 THEN n + 1 ELSE n
    /\ phase' = "process"
    /\ UNCHANGED <<program, points, graph, queue, seen, toProcess, changed>>

\* setToEmpty: after maxIterations the nodes still to be processed have no pointers,
\* which the users of the analysis take for any pointer.
GiveUp ==
    /\ phase = "queue" /\ queue = <<>> /\ GaveUp
    /\ pts' = [x \in Node |-> IF x \in ToSet(toProcess) /\ Type(x) \notin {"ALLOC", "CONSTANT"}
                                THEN {} ELSE pts[x]]
    /\ toProcess' = <<>>
    /\ phase' = "done"
    /\ UNCHANGED <<program, mem, zero, graph, queue, seen, changed, n>>

QueueChanged ==
    /\ phase = "process" /\ toProcess = <<>> /\ changed # <<>>
    /\ changed' = <<>>
    /\ Search(changed)
    /\ UNCHANGED <<program, points, graph, toProcess, n>>

Fixpoint ==
    /\ phase = "process" /\ toProcess = <<>> /\ changed = <<>>
    /\ phase' = "done"
    /\ UNCHANGED <<program, points, graph, queue, seen, toProcess, changed, n>>

Init ==
    /\ program \in Programs
    /\ phase = "globals"
    /\ pts = [x \in Node |->
                 CASE program.type[x] \in {"ALLOC", "FUNCTION"} -> {<<x, 0>>}
                   [] program.type[x] = "CONSTANT" -> {<<program.operands[x][1], program.arg[x]>>}
                   [] OTHER -> {}]
    /\ mem = [x \in Node |-> [o \in Offset |-> {}]]
    /\ zero = program.zero
    /\ callees = program.calls
    /\ joins = [x \in Node |-> {}]
    /\ queue = <<>> /\ seen = {} /\ toProcess = program.globals /\ changed = <<>>
    /\ n = 0

Next ==
    \/ Process \/ GlobalsDone \/ Visit \/ Iterate \/ GiveUp \/ QueueChanged \/ Fixpoint

Spec == Init /\ [][Next]_vars /\ WF_vars(Next)

-----------------------------------------------------------------------------
\* While the analysis runs it only adds pointers, though one with an unknown offset may
\* replace those to the same target.
NothingLost ==
    [][phase' # "done" => \A x \in Node : \A p \in pts[x] : Covers(pts'[x], p)]_vars
=============================================================================
