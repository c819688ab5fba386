----------------------------- MODULE PointerRun -----------------------------
(***************************************************************************)
(* The program that was analysed runs, one instruction of one thread at a  *)
(* time, after the analysis has stopped: what its registers hold then has  *)
(* to be among the pointers that the analysis reports.                     *)
(*                                                                         *)
(* An allocation is one object and a register is one value, so a program   *)
(* allocates once at each site and does not call a function recursively.   *)
(***************************************************************************)
EXTENDS PointerAnalysis, FlowGraph

CONSTANTS
    Thread, Main,  \* Main \in Thread
    NoValue        \* contents of a register or memory before the first write

ASSUME RunAssumption == Main \in Thread /\ NoValue \notin Pointer \cup Operand

\* The nodes of the body of function f.
Body(p, f) ==
    Reachable([x \in Node |-> p.succ[x] \cup {y \in {p.callReturn[x]} :
                                                p.type[x] \in {"CALL", "CALL_FUNCPTR"}}],
              {p.entry[f]})

\* What the builder asserts of the graph: the arguments of a function are PHIs that follow
\* one another after its ENTRY, it knows the RETURNs in the body, and a call that may have
\* a callee has a CALL_RETURN.
ASSUME StructureAssumption ==
    \A p \in Programs :
       /\ \A f \in Node : \A i \in DOMAIN p.formals[f] : p.type[p.formals[f][i]] = "PHI"
       /\ \A f \in {g \in Node : p.entry[g] # Unknown} :
             /\ p.type[p.entry[f]] = "ENTRY"
             /\ {r \in Body(p, f) : p.type[r] = "RETURN"} \subseteq p.rets[f]
             /\ \A i \in DOMAIN p.formals[f] :
                   p.formals[f][i] \in p.succ[IF i = 1 THEN p.entry[f] ELSE p.formals[f][i - 1]]
       /\ \A c \in Node :
             p.type[c] = "CALL_FUNCPTR" \/ (p.type[c] = "CALL" /\ p.calls[c] # {}) =>
                 p.type[p.callReturn[c]] = "CALL_RETURN"

VARIABLES
    reg,   \* reg[x]: the pointer that node x computed last, or NoValue
    cell,  \* cell[a][o]: the pointer that memory a holds at offset o, or NoValue
    at,    \* at[t]: the next node of thread t, NoValue if there is none
    stack  \* stack[t]: the calls in which the thread is

run == <<reg, cell, at, stack>>

ValueOf(x) == IF x = Null THEN NullPointer ELSE IF x \in Node THEN reg[x] ELSE NoValue
OperandValue(x, i) == ValueOf(program.operands[x][i])

\* An access to anything but a part of an object is undefined behaviour, as is the use
\* of an undefined value, and no program considered goes on after it.
Accessible(v) == v # NoValue /\ CanBeDereferenced(v) /\ v[2] < program.size[v[1]]

\* The next node of thread t, if the node it is at ends a procedure there is none.
StepTo(t) ==
    LET next == {y \in program.succ[at[t]] : Type(y) # "FORK"} IN
    IF next = {} THEN at' = [at EXCEPT ![t] = NoValue]
    ELSE \E y \in next : at' = [at EXCEPT ![t] = y]

IsFormal(x) == \E f \in Node : \E i \in DOMAIN program.formals[f] : program.formals[f][i] = x

Results(x) ==
    CASE Type(x) = "LOAD" ->
           {cell[v[1]][v[2]] : v \in {w \in {OperandValue(x, 1)} : Accessible(w)}}
      [] Type(x) = "GEP" ->
           {p \in Node \X (0 .. MaxOffset) :
               LET v == OperandValue(x, 1) IN
               /\ v # NoValue /\ p[1] = v[1] /\ p[2] <= program.size[p[1]]
               /\ program.arg[x] \in {p[2] - v[2], UnknownOffset}}
      [] Type(x) = "PHI" /\ ~ IsFormal(x) ->
           {OperandValue(x, i) : i \in DOMAIN program.operands[x]} \ {NoValue}
      [] Type(x) = "CAST" -> {OperandValue(x, 1)}
      [] OTHER -> {}

RunValue(t) ==
    /\ \E v \in Results(at[t]) : reg' = [reg EXCEPT ![at[t]] = v]
    /\ StepTo(t)
    /\ UNCHANGED <<cell, stack>>

RunStore(t) ==
    LET x == at[t]  to == OperandValue(x, 2) IN
    /\ Type(x) = "STORE" /\ Accessible(to)
    /\ cell' = [cell EXCEPT ![to[1]][to[2]] = OperandValue(x, 1)]
    /\ StepTo(t)
    /\ UNCHANGED <<reg, stack>>

RunMemcpy(t) ==
    LET x == at[t]  from == OperandValue(x, 1)  to == OperandValue(x, 2) IN
    /\ Type(x) = "MEMCPY" /\ Accessible(from) /\ Accessible(to)
    /\ \E len \in 1 .. MaxOffset :
          /\ program.arg[x] \in {len, UnknownOffset}
          /\ from[2] + len <= program.size[from[1]] /\ to[2] + len <= program.size[to[1]]
          /\ cell' = [cell EXCEPT ![to[1]] =
                [o \in Offset |-> IF o # UnknownOffset /\ o \in to[2] .. to[2] + len - 1
                                    THEN cell[from[1]][o - to[2] + from[2]] ELSE @[o]]]
    /\ StepTo(t)
    /\ UNCHANGED <<reg, stack>>

\* The formal arguments of f get the actual ones of x, as far as there are any.
PassArguments(x, f) ==
    LET position(y) == {i \in DOMAIN program.formals[f] : program.formals[f][i] = y}
        passed(i) == IF i \in DOMAIN program.actuals[x] THEN ValueOf(program.actuals[x][i])
                     ELSE NoValue
    IN  reg' = [y \in Node |-> IF position(y) = {} THEN reg[y]
                               ELSE passed(CHOOSE i \in position(y) : TRUE)]

RunCall(t) ==
    LET x == at[t]
        callee == IF Type(x) = "CALL" THEN program.calls[x]
                  ELSE {v[1] : v \in {w \in {OperandValue(x, 1)} :
                                        w # NoValue /\ Type(w[1]) = "FUNCTION"}}
    IN  /\ IsCall(x)
        /\ \E f \in {g \in callee : Defined(g)} :
              /\ at' = [at EXCEPT ![t] = program.entry[f]]
              /\ stack' = [stack EXCEPT ![t] = <<x>> \o @]
              /\ PassArguments(x, f)
        /\ UNCHANGED cell

\* A call of pthread_create starts a thread, a FORK is a branch of it.
RunFork(t) ==
    LET forks == {y \in program.succ[at[t]] : Type(y) = "FORK"} IN
    /\ Type(at[t]) = "CALL" /\ program.calls[at[t]] = {}
    /\ \E y \in forks : \E new \in {u \in Thread : at[u] = NoValue} :
          LET v == OperandValue(y, 1) IN
          /\ v # NoValue /\ Type(v[1]) = "FUNCTION" /\ Defined(v[1])
          /\ PassArguments(y, v[1])
          /\ stack' = [stack EXCEPT ![new] = <<>>]
          /\ \E next \in program.succ[at[t]] \ forks :
                at' = [at EXCEPT ![t] = next, ![new] = program.entry[v[1]]]
    /\ UNCHANGED cell

RunReturn(t) ==
    LET x == at[t]  ret == program.callReturn[Head(stack[t])] IN
    /\ Type(x) = "RETURN"
    /\ IF stack[t] = <<>>
         THEN at' = [at EXCEPT ![t] = NoValue] /\ UNCHANGED <<reg, stack>>
         ELSE /\ at' = [at EXCEPT ![t] = ret]
              /\ stack' = [stack EXCEPT ![t] = Tail(@)]
              /\ reg' = [reg EXCEPT ![ret] = IF program.operands[x] = <<>> THEN NoValue
                                             ELSE OperandValue(x, 1)]
    /\ UNCHANGED cell

\* A thread waits for all the others.
RunOther(t) ==
    /\ \/ Type(at[t]) \in {"ENTRY", "NOOP", "CALL_RETURN", "ALLOC"}
       \/ IsFormal(at[t])
       \/ Type(at[t]) = "JOIN" /\ \A u \in Thread \ {t} : at[u] = NoValue
    /\ StepTo(t)
    /\ UNCHANGED <<reg, cell, stack>>

RunStep ==
    /\ phase = "done"
    /\ \E t \in Thread : at[t] # NoValue /\
          \/ RunValue(t) \/ RunStore(t) \/ RunMemcpy(t) \/ RunCall(t)
          \/ RunFork(t) \/ RunReturn(t) \/ RunOther(t)
    /\ UNCHANGED vars

\* Initially memory holds what the initialisers of the globals store.  A constant with an
\* unknown offset has any.
InitialValue(x, offset) ==
    CASE Type(x) \in {"ALLOC", "FUNCTION"} -> <<x, 0>>
      [] Type(x) = "CONSTANT" -> <<program.operands[x][1], offset[x]>>
      [] OTHER -> NoValue

InitialCell(a, o) ==
    LET stores == {s \in ToSet(program.globals) :
                     Type(s) = "STORE" /\ ValueOf(program.operands[s][2]) = <<a, o>>}
    IN  IF stores # {} THEN ValueOf(program.operands[CHOOSE s \in stores : TRUE][1])
        ELSE IF a \in program.zero THEN NullPointer ELSE NoValue

RunStart ==
    /\ \E offset \in [{x \in Node : Type(x) = "CONSTANT"} -> 0 .. MaxOffset] :
          /\ \A x \in DOMAIN offset : program.arg[x] \in {offset[x], UnknownOffset}
          /\ reg = [x \in Node |-> InitialValue(x, offset)]
    /\ cell = [a \in Node |-> [o \in Offset |-> InitialCell(a, o)]]
    /\ at = [t \in Thread |-> IF t = Main THEN program.root ELSE NoValue]
    /\ stack = [t \in Thread |-> <<>>]

RunInit == Init /\ RunStart

RunNext == (Next /\ UNCHANGED run) \/ RunStep

RunSpec == RunInit /\ [][RunNext]_<<vars, run>> /\ WF_vars(Next /\ UNCHANGED run)

-----------------------------------------------------------------------------
\* The nodes that the search of the analysis finds, at the end, from those in S.
Found(S) == Reachable([x \in Node |-> WalkEdges(x)], S)
Walked == Found({program.root})

\* Nodes that a thread may be at after node y has its value or has written to memory: an
\* argument has its value from the ENTRY on, and with threads any order is possible.
After(y) ==
    IF \E x \in Walked : Type(x) = "FORK" THEN Walked
    ELSE Found({y} \cup {program.entry[f] : f \in
                  {g \in Node : Defined(g) /\ y \in ToSet(program.formals[g])}})

IsFixed(o) == o \notin Node \/ Type(o) \in {"ALLOC", "FUNCTION", "CONSTANT"}

\* What the operands of x point to that may have a value when x is executed, and what may be
\* in memory object a at offset o then.
OperandsAt(x) == UNION {PointsTo(p) : p \in {o \in OperandsOf(x) : IsFixed(o) \/ x \in After(o)}}

Wrote(y, a, o) ==
    IF Type(y) = "MEMCPY" THEN CopiedInto(y, a, o)
    ELSE UNION {PointsTo(program.operands[y][1]) :
                   p \in {q \in Targets(y) : q = <<a, o>>}}

Writers == {y \in ToSet(program.globals) \cup Walked : Type(y) \in {"STORE", "MEMCPY"}}

MemoryAt(x, a, o) ==
    UNION {Wrote(y, a, o) : y \in {w \in Writers : w \in ToSet(program.globals) \/ x \in After(w)}}

LoadedAt(x, p) ==
    IF ~ CanBeDereferenced(p) THEN {}
    ELSE UNION {MemoryAt(x, p[1], o) : o \in IF p[2] = UnknownOffset THEN Offset
                                             ELSE {p[2], UnknownOffset}}

\* To process node x once more would add nothing that is there when x is executed.
AddsNothing(x) ==
    /\ Type(x) = "LOAD" => \A p \in OperandsAt(x) : LoadedAt(x, p) \subseteq pts[x]
    /\ Type(x) = "GEP" => \A p \in OperandsAt(x) : Covers(pts[x], Shift(p, GepOffset(x)))
    /\ Type(x) \in {"CAST", "PHI", "RETURN", "CALL_RETURN"} => OperandsAt(x) \subseteq pts[x]
    /\ Type(x) = "STORE" => Stored(x) = mem
    /\ Type(x) = "MEMCPY" => Copied(x) = mem
    /\ Type(x) \in {"CALL_FUNCPTR", "FORK"} => NewFunctions(x) = {}

\* The analysis stopped where nothing more is to be found.
Settled ==
    /\ phase = "done" /\ ~ GaveUp
    /\ \A x \in Writers \cup Walked : AddsNothing(x)

\* Every pointer that the running program computes is one that the analysis reports for
\* the node, or the analysis reports none, which its users take for any pointer.  In
\* particular it is enough to process again what is reachable from the changed nodes.
Sound ==
    phase = "done" =>
        \A x \in Node : reg[x] # NoValue /\ pts[x] # {} =>
            Covers(pts[x], reg[x]) \/ UnknownPointer \in pts[x]

\* The analysis stops, and unless it gives up it stops where nothing more is to be found.
Terminates == <>(Settled \/ (phase = "done" /\ GaveUp))
=============================================================================
