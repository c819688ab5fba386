---------------------------- MODULE ValueRelations ----------------------------
(***************************************************************************)
(* Relations between the values of a program: at every location (the state *)
(* before an instruction) the classes of equal values, the values that     *)
(* reads are known to return, and comparisons learnt from branches.        *)
(*                                                                         *)
(* A program P has instructions P.inst of the form [op, arg, n] (constants *)
(* and arguments have numbers, too), blocks of instruction numbers, the    *)
(* sequence of successors and the function of each block, and the entry    *)
(* block and arguments of each function.  External calls have callee 0.    *)
(***************************************************************************)
EXTENDS Integers, Sequences, FiniteSets

CONSTANT Programs

VARIABLES
    prog,       \* constant: the program
    order,      \* constant: order of the pointers of values and blocks, "up" or "down"
    fixed,      \* fixedMemory and fixedValues of the analysis
    locs,       \* the location of each instruction
    phase,      \* "run", "pass" and "done"
    position,   \* number of blocks the sweep of run() is done with
    changed,    \* whether this sweep changed something
    passed      \* whether relations were passed from call sites

analysisVars == <<prog, order, fixed, locs, phase, position, changed, passed>>

NoValue == 0

Op(P, v) == P.inst[v].op
Operand(P, v, k) == P.inst[v].arg[k]
Users(P, v) == {i \in DOMAIN P.inst : \E k \in DOMAIN P.inst[i].arg : Operand(P, i, k) = v}
BlockOf(P, i) == CHOOSE b \in DOMAIN P.blocks : \E k \in DOMAIN P.blocks[b] : P.blocks[b][k] = i
IndexOf(P, i) == CHOOSE k \in DOMAIN P.blocks[BlockOf(P, i)] : P.blocks[BlockOf(P, i)][k] = i
First(P, b) == P.blocks[b][1]
Terminator(P, b) == P.blocks[b][Len(P.blocks[b])]

\* The members of a set of numbers in the order of their pointers.
RECURSIVE InOrder(_, _)
InOrder(S, ord) ==
    IF S = {} THEN <<>>
    ELSE LET x == CHOOSE y \in S : \A z \in S : IF ord = "up" THEN y <= z ELSE y >= z
         IN  <<x>> \o InOrder(S \ {x}, ord)

-----------------------------------------------------------------------------
(* EqualityMap: a set of disjoint classes.                                   *)

Class(E, v) == UNION {c \in E : v \in c}

AddEqual(E, a, b) ==
    LET C == {c \in E : a \in c \/ b \in c} IN (E \ C) \cup {UNION C \cup {a, b}}

RECURSIVE AddEqualities(_, _)
AddEqualities(E, D) ==
    IF D = {} THEN E
    ELSE LET c == CHOOSE x \in D : TRUE
             met == {e \in E : e \cap c # {}}
         IN  AddEqualities((E \ met) \cup {UNION met \cup c}, D \ {c})

-----------------------------------------------------------------------------
(* ReadsMap: a later entry for a pointer replaces the earlier one.           *)

AddRead(R, p, v) == [q \in DOMAIN R \cup {p} |-> IF q = p THEN v ELSE R[q]]
ReadOf(R, p) == IF p \in DOMAIN R THEN R[p] ELSE NoValue

-----------------------------------------------------------------------------
(* Relations <<type, left, right>>.                                          *)

Rel(t, a, b) == <<t, a, b>>
NotType == [EQ |-> "NEQ", NEQ |-> "EQ", LT |-> "GE", LE |-> "GT", GT |-> "LE", GE |-> "LT"]
ReverseType == [EQ |-> "EQ", NEQ |-> "NEQ", LT |-> "GT", LE |-> "GE", GT |-> "LT", GE |-> "LE"]

\* Fault: the negation forgets that equal values are neither less nor greater.
Not_Strict(r) ==
    Rel([EQ |-> "NEQ", NEQ |-> "EQ", LT |-> "GT", LE |-> "GT", GT |-> "LT", GE |-> "LT"][r[1]], r[2], r[3])

Not(r) == Rel(NotType[r[1]], r[2], r[3])
Reverse(r) == Rel(ReverseType[r[1]], r[3], r[2])

AddRelations(R, S) == R \cup S
RelationsOf(R, v) == {r \in R : r[2] = v}

\* What follows from left = right.
addTransitiveEq(R, r) ==
    {Rel(x[1], r[2], x[3]) : x \in RelationsOf(R, r[3])} \cup
    {Rel(x[1], r[3], x[3]) : x \in RelationsOf(R, r[2])}

\* What follows from left < right.
addTransitiveLt(R, r) ==
    {Rel("LT", r[2], x[3]) : x \in {y \in RelationsOf(R, r[3]) : y[1] \in {"EQ", "LT", "LE"}}} \cup
    {Rel("LT", x[3], r[3]) : x \in {y \in RelationsOf(R, r[2]) : y[1] \in {"EQ", "GT", "GE"}}}

\* What follows from left <= right.  From c < left the code draws c > right.
addTransitiveLe(R, r) ==
    {Rel("LE", r[2], x[3]) : x \in {y \in RelationsOf(R, r[3]) : y[1] \in {"EQ", "LE"}}} \cup
    {Rel("LT", r[2], x[3]) : x \in {y \in RelationsOf(R, r[3]) : y[1] = "LT"}} \cup
    {Rel("LE", x[3], r[3]) : x \in {y \in RelationsOf(R, r[2]) : y[1] \in {"EQ", "GE"}}} \cup
    {Rel("GT", x[3], r[3]) : x \in {y \in RelationsOf(R, r[2]) : y[1] = "GT"}}

addTransitive1(R, r) ==
    R \cup CASE r[1] = "EQ" -> addTransitiveEq(R, r)
             [] r[1] = "LT" -> addTransitiveLt(R, r)
             [] r[1] = "LE" -> addTransitiveLe(R, r)
             [] r[1] = "GT" -> addTransitiveLt(R, Reverse(r))
             [] r[1] = "GE" -> addTransitiveLe(R, Reverse(r))
             [] OTHER -> {}

RECURSIVE addTransitive(_, _)
addTransitive(R, r) ==
    LET once == addTransitive1(R, r)
        both == IF r[1] \in {"EQ", "NEQ"} THEN once ELSE addTransitive1(once, Reverse(r))
    IN  IF both = R THEN R ELSE addTransitive(both, r)

RECURSIVE AddTransitiveAll(_, _)
AddTransitiveAll(R, todo) ==
    IF todo = {} THEN R
    ELSE LET r == CHOOSE x \in todo : TRUE IN AddTransitiveAll(addTransitive(R, r), todo \ {r})

RECURSIVE Close(_)
Close(R) == LET S == AddTransitiveAll(R, R) IN IF S = R THEN R ELSE Close(S)

\* Fault: relations are not added to their right-hand sides.
transitivelyClose_OneWay(L) ==
    Close(L.rel \cup UNION {{Rel("EQ", a, b) : a \in c, b \in c} : c \in L.eq})

\* RelationsMap::transitivelyClose for a location, its equalities among the relations.
transitivelyClose(L) ==
    LET R == L.rel \cup UNION {{Rel("EQ", a, b) : a \in c, b \in c} : c \in L.eq}
    IN  Close(R \cup {Reverse(r) : r \in R})

-----------------------------------------------------------------------------
(* Queries.                                                                  *)

isLt(L, a, b) == Rel("LT", a, b) \in transitivelyClose(L)

areEqual(L, v, w) == v = w \/ w \in Class(L.eq, v)

\* The first value of the given kind that equals v.
getEqualValue(P, L, v, op) ==
    LET found == InOrder({w \in Class(L.eq, v) : Op(P, w) = op}, order)
    IN  IF found = <<>> THEN NoValue ELSE found[1]

\* The count in the code is that of the pointer itself, which is in its class.
getReadsFromAlloca(P, L, v) ==
    {<<p, L.reads[p]>> : p \in {q \in DOMAIN L.reads :
        \/ q = v
        \/ Class(L.eq, v) # {}
        \/ Op(P, q) = "gep" /\ Operand(P, q, 1) = v}}

-----------------------------------------------------------------------------
(* Values and memory that do not change.                                     *)

RECURSIVE stripPointerCasts(_, _)
stripPointerCasts(P, v) ==
    IF Op(P, v) = "cast" \/ (Op(P, v) = "gep" /\ P.inst[v].n = 0)
    THEN stripPointerCasts(P, Operand(P, v, 1)) ELSE v

RECURSIVE mayBeWritten(_, _)
mayBeWritten(P, v) ==
    \E i \in Users(P, v) : IF Op(P, i) = "cast" THEN mayBeWritten(P, i) ELSE Op(P, i) # "load"

\* Fault: a second store does not count.
writtenMaxOnce_Often(P, v) ==
    \A i \in Users(P, v) : Op(P, i) # "call" /\ (Op(P, i) = "cast" => ~ mayBeWritten(P, i))

writtenMaxOnce(P, v) ==
    /\ Cardinality({i \in Users(P, v) :
            Op(P, i) = "store" /\ stripPointerCasts(P, Operand(P, i, 2)) = v}) <= 1
    /\ \A i \in Users(P, v) : Op(P, i) # "call" /\ (Op(P, i) = "cast" => ~ mayBeWritten(P, i))

RECURSIVE cannotEscape(_, _)
cannotEscape(P, v) ==
    \A i \in Users(P, v) :
        CASE Op(P, i) = "store" -> Operand(P, i, 1) # v
          [] Op(P, i) = "cast" -> cannotEscape(P, i)
          [] OTHER -> Op(P, i) = "load"

isOnceDefinedAlloca(P, v) == Op(P, v) = "alloca" /\ cannotEscape(P, v) /\ writtenMaxOnce(P, v)

\* The entry block and the only successors that follow it.
RECURSIVE UniqueSuccessors(_, _, _)
UniqueSuccessors(P, b, visited) ==
    IF b \in visited THEN visited
    ELSE LET next == {P.succ[b][k] : k \in DOMAIN P.succ[b]}
         IN  IF Cardinality(next) = 1
             THEN UniqueSuccessors(P, CHOOSE x \in next : TRUE, visited \cup {b})
             ELSE visited \cup {b}

initializeFixed(P) ==
    [memory |-> {v \in DOMAIN P.inst : isOnceDefinedAlloca(P, v)},
     values |-> UNION {UNION {{P.blocks[b][k] : k \in DOMAIN P.blocks[b]} :
                            b \in UniqueSuccessors(P, P.entry[f], {})} : f \in DOMAIN P.entry}]

\* Fault: all loads return what they returned before.
mightBeChanged_NotLoads(P, fix, v) ==
    /\ Op(P, v) \notin {"load", "arg", "const", "cast", "add", "sub", "mul"}
    /\ v \notin fix.memory \cup fix.values

RECURSIVE mightBeChanged(_, _, _)
mightBeChanged(P, fix, v) ==
    CASE Op(P, v) = "load" -> Operand(P, v, 1) \notin fix.memory
      [] Op(P, v) \in {"arg", "const"} -> FALSE
      [] Op(P, v) = "cast" -> mightBeChanged(P, fix, Operand(P, v, 1))
      [] Op(P, v) \in {"add", "sub", "mul"} ->
            mightBeChanged(P, fix, Operand(P, v, 1)) \/ mightBeChanged(P, fix, Operand(P, v, 2))
      [] OTHER -> v \notin fix.memory \cup fix.values

-----------------------------------------------------------------------------
(* Edges of the graph of locations.                                          *)

IcmpType == [eq |-> "EQ", ne |-> "NEQ", sle |-> "LE", ule |-> "LE", sge |-> "GE", uge |-> "GE",
             sgt |-> "GT", ugt |-> "GT", slt |-> "LT", ult |-> "LT"]

\* Unsigned comparisons are taken for signed ones.
getICmpRelation(P, v) ==
    IF Op(P, v) # "icmp" THEN {}
    ELSE {Rel(IcmpType[P.inst[v].n], Operand(P, v, 1), Operand(P, v, 2))}

\* A noop is an assumption of nothing.
buildBranch(P, b) ==
    LET t == Terminator(P, b) IN
    IF Op(P, t) = "br"
    THEN LET r == getICmpRelation(P, Operand(P, t, 1)) IN
         << [to |-> P.succ[b][1], assume |-> r],
            [to |-> P.succ[b][2], assume |-> {Not(x) : x \in r}] >>
    ELSE << [to |-> P.succ[b][1], assume |-> {}] >>

\* The operands are the condition and the values of the cases, the default comes last.
buildSwitch(P, b) ==
    LET t == Terminator(P, b)
        cases == 1 .. (Len(P.succ[b]) - 1)
    IN  [k \in DOMAIN P.succ[b] |->
            [to |-> P.succ[b][k],
             assume |-> IF k \in cases THEN {Rel("EQ", Operand(P, t, 1), Operand(P, t, k + 1))}
                        ELSE {Rel("NEQ", Operand(P, t, 1), Operand(P, t, j + 1)) : j \in cases}]]

EdgesFrom(P, b) ==
    CASE Op(P, Terminator(P, b)) \in {"br", "jump"} -> buildBranch(P, b)
      [] Op(P, Terminator(P, b)) = "switch" -> buildSwitch(P, b)
      [] OTHER -> <<>>

RECURSIVE EdgesTo(_, _, _)
EdgesTo(P, b, from) ==
    IF from > Len(P.blocks) THEN <<>>
    ELSE LET E == EdgesFrom(P, from)
             into[k \in 0 .. Len(E)] ==
                IF k = 0 THEN <<>>
                ELSE IF E[k].to # b THEN into[k - 1]
                ELSE Append(into[k - 1],
                        [source |-> Terminator(P, from), op |-> "assume", assume |-> E[k].assume])
         IN  into[Len(E)] \o EdgesTo(P, b, from + 1)

\* The edges into the location of instruction i.
predecessors(P, i) ==
    LET k == IndexOf(P, i) IN
    IF k = 1 THEN EdgesTo(P, BlockOf(P, i), 1)
    ELSE << [source |-> P.blocks[BlockOf(P, i)][k - 1], op |-> "instruction", assume |-> {}] >>

-----------------------------------------------------------------------------
(* What an instruction generates and kills.                                  *)

hasAlias(P, v, E) == \E a \in Class(E, v) : Op(P, a) = "alloca"

\* The constant operand is swapped to the second place, and the null pointer of the first
\* one is returned for the other operand.
getOperationWithConst(P, i) ==
    LET constants == {k \in 1 .. 2 : Op(P, Operand(P, i, k)) = "const"} IN
    [value |-> NoValue,
     n |-> IF Cardinality(constants) # 1 THEN 0
           ELSE P.inst[Operand(P, i, CHOOSE k \in constants : TRUE)].n]

\* Without the other operand these three add nothing; the search for (x - k) + k behind
\* the same test is left out.
plusGen(P, i, L) ==
    LET o == getOperationWithConst(P, i) IN
    IF o.value = NoValue THEN L
    ELSE [L EXCEPT !.rel = @ \cup
            {Rel(IF o.n > 0 THEN "GT" ELSE IF o.n = 0 THEN "EQ" ELSE "LT", i, o.value)}]

minusGen(P, i, L) ==
    LET o == getOperationWithConst(P, i) IN
    IF o.value = NoValue THEN L
    ELSE [L EXCEPT !.rel = @ \cup
            {Rel(IF o.n > 0 THEN "LT" ELSE IF o.n = 0 THEN "EQ" ELSE "GT", i, o.value)}]

mulGen(P, i, L) ==
    LET o == getOperationWithConst(P, i) IN
    IF o.value # NoValue /\ o.n = 1 THEN [L EXCEPT !.eq = AddEqual(@, i, o.value)] ELSE L

\* Fault: only a read of the pointer itself is looked up.
loadGen_NoAlias(P, i, S, L) ==
    IF ReadOf(S.reads, Operand(P, i, 1)) # NoValue
    THEN [L EXCEPT !.eq = AddEqual(@, i, ReadOf(S.reads, Operand(P, i, 1)))]
    ELSE [L EXCEPT !.reads = AddRead(@, Operand(P, i, 1), i)]

loadGen(P, i, S, L) ==
    LET readFrom == Operand(P, i, 1)
        aliases == InOrder({a \in Class(S.eq, readFrom) : a \in DOMAIN S.reads}, order)
        readVal == IF readFrom \in DOMAIN S.reads THEN S.reads[readFrom]
                   ELSE IF aliases # <<>> THEN S.reads[aliases[1]] ELSE NoValue
    IN  IF readVal = NoValue THEN [L EXCEPT !.reads = AddRead(@, readFrom, i)]
        ELSE [L EXCEPT !.eq = AddEqual(@, i, readVal)]

gepGen(P, i, L) ==
    IF P.inst[i].n = 0 THEN [L EXCEPT !.eq = AddEqual(@, i, Operand(P, i, 1))] ELSE L

\* S is the location of the instruction and L the next one.
instructionGen(P, i, S, L) ==
    CASE Op(P, i) = "store" ->
            [L EXCEPT !.reads = AddRead(@, stripPointerCasts(P, Operand(P, i, 2)), Operand(P, i, 1))]
      [] Op(P, i) = "load" -> loadGen(P, i, S, L)
      [] Op(P, i) = "gep" -> gepGen(P, i, L)
      [] Op(P, i) = "cast" -> [L EXCEPT !.eq = AddEqual(@, i, Operand(P, i, 1))]
      [] Op(P, i) = "add" -> plusGen(P, i, L)
      [] Op(P, i) = "sub" -> minusGen(P, i, L)
      [] Op(P, i) = "mul" -> mulGen(P, i, L)
      [] OTHER -> L

KnownMemory(P, v, E) == Op(P, v) = "alloca" \/ hasAlias(P, v, E)

\* The memory at an offset of something known is taken for the whole of it.
writtenMem(P, i, E) ==
    LET v == stripPointerCasts(P, Operand(P, i, 2)) IN
    IF Op(P, v) = "gep" /\ KnownMemory(P, Operand(P, v, 1), E) THEN Operand(P, v, 1) ELSE v

Everything(S) == DOMAIN S.reads

\* Fault: a call leaves the memory of its caller alone.
instructionKills_NotCalls(P, i, S, E) ==
    IF Op(P, i) # "store" THEN {}
    ELSE LET w == writtenMem(P, i, E) IN
         IF ~ KnownMemory(P, w, E) THEN Everything(S)
         ELSE {w} \cup Class(S.eq, w) \cup {q \in DOMAIN S.reads : ~ KnownMemory(P, q, E)}

\* The pointers whose reads are not known any more.
instructionKills(P, i, S, E) ==
    IF Op(P, i) = "call" THEN Everything(S)
    ELSE IF Op(P, i) # "store" THEN {}
    ELSE LET w == writtenMem(P, i, E) IN
         IF ~ KnownMemory(P, w, E) THEN Everything(S)
         ELSE {w} \cup Class(S.eq, w) \cup
              {q \in DOMAIN S.reads :
                  /\ ~ KnownMemory(P, q, E)
                  /\ ~ (Op(P, q) = "gep" /\ KnownMemory(P, Operand(P, q, 1), E))}

-----------------------------------------------------------------------------
(* Collecting at a location.                                                 *)

\* Fault: to add an equality that is known counts as a change.
CollectEdge_Known(P, edge, S, L) ==
    LET gen == IF edge.op = "assume" THEN [L EXCEPT !.rel = AddRelations(@, edge.assume)]
               ELSE instructionGen(P, edge.source, S, L)
        killed == IF edge.op = "assume" THEN {}
                  ELSE instructionKills(P, edge.source, S, gen.eq)
        kept == DOMAIN S.reads \ killed
        merged == [eq |-> AddEqualities(gen.eq, S.eq), rel |-> AddRelations(gen.rel, S.rel),
                   reads |-> [q \in DOMAIN gen.reads \cup kept |->
                                IF q \in kept THEN S.reads[q] ELSE gen.reads[q]]]
    IN  [loc |-> merged, changed |-> gen # L \/ merged # gen \/ S.eq # {}]

\* Source S over one edge into L.
CollectEdge(P, edge, S, L) ==
    LET gen == IF edge.op = "assume" THEN [L EXCEPT !.rel = AddRelations(@, edge.assume)]
               ELSE instructionGen(P, edge.source, S, L)
        killed == IF edge.op = "assume" THEN {}
                  ELSE instructionKills(P, edge.source, S, gen.eq)
        kept == DOMAIN S.reads \ killed
        merged == [eq |-> AddEqualities(gen.eq, S.eq), rel |-> AddRelations(gen.rel, S.rel),
                   reads |-> [q \in DOMAIN gen.reads \cup kept |->
                                IF q \in kept THEN S.reads[q] ELSE gen.reads[q]]]
    IN  [loc |-> merged, changed |-> gen # L \/ merged # gen]

\* Fault: reads of all memory are merged.
mergeReads_All(P, fix, S, L, todo) ==
    [L EXCEPT !.reads = [q \in DOMAIN L.reads \cup DOMAIN S.reads |->
                            IF q \in DOMAIN L.reads THEN L.reads[q] ELSE S.reads[q]]]

\* Reads of fixed memory whose result may not change.
RECURSIVE mergeReads(_, _, _, _, _)
mergeReads(P, fix, S, L, todo) ==
    IF todo = <<>> THEN L
    ELSE LET q == Head(todo)
             v == S.reads[q]
         IN  mergeReads(P, fix, S,
                IF q \notin fix.memory \/ mightBeChanged(P, fix, v) THEN L
                ELSE IF q \in DOMAIN L.reads THEN [L EXCEPT !.eq = AddEqual(@, L.reads[q], v)]
                ELSE [L EXCEPT !.reads = AddRead(@, q, v)],
                Tail(todo))

\* v1 is known to be what its pointer is read for.
addLoadFromEq(P, L, v1, v2) ==
    IF Op(P, v1) # "load" THEN L
    ELSE IF Operand(P, v1, 1) \in DOMAIN L.reads
         THEN [L EXCEPT !.eq = AddEqual(@, L.reads[Operand(P, v1, 1)], v2)]
         ELSE [L EXCEPT !.reads = AddRead(@, Operand(P, v1, 1), v2)]

RECURSIVE AddPairs(_, _, _)
AddPairs(P, L, pairs) ==
    IF pairs = <<>> THEN L
    ELSE LET a == Head(pairs)[1]
             b == Head(pairs)[2]
             added == [L EXCEPT !.eq = AddEqual(@, a, b)]
         IN  AddPairs(P, addLoadFromEq(P, addLoadFromEq(P, added, a, b), b, a), Tail(pairs))

RECURSIVE PairsInOrder(_, _, _)
PairsInOrder(values, E, fix) ==
    IF values = <<>> THEN <<>>
    ELSE LET a == Head(values)
             partners == InOrder({v \in Class(E, a) : ~ mightBeChanged(prog, fix, v)}, order)
         IN  [k \in DOMAIN partners |-> <<a, partners[k]>>] \o PairsInOrder(Tail(values), E, fix)

\* Equalities of values that may not change.
mergeEqualities(P, fix, S, L) ==
    AddPairs(P, L, PairsInOrder(
        InOrder({v \in UNION S.eq : ~ mightBeChanged(P, fix, v)}, order), S.eq, fix))

MergeSource(P, fix, S, L) ==
    mergeEqualities(P, fix, S, mergeReads(P, fix, S, L, InOrder(DOMAIN S.reads, order)))

\* mergeStates and mergePredecessors; relations are not merged.
RECURSIVE mergeStates(_, _, _, _)
mergeStates(P, fix, L, sources) ==
    IF sources = <<>> THEN L
    ELSE mergeStates(P, fix, MergeSource(P, fix, Head(sources), L), Tail(sources))

\* The location of i after collecting over the edges into it.
collect(P, fix, all, i) ==
    LET preds == predecessors(P, i) IN
    CASE Len(preds) = 0 -> [loc |-> all[i], changed |-> FALSE]
      [] Len(preds) = 1 -> CollectEdge(P, preds[1], all[preds[1].source], all[i])
      [] OTHER -> LET merged == mergeStates(P, fix, all[i],
                                    [k \in DOMAIN preds |-> all[preds[k].source]])
                  IN  [loc |-> merged, changed |-> merged # all[i]]

-----------------------------------------------------------------------------
(* The analysis.                                                             *)

Blocks(P) == 1 .. Len(P.blocks)
Instructions(P) == UNION {{P.blocks[b][k] : k \in DOMAIN P.blocks[b]} : b \in Blocks(P)}
Empty == [eq |-> {}, reads |-> [q \in {} |-> NoValue], rel |-> {}]

RECURSIVE CollectBlock(_, _, _)
CollectBlock(P, todo, acc) ==
    IF todo = <<>> THEN acc
    ELSE LET c == collect(P, fixed, acc.locs, Head(todo))
         IN  CollectBlock(P, Tail(todo),
                [locs |-> [acc.locs EXCEPT ![Head(todo)] = c.loc], changed |-> acc.changed \/ c.changed])

\* run(): the next block of this sweep.
CollectNext ==
    /\ phase = "run"
    /\ position < Len(prog.blocks)
    /\ LET b == InOrder(Blocks(prog), order)[position + 1]
           c == CollectBlock(prog, prog.blocks[b], [locs |-> locs, changed |-> changed])
       IN  locs' = c.locs /\ changed' = c.changed
    /\ position' = position + 1
    /\ UNCHANGED <<prog, order, fixed, phase, passed>>

\* run(): another sweep while something changes.
NextSweep ==
    /\ phase = "run"
    /\ position = Len(prog.blocks)
    /\ changed
    /\ position' = 0
    /\ changed' = FALSE
    /\ UNCHANGED <<prog, order, fixed, locs, phase, passed>>

\* run() returns that nothing changed: after relations were passed this ends compute().
RunEnds ==
    /\ phase = "run"
    /\ position = Len(prog.blocks)
    /\ ~ changed
    /\ phase' = IF passed THEN "done" ELSE "pass"
    /\ UNCHANGED <<prog, order, fixed, locs, position, changed, passed>>

CallsOf(P, f) == {i \in DOMAIN P.inst : Op(P, i) = "call" /\ P.inst[i].n = f}

RECURSIVE BindArguments(_, _, _, _, _, _)
BindArguments(P, all, f, call, E, k) ==
    IF k > Len(P.formal[f]) \/ k > Len(P.inst[call].arg) THEN E
    ELSE LET arg == P.formal[f][k]
             op == Operand(P, call, k)
         IN  BindArguments(P, all, f, call,
                AddEqualities(E, {{arg, op} \cup Class(all[call].eq, op)}), k + 1)

RECURSIVE BindCalls(_, _, _, _, _)
BindCalls(P, all, f, calls, E) ==
    IF calls = <<>> THEN E
    ELSE BindCalls(P, all, f, Tail(calls), BindArguments(P, all, f, Head(calls), E, 1))

\* The location of the entry of f: arguments are equal to what all calls pass.
PassedTo(P, all, f) ==
    LET calls == InOrder(CallsOf(P, f), "up")
        L == all[First(P, P.entry[f])]
    IN  mergeStates(P, fixed, [L EXCEPT !.eq = BindCalls(P, all, f, calls, @)],
                    [k \in DOMAIN calls |-> all[calls[k]]])

RECURSIVE PassToFunctions(_, _, _)
PassToFunctions(P, all, f) ==
    IF f > Len(P.entry) THEN all
    ELSE PassToFunctions(P, [all EXCEPT ![First(P, P.entry[f])] = PassedTo(P, all, f)], f + 1)

passCallSiteRelations ==
    /\ phase = "pass"
    /\ locs' = PassToFunctions(prog, locs, 1)
    /\ phase' = "run"
    /\ position' = 0
    /\ changed' = FALSE
    /\ passed' = TRUE
    /\ UNCHANGED <<prog, order, fixed>>

AnalysisInit ==
    /\ prog \in Programs
    /\ order \in {"up", "down"}
    /\ fixed = initializeFixed(prog)
    /\ locs = [i \in Instructions(prog) |-> Empty]
    /\ phase = "run"
    /\ position = 0
    /\ changed = FALSE
    /\ passed = FALSE

AnalysisNext == CollectNext \/ NextSweep \/ RunEnds \/ passCallSiteRelations

=============================================================================
