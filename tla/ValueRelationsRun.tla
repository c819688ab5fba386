-------------------------- MODULE ValueRelationsRun ---------------------------
(***************************************************************************)
(* What the analysis of value relations says of a program, held against    *)
(* the program's runs: once the analysis is done, the program runs on      *)
(* small integers, addresses of its allocas, and undefined values.  A run  *)
(* stops where it would use an undefined value or leave the small          *)
(* integers.  Every call has one call site and no function is recursive.   *)
(***************************************************************************)
EXTENDS ValueRelations

CONSTANTS MaxInt    \* values are -MaxInt .. MaxInt; inputs are -1 .. 1

VARIABLES
    pc,         \* the instruction that is next, 0 before the run and after it
    stack,      \* calls that have not returned
    value,      \* what each instruction, argument and constant last was
    memory,     \* contents of the two cells of each alloca
    closing     \* a location whose relations are closed, for the queries on their own

runVars == <<pc, stack, value, memory, closing>>
vars == <<analysisVars, runVars>>

Undef == <<"undef", 0, 0>>
IntValue(n) == <<"int", n, 0>>
Pointer(a, c) == <<"ptr", a, c>>
Integers_ == -MaxInt .. MaxInt
Inputs == {IntValue(n) : n \in -1 .. 1}
Defined(v) == v # Undef

Arguments(P) == UNION {{P.formal[f][k] : k \in DOMAIN P.formal[f]} : f \in DOMAIN P.formal}
Allocas(P) == {v \in DOMAIN P.inst : Op(P, v) = "alloca"}

\* main starts with any inputs for its arguments.
Start ==
    /\ phase = "done"
    /\ phase' = "exec"
    /\ pc' = First(prog, prog.entry[1])
    /\ \E in \in [{prog.formal[1][k] : k \in DOMAIN prog.formal[1]} -> Inputs] :
         value' = [v \in DOMAIN prog.inst |->
            IF Op(prog, v) = "const" THEN IntValue(prog.inst[v].n)
            ELSE IF v \in DOMAIN in THEN in[v] ELSE Undef]
    /\ UNCHANGED <<prog, order, fixed, locs, position, changed, passed, stack, memory, closing>>

Next1(i) == prog.blocks[BlockOf(prog, i)][IndexOf(prog, i) + 1]
Arg(i, k) == value[Operand(prog, i, k)]
IsPointer(v) == v[1] = "ptr"

\* Instruction i is x, and the run goes on.
Becomes(i, x) ==
    /\ value' = [value EXCEPT ![i] = x]
    /\ pc' = Next1(i)
    /\ UNCHANGED stack

Compare(t, a, b) ==
    CASE t = "EQ" -> a = b [] t = "NEQ" -> a # b [] t = "LT" -> a < b
      [] t = "LE" -> a <= b [] t = "GT" -> a > b [] t = "GE" -> a >= b

Arithmetic(op, a, b) == CASE op = "add" -> a + b [] op = "sub" -> a - b [] op = "mul" -> a * b

Alloca(i) ==
    /\ Becomes(i, Pointer(i, 0))
    /\ memory' = [memory EXCEPT ![i] = [c \in 0 .. 1 |-> Undef]]

Store(i) ==
    /\ IsPointer(Arg(i, 2))
    /\ Defined(Arg(i, 1))
    /\ memory' = [memory EXCEPT ![Arg(i, 2)[2]][Arg(i, 2)[3]] = Arg(i, 1)]
    /\ Becomes(i, Undef)

Load(i) ==
    /\ IsPointer(Arg(i, 1))
    /\ Defined(memory[Arg(i, 1)[2]][Arg(i, 1)[3]])
    /\ Becomes(i, memory[Arg(i, 1)[2]][Arg(i, 1)[3]])
    /\ UNCHANGED memory

Gep(i) ==
    /\ IsPointer(Arg(i, 1))
    /\ Arg(i, 1)[3] + prog.inst[i].n <= 1
    /\ Becomes(i, Pointer(Arg(i, 1)[2], Arg(i, 1)[3] + prog.inst[i].n))
    /\ UNCHANGED memory

Cast(i) == Becomes(i, Arg(i, 1)) /\ UNCHANGED memory

Compute(i) ==
    /\ Arg(i, 1)[1] = "int" /\ Arg(i, 2)[1] = "int"
    /\ IF Op(prog, i) = "icmp"
       THEN Becomes(i, IntValue(IF Compare(IcmpType[prog.inst[i].n], Arg(i, 1)[2], Arg(i, 2)[2])
                                THEN 1 ELSE 0))
       ELSE /\ Arithmetic(Op(prog, i), Arg(i, 1)[2], Arg(i, 2)[2]) \in Integers_
            /\ Becomes(i, IntValue(Arithmetic(Op(prog, i), Arg(i, 1)[2], Arg(i, 2)[2])))
    /\ UNCHANGED memory

\* A function that is not in the module returns an integer and may write one to what its
\* arguments point to.
CallExternal(i) ==
    LET targets == {<<Arg(i, k)[2], Arg(i, k)[3]>> : k \in {j \in DOMAIN prog.inst[i].arg : IsPointer(Arg(i, j))}}
    IN  /\ \E x \in Inputs : Becomes(i, x)
        /\ \E x \in [targets -> Inputs] :
             memory' = [a \in DOMAIN memory |-> [c \in 0 .. 1 |->
                            IF <<a, c>> \in targets THEN x[<<a, c>>] ELSE memory[a][c]]]

InstructionsOf(P, f) ==
    UNION {{P.blocks[b][k] : k \in DOMAIN P.blocks[b]} : b \in {x \in Blocks(P) : P.fun[x] = f}}

CallFunction(i) ==
    LET f == prog.inst[i].n IN
    /\ value' = [v \in DOMAIN value |->
            IF \E k \in DOMAIN prog.formal[f] : prog.formal[f][k] = v
            THEN Arg(i, CHOOSE k \in DOMAIN prog.formal[f] : prog.formal[f][k] = v)
            ELSE IF v \in InstructionsOf(prog, f) THEN Undef ELSE value[v]]
    /\ stack' = Append(stack, i)
    /\ pc' = First(prog, prog.entry[f])
    /\ UNCHANGED memory

Return ==
    /\ stack' = IF stack = <<>> THEN <<>> ELSE SubSeq(stack, 1, Len(stack) - 1)
    /\ pc' = IF stack = <<>> THEN 0 ELSE Next1(stack[Len(stack)])
    /\ UNCHANGED <<value, memory>>

Branch(i) ==
    LET b == BlockOf(prog, i)
        s == prog.succ[b]
        hit == {k \in 1 .. Len(s) - 1 : Arg(i, k + 1) = Arg(i, 1)}
        to == CASE Op(prog, i) = "jump" -> s[1]
                [] Op(prog, i) = "br" -> IF Arg(i, 1)[2] # 0 THEN s[1] ELSE s[2]
                [] OTHER -> IF hit = {} THEN s[Len(s)] ELSE s[CHOOSE k \in hit : TRUE]
    IN  /\ Op(prog, i) # "jump" => Arg(i, 1)[1] = "int"
        /\ pc' = First(prog, to)
        /\ UNCHANGED <<stack, value, memory>>

Step ==
    /\ phase = "exec"
    /\ pc # 0
    /\ CASE Op(prog, pc) = "alloca" -> Alloca(pc)
         [] Op(prog, pc) = "store" -> Store(pc)
         [] Op(prog, pc) = "load" -> Load(pc)
         [] Op(prog, pc) = "gep" -> Gep(pc)
         [] Op(prog, pc) = "cast" -> Cast(pc)
         [] Op(prog, pc) \in {"add", "sub", "mul", "icmp"} -> Compute(pc)
         [] Op(prog, pc) = "call" -> IF prog.inst[pc].n = 0 THEN CallExternal(pc) ELSE CallFunction(pc)
         [] Op(prog, pc) = "ret" -> Return
         [] OTHER -> Branch(pc)
    /\ UNCHANGED <<analysisVars, closing>>

-----------------------------------------------------------------------------
(* Programs that the analysis is right about.                                *)

OnCycle(P, b) ==
    LET next(S) == S \cup UNION {{P.succ[x][k] : k \in DOMAIN P.succ[x]} : x \in S}
        reach[n \in 0 .. Len(P.blocks)] ==
            IF n = 0 THEN {P.succ[b][k] : k \in DOMAIN P.succ[b]} ELSE next(reach[n - 1])
    IN  b \in reach[Len(P.blocks)]

\* Memory with one store is not fixed where the store is repeated.
FixedOnce(P, fix) ==
    \A i \in Instructions(P) : Op(P, i) = "store" /\ OnCycle(P, BlockOf(P, i)) =>
        stripPointerCasts(P, Operand(P, i, 2)) \notin fix.memory

\* Values of the first blocks are not fixed where these blocks are repeated.
ValuesOnce(P, fix) ==
    \A i \in fix.values : OnCycle(P, BlockOf(P, i)) =>
        Op(P, i) \in {"load", "store", "icmp", "cast", "br", "jump", "switch"}

\* A store at an offset does not kill what was read at the same offset.
OffsetsOnce(P) ==
    LET atOffset == {i \in Instructions(P) : Op(P, i) \in {"load", "store"} /\
                        \E k \in DOMAIN P.inst[i].arg :
                            /\ Op(P, Operand(P, i, k)) = "gep"
                            /\ P.inst[Operand(P, i, k)].n # 0}
    IN  (\E i \in atOffset : Op(P, i) = "store") => Cardinality(atOffset) = 1

\* Arguments are equal to what every call site passes.
CalledOnce(P) == \A f \in DOMAIN P.entry : Cardinality(CallsOf(P, f)) <= 1

InScope(P) == LET fix == initializeFixed(P) IN
    FixedOnce(P, fix) /\ ValuesOnce(P, fix) /\ OffsetsOnce(P) /\ CalledOnce(P)

-----------------------------------------------------------------------------
(* Properties.                                                               *)

EqualitiesHold(L) ==
    \A c \in L.eq : \A v, w \in c : Defined(value[v]) /\ Defined(value[w]) => value[v] = value[w]

ReadsHold(L) ==
    \A p \in DOMAIN L.reads :
        LET q == value[p] IN
        IsPointer(q) /\ Defined(memory[q[2]][q[3]]) /\ Defined(value[L.reads[p]])
            => memory[q[2]][q[3]] = value[L.reads[p]]

RelationsHold(L) ==
    \A r \in L.rel : value[r[2]][1] = "int" /\ value[r[3]][1] = "int"
        => Compare(r[1], value[r[2]][2], value[r[3]][2])

(* Whatever the analysis relates at a location holds whenever a run is       *)
(* there: equal values are equal, a read returns what it is known to return, *)
(* and values compare as the branches on the way tell.  It is about what     *)
(* stores and calls kill, about joins that keep unchangeable values only,    *)
(* and about arguments at the entry of a function.                           *)
Sound ==
    phase = "exec" /\ pc # 0 =>
        EqualitiesHold(locs[pc]) /\ ReadsHold(locs[pc]) /\ RelationsHold(locs[pc])

accessed(P, i) == stripPointerCasts(P, Operand(P, i, IF Op(P, i) = "store" THEN 2 ELSE 1))
resultOf(P, i) == IF Op(P, i) = "store" THEN Operand(P, i, 1) ELSE i
isAccess(P, i) == Op(P, i) \in {"load", "store"} /\ Op(P, accessed(P, i)) = "alloca"

\* Whether i may write to alloca a, as far as a reader of the block alone can tell.
mayWrite(P, i, a) ==
    Op(P, i) = "call" \/ (Op(P, i) = "store" /\ (~ isAccess(P, i) \/ accessed(P, i) = a))

\* Positions x and y of a block: what is accessed at x is the same before y.
Unwritten(P, block) ==
    {<<x, y>> \in (DOMAIN block) \X (DOMAIN block) :
        /\ x < y
        /\ isAccess(P, block[x])
        /\ \A k \in x + 1 .. y - 1 : ~ mayWrite(P, block[k], accessed(P, block[x]))}

(* A load within a block is found equal to the store or load of the same     *)
(* alloca before it where no store to it, none through an unknown pointer    *)
(* and no call lies between, and a constant stored is found as its value;    *)
(* what the alloca holds at the end of the block is among its reads.         *)
LoadsPaired ==
    phase = "done" => \A b \in Blocks(prog) :
        LET block == prog.blocks[b]
            L == locs[Terminator(prog, b)]
        IN  \A pair \in Unwritten(prog, block) :
                LET i == block[pair[1]]
                    j == block[pair[2]]
                IN  /\ Op(prog, j) = "load" /\ isAccess(prog, j) /\ accessed(prog, j) = accessed(prog, i) =>
                        /\ areEqual(L, resultOf(prog, i), j)
                        /\ Op(prog, resultOf(prog, i)) = "const" =>
                                getEqualValue(prog, L, j, "const") # NoValue
                    /\ j = Terminator(prog, b) =>
                        \E r \in getReadsFromAlloca(prog, L, accessed(prog, i)) :
                            areEqual(L, r[2], resultOf(prog, i))

Triple == 1 .. 3
Satisfies(f, L) ==
    /\ \A r \in L.rel : r[1] # "NEQ" => Compare(r[1], f[r[2]], f[r[3]])
    /\ \A c \in L.eq : \A a, b \in c : f[a] = f[b]

Models(L) == {f \in [Triple -> Triple] : Satisfies(f, L)}

(* A value is reported to be less than another one exactly if the equalities *)
(* and the order of the location imply it.                                   *)
LessThanExact ==
    phase = "query" => \A a, b \in Triple :
        isLt(closing, a, b) = (\A f \in Models(closing) : f[a] < f[b])

(* The analysis finds what is to be found: loads are paired with what was    *)
(* stored, and isLt is exact.                                                *)
Found == LoadsPaired /\ LessThanExact

(* The sweeps over the blocks come to an end.                                *)
Terminates == phase = "run" ~> phase \in {"done", "exec"}

=============================================================================
