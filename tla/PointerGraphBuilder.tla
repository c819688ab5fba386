-------------------------- MODULE PointerGraphBuilder --------------------------
(***************************************************************************)
(* How the pointer graph of an LLVM program is built (LLVMPointerGraph-    *)
(* Builder): nodes for the globals and their initialisers, for the         *)
(* instructions of main and of every function that is called by name,      *)
(* edges between them, operands across calls.  While the pointer analysis  *)
(* runs, functions that are called through pointers are added.             *)
(*                                                                         *)
(* A value is a tuple that begins with its kind: <<"val", id>> is the      *)
(* result of an instruction, <<"arg", f, k>> an argument, <<"global", k>>, *)
(* <<"fun", f>>, <<"null">>, <<"undef">>, <<"int", k>>, and the constant   *)
(* expressions <<"gep", v, k>>, <<"cast", v>>, <<"add", v, k>>,            *)
(* <<"arith", v>>, <<"bits", v>>.                                          *)
(***************************************************************************)
EXTENDS FlowGraph, SequencesExt

CONSTANTS
    Null, Unknown,    \* NULLPTR and UNKNOWN_MEMORY: operands, and targets of pointers
    UnknownOffset,    \* Offset::UNKNOWN
    Missing,          \* tryGetOperand returns a null pointer
    FieldSensitivity,
    MaxNode,          \* bound: nodes of a graph
    Programs

\* A program: the initialisers of its globals and its functions.  A function without code
\* is only declared.  Instructions have an id that is unique in the program, an
\* operation, values, a number (size, offset, length or index) and the function they call.
ProgramType(p) ==
    /\ DOMAIN p = {"globals", "size", "funs"}
    /\ \A f \in DOMAIN p.funs :
          /\ DOMAIN p.funs[f] = {"args", "vararg", "code", "succ"}
          /\ \A b \in DOMAIN p.funs[f].code : \A k \in DOMAIN p.funs[f].code[b] :
                DOMAIN p.funs[f].code[b][k] = {"id", "op", "args", "n", "fn"}

ASSUME BuilderAssumption == FieldSensitivity \in Nat /\ \A p \in Programs : ProgramType(p)

VARIABLES
    program,    \* constant
    phase,      \* "globals", "build", "built", "analyse" (ad_hoc_building) or "run"
    graph,      \* the graph and the tables of the builder, see EmptyGraph
    stack       \* functions under construction and their instructions still to build

\* nodes: id to node; globals: ids of the global nodes in the order of their creation;
\* succ: edges; map: value to nodes and representant; subgraphs: of the functions built;
\* callees, returnSites, functions: the edges of calls, RETURNs, FORKs and JOINs;
\* anyResult: calls that may return any pointer; aborted: an operand was missing.
EmptyGraph ==
    [nodes |-> <<>>, globals |-> <<>>, succ |-> {}, map |-> [v \in {} |-> 0],
     subgraphs |-> [f \in {} |-> 0], callees |-> {}, returnSites |-> {},
     functions |-> {}, anyResult |-> {}, aborted |-> FALSE]

Defined(f) == program.funs[f].code # <<>>

Instructions ==
    UNION {UNION {ToSet(program.funs[f].code[b]) : b \in DOMAIN program.funs[f].code} :
              f \in DOMAIN program.funs}
Inst(id) == CHOOSE i \in Instructions : i.id = id
Result(i) == <<"val", i.id>>

(***************************************************************************)
(* Nodes.                                                                  *)
(***************************************************************************)
PSNode(type, operands, arg) ==
    [type |-> type, operands |-> operands, arg |-> arg, size |-> 0, zero |-> FALSE,
     paired |-> 0, user |-> <<"none">>]
Alloc(size) == [PSNode("ALLOC", <<>>, 0) EXCEPT !.size = size]
Simple(type, operands) == PSNode(type, operands, 0)
Gep(operand, offset) == PSNode("GEP", <<operand>>, offset)
Constant(target, offset) == PSNode("CONSTANT", <<target>>, offset)
Memcpy(from, to, len) == PSNode("MEMCPY", <<from, to>>, len)
Paired(node, x) == [node EXCEPT !.paired = x]

Count(g) == Len(g.nodes)

\* addNode: the new nodes stand for value v; the representant has the pointers of v.
AddNode(g, v, new, representant) ==
    LET b == Count(g) IN
    [g EXCEPT !.nodes = @ \o [k \in DOMAIN new |-> [new[k] EXCEPT !.user = v]],
              !.map = (v :> [seq |-> [k \in DOMAIN new |-> b + k],
                             representant |-> representant]) @@ @]

(***************************************************************************)
(* Operands.  What is not in the map yet is a constant, for which a node   *)
(* is created, or a value that has no node.                                *)
(***************************************************************************)
ConstantExprs == {"gep", "cast", "add", "arith", "bits"}
IsConstant(v) == v[1] \in ConstantExprs \cup {"fun", "null", "undef", "int"}
IsZero(v) == v = <<"null">> \/ v = <<"int", 0>>

RECURSIVE StripCasts(_)
StripCasts(v) == IF v[1] = "cast" THEN StripCasts(v[2]) ELSE v

\* The only pointer of a node that is a constant.
PointerOf(g, x) ==
    IF x = Null THEN <<Null, 0>>
    ELSE IF x = Unknown THEN <<Unknown, UnknownOffset>>
    ELSE IF g.nodes[x].type = "CONSTANT" THEN <<g.nodes[x].operands[1], g.nodes[x].arg>>
    ELSE <<x, 0>>

\* getConstantExprPointer: v applied to pointer p.
Applied(v, p) ==
    CASE v[1] = "cast" -> p
      [] v[1] = "gep" -> <<p[1], IF p[2] = UnknownOffset THEN p[2] ELSE v[3]>>
      [] v[1] = "add" -> <<p[1], IF p[2] = UnknownOffset THEN p[2] ELSE p[2] + v[3]>>
      [] v[1] = "arith" -> <<p[1], UnknownOffset>>
      [] OTHER -> <<Unknown, UnknownOffset>>

FunctionNode(g, v) ==
    <<AddNode(g, v, <<Simple("FUNCTION", <<>>)>>, Count(g) + 1), Count(g) + 1>>

\* The node of v, and the graph in which it exists.
Representant(g, v) ==
    LET x == g.map[v].representant
    IN  IF g.nodes[x].type \in {"CALL", "CALL_FUNCPTR"} THEN g.nodes[x].paired ELSE x

RECURSIVE TryGetOperand(_, _)
ConstantExpr(g, v) ==
    LET r == TryGetOperand(g, StripCasts(v[2]))
        p == Applied(v, PointerOf(r[1], r[2]))
        x == Count(r[1]) + 1
    IN  <<AddNode(r[1], v, <<Constant(p[1], p[2])>>, x), x>>

TryGetOperand(g, v) ==
    CASE v \in DOMAIN g.map -> <<g, Representant(g, v)>>
      [] v \notin DOMAIN g.map /\ ~ IsConstant(v) -> <<g, Missing>>
      [] v \notin DOMAIN g.map /\ v[1] = "fun" -> FunctionNode(g, v)
      [] v \notin DOMAIN g.map /\ v[1] \in ConstantExprs -> ConstantExpr(g, v)
      [] OTHER -> <<g, IF IsZero(v) THEN Null ELSE Unknown>>

\* isInvalid: instructions that have no node although they have a result.
IsInvalid(v) == v[1] = "val" /\ Inst(v[2]).op = "icmp"

GetOperand(g, v) ==
    LET r == TryGetOperand(g, v)
    IN  IF r[2] # Missing THEN r
        ELSE <<[g EXCEPT !.aborted = @ \/ ~ IsInvalid(v)], Unknown>>

RECURSIVE GetOperands(_, _, _)
GetOperands(g, values, found) ==
    IF values = <<>> THEN <<g, found>>
    ELSE LET r == GetOperand(g, Head(values))
         IN  GetOperands(r[1], Tail(values), Append(found, r[2]))

\* Operands are not added twice; a value without node is left out.
AddOperand(g, x, op) ==
    IF op = Missing \/ op \in ToSet(g.nodes[x].operands) THEN g
    ELSE [g EXCEPT !.nodes[x].operands = Append(@, op)]

\* Each of the pairs is a node and a value that becomes its operand.
RECURSIVE AddOperands(_, _)
AddOperands(g, pairs) ==
    IF pairs = <<>> THEN g
    ELSE LET r == TryGetOperand(g, pairs[1][2])
         IN  AddOperands(AddOperand(r[1], pairs[1][1], r[2]), Tail(pairs))

(***************************************************************************)
(* Instructions.                                                           *)
(***************************************************************************)
IsRelevant(i) == i.op \notin {"icmp", "br", "memset", "extvoid", "unreachable"}

\* An addition takes the operand that is not the constant, or the first.
ArithmeticOperand(i) == IF i.args[1][1] = "int" THEN 2 ELSE 1

AddedOffset(i) ==
    LET other == i.args[3 - ArithmeticOperand(i)]
    IN  IF other[1] = "int" THEN other[2] ELSE UnknownOffset

\* stripInBoundsOffsets
RECURSIVE StripOffsets(_)
StripOffsets(v) ==
    IF v[1] \in {"cast", "gep"} THEN StripOffsets(v[2])
    ELSE IF v[1] = "val" /\ Inst(v[2]).op \in {"cast", "gep"} THEN StripOffsets(Inst(v[2]).args[1])
    ELSE v

IsAlloca(v) == v[1] = "val" /\ Inst(v[2]).op = "alloca"

\* createReturn: an aggregate is returned as the address that it was loaded from.
ReturnOperands(i) ==
    IF i.args = <<>> THEN <<>>
    ELSE LET v == i.args[1] IN
         CASE i.op = "retagg" -> <<Inst(v[2]).args[1]>>
           [] i.op = "ret" /\ v[1] = "int" /\ ~ IsZero(v) -> <<>>
           [] i.op = "ret" /\ IsInvalid(v) -> <<>>
           [] OTHER -> <<v>>

\* The values for which an instruction needs nodes when it is built.
OperandsNeeded(i) ==
    CASE i.op \in {"phi", "call", "extern", "asm", "alloca", "malloc", "calloc", "join", "exit",
                   "bits"} -> <<>>
      [] i.op \in {"add", "sub"} -> <<i.args[ArithmeticOperand(i)]>>
      [] i.op \in {"ret", "retagg"} -> ReturnOperands(i)
      [] i.op = "inttoptr" /\ IsConstant(i.args[1]) -> << <<"undef">> >>
      [] i.op = "vastart" -> <<StripOffsets(i.args[1])>>
      [] i.op \in {"pcall", "extractelement"} -> <<i.args[1]>>
      [] i.op = "create" -> <<i.args[3]>>
      [] i.op = "insertelement" /\ i.args[1] = <<"undef">> -> <<i.args[2]>>
      [] OTHER -> i.args

\* createGEP: an offset that is variable or beyond the field sensitivity is unknown.
GepOffset(n) ==
    IF n # UnknownOffset /\ FieldSensitivity > 0 /\ (n = 0 \/ n < FieldSensitivity)
      THEN n ELSE UnknownOffset

\* createInsertElement: a new temporary memory, a copy of that of the vector and the store.
InsertElement(i, ops, b) ==
    LET copies == Len(ops) - 1 IN
    <<Paired(Alloc(2), b + 3 + copies)>>
    \o [k \in 1 .. copies |-> Memcpy(ops[1], b + 1, UnknownOffset)]
    \o <<Gep(b + 1, i.n), Simple("STORE", <<Last(ops), b + 2 + copies>>)>>

\* The nodes of the different instructions; b is the number of nodes before them.
NewAccess(i, ops) ==
    CASE i.op = "alloca" -> <<Alloc(i.n)>>
      [] i.op = "store" -> <<Simple("STORE", ops)>>
      [] i.op = "load" -> <<Simple("LOAD", ops)>>
      [] i.op = "gep" -> <<Gep(ops[1], GepOffset(i.n))>>

NewSelect(ops) == <<Simple("PHI", ops)>>
NewPhi == <<Simple("PHI", <<>>)>>
NewExtract(i, ops, b) == <<Gep(ops[1], i.n), Simple("LOAD", <<b + 1>>)>>
NewExtractElement(i, ops, b) == <<Gep(ops[1], i.n), Simple("LOAD", <<b + 1>>)>>

NewCast(i, ops) ==
    CASE i.op = "ptrtoint" -> <<Gep(ops[1], 0)>>
      [] i.op \in {"cast", "inttoptr"} -> <<Simple("CAST", ops)>>

\* Any operation but an addition of a constant moves the pointer to an unknown offset.
NewArithmetic(i, ops) ==
    CASE i.op = "add" -> <<Gep(ops[1], AddedOffset(i))>>
      [] i.op = "sub" -> <<Gep(ops[1], UnknownOffset)>>
      [] i.op = "bits" -> <<Constant(Unknown, UnknownOffset)>>

NewMemory(i, ops, b) ==
    CASE i.op = "malloc" -> <<Alloc(i.n)>>
      [] i.op = "calloc" -> <<[Alloc(i.n) EXCEPT !.zero = TRUE]>>
      [] i.op = "realloc" -> <<Alloc(i.n), Memcpy(ops[1], b + 1, UnknownOffset), Constant(b + 1, 0)>>

NewMemTransfer(i, ops) == <<Memcpy(ops[2], ops[1], i.n)>>

\* The list of arguments may be anywhere in the memory that va_start gets, and the
\* arguments go into a memory of their own.
NewVarArg(ops, b, vararg) ==
    <<Alloc(0), Gep(ops[1], UnknownOffset),
      Simple("STORE", <<b + 1, b + 2>>), Simple("STORE", <<vararg, b + 1>>)>>

NewAsm(b) == <<Paired(Constant(Unknown, UnknownOffset), b + 1)>>
NewUnknownCall(b) == <<Paired(Simple("CALL", <<>>), b + 1)>>

NewCallToFunction(b) ==
    <<Paired(Simple("CALL", <<>>), b + 2), Paired(Simple("CALL_RETURN", <<>>), b + 1)>>
NewFuncptrCall(ops, b) ==
    <<Paired(Simple("CALL_FUNCPTR", ops), b + 2), Paired(Simple("CALL_RETURN", <<>>), b + 1)>>

NewThreadCall(i, b) ==
    CASE i.op = "create" -> <<Paired(Simple("CALL", <<>>), b + 2)>>
      [] i.op = "join" -> <<Paired(Simple("CALL", <<>>), b + 2), Paired(Simple("JOIN", <<>>), b + 1)>>
      [] i.op = "exit" -> <<Paired(Simple("CALL", <<>>), b + 2), Paired(Simple("RETURN", <<>>), b + 1)>>

NewNodes(i, ops, b, vararg) ==
    CASE i.op \in {"alloca", "store", "load", "gep"} -> NewAccess(i, ops)
      [] i.op = "select" -> NewSelect(ops)
      [] i.op = "phi" -> NewPhi
      [] i.op = "extract" -> NewExtract(i, ops, b)
      [] i.op = "extractelement" -> NewExtractElement(i, ops, b)
      [] i.op = "insertelement" -> InsertElement(i, ops, b)
      [] i.op \in {"cast", "inttoptr", "ptrtoint"} -> NewCast(i, ops)
      [] i.op \in {"add", "sub", "bits"} -> NewArithmetic(i, ops)
      [] i.op \in {"ret", "retagg"} -> <<Simple("RETURN", ops)>>
      [] i.op \in {"malloc", "calloc", "realloc"} -> NewMemory(i, ops, b)
      [] i.op = "memcpy" -> NewMemTransfer(i, ops)
      [] i.op = "vastart" -> NewVarArg(ops, b, vararg)
      [] i.op = "asm" -> NewAsm(b)
      [] i.op = "extern" -> NewUnknownCall(b)
      [] i.op = "call" -> NewCallToFunction(b)
      [] i.op = "pcall" -> NewFuncptrCall(ops, b)
      [] i.op \in {"create", "join", "exit"} -> NewThreadCall(i, b)

RepresentantOf(i, new, b) ==
    IF i.op \in {"insertelement", "vastart"} THEN b + 1 ELSE b + Len(new)

\* Edges that are made together with the nodes, not with the structure of the function.
EarlyEdges(i, b, len) ==
    CASE i.op \in {"extract", "extractelement", "exit", "create"} -> {<<b + 1, b + 2>>}
      [] i.op = "insertelement" -> {<<b + len - 2, b + len - 1>>, <<b + len - 1, b + len>>}
      [] OTHER -> {}

\* The node that a pthread function adds for itself, and its arguments as operands of
\* the call node.
AddThread(g, i) ==
    LET call == g.map[Result(i)].seq[1]
        ops == AddOperands(g, [k \in DOMAIN i.args |-> <<call, i.args[k]>>])
    IN  CASE i.op = "exit" -> AddOperand(ops, call + 1, ops.nodes[call].operands[1])
          [] OTHER -> ops

\* buildInstruction, without what connects it to the function it calls.
BuildNodes(g, i, vararg) ==
    LET r == GetOperands(g, OperandsNeeded(i), <<>>)
        b == Count(r[1])
        new == NewNodes(i, r[2], b, vararg)
        built == AddNode(r[1], Result(i), new, RepresentantOf(i, new, b))
        fork == [built EXCEPT !.nodes = IF i.op # "create" THEN @
                    ELSE Append(@, [Paired(Simple("FORK", r[2]), b + 1) EXCEPT !.user = Result(i)])]
        edges == [fork EXCEPT !.succ = @ \cup EarlyEdges(i, b, Len(new)),
                              !.anyResult = @ \cup {x \in {b + 1} : i.op = "extern"}]
    IN  IF i.op \in {"create", "join", "exit"} THEN AddThread(edges, i) ELSE edges

\* checkMemSet: a local variable that is set to zero is marked; for other memory there
\* are nodes, but no block contains them.
CheckMemSet(g, i) ==
    LET v == StripOffsets(i.args[1])
        r == GetOperand(g, v)
        b == Count(r[1])
    IN  CASE IsZero(i.args[2]) /\ IsAlloca(v) -> [r[1] EXCEPT !.nodes[r[2]].zero = TRUE]
          [] IsZero(i.args[2]) /\ ~ IsAlloca(v) ->
               AddNode(r[1], Result(i), <<Gep(r[2], UnknownOffset), Simple("STORE", <<Null, b + 1>>)>>,
                       b + 2)
          [] OTHER -> g

(***************************************************************************)
(* Functions.                                                              *)
(***************************************************************************)
EntryBlock == 1
BlocksOf(f) == DOMAIN program.funs[f].code

\* getBasicBlocksInDominatorOrder: the levels of the dominator tree; the blocks of a
\* level are taken by number.
DominatorOrder(f) ==
    LET succ == program.funs[f].succ
        level == [b \in BlocksOf(f) |-> Cardinality(StrictDominators(succ, {EntryBlock}, b))]
    IN  SetToSortSeq(Reachable(succ, {EntryBlock}),
                     LAMBDA a, b : level[a] < level[b] \/ (level[a] = level[b] /\ a < b))

InstructionsToBuild(f) ==
    LET order == DominatorOrder(f) IN
    FlattenSeq([k \in DOMAIN order |->
        [j \in DOMAIN program.funs[f].code[order[k]] |-> <<order[k], j>>]])

\* buildFunction, up to the blocks: the nodes of the entry, the variable arguments and
\* the arguments.  The function counts as built from here on.
EnterFunction(g, f) ==
    LET fun == program.funs[f]
        root == Count(g) + 1
        vararg == IF fun.vararg THEN root + 1 ELSE 0
        first == root + 1 + (IF fun.vararg THEN 1 ELSE 0)
        start == [g EXCEPT !.nodes = @ \o <<Simple("ENTRY", <<>>)>>
                                       \o (IF fun.vararg THEN <<Simple("PHI", <<>>)>> ELSE <<>>)
                                       \o [k \in 1 .. fun.args |-> Simple("PHI", <<>>)],
                           !.subgraphs = (f :> [root |-> root, vararg |-> vararg,
                                                blocks |-> [b \in {} |-> <<>>], returnNodes |-> {},
                                                structure |-> FALSE]) @@ @]
    IN  [start EXCEPT !.map = [v \in {<<"arg", f, k>> : k \in 1 .. fun.args} |->
              [seq |-> <<first + v[3] - 1>>, representant |-> first + v[3] - 1]] @@ @]

ArgumentNodes(g, f) ==
    [k \in 1 .. program.funs[f].args |-> g.map[<<"arg", f, k>>].representant]

\* The nodes of instruction i are appended to its block; after the last instruction of
\* the block a RETURN at its end is a return node of the function.
AppendToBlock(g, f, b, i) ==
    [g EXCEPT !.subgraphs[f].blocks =
        (b :> ((IF b \in DOMAIN @ THEN @[b] ELSE <<>>) \o g.map[Result(i)].seq)) @@ @]

FinishBlock(g, f, b) ==
    LET blocks == g.subgraphs[f].blocks IN
    IF b \in DOMAIN blocks /\ g.nodes[Last(blocks[b])].type = "RETURN"
      THEN [g EXCEPT !.subgraphs[f].returnNodes = @ \cup {Last(blocks[b])}] ELSE g

\* addPHIOperands: incoming values that have no node are left out.
AddPhiOperands(g, f) ==
    LET phis == SetToSeq({i \in UNION {ToSet(program.funs[f].code[b]) : b \in BlocksOf(f)} :
                            i.op = "phi"})
    IN  AddOperands(g, FlattenSeq([k \in DOMAIN phis |->
            [j \in DOMAIN phis[k].args |->
                <<g.map[Result(phis[k])].representant, phis[k].args[j]>>]]))

(***************************************************************************)
(* The edges inside a function.                                            *)
(***************************************************************************)
Consecutive(seq) == {<<seq[k], seq[k + 1]>> : k \in 1 .. Len(seq) - 1}

\* blockAddSuccessors: the successors of block b, in their order, with the set of blocks that
\* were found on any way before (acc.found): none is looked at twice, and one without
\* nodes stands for its own successors.
RECURSIVE AddSuccessors(_, _, _, _)
AddSuccessors(succ, built, acc, b) ==
    LET Visit(known, c) ==
            LET marked == [known EXCEPT !.found = @ \cup {c}]
            IN  IF c \in known.found THEN known
                ELSE IF c \in built THEN [marked EXCEPT !.next = @ \cup {c}]
                ELSE AddSuccessors(succ, built, marked, c)
    IN  FoldLeft(Visit, acc, SetToSortSeq(succ[b], <))

\* Fault: the block counts as found from the beginning.
NextBlocks_NotItself(f, built, b) ==
    AddSuccessors(program.funs[f].succ, built, [found |-> {b}, next |-> {}], b).next

\* The blocks with nodes that follow block b, past those without.
NextBlocks(f, built, b) ==
    AddSuccessors(program.funs[f].succ, built, [found |-> {}, next |-> {}], b).next

\* The entry, the arguments and the variable arguments come before the first block.
Prologue(g, f) ==
    <<g.subgraphs[f].root>> \o ArgumentNodes(g, f)
    \o (IF program.funs[f].vararg THEN <<g.subgraphs[f].vararg>> ELSE <<>>)

\* Fault: the variable arguments are not put between the arguments and the first block.
StructureEdges_NoVararg(g, f) ==
    LET blocks == g.subgraphs[f].blocks
        built == DOMAIN blocks
        prologue == <<g.subgraphs[f].root>> \o ArgumentNodes(g, f)
        first == IF EntryBlock \in built THEN {EntryBlock} ELSE NextBlocks(f, built, EntryBlock)
    IN  Consecutive(prologue)
        \cup {<<Last(prologue), blocks[c][1]>> : c \in first}
        \cup UNION {Consecutive(blocks[b]) : b \in built}
        \cup UNION {{<<Last(blocks[b]), blocks[c][1]>> : c \in NextBlocks(f, built, b)} : b \in built}

StructureEdges(g, f) ==
    LET blocks == g.subgraphs[f].blocks
        built == DOMAIN blocks
        first == IF EntryBlock \in built THEN {EntryBlock} ELSE NextBlocks(f, built, EntryBlock)
    IN  Consecutive(Prologue(g, f))
        \cup {<<Last(Prologue(g, f)), blocks[c][1]>> : c \in first}
        \cup UNION {Consecutive(blocks[b]) : b \in built}
        \cup UNION {{<<Last(blocks[b]), blocks[c][1]>> : c \in NextBlocks(f, built, b)} : b \in built}

\* addProgramStructure(F, subg) adds them once.
AddStructure(g, f) ==
    IF g.subgraphs[f].structure THEN g
    ELSE [g EXCEPT !.succ = @ \cup StructureEdges(g, f), !.subgraphs[f].structure = TRUE]

(***************************************************************************)
(* Operands across calls.                                                  *)
(***************************************************************************)
Actuals(i) == IF i.op = "pcall" THEN Tail(i.args) ELSE i.args

\* addVariadicArgumentOperands begins with the last of the named arguments, and does
\* nothing in a function without them.
VariadicArguments(f, i) ==
    IF program.funs[f].args = 0 \/ ~ program.funs[f].vararg THEN <<>>
    ELSE SubSeq(Actuals(i), program.funs[f].args, Len(Actuals(i)))

\* The pairs of nodes and values by which call i passes arguments to f, from its
\* argument "index" on.
Passed(g, f, i, index) ==
    LET formals == ArgumentNodes(g, f)
        variadic == IF index = 1 THEN VariadicArguments(f, i) ELSE <<>>
    IN  [k \in 1 .. Min({Len(formals), Len(Actuals(i)) - index + 1}) |->
            <<formals[k], Actuals(i)[k + index - 1]>>]
        \o [k \in DOMAIN variadic |-> <<g.subgraphs[f].vararg, variadic[k]>>]

RECURSIVE PassAll(_, _, _)
PassAll(g, f, calls) ==
    IF calls = <<>> THEN g
    ELSE PassAll(AddOperands(g, Passed(g, f, calls[1], 1)), f, Tail(calls))

\* addReturnNodeOperand: RETURN r and the CALL_RETURN of the call.
AddReturn(g, call, r) ==
    LET ret == g.nodes[call].paired IN
    [AddOperand(g, ret, r) EXCEPT !.returnSites = @ \cup {<<r, ret>>}]

RECURSIVE AddReturns(_, _)
AddReturns(g, pairs) ==
    IF pairs = <<>> THEN g
    ELSE AddReturns(AddReturn(g, pairs[1][1], pairs[1][2]), Tail(pairs))

\* The calls of f by its name, in functions that are built or not.
UsesOf(f) == {i \in Instructions : i.op = "call" /\ i.fn = f}

\* addInterproceduralOperands(F, subg): of all the calls by name.
AddInterprocedural(g, f) ==
    LET passed == PassAll(g, f, SetToSeq(UsesOf(f)))
        calls == {passed.map[Result(i)].seq[1] : i \in {j \in UsesOf(f) : Result(j) \in DOMAIN passed.map}}
    IN  AddReturns(passed, SetToSeq(calls \X passed.subgraphs[f].returnNodes))

\* addInterproceduralOperands(F, subg, CI, callNode): of one call, while the analysis
\* runs.  If f does not return, nothing follows the call.
AddInterproceduralOf(g, f, i, call) ==
    LET returns == g.subgraphs[f].returnNodes
        passed == AddOperands(g, Passed(g, f, i, 1))
    IN  IF returns # {} THEN AddReturns(passed, SetToSeq({call} \X returns))
        ELSE [passed EXCEPT !.succ = @ \ {<<call, g.nodes[call].paired>>}]

ConnectCall(g, f, call) == [g EXCEPT !.callees = @ \cup {<<call, f>>}]

\* addFunctionToFork: arguments of the thread are those of pthread_create from its fourth on.
AddFunctionToFork(g, f, fork) ==
    LET i == Inst(g.nodes[fork].user[2])
        passed == AddOperands(g, Passed(g, f, i, 4))
    IN  [passed EXCEPT !.succ = @ \cup {<<fork, g.subgraphs[f].root>>},
                       !.functions = @ \cup {<<fork, f>>}]

\* addFunctionToJoin: what the thread returns is stored where pthread_join is told to.
AddFunctionToJoin(g, f, join) ==
    LET to == g.nodes[g.nodes[join].paired].operands[2]
        returns == g.subgraphs[f].returnNodes
        phi == Count(g) + 1
        joined == [g EXCEPT !.functions = @ \cup {<<join, f>>}]
    IN  IF to = Null THEN [joined EXCEPT !.succ = @ \cup (returns \X {join})]
        ELSE [joined EXCEPT
                !.nodes = @ \o <<Simple("PHI", SetToSeq(returns)), Simple("STORE", <<phi, to>>)>>,
                !.succ = @ \cup {<<phi, phi + 1>>, <<phi + 1, join>>} \cup (returns \X {phi})]

\* insertFunctionCall: the call goes to f only, no longer past it.
InsertFunctionCall(g, f, call) ==
    LET connected == [ConnectCall(g, f, call) EXCEPT !.succ = @ \ {<<call, g.nodes[call].paired>>}]
    IN  AddInterproceduralOf(connected, f, Inst(g.nodes[call].user[2]), call)

(***************************************************************************)
(* Globals.                                                                *)
(***************************************************************************)
\* The scalars in an initialiser with their offsets; a null value of any type is one.
RECURSIVE Scalars(_, _)
Scalars(init, offset) ==
    IF init[1] # "aggregate" THEN << <<init, offset>> >>
    ELSE FlattenSeq([k \in DOMAIN init[2] |-> Scalars(init[2][k][2], offset + init[2][k][1])])

\* Fault: the offset inside the global is lost.
StoreInitial_NoOffset(g, x, value, offset) ==
    LET t == Count(g) + 1 IN
    [g EXCEPT !.nodes = @ \o <<Constant(x, 0), Simple("STORE", <<value, t>>)>>,
              !.globals = @ \o <<t, t + 1>>]

StoreInitial(g, x, value, offset) ==
    LET t == Count(g) + 1 IN
    [g EXCEPT !.nodes = @ \o <<Constant(x, offset), Simple("STORE", <<value, t>>)>>,
              !.globals = @ \o <<t, t + 1>>]

\* handleGlobalVariableInitializer of one scalar: <<"zero">>, <<"undef">>, a number or a
\* constant that is a pointer.
InitScalar(g, x, scalar) ==
    LET v == scalar[1]  r == TryGetOperand(g, v) IN
    CASE v[1] = "none" \/ v[1] = "int" -> g
      [] v[1] = "null" -> [g EXCEPT !.nodes[x].zero = TRUE]
      [] v[1] = "undef" -> StoreInitial(g, x, Unknown, scalar[2])
      [] OTHER -> StoreInitial(r[1], x, r[2], scalar[2])

RECURSIVE InitScalars(_, _, _)
InitScalars(g, x, scalars) ==
    IF scalars = <<>> THEN g
    ELSE InitScalars(InitScalar(g, x, scalars[1]), x, Tail(scalars))

RECURSIVE InitGlobals(_, _)
InitGlobals(g, k) ==
    IF k > Len(program.globals) THEN g
    ELSE InitGlobals(InitScalars(g, k, Scalars(program.globals[k], 0)), k + 1)

\* The memory of all the globals comes first, since initialisers may point to each other.
AllocatedGlobals ==
    LET n == Len(program.globals) IN
    [EmptyGraph EXCEPT !.nodes = [k \in 1 .. n |-> Alloc(program.size[k])],
                       !.globals = [k \in 1 .. n |-> k],
                       !.map = [v \in {<<"global", k>> : k \in 1 .. n} |->
                                  [seq |-> <<v[2]>>, representant |-> v[2]]]]

(***************************************************************************)
(* The actions.  The functions under construction are a stack: a call by   *)
(* name of a function that is not built yet waits until it is.             *)
(***************************************************************************)
Top == stack[Len(stack)]
adHocBuilding == phase = "analyse"

Push(f) == Append(stack, [fun |-> f, todo |-> InstructionsToBuild(f)])

BuildGlobals ==
    /\ phase = "globals"
    /\ graph' = EnterFunction(InitGlobals(AllocatedGlobals, 1), "main")
    /\ stack' = Push("main")
    /\ phase' = "build"
    /\ UNCHANGED program

\* The function that an instruction calls, or starts as a thread, by its name.
Named(i) ==
    IF i.op = "call" THEN {i.fn}
    ELSE IF i.op = "create" /\ StripCasts(i.args[3])[1] = "fun" THEN {StripCasts(i.args[3])[2]}
    ELSE {}

\* buildInstruction with what follows for calls (createCallToFunction, createForkNode).
\* While the analysis runs, arguments and returns are connected at once; otherwise when
\* everything is built.
Built(g, i) ==
    LET nodes == BuildNodes(g, i, g.subgraphs[Top.fun].vararg)
        call == nodes.map[Result(i)].seq[1]
        f == CHOOSE h \in Named(i) : TRUE
    IN  CASE i.op = "call" /\ ~ adHocBuilding -> ConnectCall(nodes, f, call)
          [] i.op = "call" /\ adHocBuilding ->
               AddInterproceduralOf(ConnectCall(nodes, f, call), f, i, call)
          [] i.op = "create" /\ Named(i) # {} -> AddFunctionToFork(nodes, f, call + 1)
          [] OTHER -> nodes

Here == Head(Top.todo)
Instruction == program.funs[Top.fun].code[Here[1]][Here[2]]

\* After the last instruction of a block the block is finished.
Done(g) ==
    /\ graph' = IF Here[2] = Len(program.funs[Top.fun].code[Here[1]])
                  THEN FinishBlock(g, Top.fun, Here[1]) ELSE g
    /\ stack' = [stack EXCEPT ![Len(stack)].todo = Tail(@)]
    /\ UNCHANGED <<program, phase>>

Building == stack # <<>> /\ ~ graph.aborted

BuildInstruction ==
    /\ Building /\ Top.todo # <<>> /\ IsRelevant(Instruction)
    /\ Named(Instruction) \subseteq DOMAIN graph.subgraphs
    /\ Done(AppendToBlock(Built(graph, Instruction), Top.fun, Here[1], Instruction))

SkipInstruction ==
    /\ Building /\ Top.todo # <<>> /\ ~ IsRelevant(Instruction)
    /\ Done(IF Instruction.op = "memset" THEN CheckMemSet(graph, Instruction) ELSE graph)

Enter(f) ==
    /\ f \notin DOMAIN graph.subgraphs
    /\ graph' = EnterFunction(graph, f)
    /\ stack' = Push(f)
    /\ UNCHANGED <<program, phase>>

BuildCallee ==
    /\ Building /\ Top.todo # <<>>
    /\ \E f \in Named(Instruction) : Enter(f)

\* createOrGetSubgraph returns; while the analysis runs the function gets its edges now.
LeaveFunction ==
    /\ Building /\ Top.todo = <<>>
    /\ LET g == AddPhiOperands(graph, Top.fun) IN
       graph' = IF adHocBuilding THEN AddStructure(g, Top.fun) ELSE g
    /\ stack' = Front(stack)
    /\ UNCHANGED <<program, phase>>

RECURSIVE AddStructures(_, _)
AddStructures(g, fs) ==
    IF fs = <<>> THEN g
    ELSE AddStructures(AddInterprocedural(AddStructure(g, fs[1]), fs[1]), Tail(fs))

\* addProgramStructure, for all functions; then the graph is handed to the analysis.
AddProgramStructure ==
    /\ phase = "build" /\ stack = <<>>
    /\ graph' = AddStructures(graph, SetToSeq(DOMAIN graph.subgraphs))
    /\ phase' = "built"
    /\ UNCHANGED <<program, stack>>

BuildNext ==
    \/ BuildGlobals \/ BuildInstruction \/ SkipInstruction \/ BuildCallee \/ LeaveFunction
    \/ AddProgramStructure

BuildInit ==
    /\ program \in Programs
    /\ phase = "globals"
    /\ graph = EmptyGraph
    /\ stack = <<>>

(***************************************************************************)
(* PointerGraphValidator: what the builder asserts of its graph.           *)
(***************************************************************************)
NodeIds(g) == 1 .. Count(g)
TypeOf(g, x) == IF x \in {Null, Unknown} THEN "CONSTANT" ELSE g.nodes[x].type

\* canBeOutsideGraph; the nodes of globals are not among those that are checked.
CanBeOutside(g, x) == x \in ToSet(g.globals) \/ TypeOf(g, x) \in {"FUNCTION", "CONSTANT"}

OperandsValid(g, x) ==
    LET ops == g.nodes[x].operands
        number == CASE TypeOf(g, x) = "FUNCTION" -> {0}
                    [] TypeOf(g, x) \in {"GEP", "LOAD", "CAST", "CONSTANT"} -> {1}
                    [] TypeOf(g, x) \in {"STORE", "MEMCPY"} -> {2}
                    [] OTHER -> {Len(ops)}
    IN  /\ Len(ops) \in number
        /\ TypeOf(g, x) \in {"PHI", "GEP", "LOAD", "CAST", "CONSTANT", "STORE", "MEMCPY"} =>
              \A k \in DOMAIN ops : TypeOf(g, ops[k]) \notin {"ENTRY", "MEMCPY", "STORE", "NOOP"}

\* Where getReachableNodes goes from x, or with "chooser" the search of the analysis (the
\* EdgeChooser of getNodes): into a called function instead of past the call, and from a
\* RETURN to the return sites only if it has any.
Successors(g, x) == {e[2] : e \in {d \in g.succ : d[1] = x}}
Entered(g, x) == {g.subgraphs[e[2]].root : e \in {d \in g.callees : d[1] = x}}
ReturnsTo(g, x) == {e[2] : e \in {d \in g.returnSites : d[1] = x}}

NextNodes(g, x, chooser) ==
    LET calls == Entered(g, x) \cup ReturnsTo(g, x)
    IN  IF chooser /\ calls # {} THEN calls ELSE Successors(g, x) \cup calls

RECURSIVE ReachFrom(_, _, _, _)
ReachFrom(g, found, frontier, chooser) ==
    IF frontier = {} THEN found
    ELSE LET next == UNION {NextNodes(g, x, chooser) : x \in frontier} \ found
         IN  ReachFrom(g, found \cup next, next, chooser)

ReachableNodes(g, chooser) ==
    LET root == {g.subgraphs["main"].root} IN ReachFrom(g, root, root, chooser)

EdgesValid(g) ==
    LET reachable == ReachableNodes(g, FALSE) IN
    \A x \in NodeIds(g) : ~ CanBeOutside(g, x) =>
        /\ x \in reachable
        /\ TypeOf(g, x) # "ENTRY" => \E d \in g.succ : d[2] = x

-----------------------------------------------------------------------------
(***************************************************************************)
(* Properties.                                                             *)
(***************************************************************************)
\* No operand is missing when it is needed, and the graph passes the validator right after
\* it was built; the operands do so as well after each function that the analysis adds.
Validates ==
    /\ ~ graph.aborted
    /\ phase \in {"built", "analyse"} /\ stack = <<>> => \A x \in NodeIds(graph) : OperandsValid(graph, x)
    /\ phase = "built" => EdgesValid(graph)

\* Positions in function f: its instructions, and which follow one another in the program.
Positions(f) == UNION {{<<b, k>> : k \in DOMAIN program.funs[f].code[b]} : b \in BlocksOf(f)}
At(f, p) == program.funs[f].code[p[1]][p[2]]
NextPositions(f, p) ==
    IF p[2] < Len(program.funs[f].code[p[1]]) THEN {<<p[1], p[2] + 1>>}
    ELSE {<<c, 1>> : c \in program.funs[f].succ[p[1]]}
HasNodes(f, p) == IsRelevant(At(f, p)) /\ Result(At(f, p)) \in DOMAIN graph.map

\* The instructions with nodes that the program may execute next when it is at one of P,
\* with none that has nodes in between.
FollowedBy(f, P) ==
    LET past == [q \in Positions(f) |-> IF HasNodes(f, q) THEN {} ELSE NextPositions(f, q)]
    IN  {q \in Reachable(past, P) : HasNodes(f, q)}

SeqAt(f, p) == graph.map[Result(At(f, p))].seq
BuiltIn(f) == {p \in Positions(f) : HasNodes(f, p)}

\* Edges from the last node of an instruction to the first of one that may be next.
FlowEdges(f) ==
    UNION {{<<Last(SeqAt(f, p)), SeqAt(f, q)[1]>> : q \in FollowedBy(f, NextPositions(f, p))} : p \in BuiltIn(f)}

FlowExactIn(f, flow, nodes, own) ==
    /\ flow \subseteq graph.succ
    /\ {d \in graph.succ : d[1] \in nodes /\ d[2] \in nodes} \ own \subseteq flow
    /\ \A p \in BuiltIn(f) : <<Last(SeqAt(f, p)), SeqAt(f, p)[1]>> \notin graph.succ \ flow
    /\ {d[2] : d \in {e \in graph.succ : e[1] = Last(Prologue(graph, f))}} \cap nodes
       = {SeqAt(f, q)[1] : q \in FollowedBy(f, {<<EntryBlock, 1>>})}

\* The edges between the nodes of different instructions of a function are exactly its
\* ways from one instruction to the next: blocks without nodes are passed, none is skipped,
\* and the first instruction follows the nodes of the arguments.
FlowExact ==
    phase # "run" =>
        \A f \in DOMAIN graph.subgraphs : graph.subgraphs[f].structure =>
            FlowExactIn(f, FlowEdges(f), UNION {ToSet(SeqAt(f, p)) : p \in BuiltIn(f)},
                        UNION {ToSet(SeqAt(f, p)) \X ToSet(SeqAt(f, p)) : p \in BuiltIn(f)})
=============================================================================
