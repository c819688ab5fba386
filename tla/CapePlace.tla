------------------------------ MODULE CapePlace -------------------------------
(***************************************************************************)
(* Where Slicing.h puts the transactions: for a loop that a secret-        *)
(* dependent branch may leave and for every other secret-dependent access, *)
(* the branch (or block) whose region becomes a transaction, the calls     *)
(* that start and end it, and the calls that preload data and code.  Then  *)
(* the transformed program runs, and the properties say whether the        *)
(* accesses are made in transactions that have preloaded what they touch.  *)
(*                                                                         *)
(* A block is a call, or a list of loads and stores, and its terminator.    *)
(* What the walk of CapeWalk has marked is given.                          *)
(***************************************************************************)
EXTENDS FlowGraph, Sequences, SequencesExt

CONSTANTS
    Block,    \* basic blocks of all functions
    Func,     \* functions
    Buffer,   \* allocas of other functions, mallocs and globals
    NoBlock,  \* the virtual root of the dominator and postdominator trees
    Programs, \* the programs considered, see ProgramType
    MaxDepth  \* bound: transactions nest no deeper

ASSUME PlaceAssumption ==
    IsFiniteSet(Block) /\ IsFiniteSet(Func) /\ NoBlock \notin Block /\ MaxDepth \in Nat

\* Node <<b, i>> is the access i of block b, or its terminator if i is 0.
Node == Block \X (0 .. 2)

(***************************************************************************)
(* The recursive search of processBBlockIDomsAndNodeRevCDs for the highest *)
(* branch has no end in a recursive program, hence calls go up in rank.    *)
(***************************************************************************)
ProgramType ==
    [func : [Block -> Func],
     entry : [Func -> Block],
     main : Func,
     succ : [Block -> SUBSET Block],
     callee : [Block -> SUBSET Func],   \* at most one, if the block has a call
     access : [Block -> Seq(SUBSET Buffer)], \* what each load or store may touch
                                        \* and can be preloaded
     phi : SUBSET Block,                \* blocks that start with a PHI node
     blocks : SUBSET Block,             \* blocks with a marked node
     nodes : SUBSET Node,               \* marked terminators and accesses
     addDep : SUBSET Node]              \* accesses at an address from a marked node

ASSUME ProgramsAssumption ==
    /\ Programs \subseteq ProgramType
    /\ \A p \in Programs :
          /\ \E rank \in [Func -> 1 .. Cardinality(Func)] :
                \A b \in Block : \A f \in p.callee[b] : rank[f] > rank[p.func[b]]
          /\ \A b \in Block : \A c \in p.succ[b] : p.func[c] = p.func[b]
          /\ \A f \in {p.main} \cup UNION Range(p.callee) : p.func[p.entry[f]] = f
          /\ \A n \in p.nodes : n[1] \in p.blocks /\ n[2] \in {0} \cup DOMAIN p.access[n[1]]

VARIABLES
    program, \* constant
    phase,   \* pass 1 ("loops") or 2 ("accesses") of the tool, then "run" the program
    todo,    \* branches (pass 1) or accesses (pass 2) still to be visited
    slice,   \* slice[b]: the slice_id of block b
    nodes,   \* nodes with slice > 0
    loops,   \* blocks whose last node has slice 888
    code,    \* code[k][b]: calls inserted at the start of b, or at its end
    at,      \* <<block, place>> the run is at
    stack,   \* blocks to which the run returns
    depth,   \* nesting of transactions
    loaded,  \* buffers preloaded in the running transaction
    ready    \* functions whose code is

tool == <<todo, slice, nodes, loops, code>>
machine == <<at, stack, depth, loaded, ready>>
vars == <<program, phase, tool, machine>>

\* The values of BBlock::slice_id: 0, the id of the slice, the id of a block in
\* which a transaction was started (or ended), and 777.
SliceId == {"none", "marked", "placed", "preloaded"}

Place == {"first", "last"}
Ops == [op : {"start", "end"}] \cup [op : {"data"}, of : SUBSET Buffer]
         \cup [op : {"code"}, of : SUBSET Func]
Start == [op |-> "start"]
End == [op |-> "end"]
Data(B) == [op |-> "data", of |-> B]

-----------------------------------------------------------------------------
(* The graphs.                                                              *)

succ == program.succ

\* A block that goes on ends in a Br: the code asks for the opcode and never
\* treats a branch on the secret that is made by a switch.
IsBr(b) == succ[b] # {}

idom(b) == IDom(succ, program.entry[program.func[b]], b, NoBlock)
ipostdom(b) == IPostDom(succ, b, NoBlock)

\* revControlDependence: see ControlDep.
RevCD(b) == {a \in Block : ControlDependent(succ, a, b) /\ (a = b => b \in succ[b])}

\* collectLoopBlks for the back edge from latch to header.
LoopBlocks(header, latch) ==
    {header} \cup ReachableAvoiding(Reversed(succ), {latch}, {header})

StrictlyDominates(a, b) == a \in StrictDominators(succ, {program.entry[program.func[b]]}, b)

BackEdges(header) == {a \in Pred(succ, header) : StrictlyDominates(header, a)}

\* getBrLoopBlocks: the loops of the closest dominator of b, or b itself, that heads
\* one.  The code looks at one of them; a loop of one block is not recognised.
NearestLoops(b) ==
    LET heads == {h \in Block : (h = b \/ StrictlyDominates(h, b)) /\ BackEdges(h) # {}}
        nearest == {h \in heads : \A g \in heads : g = h \/ StrictlyDominates(g, h)}
    IN  UNION {{<<h, LoopBlocks(h, a)>> : a \in BackEdges(h)} : h \in nearest}

\* isCondExit, for a branch of the loop.
IsExit(b, L) == b \in L /\ ~(succ[b] \subseteq L)

-----------------------------------------------------------------------------
(* Insertion.  A placement is the part of the state that it changes.        *)

placement == [slice |-> slice, nodes |-> nodes, loops |-> loops, code |-> code, phase |-> phase]

\* Calls go before a fixed instruction, after those inserted earlier; but PHI
\* nodes are skipped up to the first of the calls inserted earlier.
Insert(pl, k, b, ops) ==
    [pl EXCEPT !.code[k][b] = IF k = "first" /\ b \in program.phi THEN ops \o @ ELSE @ \o ops]

\* Fault: the code of callees is not preloaded.
NoCallees(B) == {}

Callees(B) ==
    Reachable([f \in Func |-> UNION {program.callee[b] : b \in {c \in Block : program.func[c] = f}}],
              UNION {program.callee[b] : b \in B})

\* preloadTransactionCode: functions called between first and end.
preloadCode(pl, first, end) ==
    LET region == ReachableAvoiding(succ, {first}, {end}) \ {first}
        new == {b \in region : pl.slice[b] # "preloaded"}
        ops == <<[op |-> "code", of |-> {program.func[first]} \cup Callees(new)]>>
    IN  IF pl.slice[first] = "preloaded" THEN pl
        ELSE [Insert(pl, "last", first, ops) EXCEPT
                 !.slice = [b \in Block |-> IF b \in new \cup {first} THEN "preloaded" ELSE @[b]]]

\* addTransactionEnd after a branch; without a postdominator there is no end.
endOfBranch(pl, b) ==
    LET s == ipostdom(b) IN
    IF s = NoBlock THEN pl
    ELSE preloadCode(Insert(pl, "first", s, <<End>>), b, s)

\* processHighestBr for the last node of b, a branch, or for its first if no branch
\* is found and the access is at an address from a marked node.
processHighestBr(pl, k, b, B) ==
    LET placed == [pl EXCEPT !.slice[b] = "placed"] IN
    CASE pl.slice[b] \in {"placed", "preloaded"} -> Insert(pl, k, b, <<Data(B)>>)
      [] pl.slice[b] \notin {"placed", "preloaded"} /\ B = {} -> pl
      [] OTHER ->
            IF k = "last"
              THEN Insert(endOfBranch(Insert(placed, k, b, <<Start>>), b), k, b, <<Data(B)>>)
              ELSE Insert(Insert(placed, k, b, <<Start, Data(B)>>), "last", b, <<End>>)

\* The block where the transaction of a loop ends: the first postdominator of the
\* block before the loop that is not in it.
LoopEnd(b, L) ==
    LET out == {a \in StrictPostDominators(succ, b) : a \notin L}
        doms == [a \in Block |->
                   IF a = b THEN out ELSE StrictPostDominators(succ, a) \cap out]
    IN  Nearest(doms, b, NoBlock)

\* Fault: a second exit from a loop starts another transaction.
LoopWithoutMark(pl, header, L, B) ==
    LET s == idom(header) IN
    preloadCode(Insert(Insert(pl, "first", LoopEnd(s, L), <<End>>), "last", s, <<Start, Data(B)>>),
                s, LoopEnd(s, L))

\* The transaction of a loop starts at the end of the header's dominator.
placeTransForLoop(pl, header, L, B) ==
    LET s == idom(header)
        e == LoopEnd(s, L)
        started == [Insert(pl, "last", s, <<Start>>) EXCEPT
                       !.loops = @ \cup {s}, !.nodes = @ \cup {<<s, 0>>}]
        ended == IF pl.slice[e] = "placed" THEN started
                 ELSE [Insert(started, "first", e, <<End>>) EXCEPT !.slice[e] = "placed"]
    IN  CASE s \in pl.loops -> Insert(pl, "last", s, <<Data(B)>>)
          [] s \notin pl.loops /\ B = {} -> pl
          [] s \notin pl.loops /\ B # {} /\ e = NoBlock -> [pl EXCEPT !.phase = "crashed"]
          [] OTHER -> Insert(preloadCode(ended, s, e), "last", s, <<Data(B)>>)

-----------------------------------------------------------------------------
(* The choice of the branch.                                                *)

MarkedBr(pl, b) == pl.slice[b] # "none" /\ <<b, 0>> \in pl.nodes /\ IsBr(b)

\* Calls of f, found if a node of f is marked.
CallersOf(f) ==
    {b \in Block : f \in program.callee[b] /\ \E a \in program.blocks : program.func[a] = f}

\* Fault: the branch that is found is the closest one.
ClosestBranch(pl, b) ==
    {d \in Block : StrictlyDominates(d, b) /\ MarkedBr(pl, d) /\
        \A c \in Block : StrictlyDominates(d, c) /\ StrictlyDominates(c, b) => ~MarkedBr(pl, c)}

\* The topmost branch found by following idom from b over marked blocks.
TopBranch(pl, b) ==
    LET found == {d \in Block : StrictlyDominates(d, b) /\ MarkedBr(pl, d) /\
            \A c \in Block : StrictlyDominates(d, c) /\ StrictlyDominates(c, b)
                                => pl.slice[c] # "none"}
    IN  {d \in found : \A c \in found \ {d} : StrictlyDominates(d, c)}

\* processBBlockIDomsAndNodeRevCDs: the branches that may be found from b, by way
\* of the callers or else in the function of b.
Highest(pl) ==
    LET h[b \in Block] ==
            LET up == UNION {h[c] : c \in CallersOf(program.func[b])} IN
            CASE pl.slice[b] = "none" -> {}
              [] pl.slice[b] # "none" /\ up # {} -> up
              [] OTHER -> TopBranch(pl, b)
    IN  h

\* The placements that may result from processBBlockRevCDs for block b, with L the
\* loop of which b is the header or {}, and B the buffers to preload.
processBBlockRevCDs(pl, b, L, addDep, B) ==
    LET h == Highest(pl)
        direct == {a \in RevCD(b) : MarkedBr(pl, a) /\ a \notin L}
        found == UNION {IF h[a] # {} THEN h[a] ELSE {a} : a \in direct}
        above == UNION {h[c] : c \in CallersOf(program.func[b])}
    IN  CASE direct # {} -> {processHighestBr(pl, "last", a, B) : a \in found}
          [] direct = {} /\ above # {} -> {processHighestBr(pl, "last", a, B) : a \in above}
          [] direct = {} /\ above = {} /\ L # {} -> {placeTransForLoop(pl, b, L, B)}
          [] OTHER -> {IF addDep THEN processHighestBr(pl, "first", b, B) ELSE pl}

-----------------------------------------------------------------------------
(* The passes over the program.                                             *)

Become(pl) ==
    /\ slice' = pl.slice /\ nodes' = pl.nodes /\ loops' = pl.loops
    /\ code' = pl.code /\ phase' = pl.phase

\* The accesses of a loop are preloaded for, marked or not.  Its nodes are marked
\* no longer, those with slice 888 neither.
PlaceLoop(header, L) ==
    \E pl \in processBBlockRevCDs(
                  [placement EXCEPT !.nodes = {n \in nodes : n[1] \notin L}, !.loops = @ \ L],
                  header, L, FALSE, UNION {UNION Range(program.access[b]) : b \in L}) :
        Become(pl)

FirstPass ==
    /\ phase = "loops"
    /\ \E n \in todo :
          LET near == NearestLoops(n[1]) IN
          /\ todo' = todo \ {n}
          /\ \/ /\ n \in nodes
                /\ \E loop \in near : IsExit(n[1], loop[2]) /\ PlaceLoop(loop[1], loop[2])
             \/ /\ n \in nodes => near = {} \/ \E loop \in near : ~IsExit(n[1], loop[2])
                /\ UNCHANGED <<phase, slice, nodes, loops, code>>
    /\ UNCHANGED <<program, machine>>

PlaceAccess(n) ==
    \E pl \in processBBlockRevCDs(placement, n[1], {}, n \in program.addDep,
                                  program.access[n[1]][n[2]]) : Become(pl)

SecondPass ==
    /\ phase = "accesses"
    /\ \E n \in todo :
          /\ todo' = todo \ {n}
          /\ IF n \in nodes THEN PlaceAccess(n)
             ELSE UNCHANGED <<phase, slice, nodes, loops, code>>
    /\ UNCHANGED <<program, machine>>

Branches == {n \in program.nodes : n[2] = 0 /\ IsBr(n[1])}
Accesses == {n \in program.nodes : n[2] # 0}

NextPass ==
    /\ phase \in {"loops", "accesses"} /\ todo = {}
    /\ phase' = IF phase = "loops" THEN "accesses" ELSE "run"
    /\ todo' = IF phase = "loops" THEN Accesses ELSE {}
    /\ UNCHANGED <<program, slice, nodes, loops, code, machine>>

-----------------------------------------------------------------------------
(* The transformed program.                                                 *)

\* One inserted call: see CapeRuntime.  A transaction inside another is part of
\* it, and what is preloaded stays in the cache until the outer one ends.
Execute(m, o) ==
    CASE o.op = "start" -> [m EXCEPT !.depth = @ + 1]
      [] o.op = "end" -> IF m.depth > 1 THEN [m EXCEPT !.depth = @ - 1]
                         ELSE [depth |-> 0, loaded |-> {}, ready |-> {}]
      [] o.op = "data" -> IF m.depth = 0 THEN m ELSE [m EXCEPT !.loaded = @ \cup o.of]
      [] o.op = "code" -> IF m.depth = 0 THEN m ELSE [m EXCEPT !.ready = @ \cup o.of]

\* The calls of s, one after the other.
Executed(machine0, s) ==
    LET m[i \in 0 .. Len(s)] == IF i = 0 THEN machine0 ELSE Execute(m[i - 1], s[i])
    IN  m[Len(s)]

Calls(k, b) ==
    LET end == Executed([depth |-> depth, loaded |-> loaded, ready |-> ready], code[k][b])
    IN  /\ end.depth <= MaxDepth
        /\ depth' = end.depth /\ loaded' = end.loaded /\ ready' = end.ready

EnterBlock ==
    /\ phase = "run" /\ at[2] = "first"
    /\ Calls("first", at[1])
    /\ at' = <<at[1], "item">>
    /\ UNCHANGED <<program, phase, tool, stack>>

Item ==
    /\ phase = "run" /\ at[2] = "item" /\ program.callee[at[1]] = {}
    /\ at' = <<at[1], "last">>
    /\ UNCHANGED <<program, phase, tool, stack, depth, loaded, ready>>

Call ==
    /\ phase = "run" /\ at[2] = "item"
    /\ \E f \in program.callee[at[1]] : at' = <<program.entry[f], "first">>
    /\ stack' = <<at[1]>> \o stack
    /\ UNCHANGED <<program, phase, tool, depth, loaded, ready>>

Branch ==
    /\ phase = "run" /\ at[2] = "last"
    /\ Calls("last", at[1])
    /\ \E b \in succ[at[1]] : at' = <<b, "first">>
    /\ UNCHANGED <<program, phase, tool, stack>>

Return ==
    /\ phase = "run" /\ at[2] = "last" /\ ~IsBr(at[1])
    /\ Calls("last", at[1])
    /\ IF stack = <<>> THEN at' = <<at[1], "done">> /\ UNCHANGED stack
       ELSE at' = <<Head(stack), "last">> /\ stack' = Tail(stack)
    /\ UNCHANGED <<program, phase, tool>>

-----------------------------------------------------------------------------
Init ==
    /\ program \in Programs
    /\ phase = "loops" /\ todo = Branches
    /\ slice = [b \in Block |-> IF b \in program.blocks THEN "marked" ELSE "none"]
    /\ nodes = program.nodes
    /\ loops = {}
    /\ code = [k \in Place |-> [b \in Block |-> <<>>]]
    /\ at = <<program.entry[program.main], "first">>
    /\ stack = <<>> /\ depth = 0 /\ loaded = {} /\ ready = {}

Next ==
    \/ FirstPass \/ SecondPass \/ NextPass
    \/ EnterBlock \/ Item \/ Call \/ Branch \/ Return

Spec == Init /\ [][Next]_vars

-----------------------------------------------------------------------------
(* Properties.                                                              *)

\* Types; blocks whose loop transactions are started are marked as such, and
\* nothing runs before the tool is done.
TypeOK ==
    /\ program \in Programs
    /\ phase \in {"loops", "accesses", "run", "crashed"} /\ todo \subseteq Node
    /\ slice \in [Block -> SliceId]
    /\ nodes \subseteq Node
    /\ loops \subseteq Block
    /\ code \in [Place -> [Block -> Seq(Ops)]]
    /\ at \in Block \X {"first", "item", "last", "done"} /\ stack \in Seq(Block)
    /\ depth \in 0 .. MaxDepth
    /\ loaded \subseteq Buffer /\ ready \subseteq Func
    /\ depth = 0 => loaded = {} /\ ready = {}

\* Blocks that are executed or not, or a number of times, that depends on the
\* secret: those controlled by a marked branch, in their function or in a caller.
SecretControlled ==
    LET controls(a) == {b \in Block : ControlDependent(succ, a, b)}
        leads == [a \in Block |-> controls(a) \cup
                    {b \in Block : program.func[b] \in program.callee[a]}]
    IN  Reachable(leads, UNION {controls(n[1]) : n \in Branches})

\* The accesses whose address or execution depends on the secret.
SensitiveAccess ==
    {n \in Accesses : n \in program.addDep \/ n[1] \in SecretControlled}

Made == IF phase = "run" /\ at[2] = "item"
          THEN {n \in SensitiveAccess : n[1] = at[1] /\ program.access[n[1]][n[2]] # {}} ELSE {}

\* Every sensitive access is made in a transaction that has preloaded the buffers
\* the access may touch and, if the access is sensitive because of a branch, the code
\* of its function.
Protected ==
    \A n \in Made : /\ depth > 0 /\ program.access[n[1]][n[2]] \subseteq loaded
                    /\ n[1] \in SecretControlled => program.func[n[1]] \in ready

\* The program does not end in a transaction, and transactions are not nested in each other.
WellNested == (at[2] = "done" => depth = 0) /\ depth <= 1

-----------------------------------------------------------------------------
(* Programs whose secret-dependent code is in regions that have one entry.    *)
(*                                                                           *)
(* Of such programs CapePlaceProofs proves what the run checks of single     *)
(* ones: the tool does not test for any of this, and the programs for which  *)
(* it places too little fail to be structured in one way or another.         *)

MarkedBranches == {b \in Block : <<b, 0>> \in Branches}

\* The loops that a marked branch may leave, and the branches that are marked throughout.
SecretLoops == UNION {{loop \in NearestLoops(b) : IsExit(b, loop[2])} : b \in MarkedBranches}
LastingBranches == MarkedBranches \ UNION {loop[2] : loop \in SecretLoops}

\* The blocks from a to e, and those of the functions that they call.
RegionTo(a, e) == ReachableAvoiding(succ, {a}, {e}) \ {a}
PartTo(a, e) ==
    RegionTo(a, e) \cup {b \in Block : program.func[b] \in Callees(RegionTo(a, e))}

\* The loops for which no branch is found, and the blocks that dominate them.
OuterLoops ==
    {loop \in SecretLoops : \A a \in LastingBranches : ~(loop[2] \subseteq PartTo(a, ipostdom(a)))}
LoopTops == {idom(loop[1]) : loop \in OuterLoops}
LoopOf(a) == CHOOSE loop \in OuterLoops : idom(loop[1]) = a

\* The transactions that start at the end of block a end at the start of EndOf(a).
EndOf(a) == IF a \in LoopTops THEN LoopEnd(a, LoopOf(a)[2]) ELSE ipostdom(a)
Region(a) == RegionTo(a, EndOf(a))
Part(a) == PartTo(a, EndOf(a))

AnyBranches == MarkedBranches \cup LoopTops
Tops ==
    LET a == LastingBranches \cup LoopTops IN {b \in a : \A c \in a : b \notin Part(c)}
Parts == UNION {Part(a) : a \in Tops}
Ends == {EndOf(a) : a \in Tops}

\* The blocks that get a transaction of their own, and those whose slice id may change.
BlockTops == {n[1] : n \in {m \in Accesses : m \in program.addDep /\ m[1] \notin Parts}}
Touched ==
    program.blocks \cup Tops \cup Parts \cup BlockTops \cup {EndOf(a) : a \in LoopTops}

\* No block is marked where function f is called.
NotCalled(f) == \A b \in Block : f \in program.callee[b] => b \notin Touched

\* Control comes to the part of a through a only, and not again to a before the end.
SingleEntry(a) ==
    LET entry == program.entry[program.func[a]] IN
    /\ a \in Reachable(succ, {entry}) /\ EndOf(a) # NoBlock
    /\ entry \notin Region(a) /\ Pred(succ, a) \cap (Region(a) \cup {a}) = {}
    /\ \A b \in Region(a) : Pred(succ, b) \subseteq Region(a) \cup {a}
    /\ NotCalled(program.func[a]) /\ program.main \notin Callees(Region(a))
    /\ \A b \in Block : program.callee[b] \cap Callees(Region(a)) # {} => b \in Part(a)

\* Where one branch dominates another and both get transactions, a block between them is
\* not marked.
Apart(a) ==
    /\ \A b \in Tops \ {a} : Part(a) \cap Part(b) = {}
    /\ \A b \in AnyBranches : StrictlyDominates(b, a) =>
          \E c \in Block \ Touched : StrictlyDominates(b, c) /\ StrictlyDominates(c, a)

\* Blocks with a call or a marked branch are marked, as are those between a and them, and
\* no such branch outside of the part decides whether they are executed.
Marked(a) ==
    \A b \in Part(a) :
       /\ RevCD(b) \cap AnyBranches \subseteq Part(a) \cup {a}
       /\ program.callee[b] # {} \/ b \in MarkedBranches =>
             /\ b \in program.blocks
             /\ \A c \in Region(a) : StrictlyDominates(c, b) => c \in program.blocks

\* The secret loop of a is the only one: its accesses are preloaded for at once, those of
\* its calls afterwards.
OwnLoop(a) ==
    LET loop == LoopOf(a) IN
    /\ \A other \in OuterLoops : idom(other[1]) = a => other = loop
    /\ loop[2] \subseteq Region(a) /\ RevCD(loop[1]) \cap AnyBranches \subseteq loop[2]
    /\ \A b \in MarkedBranches : loop \in NearestLoops(b) => NearestLoops(b) = {loop}
    /\ (\E b \in Region(a) : program.callee[b] # {}) =>
          \E b \in loop[2] : UNION Range(program.access[b]) # {}

\* An access or a loop in block b of the part of a is found to depend on a, directly or by
\* way of a branch that stays marked.
Found(a, b) ==
    /\ b \in Part(a)
    /\ b \in Region(a) => IF a \in LoopTops THEN b \in LoopOf(a)[2]
                          ELSE RevCD(b) \cap LastingBranches # {}

\* Whether block b is executed does not depend on a secret.
Quiet(b) ==
    /\ b \notin Parts \cup SecretControlled
    /\ RevCD(b) \cap AnyBranches = {} /\ NotCalled(program.func[b])

\* Every marked branch is the top of a part or lies in one, no part ends where another transaction
\* starts, and every access and every secret loop is either found to belong to the part it
\* lies in or, if it is an access, does not depend on a secret but for its address.
Structured ==
    /\ NoBlock \notin LoopTops
    /\ MarkedBranches \subseteq Tops \cup Parts
    /\ LoopTops \subseteq Tops \ MarkedBranches
    /\ Ends \cap (Tops \cup Parts \cup BlockTops) = {}
    /\ \A a \in Tops : SingleEntry(a) /\ Apart(a) /\ Marked(a) /\ (a \in LoopTops => OwnLoop(a))
    /\ \A b \in BlockTops : b \notin Tops \cup program.phi /\ program.callee[b] = {}
    /\ \A n \in Accesses : Quiet(n[1]) \/ \E a \in Tops : Found(a, n[1])
    /\ \A loop \in SecretLoops \ OuterLoops :
          \E a \in Tops \ LoopTops : loop[2] \subseteq Part(a) /\ Found(a, loop[1])
=============================================================================
