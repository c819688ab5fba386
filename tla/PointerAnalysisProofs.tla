----------------------- MODULE PointerAnalysisProofs -----------------------
(***************************************************************************)
(* What the pointer analysis keeps for every set of programs whose nodes   *)
(* have their operands: its state has its types, calls and threads enter   *)
(* only functions with a body, and no pointer is lost.  When it has        *)
(* stopped where nothing more is to be found, the pointers that the        *)
(* program computes when it runs are among those it reports.               *)
(***************************************************************************)
EXTENDS PointerRun, FlowGraphProofs

\* A call is connected to functions with a body only; other nodes to none.
Entered == \A x \in Node : \A f \in callees[x] : Defined(f)

IInv == program \in Programs /\ TypeOK /\ Entered

-----------------------------------------------------------------------------
(* Points-to sets.                                                           *)

\* Adding pointers one by one loses none: a pointer that is dropped is one of those that
\* a pointer with an unknown offset stands for.
LEMMA AddEachCovers ==
    ASSUME NEW S, NEW P, NEW p \in S
    PROVE  Covers(AddEach(S, P), p)
<1> DEFINE q == AnyOffset(p)
<1>1. q[2] = UnknownOffset /\ AnyOffset(q) = q
  BY DEF AnyOffset
<1>2. CASE q \in S \/ q \notin P
  BY <1>2 DEF Covers, AddEach
<1>3. CASE q \notin S /\ q \in P
  <2>1. q \in AddEach(S, P)
    BY <1>1, <1>3 DEF AddEach
  <2> QED
    BY <2>1 DEF Covers
<1> QED
  BY <1>2, <1>3

\* What covers p still covers it after more pointers were added.
LEMMA AddEachKeeps ==
    ASSUME NEW S, NEW P, NEW p, Covers(S, p)
    PROVE  Covers(AddEach(S, P), p)
<1>1. CASE p \in S
  BY <1>1, AddEachCovers
<1>2. CASE AnyOffset(p) \in S
  <2>1. AnyOffset(AnyOffset(p)) = AnyOffset(p)
    BY DEF AnyOffset
  <2>2. Covers(AddEach(S, P), AnyOffset(p))
    BY <1>2, AddEachCovers
  <2> QED
    BY <2>1, <2>2 DEF Covers
<1> QED
  BY <1>1, <1>2 DEF Covers

\* Only what was there or is added is in the result.
LEMMA AddEachWithin ==
    ASSUME NEW S, NEW P
    PROVE  AddEach(S, P) \subseteq S \cup P
  BY DEF AddEach

\* The distinguished pointers, and what an operand may point to, are pointers.
LEMMA PointsToType ==
    ASSUME TypeOK
    PROVE  /\ NullPointer \in Pointer /\ UnknownPointer \in Pointer
           /\ \A o \in Operand : PointsTo(o) \subseteq Pointer
<1>1. 0 \in Offset /\ UnknownOffset \in Offset
  BY PointerAssumption DEF Offset
<1>2. NullPointer \in Pointer /\ UnknownPointer \in Pointer
  BY <1>1 DEF Pointer, Operand, NullPointer, UnknownPointer
<1> SUFFICES ASSUME NEW o \in Operand  PROVE PointsTo(o) \subseteq Pointer
  BY <1>2
<1>3. o \in Node => pts[o] \subseteq Pointer
  BY DEF TypeOK
<1> QED
  BY <1>2, <1>3 DEF PointsTo, Operand

\* The operands of a node.
LEMMA OperandsType ==
    ASSUME program \in Programs, NEW x \in Node
    PROVE  /\ program \in ProgramType
           /\ OperandsOf(x) \subseteq Operand
           /\ Arity(Type(x)) >= 1 => program.operands[x][1] \in Operand
           /\ Arity(Type(x)) >= 2 => program.operands[x][2] \in Operand
<1>1. program \in ProgramType /\ Len(program.operands[x]) >= Arity(program.type[x])
  BY ProgramsAssumption
<1>2. program.operands[x] \in Seq(Operand)
  BY <1>1 DEF ProgramType
<1>3. Type(x) = program.type[x]
  BY DEF Type
<1>4. Arity(Type(x)) \in Nat
  BY DEF Arity
<1>5. ToSet(program.operands[x]) \subseteq Operand
  BY <1>2 DEF ToSet
<1>6. OperandsOf(x) \subseteq Operand
  BY <1>5 DEF OperandsOf, Operand
<1> QED
  BY <1>1, <1>2, <1>3, <1>4, <1>6

\* Loading yields pointers, and a GEP yields one.
LEMMA LoadType ==
    ASSUME TypeOK, NEW p \in Pointer
    PROVE  LoadThrough(p) \subseteq Pointer
<1>1. NullPointer \in Pointer /\ UnknownPointer \in Pointer
  BY PointsToType
<1>2. p[2] \in Offset /\ UnknownOffset \in Offset
  BY DEF Pointer, Offset
<1>3. CASE p[1] \in Node
  <2>1. \A o \in Offset : mem[p[1]][o] \subseteq Pointer
    BY <1>3 DEF TypeOK
  <2> QED
    BY <1>1, <1>2, <2>1 DEF LoadThrough
<1>4. CASE p[1] \notin Node
  BY <1>1, <1>4 DEF LoadThrough, CanBeDereferenced
<1> QED
  BY <1>3, <1>4

LEMMA ShiftType ==
    ASSUME program \in ProgramType, NEW p \in Pointer, NEW by \in Offset
    PROVE  Shift(p, by) \in Pointer
<1>1. p[1] \in Operand /\ p[2] \in Offset
  BY DEF Pointer
<1>2. AnyOffset(p) \in Pointer
  BY <1>1 DEF AnyOffset, Pointer, Offset
<1>3. SizeOf(p[1]) \in 0 .. MaxOffset
  BY PointerAssumption DEF SizeOf, ProgramType
<1> DEFINE o == p[2] + by
<1>4. CASE p[2] # UnknownOffset /\ by # UnknownOffset /\ (o = 0 \/ o < SizeOf(p[1]))
  <2>1. o \in 0 .. MaxOffset
    BY <1>1, <1>3, <1>4, PointerAssumption DEF Offset
  <2>2. <<p[1], o>> \in Pointer
    BY <1>1, <2>1 DEF Pointer, Offset
  <2> QED
    BY <1>2, <2>2 DEF Shift
<1>5. CASE ~ (p[2] # UnknownOffset /\ by # UnknownOffset /\ (o = 0 \/ o < SizeOf(p[1])))
  BY <1>2, <1>5 DEF Shift
<1> QED
  BY <1>4, <1>5

\* A node that computes a pointer computes pointers only.
LEMMA ComputedType ==
    ASSUME program \in Programs, TypeOK, NEW x \in Node
    PROVE  Computed(x) \subseteq Pointer
<1> DEFINE ops == UNION {PointsTo(o) : o \in OperandsOf(x)}
<1>1. ops \subseteq Pointer
  BY OperandsType, PointsToType
<1>2. pts[x] \subseteq Pointer
  BY DEF TypeOK
<1>3. UNION {LoadThrough(p) : p \in ops} \subseteq Pointer
  BY <1>1, LoadType
<1>4. GepOffset(x) \in Offset
  BY OperandsType DEF GepOffset, Offset, ProgramType
<1>5. {Shift(p, GepOffset(x)) : p \in ops} \subseteq Pointer
  BY <1>1, <1>4, ShiftType, OperandsType
<1>6. AddEach(pts[x], {Shift(p, GepOffset(x)) : p \in ops}) \subseteq Pointer
  BY <1>2, <1>5, AddEachWithin
<1> QED
  BY <1>1, <1>2, <1>3, <1>6 DEF Computed

\* Functions are nodes, and what is new at a call are pointers to functions.
LEMMA NewFunctionsType ==
    ASSUME program \in Programs, TypeOK, NEW x \in Node,
           Type(x) \in {"CALL_FUNCPTR", "FORK"}
    PROVE  /\ NewFunctions(x) \subseteq Pointer
           /\ \A p \in NewFunctions(x) : p[1] \in Node
<1> DEFINE functions ==
        {p \in PointsTo(program.operands[x][1]) : Type(p[1]) = "FUNCTION"}
<1>1. functions \subseteq Pointer
  BY OperandsType, PointsToType DEF Arity
<1>2. \A p \in functions : p[1] \in Node
  BY DEF Type
<1>3. NewFunctions(x) \subseteq functions
  BY AddEachWithin DEF NewFunctions
<1> QED
  BY <1>1, <1>2, <1>3

\* A node leads to nodes.
LEMMA EdgesType ==
    ASSUME program \in Programs, TypeOK, Entered, NEW x \in Node
    PROVE  WalkEdges(x) \subseteq Node
<1>1. program \in ProgramType
  BY OperandsType
<1>2. \A f \in callees[x] : program.entry[f] \in Node
  BY <1>1 DEF TypeOK, Entered, Defined, ProgramType
<1>3. ReturnSites(x) \subseteq Node
  BY <1>1 DEF ReturnSites, ProgramType
<1>4. program.succ[x] \subseteq Node
  BY <1>1 DEF ProgramType
<1> QED
  BY <1>2, <1>3, <1>4 DEF WalkEdges

\* Putting a set of nodes in any order gives a sequence of nodes.
LEMMA OrderType ==
    ASSUME NEW S \in SUBSET Node, NEW s \in SetToSeqs(S)
    PROVE  s \in Seq(Node)
<1>1. Cardinality(S) \in Nat
  BY PointerAssumption, FS_Subset, FS_CardinalityType
<1>2. s \in [1 .. Cardinality(S) -> S]
  BY DEF SetToSeqs
<1> QED
  BY <1>1, <1>2

\* Taking a node from toProcess.
LEMMA TakeType ==
    ASSUME TypeOK, toProcess # <<>>, NEW x \in Node, Take(x)
    PROVE  /\ phase' = phase /\ program' = program /\ queue' = queue /\ seen' = seen /\ n' = n
           /\ toProcess' \in Seq(Node) /\ changed' \in Seq(Node)
  BY DEF TypeOK, Take

\* A CONSTANT has its pointer from the start, allocations and functions one to
\* themselves.
LEMMA InitCorrect == ASSUME Init PROVE IInv
<1>1. program \in ProgramType /\ program \in Programs
  BY ProgramsAssumption DEF Init
<1>2. 0 \in Offset
  BY PointerAssumption DEF Offset
<1>3. pts \in [Node -> SUBSET Pointer]
  <2> DEFINE first(x) ==
        CASE program.type[x] \in {"ALLOC", "FUNCTION"} -> {<<x, 0>>}
          [] program.type[x] = "CONSTANT" -> {<<program.operands[x][1], program.arg[x]>>}
          [] OTHER -> {}
  <2> SUFFICES ASSUME NEW x \in Node PROVE first(x) \subseteq Pointer
    BY DEF Init
  <2>1. <<x, 0>> \in Pointer
    BY <1>2 DEF Pointer, Operand
  <2>2. CASE program.type[x] = "CONSTANT"
    <3>1. program.operands[x][1] \in Operand
      BY <1>1, <2>2, OperandsType DEF Arity, Type
    <3>2. program.arg[x] \in Offset
      BY <1>1 DEF ProgramType
    <3> QED
      BY <2>2, <3>1, <3>2 DEF Pointer
  <2>3. CASE program.type[x] # "CONSTANT"
    BY <2>1, <2>3
  <2> QED
    BY <2>2, <2>3
<1>4. mem \in [Node -> [Offset -> SUBSET Pointer]]
  BY DEF Init
<1>5. callees \in [Node -> SUBSET Node] /\ joins \in [Node -> SUBSET Node] /\ zero \subseteq Node
  BY <1>1 DEF Init, ProgramType
<1>6. toProcess \in Seq(Node)
  BY <1>1 DEF Init, ProgramType
<1>7. Entered
  BY <1>1, ProgramsAssumption DEF Entered, Defined, Init
<1>8. queue \in Seq(Node) /\ changed \in Seq(Node)
  BY DEF Init
<1> QED
  BY <1>1, <1>3, <1>4, <1>5, <1>6, <1>7, <1>8 DEF IInv, TypeOK, Init

-----------------------------------------------------------------------------
(* The actions.                                                              *)

LEMMA ValueCorrect ==
    ASSUME IInv, toProcess # <<>>, NEW x \in Node, ProcessValue(x)
    PROVE  IInv' /\ \A y \in Node : \A p \in pts[y] : Covers(pts'[y], p)
<1> USE DEF IInv
<1>1. pts' = [pts EXCEPT ![x] = Computed(x)] /\ Take(x)
      /\ UNCHANGED <<mem, zero, callees, joins>>
  BY DEF ProcessValue, graph
<1>2. pts' \in [Node -> SUBSET Pointer]
  BY <1>1, ComputedType DEF TypeOK
<1>3. IInv'
  BY <1>1, <1>2, TakeType DEF TypeOK, Entered, Defined
<1>4. \A p \in pts[x] : Covers(Computed(x), p)
  BY AddEachCovers DEF Computed, Covers
<1>5. \A y \in Node : \A p \in pts[y] : Covers(pts'[y], p)
  <2> SUFFICES ASSUME NEW y \in Node, NEW p \in pts[y] PROVE Covers(pts'[y], p)
    OBVIOUS
  <2>1. CASE y = x
    BY <1>1, <1>4, <2>1 DEF TypeOK
  <2>2. CASE y # x
    BY <1>1, <2>2 DEF TypeOK, Covers
  <2> QED
    BY <2>1, <2>2
<1> QED
  BY <1>3, <1>5

\* A step that leaves the points-to sets alone loses no pointer.
LEMMA SameCovers ==
    ASSUME pts' = pts
    PROVE  \A y \in Node : \A p \in pts[y] : Covers(pts'[y], p)
  BY DEF Covers

LEMMA StoreCorrect ==
    ASSUME IInv, toProcess # <<>>, NEW x \in Node, ProcessStore(x)
    PROVE  IInv'
<1> USE DEF IInv
<1>1. mem' = Stored(x) /\ Take(x) /\ UNCHANGED <<pts, zero, callees, joins>>
  BY DEF ProcessStore, graph
<1>2. PointsTo(program.operands[x][1]) \subseteq Pointer
  BY OperandsType, PointsToType DEF Arity, ProcessStore
<1>3. \A a \in Node : \A o \in Offset : mem[a][o] \subseteq Pointer
  BY DEF TypeOK
<1>4. mem' \in [Node -> [Offset -> SUBSET Pointer]]
  BY <1>1, <1>2, <1>3 DEF Stored
<1> QED
  BY <1>1, <1>4, TakeType DEF TypeOK, Entered, Defined

LEMMA MemcpyCorrect ==
    ASSUME IInv, toProcess # <<>>, NEW x \in Node, ProcessMemcpy(x)
    PROVE  IInv'
<1> USE DEF IInv
<1>1. mem' = Copied(x) /\ Take(x) /\ UNCHANGED <<pts, callees, joins>>
      /\ zero' = zero \cup {a \in Node : \E p \in Sources(x) : \E to \in Targets(x) :
                               to[1] = a /\ Zeroed(x, p, to)}
  BY DEF ProcessMemcpy, graph
<1>2. zero' \subseteq Node
  BY <1>1 DEF TypeOK
<1>3. \A a \in Node : \A o \in Offset : mem[a][o] \subseteq Pointer
  BY DEF TypeOK
<1>4. \A p \in Sources(x) : p[1] \in Node
  BY DEF Sources, CanBeDereferenced
<1>5. mem' = [a \in Node |-> [o \in Offset |-> mem[a][o] \cup CopiedInto(x, a, o)]]
  BY <1>1 DEF Copied
<1>6. \A a \in Node : \A o \in Offset : CopiedInto(x, a, o) \subseteq Pointer
  <2> SUFFICES ASSUME NEW a \in Node, NEW o \in Offset, NEW q \in CopiedInto(x, a, o)
               PROVE  q \in Pointer
    OBVIOUS
  <2>1. (\E c \in Copies(x, a, o) : q \in mem[c[1][1]][c[3]]) \/ q = NullPointer
    BY DEF CopiedInto
  <2>2. \A c \in Copies(x, a, o) : mem[c[1][1]][c[3]] \subseteq Pointer
    BY <1>3, <1>4 DEF Copies
  <2> QED
    BY <2>1, <2>2, PointsToType
<1>7. mem' \in [Node -> [Offset -> SUBSET Pointer]]
  BY <1>3, <1>5, <1>6
<1> QED
  BY <1>1, <1>2, <1>7, TakeType DEF TypeOK, Entered, Defined

LEMMA FuncptrCorrect ==
    ASSUME IInv, toProcess # <<>>, NEW x \in Node, ProcessFuncptr(x)
    PROVE  IInv' /\ \A y \in Node : \A p \in pts[y] : Covers(pts'[y], p)
<1> USE DEF IInv
<1> DEFINE new == NewFunctions(x)
           called == {p[1] : p \in new}
           ret == program.callReturn[x]
           found == [pts EXCEPT ![x] = AddEach(@, new)]
<1>1. /\ callees' = [callees EXCEPT ![x] = @ \cup {f \in called : Defined(f)}]
      /\ pts' = IF \A f \in called : Defined(f) THEN found
                ELSE [found EXCEPT ![ret] = AddEach(@, {UnknownPointer})]
      /\ Take(x) /\ UNCHANGED <<mem, zero, joins>>
  BY DEF ProcessFuncptr
<1>2. new \subseteq Pointer /\ called \subseteq Node
  BY NewFunctionsType DEF ProcessFuncptr
<1>3. found \in [Node -> SUBSET Pointer]
  BY <1>2, AddEachWithin DEF TypeOK
<1>4. pts' \in [Node -> SUBSET Pointer]
  <2>1. found[ret] \subseteq Pointer
    <3>1. ret \in Node
      BY OperandsType DEF ProgramType
    <3> QED
      BY <1>3, <3>1
  <2>2. AddEach(found[ret], {UnknownPointer}) \subseteq found[ret] \cup {UnknownPointer}
    BY AddEachWithin
  <2>3. AddEach(found[ret], {UnknownPointer}) \subseteq Pointer
    BY <2>1, <2>2, PointsToType
  <2> HIDE DEF found
  <2> QED
    BY <1>1, <1>3, <2>3
<1>5. callees' \in [Node -> SUBSET Node] /\ Entered'
  BY <1>1, <1>2, TakeType DEF TypeOK, Entered, Defined
<1>6. \A y \in Node : \A p \in pts[y] : Covers(found[y], p)
  <2> SUFFICES ASSUME NEW y \in Node, NEW p \in pts[y] PROVE Covers(found[y], p)
    OBVIOUS
  <2>1. CASE y = x
    BY <2>1, AddEachCovers DEF TypeOK
  <2>2. CASE y # x
    BY <2>2 DEF TypeOK, Covers
  <2> QED
    BY <2>1, <2>2
<1> HIDE DEF new, called, found
<1>7. \A y \in Node : \A p \in pts[y] : Covers(pts'[y], p)
  <2> SUFFICES ASSUME NEW y \in Node, NEW p \in pts[y] PROVE Covers(pts'[y], p)
    OBVIOUS
  <2>1. pts'[y] = found[y] \/ pts'[y] = AddEach(found[y], {UnknownPointer})
    BY <1>1, <1>3
  <2> QED
    BY <1>6, <2>1, AddEachKeeps
<1> QED
  BY <1>1, <1>4, <1>5, <1>7, TakeType DEF TypeOK

\* The functions that a FORK finds are defined.
LEMMA ForkedAreDefined ==
    ASSUME NEW x, ProcessFork(x)
    PROVE  {p[1] : p \in NewFunctions(x)} = {f \in {p[1] : p \in NewFunctions(x)} : Defined(f)}
BY DEF ProcessFork

\* A FORK keeps the invariant.
LEMMA ForkCorrect ==
    ASSUME IInv, toProcess # <<>>, NEW x \in Node, ProcessFork(x)
    PROVE  IInv' /\ \A y \in Node : \A p \in pts[y] : Covers(pts'[y], p)
<1> USE DEF IInv
<1>1. /\ pts' = [pts EXCEPT ![x] = AddEach(@, NewFunctions(x))]
      /\ callees' = [callees EXCEPT
            ![x] = @ \cup {f \in {p[1] : p \in NewFunctions(x)} : Defined(f)}]
      /\ Take(x) /\ UNCHANGED <<mem, zero, joins>>
  BY ForkedAreDefined DEF ProcessFork
<1>2. NewFunctions(x) \subseteq Pointer /\ {p[1] : p \in NewFunctions(x)} \subseteq Node
  BY NewFunctionsType DEF ProcessFork
<1>3. pts' \in [Node -> SUBSET Pointer]
  BY <1>1, <1>2, AddEachWithin DEF TypeOK
<1>4. callees' \in [Node -> SUBSET Node] /\ Entered'
  BY <1>1, <1>2, TakeType DEF TypeOK, Entered, Defined
<1>5. \A y \in Node : \A p \in pts[y] : Covers(pts'[y], p)
  <2> SUFFICES ASSUME NEW y \in Node, NEW p \in pts[y] PROVE Covers(pts'[y], p)
    OBVIOUS
  <2>1. CASE y = x
    BY <1>1, <2>1, AddEachCovers DEF TypeOK
  <2>2. CASE y # x
    BY <1>1, <2>2 DEF TypeOK, Covers
  <2> QED
    BY <2>1, <2>2
<1> QED
  BY <1>1, <1>3, <1>4, <1>5, TakeType DEF TypeOK

LEMMA JoinCorrect ==
    ASSUME IInv, toProcess # <<>>, NEW x \in Node, ProcessJoin(x)
    PROVE  IInv'
<1> USE DEF IInv
<1>1. /\ joins' = [joins EXCEPT ![x] = @ \cup UNION {ThreadFunctions(k) : k \in Matching(x)}]
      /\ Take(x) /\ UNCHANGED <<pts, mem, zero, callees>>
  BY DEF ProcessJoin
<1>2. \A k \in Node : ThreadFunctions(k) \subseteq Node
  BY DEF ThreadFunctions, Type
<1>3. joins' \in [Node -> SUBSET Node]
  BY <1>1, <1>2 DEF TypeOK, Matching
<1> QED
  BY <1>1, <1>3, TakeType DEF TypeOK, Entered, Defined

LEMMA OtherCorrect ==
    ASSUME IInv, toProcess # <<>>, NEW x \in Node, ProcessOther(x)
    PROVE  IInv' /\ pts' = pts
<1>1. Take(x) /\ UNCHANGED <<pts, mem, zero, callees, joins>>
  BY DEF ProcessOther, points, graph
<1> QED
  BY <1>1, TakeType DEF IInv, TypeOK, Entered, Defined

\* A breadth-first search visits nodes.
LEMMA VisitCorrect ==
    ASSUME IInv, Visit
    PROVE  IInv' /\ pts' = pts
<1> USE DEF IInv
<1> DEFINE x == Head(queue)
<1>1. /\ queue # <<>> /\ queue \in Seq(Node) /\ toProcess \in Seq(Node)
      /\ toProcess' = Append(toProcess, x) /\ seen' = seen \cup WalkEdges(x)
      /\ UNCHANGED <<program, phase, pts, mem, zero, callees, joins, changed, n>>
  BY DEF Visit, points, graph, TypeOK
<1>2. x \in Node /\ Tail(queue) \in Seq(Node)
  BY <1>1
<1>3. WalkEdges(x) \subseteq Node
  BY <1>2, EdgesType
<1>4. PICK found \in SetToSeqs(WalkEdges(x) \ seen) : queue' = Tail(queue) \o found
  BY DEF Visit
<1>5. queue' \in Seq(Node)
  <2>1. found \in Seq(Node)
    BY <1>3, <1>4, OrderType
  <2> QED
    BY <1>2, <1>4, <2>1
<1>6. toProcess' \in Seq(Node)
  BY <1>1, <1>2
<1> HIDE DEF x
<1> QED
  BY <1>1, <1>3, <1>5, <1>6 DEF TypeOK, Entered, Defined

\* A search starts from nodes.
LEMMA SearchType ==
    ASSUME NEW start \in Seq(Node), Search(start)
    PROVE  queue' \in Seq(Node) /\ seen' \subseteq Node /\ phase' = "queue"
<1>1. ToSet(start) \subseteq Node
  BY DEF ToSet
<1> QED
  BY <1>1 DEF Search

LEMMA GlobalsDoneCorrect ==
    ASSUME IInv, GlobalsDone
    PROVE  IInv' /\ pts' = pts
<1>1. program.root \in Node
  BY ProgramsAssumption DEF IInv, ProgramType
<1>2. <<program.root>> \in Seq(Node)
  BY <1>1
<1>3. Search(<<program.root>>) /\ changed' = <<>>
      /\ UNCHANGED <<program, pts, mem, zero, callees, joins, toProcess, n>>
  BY DEF GlobalsDone, points, graph
<1>4. queue' \in Seq(Node) /\ seen' \subseteq Node /\ phase' = "queue"
  BY <1>2, <1>3, SearchType
<1>5. changed' \in Seq(Node)
  BY <1>3
<1> QED
  BY <1>3, <1>4, <1>5 DEF IInv, TypeOK, Entered, Defined

LEMMA QueueChangedCorrect ==
    ASSUME IInv, QueueChanged
    PROVE  IInv' /\ pts' = pts
<1>1. Search(changed) /\ changed' = <<>>
      /\ UNCHANGED <<program, pts, mem, zero, callees, joins, toProcess, n>>
  BY DEF QueueChanged, points, graph
<1> QED
  BY <1>1, SearchType DEF IInv, TypeOK, Entered, Defined

\* Giving up leaves some nodes without pointers.
LEMMA GiveUpCorrect ==
    ASSUME IInv, GiveUp
    PROVE  IInv' /\ phase' = "done"
<1>1. /\ pts' = [x \in Node |->
                    IF x \in ToSet(toProcess) /\ Type(x) \notin {"ALLOC", "CONSTANT"}
                      THEN {} ELSE pts[x]]
      /\ toProcess' = <<>> /\ phase' = "done"
      /\ UNCHANGED <<program, mem, zero, callees, joins, queue, seen, changed, n>>
  BY DEF GiveUp, graph
<1>2. pts' \in [Node -> SUBSET Pointer]
  BY <1>1 DEF IInv, TypeOK
<1> QED
  BY <1>1, <1>2 DEF IInv, TypeOK, Entered, Defined

LEMMA IterateCorrect ==
    ASSUME IInv, Iterate \/ Fixpoint
    PROVE  IInv' /\ pts' = pts
  BY DEF Iterate, Fixpoint, points, graph, IInv, TypeOK, Entered, Defined

-----------------------------------------------------------------------------
\* Every step keeps the invariant, and every step but giving up keeps the pointers.
LEMMA StepCorrect ==
    ASSUME IInv, [Next]_vars
    PROVE  /\ IInv'
           /\ phase' # "done" => \A x \in Node : \A p \in pts[x] : Covers(pts'[x], p)
<1>1. CASE Process
  <2> DEFINE x == Head(toProcess)
  <2>1. toProcess # <<>> /\ x \in Node
    BY <1>1 DEF Process, IInv, TypeOK
  <2>2. \/ ProcessValue(x) \/ ProcessStore(x) \/ ProcessMemcpy(x) \/ ProcessFuncptr(x)
        \/ ProcessFork(x) \/ ProcessJoin(x) \/ ProcessOther(x)
    BY <1>1 DEF Process
  <2>3. CASE ProcessStore(x) \/ ProcessMemcpy(x) \/ ProcessJoin(x)
    <3>1. pts' = pts
      BY <2>3 DEF ProcessStore, ProcessMemcpy, ProcessJoin
    <3> QED
      BY <2>1, <2>3, <3>1, SameCovers, StoreCorrect, MemcpyCorrect, JoinCorrect
  <2> HIDE DEF x
  <2> QED
    BY <2>1, <2>2, <2>3, ValueCorrect, FuncptrCorrect, ForkCorrect, OtherCorrect, SameCovers
<1>2. CASE UNCHANGED vars
  BY <1>2, SameCovers DEF vars, points, graph, IInv, TypeOK, Entered, Defined
<1>3. CASE GlobalsDone \/ Visit \/ Iterate \/ QueueChanged \/ Fixpoint
  BY <1>3, SameCovers, GlobalsDoneCorrect, VisitCorrect, IterateCorrect, QueueChangedCorrect
<1>4. CASE GiveUp
  BY <1>4, GiveUpCorrect
<1> QED
  BY <1>1, <1>2, <1>3, <1>4 DEF Next

\* The pointers and the memory of every node stay sets of pointers, whatever the
\* program: nothing the analysis computes leaves the offsets that it tracks, and what it
\* walks are nodes of the graph.
THEOREM TypeCorrect == Spec => []TypeOK
<1>1. Init => IInv
  BY InitCorrect
<1>2. IInv /\ [Next]_vars => IInv'
  BY StepCorrect
<1>3. IInv => TypeOK
  BY DEF IInv
<1> QED
  BY <1>1, <1>2, <1>3, PTL DEF Spec

\* Calls and threads only ever enter functions that have a body.
THEOREM EntersBodies == Spec => []Entered
<1>1. Init => IInv
  BY InitCorrect
<1>2. IInv /\ [Next]_vars => IInv'
  BY StepCorrect
<1>3. IInv => Entered
  BY DEF IInv
<1> QED
  BY <1>1, <1>2, <1>3, PTL DEF Spec

\* No processed node loses a pointer until the analysis stops, though pointers are
\* replaced by one with an unknown offset.
THEOREM PointersKept == Spec => NothingLost
<1>1. Init => IInv
  BY InitCorrect
<1>2. IInv /\ [Next]_vars => IInv'
  BY StepCorrect
<1>3. IInv /\ [Next]_vars =>
        [phase' # "done" => \A x \in Node : \A p \in pts[x] : Covers(pts'[x], p)]_vars
  BY StepCorrect
<1> QED
  BY <1>1, <1>2, <1>3, PTL DEF Spec, NothingLost

-----------------------------------------------------------------------------
(* What the run of the program rests on.                                     *)

\* What node x points to from the start.
IsInitial(x, p) ==
    \/ Type(x) \in {"ALLOC", "FUNCTION"} /\ p = <<x, 0>>
    \/ Type(x) = "CONSTANT" /\ p = <<program.operands[x][1], program.arg[x]>>

\* The analysis connects a call to the functions it finds, and to no other a call by name.
KeepsCallees ==
    \A x \in Node :
       /\ program.calls[x] \subseteq callees[x]
       /\ Type(x) \notin {"CALL_FUNCPTR", "FORK"} => callees[x] = program.calls[x]

FindsCallees ==
    \A x \in Node : Type(x) \in {"CALL_FUNCPTR", "FORK"} =>
       \A p \in pts[x] : Type(p[1]) = "FUNCTION" /\ Defined(p[1]) => p[1] \in callees[x]

\* Unless it gives up, allocations, functions and constants keep their pointers.
KeepsInitial ==
    \/ phase = "done" /\ GaveUp
    \/ \A x \in Node : \A p : IsInitial(x, p) => Covers(pts[x], p)

AInv == IInv /\ KeepsCallees /\ FindsCallees /\ KeepsInitial

\* Nothing is connected initially but the calls by name.
LEMMA AnalysisStarts == ASSUME Init PROVE AInv
<1>1. IInv
  BY InitCorrect
<1>2. program \in ProgramType /\ callees = program.calls /\ phase = "globals"
  BY OperandsType, ProgramsAssumption DEF Init
<1>3. ASSUME NEW x \in Node, Type(x) \in {"CALL_FUNCPTR", "FORK"}  PROVE pts[x] = {}
  <2>1. program.type[x] \notin {"ALLOC", "FUNCTION"} /\ program.type[x] # "CONSTANT"
    BY <1>3 DEF Type
  <2> QED
    BY <2>1 DEF Init
<1>4. FindsCallees
  BY <1>3 DEF FindsCallees
<1>5. ASSUME NEW x \in Node, NEW p, IsInitial(x, p)  PROVE p \in pts[x]
  <2>1. CASE Type(x) \in {"ALLOC", "FUNCTION"}
    <3>1. pts[x] = {<<x, 0>>} /\ Type(x) # "CONSTANT"
      BY <2>1 DEF Init, Type
    <3> QED
      BY <1>5, <3>1 DEF IsInitial
  <2>2. CASE Type(x) = "CONSTANT"
    <3>1. pts[x] = {<<program.operands[x][1], program.arg[x]>>}
      BY <2>2 DEF Init, Type
    <3> QED
      BY <1>5, <2>2, <3>1 DEF IsInitial
  <2> QED
    BY <1>5, <2>1, <2>2 DEF IsInitial
<1> QED
  BY <1>1, <1>2, <1>4, <1>5 DEF AInv, KeepsCallees, KeepsInitial, Covers

\* No step leaves the phase in which the analysis has stopped.
LEMMA DoneStays ==
    ASSUME [Next]_vars, phase = "done"
    PROVE  UNCHANGED vars
<1>1. ~ Next
  BY DEF Next, Process, GlobalsDone, Visit, Iterate, GiveUp, QueueChanged, Fixpoint
<1> QED
  BY <1>1

\* Allocations, functions and constants keep what they point to from the start.
LEMMA InitialKept ==
    ASSUME AInv, [Next]_vars
    PROVE  KeepsInitial'
<1>1. program' = program
  BY DEF Next, vars, Process, ProcessValue, ProcessStore, ProcessMemcpy, ProcessFuncptr,
     ProcessFork, ProcessJoin, ProcessOther, Take, GlobalsDone, Visit, Iterate, GiveUp,
     QueueChanged, Fixpoint
<1>2. \A x \in Node : \A p : IsInitial(x, p)' <=> IsInitial(x, p)
  BY <1>1 DEF IsInitial, Type
<1>3. CASE phase = "done"
  <2>1. UNCHANGED vars
    BY <1>3, DoneStays
  <2> QED
    BY <1>1, <1>2, <2>1 DEF AInv, KeepsInitial, Covers, GaveUp, vars, points
<1>4. CASE phase # "done" /\ phase' # "done"
  <2>1. ASSUME NEW x \in Node, NEW p, Covers(pts[x], p)  PROVE Covers(pts'[x], p)
    <3>1. \A q \in pts[x] : Covers(pts'[x], q)
      BY <1>4, StepCorrect DEF AInv
    <3>2. AnyOffset(AnyOffset(p)) = AnyOffset(p)
      BY DEF AnyOffset
    <3> QED
      BY <2>1, <3>1, <3>2 DEF Covers
  <2>2. \A x \in Node : \A p : IsInitial(x, p) => Covers(pts[x], p)
    BY <1>4 DEF AInv, KeepsInitial
  <2> QED
    BY <1>2, <2>1, <2>2 DEF KeepsInitial
<1>5. CASE phase # "done" /\ phase' = "done"
  <2>1. GiveUp \/ Fixpoint
    BY <1>5 DEF Next, vars, Process, ProcessValue, ProcessStore, ProcessMemcpy,
       ProcessFuncptr, ProcessFork, ProcessJoin, ProcessOther, Take, GlobalsDone, Visit,
       Iterate, QueueChanged, Search
  <2>2. CASE GiveUp
    BY <1>1, <1>5, <2>2 DEF GiveUp, GaveUp, KeepsInitial
  <2>3. CASE Fixpoint
    BY <1>2, <1>5, <2>3 DEF Fixpoint, points, AInv, KeepsInitial
  <2> QED
    BY <2>1, <2>2, <2>3
<1> QED
  BY <1>3, <1>4, <1>5

\* What a call may have called before the step that finds more, it may call after it.
LEMMA CalleesFound ==
    ASSUME AInv, toProcess # <<>>, NEW x \in Node, ProcessFuncptr(x) \/ ProcessFork(x)
    PROVE  KeepsCallees' /\ FindsCallees'
<1> DEFINE new == NewFunctions(x)
           more == {f \in {p[1] : p \in new} : Defined(f)}
           ret == program.callReturn[x]
           found == [pts EXCEPT ![x] = AddEach(@, new)]
<1>1. /\ callees' = [callees EXCEPT ![x] = @ \cup more] /\ program' = program
      /\ pts' \in {found, [found EXCEPT ![ret] = AddEach(@, {UnknownPointer})]}
      /\ Type(x) \in {"CALL_FUNCPTR", "FORK"}
  <2>1. CASE ProcessFuncptr(x)
    BY <2>1 DEF ProcessFuncptr, Take
  <2>2. CASE ProcessFork(x)
    BY <2>2, ForkedAreDefined DEF ProcessFork, Take
  <2> QED
    BY <2>1, <2>2
<1>2. /\ IInv /\ KeepsCallees /\ FindsCallees /\ program \in ProgramType
      /\ callees \in [Node -> SUBSET Node] /\ pts \in [Node -> SUBSET Pointer]
  BY OperandsType, ProgramsAssumption DEF AInv, IInv, TypeOK
<1>3. \A y, f : Type(y)' = Type(y) /\ (Defined(f)' <=> Defined(f))
  BY <1>1 DEF Type, Defined
<1>4. \A y \in Node : pts'[y] \subseteq found[y] \cup {UnknownPointer}
  <2>1. \A S : AddEach(S, {UnknownPointer}) \subseteq S \cup {UnknownPointer}
    BY AddEachWithin
  <2> HIDE DEF found
  <2>2. DOMAIN found = Node
    BY <1>2 DEF found
  <2> QED
    BY <1>1, <2>1, <2>2
<1>5. found[x] \subseteq pts[x] \cup new /\ \A y \in Node \ {x} : found[y] = pts[y]
  BY <1>2, AddEachWithin
<1> HIDE DEF found, new
<1>6. KeepsCallees'
  <2>1. \A y \in Node : y # x => callees'[y] = callees[y]
    BY <1>1, <1>2
  <2>2. callees'[x] = callees[x] \cup more
    BY <1>1, <1>2
  <2> QED
    BY <1>1, <1>2, <1>3, <2>1, <2>2 DEF KeepsCallees
<1>7. Type(UnknownPointer[1]) # "FUNCTION"
  BY PointerAssumption DEF Type, UnknownPointer
<1>8. ASSUME NEW y \in Node, Type(y) \in {"CALL_FUNCPTR", "FORK"}, NEW p \in pts'[y],
             Type(p[1]) = "FUNCTION", Defined(p[1])
      PROVE  p[1] \in callees'[y]
  <2>1. p \in found[y]
    BY <1>4, <1>7, <1>8
  <2>2. CASE p \in pts[y]
    BY <1>1, <1>2, <1>8, <2>2 DEF FindsCallees
  <2>3. CASE p \notin pts[y]
    <3>1. y = x /\ p \in new
      BY <1>5, <2>1, <2>3
    <3> QED
      BY <1>1, <1>2, <1>8, <3>1
  <2> QED
    BY <2>2, <2>3
<1> QED
  BY <1>3, <1>6, <1>8 DEF FindsCallees

\* The other steps connect nothing, and give no pointers to a call.
LEMMA CalleesKept ==
    ASSUME AInv, [Next]_vars
    PROVE  KeepsCallees' /\ FindsCallees'
<1>1. /\ IInv /\ KeepsCallees /\ FindsCallees
      /\ pts \in [Node -> SUBSET Pointer] /\ toProcess \in Seq(Node)
  BY DEF AInv, IInv, TypeOK
<1>2. ASSUME program' = program, callees' = callees,
             \A x \in Node : Type(x) \in {"CALL_FUNCPTR", "FORK"} => pts'[x] \subseteq pts[x]
      PROVE  KeepsCallees' /\ FindsCallees'
  <2>1. \A y, f : Type(y)' = Type(y) /\ (Defined(f)' <=> Defined(f))
    BY <1>2 DEF Type, Defined
  <2> QED
    BY <1>1, <1>2, <2>1 DEF KeepsCallees, FindsCallees
<1>3. CASE Process
  <2> DEFINE x == Head(toProcess)
  <2>1. toProcess # <<>> /\ x \in Node
    BY <1>1, <1>3 DEF Process
  <2>2. CASE ProcessValue(x)
    <3>1. pts' = [pts EXCEPT ![x] = Computed(x)] /\ Type(x) \notin {"CALL_FUNCPTR", "FORK"}
          /\ program' = program /\ callees' = callees
      BY <2>2 DEF ProcessValue, Take, graph
    <3>2. \A y \in Node : y # x => pts'[y] = pts[y]
      BY <1>1, <3>1
    <3> QED
      BY <1>2, <3>1, <3>2
  <2>3. CASE ProcessStore(x) \/ ProcessMemcpy(x) \/ ProcessJoin(x) \/ ProcessOther(x)
    <3>1. program' = program /\ callees' = callees /\ pts' = pts
      BY <2>3 DEF ProcessStore, ProcessMemcpy, ProcessJoin, ProcessOther, Take, graph, points
    <3> QED
      BY <1>2, <3>1
  <2>4. CASE ProcessFuncptr(x) \/ ProcessFork(x)
    BY <2>1, <2>4, CalleesFound
  <2> QED
    BY <1>3, <2>2, <2>3, <2>4 DEF Process
<1>4. CASE GiveUp
  <2>1. program' = program /\ callees' = callees
        /\ \A x \in Node : pts'[x] = {} \/ pts'[x] = pts[x]
    BY <1>1, <1>4 DEF GiveUp, graph
  <2> QED
    BY <1>2, <2>1
<1>5. CASE GlobalsDone \/ Visit \/ Iterate \/ QueueChanged \/ Fixpoint \/ UNCHANGED vars
  <2>1. program' = program /\ callees' = callees /\ pts' = pts
    BY <1>5 DEF GlobalsDone, Visit, Iterate, QueueChanged, Fixpoint, vars, points, graph
  <2> QED
    BY <1>2, <2>1
<1> QED
  BY <1>3, <1>4, <1>5 DEF Next

\* Every step of the analysis keeps the invariant.
LEMMA AnalysisKeeps ==
    ASSUME AInv, [Next]_vars
    PROVE  AInv'
<1>1. IInv'
  BY StepCorrect DEF AInv
<1> QED
  BY <1>1, InitialKept, CalleesKept DEF AInv

\* The nodes that the search of the analysis reaches from some of the nodes.
IsClosed(C) == C \subseteq Node /\ \A x \in C : WalkEdges(x) \subseteq C

\* The search finds what it starts from, and all that this leads to.
LEMMA FoundClosed ==
    ASSUME IInv, NEW S \in SUBSET Node
    PROVE  IsClosed(Found(S)) /\ S \subseteq Found(S)
<1> DEFINE succ == [x \in Node |-> WalkEdges(x)]
<1>1. \A x \in Node : WalkEdges(x) \subseteq Node
  BY EdgesType DEF IInv
<1>2. IsGraph(succ) /\ DOMAIN succ = Node
  BY <1>1, PointerAssumption DEF IsGraph
<1>3. \A x \in Node : succ[x] = WalkEdges(x)
  OBVIOUS
<1>4. Found(S) = Reachable(succ, S)
  BY DEF Found
<1> HIDE DEF succ
<1>5. Found(S) \subseteq Node /\ S \subseteq Found(S)
      /\ \A x \in Found(S) : succ[x] \subseteq Found(S)
  BY <1>2, <1>4, ReachableLeast
<1> QED
  BY <1>3, <1>5 DEF IsClosed

\* FORKs are among the nodes of the program.
Forks == \E x \in Walked : Type(x) = "FORK"

\* The search from the root.
LEMMA WalkedClosed ==
    ASSUME IInv
    PROVE  IsClosed(Walked) /\ program.root \in Walked
<1>1. program.root \in Node
  BY ProgramsAssumption DEF IInv, ProgramType
<1> QED
  BY <1>1, FoundClosed DEF Walked

\* Once node y has its value, the program stays where it may be then.
LEMMA AfterClosed ==
    ASSUME IInv, NEW y \in Node
    PROVE  /\ IsClosed(After(y))
           /\ Forks => After(y) = Walked
           /\ y \in Walked => y \in After(y)
           /\ \A f \in Node : /\ Defined(f) /\ y \in ToSet(program.formals[f])
                              /\ program.entry[f] \in Walked
                => program.entry[f] \in After(y)
<1> DEFINE S == {y} \cup {program.entry[f] : f \in
                  {g \in Node : Defined(g) /\ y \in ToSet(program.formals[g])}}
<1>1. S \subseteq Node
  BY ProgramsAssumption DEF IInv, ProgramType, Defined
<1>2. IsClosed(Found(S)) /\ S \subseteq Found(S)
  BY <1>1, FoundClosed
<1>3. y \in S /\ \A f \in Node : Defined(f) /\ y \in ToSet(program.formals[f]) => program.entry[f] \in S
  OBVIOUS
<1>4. IF Forks THEN After(y) = Walked ELSE After(y) = Found(S)
  BY DEF After, Forks
<1> HIDE DEF S
<1> QED
  BY <1>2, <1>3, <1>4, WalkedClosed

\* Where the search goes from the nodes of the types that matter here.
LEMMA EdgesByType ==
    ASSUME NEW x \in Node
    PROVE  /\ IsCall(x) => \A f \in callees[x] : program.entry[f] \in WalkEdges(x)
           /\ ~ IsCall(x) /\ Type(x) # "RETURN" => program.succ[x] \subseteq WalkEdges(x)
           /\ callees[x] = {} /\ Type(x) # "RETURN" => program.succ[x] \subseteq WalkEdges(x)
           /\ Type(x) = "FORK" => \A f \in callees[x] : program.entry[f] \in WalkEdges(x)
           /\ Type(x) = "RETURN" => ReturnSites(x) \subseteq WalkEdges(x)
<1> DEFINE entries == {program.entry[f] : f \in callees[x]}
<1>1. CASE IsCall(x) /\ callees[x] # {}
  <2>1. WalkEdges(x) = entries
    BY <1>1 DEF WalkEdges, IsCall
  <2> QED
    BY <1>1, <2>1 DEF IsCall
<1>2. CASE Type(x) = "RETURN" /\ ReturnSites(x) # {}
  <2>1. WalkEdges(x) = ReturnSites(x) /\ ~ IsCall(x)
    BY <1>2 DEF WalkEdges, IsCall
  <2> QED
    BY <1>2, <2>1
<1>3. CASE ~ (IsCall(x) /\ callees[x] # {}) /\ ~ (Type(x) = "RETURN" /\ ReturnSites(x) # {})
  <2>1. program.succ[x] \subseteq WalkEdges(x)
        /\ (Type(x) = "FORK" => entries \subseteq WalkEdges(x))
    BY <1>3 DEF WalkEdges
  <2> QED
    BY <1>3, <2>1
<1> QED
  BY <1>1, <1>2, <1>3

\* From the ENTRY of a function the search reaches the PHIs of its arguments.
LEMMA FormalsFollow ==
    ASSUME IInv, NEW f \in Node, Defined(f), NEW C, IsClosed(C), program.entry[f] \in C
    PROVE  ToSet(program.formals[f]) \subseteq C
<1> DEFINE formals == program.formals[f]
           before(i) == IF i = 1 THEN program.entry[f] ELSE formals[i - 1]
           T == {i \in Nat : i + 1 \in DOMAIN formals => formals[i + 1] \in C}
<1>1. formals \in Seq(Node)
  BY ProgramsAssumption DEF IInv, ProgramType
<1>2. /\ program.type[program.entry[f]] = "ENTRY"
      /\ \A i \in DOMAIN formals : program.type[formals[i]] = "PHI" /\ formals[i] \in program.succ[before(i)]
  BY StructureAssumption DEF IInv, Defined
<1>3. ASSUME NEW x \in C, program.type[x] \in {"ENTRY", "PHI"}
      PROVE  program.succ[x] \subseteq C
  <2>1. x \in Node /\ ~ IsCall(x) /\ Type(x) # "RETURN"
    BY <1>3 DEF IsClosed, IsCall, Type
  <2> QED
    BY <2>1, <1>3, EdgesByType DEF IsClosed
<1> HIDE DEF formals
<1>4. 0 \in T
  BY <1>2, <1>3
<1>5. ASSUME NEW i \in T  PROVE i + 1 \in T
  <2> SUFFICES ASSUME (i + 1) + 1 \in DOMAIN formals  PROVE formals[(i + 1) + 1] \in C
    OBVIOUS
  <2>1. i + 1 \in DOMAIN formals /\ (i + 1) + 1 # 1 /\ ((i + 1) + 1) - 1 = i + 1
    BY <1>1
  <2>2. formals[i + 1] \in C
    BY <2>1
  <2>3. formals[(i + 1) + 1] \in program.succ[formals[i + 1]]
    BY <1>2, <2>1
  <2> QED
    BY <1>2, <1>3, <2>1, <2>2, <2>3
<1>6. T = Nat
  <2> HIDE DEF T
  <2>1. T \in SUBSET Nat
    BY DEF T
  <2> QED
    BY <1>4, <1>5, <2>1, SetInduction
<1>7. ASSUME NEW i \in DOMAIN formals  PROVE formals[i] \in C
  <2>1. i - 1 \in Nat /\ (i - 1) + 1 = i
    BY <1>1
  <2> QED
    BY <1>6, <2>1
<1> QED
  BY <1>7 DEF ToSet, formals

\* The body of a function: with a node its successors, and the CALL_RETURN of a call.
LEMMA BodyClosed ==
    ASSUME IInv, NEW f \in Node, Defined(f)
    PROVE  /\ program.entry[f] \in Body(program, f) /\ Body(program, f) \subseteq Node
           /\ \A x \in Body(program, f) :
                 /\ program.succ[x] \subseteq Body(program, f)
                 /\ IsCall(x) => program.callReturn[x] \in Body(program, f)
                 /\ Type(x) = "RETURN" => x \in program.rets[f]
<1> DEFINE succ == [x \in Node |-> program.succ[x] \cup {y \in {program.callReturn[x]} :
                                        program.type[x] \in {"CALL", "CALL_FUNCPTR"}}]
           B == Body(program, f)
<1>1. program \in ProgramType /\ program.entry[f] \in Node
  BY ProgramsAssumption DEF IInv, ProgramType, Defined
<1>2. IsGraph(succ) /\ DOMAIN succ = Node
  <2>1. \A x \in Node : succ[x] \subseteq Node
    BY <1>1 DEF ProgramType
  <2> QED
    BY <2>1, PointerAssumption DEF IsGraph
<1>3. \A x \in Node : /\ program.succ[x] \subseteq succ[x]
                      /\ IsCall(x) => program.callReturn[x] \in succ[x]
  BY DEF IsCall, Type
<1>4. B = Reachable(succ, {program.entry[f]})
  BY DEF Body
<1> HIDE DEF succ
<1>5. B \subseteq Node /\ {program.entry[f]} \subseteq B /\ \A x \in B : succ[x] \subseteq B
  BY <1>1, <1>2, <1>4, ReachableLeast
<1>6. {r \in B : program.type[r] = "RETURN"} \subseteq program.rets[f]
  BY StructureAssumption DEF IInv, Defined
<1> HIDE DEF B
<1>7. \A x \in B : Type(x) = "RETURN" => x \in program.rets[f]
  BY <1>5, <1>6 DEF Type
<1> QED
  BY <1>3, <1>5, <1>7 DEF B

\* What a register or memory may hold, other than NoValue.
Value == Operand \X (0 .. MaxOffset)

\* The pointers in S account for value v.  What a LOAD finds in memory that is zero is
\* left aside: the analysis takes it for null only if it knows of no other contents.
FromZero(v) == v = NullPointer /\ program.zero # {}
Accounts(S, v) == Covers(S, v) \/ FromZero(v)

\* The threads are where they may be after x has its value or has written to memory.
Within(places, C) == \A t \in Thread : places[t] # NoValue => places[t] \in C
Past(places, x) == IsFixed(x) \/ Within(places, After(x))

ValuesInv(regs, places) ==
    /\ regs \in [Node -> Value \cup {NoValue}]
    /\ \A x \in Node : regs[x] # NoValue => Accounts(pts[x], regs[x]) /\ Past(places, x)

Written(w, places) ==
    w \in Writers /\ (w \in ToSet(program.globals) \/ Within(places, After(w)))

CellsInv(cells, places) ==
    /\ cells \in [Node -> [Offset -> Value \cup {NoValue}]]
    /\ \A a \in Node : \A o \in Offset : cells[a][o] # NoValue /\ Type(a) # "FUNCTION" =>
          \/ FromZero(cells[a][o])
          \/ \E w : /\ Written(w, places)
                    /\ \/ Covers(Wrote(w, a, o), cells[a][o])
                       \/ Covers(Wrote(w, a, UnknownOffset), cells[a][o])

\* Where the threads are, and that what called them is in a body itself.
CallsInv(places, stacks) ==
    \A t \in Thread : places[t] # NoValue => \A i \in DOMAIN stacks[t] :
       /\ IsCall(stacks[t][i])
       /\ \E f \in callees[stacks[t][i]] :
             (IF i = 1 THEN places[t] ELSE stacks[t][i - 1]) \in Body(program, f)

PlacesInv(places, stacks) ==
    /\ places \in [Thread -> Node \cup {NoValue}]
    /\ stacks \in [Thread -> Seq(Node)]
    /\ Within(places, Walked)
    /\ Forks \/ \A t \in Thread \ {Main} : places[t] = NoValue
    /\ CallsInv(places, stacks)

RInv(regs, cells, places, stacks) ==
    ValuesInv(regs, places) /\ CellsInv(cells, places) /\ PlacesInv(places, stacks)

\* Values are not NoValue.
LEMMA ValueType == Value \subseteq Pointer /\ NoValue \notin Value /\ NullPointer \in Value
<1>1. 0 .. MaxOffset \subseteq Offset /\ 0 \in 0 .. MaxOffset
  BY PointerAssumption DEF Offset
<1> QED
  BY <1>1, RunAssumption DEF Value, Pointer, NullPointer, Operand

\* What an operand has is accounted for by what it points to.
LEMMA OperandAccounted ==
    ASSUME ValuesInv(reg, at), NEW o \in Operand, ValueOf(o) # NoValue
    PROVE  ValueOf(o) \in Value /\ Accounts(PointsTo(o), ValueOf(o)) /\ Past(at, o)
<1>1. CASE o = Null
  <2>1. ValueOf(o) = NullPointer /\ PointsTo(o) = {NullPointer} /\ IsFixed(o)
    BY <1>1, PointerAssumption DEF ValueOf, PointsTo, IsFixed
  <2> QED
    BY <2>1, ValueType DEF Accounts, Covers, Past
<1>2. CASE o \in Node
  <2>1. ValueOf(o) = reg[o] /\ PointsTo(o) = pts[o]
    BY <1>2, PointerAssumption DEF ValueOf, PointsTo
  <2> QED
    BY <1>2, <2>1 DEF ValuesInv
<1>3. CASE o = Unknown
  BY <1>3, PointerAssumption DEF ValueOf
<1> QED
  BY <1>1, <1>2, <1>3 DEF Operand

\* A STORE writes what it stores to where it stores.
LEMMA StoreWrites ==
    ASSUME NEW x, Type(x) = "STORE", NEW a \in Node, Type(a) # "FUNCTION", NEW o,
           Covers(PointsTo(program.operands[x][2]), <<a, o>>),
           NEW v, Accounts(PointsTo(program.operands[x][1]), v)
    PROVE  FromZero(v) \/ Covers(Wrote(x, a, o), v) \/ Covers(Wrote(x, a, UnknownOffset), v)
<1>1. PICK q \in {<<a, o>>, <<a, UnknownOffset>>} : q \in PointsTo(program.operands[x][2])
  BY DEF Covers, AnyOffset
<1>2. q \in Targets(x)
  BY <1>1 DEF Targets, CanBeDereferenced
<1>3. PointsTo(program.operands[x][1]) \subseteq Wrote(x, a, q[2])
  BY <1>1, <1>2 DEF Wrote
<1> QED
  BY <1>1, <1>3 DEF Accounts, Covers

\* The registers at the start.
LEMMA StartValues ==
    ASSUME AInv, Settled, RunStart
    PROVE  ValuesInv(reg, at)
<1>1. PICK offset \in [{x \in Node : Type(x) = "CONSTANT"} -> 0 .. MaxOffset] :
        /\ \A x \in DOMAIN offset : program.arg[x] \in {offset[x], UnknownOffset}
        /\ reg = [x \in Node |-> InitialValue(x, offset)]
  BY DEF RunStart
<1>2. \A x \in Node : \A p : IsInitial(x, p) => Covers(pts[x], p)
  BY DEF AInv, KeepsInitial, Settled
<1>3. DOMAIN reg = Node
  BY <1>1
<1>4. ASSUME NEW x \in Node
      PROVE  /\ reg[x] \in Value \cup {NoValue}
             /\ reg[x] # NoValue => Accounts(pts[x], reg[x]) /\ IsFixed(x)
  <2>1. CASE Type(x) \in {"ALLOC", "FUNCTION"}
    <3>1. reg[x] = <<x, 0>>
      BY <1>1, <2>1 DEF InitialValue
    <3>2. Covers(pts[x], <<x, 0>>)
      BY <1>2, <2>1 DEF IsInitial
    <3>3. <<x, 0>> \in Value
      BY PointerAssumption DEF Value, Operand
    <3> QED
      BY <2>1, <3>1, <3>2, <3>3 DEF Accounts, IsFixed
  <2>2. CASE Type(x) = "CONSTANT"
    <3> DEFINE v == <<program.operands[x][1], offset[x]>>
               p == <<program.operands[x][1], program.arg[x]>>
    <3>1. reg[x] = v /\ program.arg[x] \in {offset[x], UnknownOffset} /\ offset[x] \in 0 .. MaxOffset
      BY <1>1, <2>2 DEF InitialValue
    <3>2. program.operands[x][1] \in Operand
      BY <2>2, OperandsType DEF AInv, IInv, Arity
    <3>3. Covers(pts[x], p)
      BY <1>2, <2>2 DEF IsInitial
    <3>4. p \in {v, AnyOffset(v)} /\ AnyOffset(p) = AnyOffset(v)
      BY <3>1 DEF AnyOffset
    <3>5. Covers(pts[x], v)
      BY <3>3, <3>4 DEF Covers
    <3> QED
      BY <2>2, <3>1, <3>2, <3>5 DEF Accounts, IsFixed, Value
  <2>3. CASE Type(x) \notin {"ALLOC", "FUNCTION", "CONSTANT"}
    BY <1>1, <2>3 DEF InitialValue
  <2> QED
    BY <2>1, <2>2, <2>3
<1>5. reg \in [Node -> Value \cup {NoValue}]
  <2>1. reg = [x \in Node |-> reg[x]]
    BY <1>1
  <2> QED
    BY <1>4, <2>1
<1> QED
  BY <1>4, <1>5 DEF ValuesInv, Past

\* The memory at the start, as the global stores initialise it.
LEMMA StartCells ==
    ASSUME AInv, Settled, RunStart
    PROVE  CellsInv(cell, at)
<1> DEFINE stores(a, o) ==
        {s \in ToSet(program.globals) :
            Type(s) = "STORE" /\ ValueOf(program.operands[s][2]) = <<a, o>>}
<1>1. cell = [a \in Node |-> [o \in Offset |-> InitialCell(a, o)]]
  BY DEF RunStart
<1>2. ToSet(program.globals) \subseteq Node
  BY OperandsType, ProgramsAssumption DEF AInv, IInv, ProgramType, ToSet
<1>3. ValuesInv(reg, at)
  BY StartValues
<1>4. ASSUME NEW a \in Node, NEW o \in Offset
      PROVE  \/ cell[a][o] \in {NullPointer, NoValue} /\ (cell[a][o] = NullPointer => program.zero # {})
             \/ \E s \in stores(a, o) : cell[a][o] = ValueOf(program.operands[s][1])
  <2>1. cell[a][o] =
          IF stores(a, o) # {}
            THEN ValueOf(program.operands[CHOOSE s \in stores(a, o) : TRUE][1])
            ELSE IF a \in program.zero THEN NullPointer ELSE NoValue
    BY <1>1 DEF InitialCell
  <2> HIDE DEF stores
  <2>2. CASE stores(a, o) # {}
    <3>1. (CHOOSE s \in stores(a, o) : TRUE) \in stores(a, o)
      BY <2>2
    <3> QED
      BY <2>1, <2>2, <3>1
  <2>3. CASE stores(a, o) = {}
    <3>1. NullPointer # NoValue
      BY ValueType
    <3> QED
      BY <2>1, <2>3, <3>1
  <2> QED
    BY <2>2, <2>3
<1> HIDE DEF stores
<1>5. ASSUME NEW a \in Node, NEW o \in Offset
      PROVE  /\ cell[a][o] \in Value \cup {NoValue}
             /\ cell[a][o] # NoValue /\ Type(a) # "FUNCTION" =>
                  \/ FromZero(cell[a][o])
                  \/ \E w : /\ Written(w, at)
                            /\ \/ Covers(Wrote(w, a, o), cell[a][o])
                               \/ Covers(Wrote(w, a, UnknownOffset), cell[a][o])
  <2>1. CASE cell[a][o] \in {NullPointer, NoValue} /\ (cell[a][o] = NullPointer => program.zero # {})
    BY <2>1, ValueType DEF FromZero
  <2>2. CASE \E s \in stores(a, o) : cell[a][o] = ValueOf(program.operands[s][1])
    <3>1. PICK s \in stores(a, o) : cell[a][o] = ValueOf(program.operands[s][1])
      BY <2>2
    <3>2. /\ s \in ToSet(program.globals) /\ s \in Node /\ Type(s) = "STORE"
          /\ ValueOf(program.operands[s][2]) = <<a, o>>
      BY <1>2, <3>1 DEF stores
    <3>3. program.operands[s][1] \in Operand /\ program.operands[s][2] \in Operand
      BY <3>2, OperandsType DEF AInv, IInv, Arity
    <3>4. <<a, o>> \in Pointer /\ <<a, o>> # NullPointer
      BY PointerAssumption DEF Pointer, Operand, NullPointer
    <3>5. Accounts(PointsTo(program.operands[s][2]), <<a, o>>)
      BY <1>3, <3>2, <3>3, <3>4, OperandAccounted, RunAssumption
    <3>6. Covers(PointsTo(program.operands[s][2]), <<a, o>>)
      BY <3>4, <3>5 DEF Accounts, FromZero
    <3>7. CASE cell[a][o] # NoValue
      <4>1. cell[a][o] \in Value /\ Accounts(PointsTo(program.operands[s][1]), cell[a][o])
        BY <1>3, <3>1, <3>3, <3>7, OperandAccounted
      <4>2. Written(s, at)
        BY <3>2 DEF Written, Writers
      <4> QED
        BY <3>2, <3>6, <4>1, <4>2, StoreWrites
    <3> QED
      BY <3>7
  <2> QED
    BY <1>4, <2>1, <2>2
<1>6. cell = [a \in Node |-> cell[a]] /\ \A a \in Node : cell[a] = [o \in Offset |-> cell[a][o]]
  BY <1>1
<1>7. cell \in [Node -> [Offset -> Value \cup {NoValue}]]
  <2>1. \A a \in Node : cell[a] \in [Offset -> Value \cup {NoValue}]
    BY <1>5, <1>6
  <2> QED
    BY <1>6, <2>1
<1> QED
  BY <1>5, <1>7 DEF CellsInv

\* Nothing but the main thread runs at the start.
LEMMA RunStarts ==
    ASSUME AInv, Settled, RunStart
    PROVE  RInv(reg, cell, at, stack)
<1>1. program.root \in Walked /\ Walked \subseteq Node
  BY WalkedClosed DEF AInv, IsClosed
<1>2. /\ at = [t \in Thread |-> IF t = Main THEN program.root ELSE NoValue]
      /\ stack = [t \in Thread |-> <<>>]
  BY DEF RunStart
<1>3. at \in [Thread -> Node \cup {NoValue}] /\ stack \in [Thread -> Seq(Node)]
  BY <1>1, <1>2
<1>4. PlacesInv(at, stack)
  BY <1>1, <1>2, <1>3 DEF PlacesInv, Within, CallsInv
<1> QED
  BY <1>4, StartValues, StartCells DEF RInv

RunsSettled == AInv /\ Settled /\ RInv(reg, cell, at, stack)

\* After a step every thread is still where it may be then.
Moved ==
    /\ at' \in [Thread -> Node \cup {NoValue}]
    /\ Within(at', Walked)
    /\ Forks \/ \A t \in Thread \ {Main} : at'[t] = NoValue
    /\ \A x \in Node : Within(at, After(x)) => Within(at', After(x))

\* A thread goes where the search goes, or it ends.
LEMMA ThreadMoves ==
    ASSUME RunsSettled, NEW t \in Thread, at[t] # NoValue,
           NEW y \in WalkEdges(at[t]) \cup {NoValue}, at' = [at EXCEPT ![t] = y]
    PROVE  /\ Moved
           /\ \A x \in Node : y \in After(x) \cup {NoValue} => Within(at', After(x))
<1>1. /\ IInv /\ at \in [Thread -> Node \cup {NoValue}] /\ Within(at, Walked)
      /\ Forks \/ \A u \in Thread \ {Main} : at[u] = NoValue
  BY DEF RunsSettled, AInv, RInv, PlacesInv
<1>2. at'[t] = y /\ \A u \in Thread \ {t} : at'[u] = at[u]
  BY <1>1
<1>3. ASSUME NEW C, IsClosed(C), Within(at, C)  PROVE Within(at', C)
  BY <1>2, <1>3 DEF Within, IsClosed
<1>4. Within(at', Walked)
  BY <1>1, <1>3, WalkedClosed
<1>5. Walked \subseteq Node
  BY <1>1, WalkedClosed DEF IsClosed
<1>6. at' \in [Thread -> Node \cup {NoValue}]
  <2>1. y \in Node \cup {NoValue}
    BY <1>2, <1>4, <1>5 DEF Within
  <2> QED
    BY <1>1, <2>1
<1>7. ~ Forks => t = Main /\ \A u \in Thread \ {t} : at'[u] = NoValue
  BY <1>1, <1>2
<1>8. Moved
  BY <1>1, <1>3, <1>4, <1>6, <1>7, AfterClosed DEF Moved
<1>9. ASSUME NEW x \in Node, y \in After(x) \cup {NoValue}  PROVE Within(at', After(x))
  <2>1. CASE Forks
    BY <1>1, <1>4, <2>1, AfterClosed
  <2>2. CASE ~ Forks
    BY <1>2, <1>7, <1>9, <2>2 DEF Within
  <2> QED
    BY <2>1, <2>2
<1> QED
  BY <1>8, <1>9

\* An instruction that is neither a call nor a RETURN goes on in its procedure, or the
\* thread ends.
LEMMA StepMoves ==
    ASSUME RunsSettled, NEW t \in Thread, at[t] # NoValue, StepTo(t),
           ~ IsCall(at[t]), Type(at[t]) # "RETURN"
    PROVE  /\ Moved /\ CallsInv(at', stack)
           /\ at[t] \in Node /\ at[t] \in Walked /\ Within(at', After(at[t]))
<1> DEFINE x == at[t]
<1>1. /\ IInv /\ at \in [Thread -> Node \cup {NoValue}] /\ Within(at, Walked)
      /\ CallsInv(at, stack) /\ stack \in [Thread -> Seq(Node)]
  BY DEF RunsSettled, AInv, RInv, PlacesInv
<1>2. x \in Walked /\ x \in Node
  BY <1>1, WalkedClosed DEF Within, IsClosed
<1>3. PICK y \in program.succ[x] \cup {NoValue} : at' = [at EXCEPT ![t] = y]
  BY DEF StepTo
<1>4. program.succ[x] \subseteq WalkEdges(x)
  BY <1>2, EdgesByType
<1>5. y \in After(x) \cup {NoValue}
  BY <1>1, <1>2, <1>3, <1>4, AfterClosed DEF IsClosed
<1>6. Moved /\ Within(at', After(x))
  BY <1>2, <1>3, <1>4, <1>5, ThreadMoves
<1>7. ASSUME NEW u \in Thread, at'[u] # NoValue, NEW i \in DOMAIN stack[u]
      PROVE  /\ IsCall(stack[u][i])
             /\ \E f \in callees[stack[u][i]] :
                  (IF i = 1 THEN at'[u] ELSE stack[u][i - 1]) \in Body(program, f)
  <2>1. at[u] # NoValue
    BY <1>1, <1>3, <1>7
  <2>2. PICK f \in callees[stack[u][i]] :
          (IF i = 1 THEN at[u] ELSE stack[u][i - 1]) \in Body(program, f)
    BY <1>1, <2>1 DEF CallsInv
  <2>3. f \in Node /\ Defined(f)
    <3>1. stack[u][i] \in Node
      BY <1>1
    <3> QED
      BY <1>1, <3>1 DEF IInv, TypeOK, Entered
  <2>4. u = t /\ i = 1 => at'[u] \in Body(program, f)
    <3>1. u = t => at'[u] = y /\ y \in program.succ[x]
      BY <1>1, <1>3, <1>7
    <3> QED
      BY <1>1, <2>2, <2>3, <3>1, BodyClosed
  <2>5. u # t => at'[u] = at[u]
    BY <1>1, <1>3
  <2>6. (IF i = 1 THEN at'[u] ELSE stack[u][i - 1]) \in Body(program, f)
    BY <2>2, <2>4, <2>5
  <2>7. IsCall(stack[u][i])
    BY <1>1, <2>1 DEF CallsInv
  <2> QED
    BY <2>6, <2>7
<1>8. CallsInv(at', stack)
  BY <1>7 DEF CallsInv
<1> QED
  BY <1>2, <1>6, <1>8

\* New values are accounted for.
LEMMA ValuesStay ==
    ASSUME RunsSettled, Moved, reg' \in [Node -> Value \cup {NoValue}],
           \A x \in Node : \/ reg'[x] \in {reg[x], NoValue}
                           \/ Accounts(pts[x], reg'[x]) /\ Within(at', After(x))
    PROVE  ValuesInv(reg', at')
<1> SUFFICES ASSUME NEW x \in Node, reg'[x] # NoValue
             PROVE  Accounts(pts[x], reg'[x]) /\ Past(at', x)
  BY DEF ValuesInv
<1>1. CASE reg'[x] = reg[x]
  BY <1>1 DEF RunsSettled, RInv, ValuesInv, Past, Moved
<1>2. CASE reg'[x] # reg[x]
  BY <1>2 DEF Past
<1> QED
  BY <1>1, <1>2

\* What is written is accounted for by a node that wrote it.
LEMMA CellsStay ==
    ASSUME RunsSettled, Moved, cell' \in [Node -> [Offset -> Value \cup {NoValue}]],
           \A a \in Node : \A o \in Offset : cell'[a][o] # NoValue =>
              \/ cell'[a][o] = cell[a][o]
              \/ FromZero(cell'[a][o])
              \/ \E w : /\ Written(w, at')
                        /\ \/ Covers(Wrote(w, a, o), cell'[a][o])
                           \/ Covers(Wrote(w, a, UnknownOffset), cell'[a][o])
    PROVE  CellsInv(cell', at')
<1> SUFFICES ASSUME NEW a \in Node, NEW o \in Offset, cell'[a][o] # NoValue, Type(a) # "FUNCTION"
             PROVE  \/ FromZero(cell'[a][o])
                    \/ \E w : /\ Written(w, at')
                              /\ \/ Covers(Wrote(w, a, o), cell'[a][o])
                                 \/ Covers(Wrote(w, a, UnknownOffset), cell'[a][o])
  BY DEF CellsInv
<1>1. \A w : Written(w, at) => Written(w, at')
  <2>1. Writers \subseteq Node
    <3>1. Walked \subseteq Node
      BY WalkedClosed DEF RunsSettled, AInv, IsClosed
    <3>2. ToSet(program.globals) \subseteq Node
      BY OperandsType, ProgramsAssumption DEF RunsSettled, AInv, IInv, ProgramType, ToSet
    <3> QED
      BY <3>1, <3>2 DEF Writers
  <2> QED
    BY <2>1 DEF Written, Moved
<1>2. CASE cell'[a][o] = cell[a][o]
  <2>1. \/ FromZero(cell[a][o])
        \/ \E w : /\ Written(w, at)
                  /\ \/ Covers(Wrote(w, a, o), cell[a][o])
                     \/ Covers(Wrote(w, a, UnknownOffset), cell[a][o])
    BY <1>2 DEF RunsSettled, RInv, CellsInv
  <2> QED
    BY <1>1, <1>2, <2>1
<1>3. CASE cell'[a][o] # cell[a][o]
  BY <1>3
<1> QED
  BY <1>2, <1>3

\* An operand of the instruction at which a thread is.
LEMMA OperandThere ==
    ASSUME RunsSettled, NEW t \in Thread, at[t] # NoValue,
           NEW o \in OperandsOf(at[t]), ValueOf(o) # NoValue
    PROVE  /\ ValueOf(o) \in Value /\ Accounts(PointsTo(o), ValueOf(o))
           /\ PointsTo(o) \subseteq OperandsAt(at[t])
<1>1. at[t] \in Node /\ ValuesInv(reg, at) /\ program \in Programs
  BY DEF RunsSettled, RInv, PlacesInv, AInv, IInv
<1>2. o \in Operand
  BY <1>1, OperandsType
<1>3. ValueOf(o) \in Value /\ Accounts(PointsTo(o), ValueOf(o)) /\ Past(at, o)
  BY <1>1, <1>2, OperandAccounted
<1>4. IsFixed(o) \/ at[t] \in After(o)
  BY <1>3 DEF Past, Within
<1>5. PointsTo(o) \subseteq OperandsAt(at[t])
  BY <1>4 DEF OperandsAt
<1> QED
  BY <1>3, <1>5

\* The operands that the program gives it.
LEMMA OperandIn ==
    ASSUME IInv, NEW x \in Node
    PROVE  /\ \A i \in DOMAIN program.operands[x] : program.operands[x][i] \in OperandsOf(x)
           /\ Arity(Type(x)) >= 1 => program.operands[x][1] \in OperandsOf(x)
           /\ Arity(Type(x)) >= 2 => program.operands[x][2] \in OperandsOf(x)
<1>1. program.operands[x] \in Seq(Operand) /\ Len(program.operands[x]) >= Arity(Type(x))
  BY ProgramsAssumption DEF IInv, ProgramType, Type
<1>2. Arity(Type(x)) \in Nat
  BY DEF Arity
<1>3. \A i \in DOMAIN program.operands[x] : program.operands[x][i] \in OperandsOf(x)
  BY DEF OperandsOf, ToSet
<1> QED
  BY <1>1, <1>2, <1>3

\* What an operand that is a part of an object may point to, with its offset or an unknown one.
LEMMA AccessedThere ==
    ASSUME RunsSettled, NEW t \in Thread, at[t] # NoValue, NEW o \in OperandsOf(at[t]),
           Accessible(ValueOf(o))
    PROVE  /\ ValueOf(o) \in Node \X (0 .. MaxOffset)
           /\ Covers(PointsTo(o), ValueOf(o)) /\ PointsTo(o) \subseteq OperandsAt(at[t])
           /\ CanBeDereferenced(ValueOf(o)) /\ CanBeDereferenced(AnyOffset(ValueOf(o)))
<1> DEFINE v == ValueOf(o)
<1>1. v # NoValue /\ CanBeDereferenced(v) /\ v[1] \in Node
  BY DEF Accessible, CanBeDereferenced
<1>2. v \in Value /\ Accounts(PointsTo(o), v) /\ PointsTo(o) \subseteq OperandsAt(at[t])
  BY <1>1, OperandThere
<1> HIDE DEF v
<1>3. v # NullPointer
  BY <1>1, PointerAssumption DEF NullPointer
<1>4. v \in Node \X (0 .. MaxOffset)
  BY <1>1, <1>2 DEF Value
<1>5. CanBeDereferenced(AnyOffset(v))
  BY <1>1 DEF AnyOffset, CanBeDereferenced
<1> QED
  BY <1>1, <1>2, <1>3, <1>4, <1>5 DEF Accounts, FromZero, v

\* What a LOAD finds in memory was written there, at its offset or at an unknown one, by a
\* node that may have been executed before.
LEMMA LoadAccounted ==
    ASSUME RunsSettled, NEW t \in Thread, at[t] # NoValue, Type(at[t]) = "LOAD",
           Accessible(OperandValue(at[t], 1)),
           NEW v, v = cell[OperandValue(at[t], 1)[1]][OperandValue(at[t], 1)[2]], v # NoValue
    PROVE  v \in Value /\ Accounts(pts[at[t]], v)
<1> DEFINE x == at[t]
           o == program.operands[x][1]
           w == ValueOf(o)
<1>1. x \in Node /\ x \in Walked /\ IInv /\ CellsInv(cell, at)
  BY DEF RunsSettled, RInv, PlacesInv, AInv, Within
<1>2. o \in OperandsOf(x)
  BY <1>1, OperandIn DEF Arity
<1>3. /\ w \in Node \X (0 .. MaxOffset) /\ v = cell[w[1]][w[2]]
      /\ Covers(PointsTo(o), w) /\ PointsTo(o) \subseteq OperandsAt(x)
      /\ CanBeDereferenced(w) /\ CanBeDereferenced(AnyOffset(w))
  BY <1>2, AccessedThere DEF OperandValue
<1>4. \A p \in OperandsAt(x) : LoadedAt(x, p) \subseteq pts[x]
  BY <1>1 DEF RunsSettled, Settled, AddsNothing
<1> HIDE DEF x, o, w
<1>5. PICK p \in OperandsAt(x) : p \in {w, AnyOffset(w)}
  BY <1>3 DEF Covers
<1>6. w[1] \in Node /\ w[2] \in Offset /\ w[2] # UnknownOffset /\ Type(w[1]) # "FUNCTION"
      /\ UnknownOffset \in Offset
  BY <1>3, PointerAssumption DEF Offset, CanBeDereferenced
<1>7. v \in Value
  BY <1>1, <1>3, <1>6 DEF CellsInv
<1>8. ASSUME NEW u, Written(u, at), NEW k \in {w[2], UnknownOffset}
      PROVE  Wrote(u, w[1], k) \subseteq pts[x]
  <2>1. u \in ToSet(program.globals) \/ x \in After(u)
    BY <1>8 DEF Written, Within, x
  <2>2. Wrote(u, w[1], k) \subseteq MemoryAt(x, w[1], k)
    BY <1>8, <2>1 DEF MemoryAt, Written
  <2>3. CanBeDereferenced(p) /\ p[1] = w[1] /\ p[2] \in {w[2], UnknownOffset}
    BY <1>3, <1>5 DEF AnyOffset
  <2>4. MemoryAt(x, w[1], k) \subseteq LoadedAt(x, p)
    BY <1>6, <2>3 DEF LoadedAt
  <2> QED
    BY <1>4, <1>5, <2>2, <2>4
<1>9. \/ FromZero(v)
      \/ \E u : /\ Written(u, at)
                /\ Covers(Wrote(u, w[1], w[2]), v) \/ Covers(Wrote(u, w[1], UnknownOffset), v)
  BY <1>1, <1>3, <1>6 DEF CellsInv
<1> QED
  BY <1>7, <1>8, <1>9 DEF Accounts, Covers, x

\* A GEP that leaves its object, or whose offset is not tracked, has an unknown offset.
LEMMA GepAccounted ==
    ASSUME RunsSettled, NEW t \in Thread, at[t] # NoValue, Type(at[t]) = "GEP",
           NEW v \in Node \X (0 .. MaxOffset), OperandValue(at[t], 1) # NoValue,
           v[1] = OperandValue(at[t], 1)[1],
           program.arg[at[t]] \in {v[2] - OperandValue(at[t], 1)[2], UnknownOffset}
    PROVE  v \in Value /\ Accounts(pts[at[t]], v)
<1> DEFINE x == at[t]
           o == program.operands[x][1]
           w == ValueOf(o)
<1>1. x \in Node /\ x \in Walked /\ IInv
  BY DEF RunsSettled, RInv, PlacesInv, AInv, Within
<1>2. o \in OperandsOf(x)
  BY <1>1, OperandIn DEF Arity
<1>3. /\ w \in Value /\ Accounts(PointsTo(o), w) /\ PointsTo(o) \subseteq OperandsAt(x)
      /\ v[1] = w[1] /\ program.arg[x] \in {v[2] - w[2], UnknownOffset}
  BY <1>2, OperandThere DEF OperandValue
<1>4. \A p \in OperandsAt(x) : Covers(pts[x], Shift(p, GepOffset(x)))
  BY <1>1 DEF RunsSettled, Settled, AddsNothing
<1> HIDE DEF x, o, w
<1>5. w # NullPointer /\ v \in Value
  BY <1>3, PointerAssumption DEF NullPointer, Value, Operand
<1>6. PICK p \in OperandsAt(x) : p \in {w, AnyOffset(w)}
  BY <1>3, <1>5 DEF Covers, Accounts, FromZero
<1>7. AnyOffset(p) = AnyOffset(v)
  BY <1>3, <1>6 DEF AnyOffset
<1>8. Shift(p, GepOffset(x)) \in {v, AnyOffset(v)}
  <2>1. CASE p[2] = UnknownOffset \/ GepOffset(x) = UnknownOffset
    BY <1>7, <2>1 DEF Shift
  <2>2. CASE p[2] # UnknownOffset /\ GepOffset(x) # UnknownOffset
    <3>1. p = w /\ GepOffset(x) = program.arg[x]
      BY <1>6, <2>2 DEF GepOffset, AnyOffset
    <3>2. w[2] \in 0 .. MaxOffset /\ v[2] \in 0 .. MaxOffset /\ GepOffset(x) = v[2] - w[2]
      BY <1>3, <2>2, <3>1 DEF Value
    <3>3. p[2] + GepOffset(x) = v[2] /\ v = <<p[1], v[2]>>
      BY <1>3, <3>1, <3>2
    <3> QED
      BY <1>7, <2>2, <3>3 DEF Shift
  <2> QED
    BY <2>1, <2>2
<1>9. AnyOffset(AnyOffset(v)) = AnyOffset(v)
  BY DEF AnyOffset
<1>10. Covers(pts[x], v)
  BY <1>4, <1>6, <1>8, <1>9 DEF Covers
<1> QED
  BY <1>5, <1>10 DEF Accounts, x

\* What a PHI or CAST computes is the value of an operand.
LEMMA CopyAccounted ==
    ASSUME RunsSettled, NEW t \in Thread, at[t] # NoValue, 
           Type(at[t]) \in {"CAST", "PHI", "RETURN", "CALL_RETURN"},
           NEW o \in OperandsOf(at[t]), ValueOf(o) # NoValue
    PROVE  ValueOf(o) \in Value /\ Accounts(pts[at[t]], ValueOf(o))
<1>1. at[t] \in Walked
  BY DEF RunsSettled, RInv, PlacesInv, Within
<1>2. OperandsAt(at[t]) \subseteq pts[at[t]]
  BY <1>1 DEF RunsSettled, Settled, AddsNothing
<1>3. /\ ValueOf(o) \in Value /\ Accounts(PointsTo(o), ValueOf(o))
      /\ PointsTo(o) \subseteq OperandsAt(at[t])
  BY OperandThere
<1> QED
  BY <1>2, <1>3 DEF Accounts, Covers

\* Whatever a node computes is accounted for.
LEMMA ResultsAccounted ==
    ASSUME RunsSettled, NEW t \in Thread, at[t] # NoValue, NEW v \in Results(at[t])
    PROVE  /\ ~ IsCall(at[t]) /\ Type(at[t]) # "RETURN"
           /\ v # NoValue => v \in Value /\ Accounts(pts[at[t]], v)
<1> DEFINE x == at[t]
<1>1. x \in Node /\ IInv
  BY DEF RunsSettled, RInv, PlacesInv, AInv
<1>2. CASE Type(x) = "LOAD"
  <2>1. Results(x) = {cell[w[1]][w[2]] : w \in {u \in {OperandValue(x, 1)} : Accessible(u)}}
    BY <1>2 DEF Results
  <2>2. Accessible(OperandValue(x, 1)) /\ v = cell[OperandValue(x, 1)[1]][OperandValue(x, 1)[2]]
    BY <2>1
  <2>3. ~ IsCall(x) /\ Type(x) # "RETURN"
    BY <1>2 DEF IsCall
  <2> QED
    BY <1>2, <2>2, <2>3, LoadAccounted
<1>3. CASE Type(x) = "GEP"
  <2>1. Results(x) = {p \in Node \X (0 .. MaxOffset) :
               LET w == OperandValue(x, 1) IN
               /\ w # NoValue /\ p[1] = w[1] /\ p[2] <= program.size[p[1]]
               /\ program.arg[x] \in {p[2] - w[2], UnknownOffset}}
    BY <1>3 DEF Results
  <2>2. /\ v \in Node \X (0 .. MaxOffset) /\ OperandValue(x, 1) # NoValue
        /\ v[1] = OperandValue(x, 1)[1]
        /\ program.arg[x] \in {v[2] - OperandValue(x, 1)[2], UnknownOffset}
    BY <2>1
  <2>3. ~ IsCall(x) /\ Type(x) # "RETURN"
    BY <1>3 DEF IsCall
  <2> QED
    BY <1>3, <2>2, <2>3, GepAccounted
<1>4. CASE Type(x) = "PHI" /\ ~ IsFormal(x)
  <2>1. Results(x) = {OperandValue(x, i) : i \in DOMAIN program.operands[x]} \ {NoValue}
    BY <1>4 DEF Results
  <2>2. PICK i \in DOMAIN program.operands[x] : v = ValueOf(program.operands[x][i])
    BY <2>1 DEF OperandValue
  <2>3. program.operands[x][i] \in OperandsOf(x)
    BY <1>1, OperandIn
  <2>4. ~ IsCall(x) /\ Type(x) # "RETURN"
    BY <1>4 DEF IsCall
  <2> QED
    BY <1>4, <2>2, <2>3, <2>4, CopyAccounted
<1>5. CASE Type(x) = "CAST"
  <2>1. Results(x) = {OperandValue(x, 1)}
    BY <1>5 DEF Results
  <2>2. v = ValueOf(program.operands[x][1])
    BY <2>1 DEF OperandValue
  <2>3. program.operands[x][1] \in OperandsOf(x)
    BY <1>1, <1>5, OperandIn DEF Arity
  <2>4. ~ IsCall(x) /\ Type(x) # "RETURN"
    BY <1>5 DEF IsCall
  <2> QED
    BY <1>5, <2>2, <2>3, <2>4, CopyAccounted
<1>6. Type(x) = "LOAD" \/ Type(x) = "GEP" \/ (Type(x) = "PHI" /\ ~ IsFormal(x)) \/ Type(x) = "CAST"
  BY DEF Results
<1> QED
  BY <1>2, <1>3, <1>4, <1>5, <1>6

\* The instructions.
LEMMA RunValueCorrect ==
    ASSUME RunsSettled, NEW t \in Thread, at[t] # NoValue, RunValue(t)
    PROVE  RInv(reg', cell', at', stack')
<1>1. PICK v \in Results(at[t]) : reg' = [reg EXCEPT ![at[t]] = v]
  BY DEF RunValue
<1>2. StepTo(t) /\ cell' = cell /\ stack' = stack
  BY DEF RunValue
<1>3. /\ ~ IsCall(at[t]) /\ Type(at[t]) # "RETURN"
      /\ v # NoValue => v \in Value /\ Accounts(pts[at[t]], v)
  BY ResultsAccounted
<1>4. /\ Moved /\ CallsInv(at', stack)
      /\ at[t] \in Node /\ at[t] \in Walked /\ Within(at', After(at[t]))
  BY <1>2, <1>3, StepMoves
<1>5. /\ reg \in [Node -> Value \cup {NoValue}] /\ stack \in [Thread -> Seq(Node)]
      /\ cell \in [Node -> [Offset -> Value \cup {NoValue}]]
  BY DEF RunsSettled, RInv, ValuesInv, PlacesInv, CellsInv
<1>6. reg' \in [Node -> Value \cup {NoValue}]
  BY <1>1, <1>3, <1>4, <1>5
<1>7. ValuesInv(reg', at')
  BY <1>1, <1>3, <1>4, <1>5, <1>6, ValuesStay
<1>8. CellsInv(cell', at')
  BY <1>2, <1>4, <1>5, CellsStay
<1> QED
  BY <1>2, <1>4, <1>5, <1>7, <1>8 DEF RInv, PlacesInv, Moved

\* Those that compute nothing.
LEMMA RunOtherCorrect ==
    ASSUME RunsSettled, NEW t \in Thread, at[t] # NoValue, RunOther(t)
    PROVE  RInv(reg', cell', at', stack')
<1>1. StepTo(t) /\ cell' = cell /\ stack' = stack /\ reg' = reg
  BY DEF RunOther
<1>2. at[t] \in Node /\ program \in Programs
  BY DEF RunsSettled, RInv, PlacesInv, AInv, IInv
<1>3. IsFormal(at[t]) => Type(at[t]) = "PHI"
  BY <1>2, StructureAssumption DEF IsFormal, Type
<1>4. ~ IsCall(at[t]) /\ Type(at[t]) # "RETURN"
  BY <1>3 DEF RunOther, IsCall
<1>5. Moved /\ CallsInv(at', stack)
  BY <1>1, <1>4, StepMoves
<1>6. /\ reg \in [Node -> Value \cup {NoValue}] /\ stack \in [Thread -> Seq(Node)]
      /\ cell \in [Node -> [Offset -> Value \cup {NoValue}]]
  BY DEF RunsSettled, RInv, ValuesInv, PlacesInv, CellsInv
<1>7. ValuesInv(reg', at')
  BY <1>1, <1>5, <1>6, ValuesStay
<1>8. CellsInv(cell', at')
  BY <1>1, <1>5, <1>6, CellsStay
<1> QED
  BY <1>1, <1>5, <1>6, <1>7, <1>8 DEF RInv, PlacesInv, Moved

\* A STORE: the object and what is stored in it are accounted for.
LEMMA RunStoreCorrect ==
    ASSUME RunsSettled, NEW t \in Thread, at[t] # NoValue, RunStore(t)
    PROVE  RInv(reg', cell', at', stack')
<1> DEFINE x == at[t]
           from == OperandValue(x, 1)
           to == OperandValue(x, 2)
<1>1. /\ Type(x) = "STORE" /\ Accessible(to) /\ StepTo(t)
      /\ cell' = [cell EXCEPT ![to[1]][to[2]] = from] /\ reg' = reg /\ stack' = stack
  BY DEF RunStore
<1>2. /\ reg \in [Node -> Value \cup {NoValue}] /\ stack \in [Thread -> Seq(Node)]
      /\ cell \in [Node -> [Offset -> Value \cup {NoValue}]]
  BY DEF RunsSettled, RInv, ValuesInv, PlacesInv, CellsInv
<1>3. /\ Moved /\ CallsInv(at', stack) /\ x \in Node /\ x \in Walked
      /\ Within(at', After(x))
  BY <1>1, StepMoves DEF IsCall
<1>4. program.operands[x][1] \in OperandsOf(x) /\ program.operands[x][2] \in OperandsOf(x)
  BY <1>1, <1>3, OperandIn DEF RunsSettled, AInv, Arity
<1>5. /\ to \in Node \X (0 .. MaxOffset) /\ CanBeDereferenced(to)
      /\ Covers(PointsTo(program.operands[x][2]), to)
  BY <1>1, <1>4, AccessedThere DEF OperandValue
<1>6. from # NoValue => from \in Value /\ Accounts(PointsTo(program.operands[x][1]), from)
  BY <1>4, OperandThere DEF OperandValue
<1> HIDE DEF x, from, to
<1>7. to[1] \in Node /\ to[2] \in Offset /\ to = <<to[1], to[2]>> /\ Type(to[1]) # "FUNCTION"
  BY <1>5 DEF Offset, CanBeDereferenced
<1>8. cell' \in [Node -> [Offset -> Value \cup {NoValue}]]
  BY <1>1, <1>2, <1>6, <1>7
<1>9. ASSUME NEW a \in Node, NEW o \in Offset, cell'[a][o] # NoValue
      PROVE  \/ cell'[a][o] = cell[a][o]
             \/ FromZero(cell'[a][o])
             \/ \E w : /\ Written(w, at')
                       /\ \/ Covers(Wrote(w, a, o), cell'[a][o])
                          \/ Covers(Wrote(w, a, UnknownOffset), cell'[a][o])
  <2>1. CASE a = to[1] /\ o = to[2]
    <3>1. cell'[a][o] = from
      BY <1>1, <1>2, <1>7, <2>1
    <3>2. FromZero(from) \/ Covers(Wrote(x, a, o), from) \/ Covers(Wrote(x, a, UnknownOffset), from)
      BY <1>1, <1>5, <1>6, <1>7, <1>9, <2>1, <3>1, StoreWrites
    <3>3. Written(x, at')
      BY <1>1, <1>3 DEF Written, Writers
    <3> QED
      BY <3>1, <3>2, <3>3
  <2>2. CASE ~ (a = to[1] /\ o = to[2])
    BY <1>1, <1>2, <1>7, <2>2
  <2> QED
    BY <2>1, <2>2
<1>10. CellsInv(cell', at')
  BY <1>3, <1>8, <1>9, CellsStay
<1>11. ValuesInv(reg', at')
  BY <1>1, <1>2, <1>3, ValuesStay
<1> QED
  BY <1>1, <1>2, <1>3, <1>10, <1>11 DEF RInv, PlacesInv, Moved

\* When nothing is to be added, what was written is in memory.
LEMMA WroteIsThere ==
    ASSUME AInv, Settled, NEW w \in Writers, NEW a \in Node, Type(a) # "FUNCTION", NEW o \in Offset
    PROVE  Wrote(w, a, o) \subseteq mem[a][o]
<1>1. AddsNothing(w) /\ Type(w) \in {"STORE", "MEMCPY"}
  BY DEF Settled, Writers
<1>2. CASE Type(w) = "STORE"
  <2>1. mem = Stored(w)
    BY <1>1, <1>2 DEF AddsNothing
  <2>2. mem[a][o] = mem[a][o] \cup
        (IF <<a, o>> \in {p \in PointsTo(program.operands[w][2]) : CanBeDereferenced(p)}
           THEN PointsTo(program.operands[w][1]) ELSE {})
    BY <2>1, Zenon DEF Stored
  <2>3. Wrote(w, a, o) = UNION {PointsTo(program.operands[w][1]) :
                                  p \in {q \in Targets(w) : q = <<a, o>>}}
    BY <1>2 DEF Wrote
  <2>4. Targets(w) = {p \in PointsTo(program.operands[w][2]) : CanBeDereferenced(p)}
    BY DEF Targets
  <2>5. ASSUME NEW v \in Wrote(w, a, o)  PROVE v \in mem[a][o]
    <3>1. <<a, o>> \in Targets(w) /\ v \in PointsTo(program.operands[w][1])
      BY <2>3, <2>5
    <3> QED
      BY <2>2, <2>4, <3>1
  <2> QED
    BY <2>5
<1>3. CASE Type(w) = "MEMCPY"
  <2>1. mem = Copied(w)
    BY <1>1, <1>3 DEF AddsNothing
  <2>2. CopiedInto(w, a, o) \subseteq Copied(w)[a][o]
    BY DEF Copied
  <2>3. Wrote(w, a, o) = CopiedInto(w, a, o)
    BY <1>3 DEF Wrote
  <2> QED
    BY <2>1, <2>2, <2>3
<1> QED
  BY <1>1, <1>2, <1>3

\* A MEMCPY copies what memory has at offset o of its source.
LEMMA MemcpyWrites ==
    ASSUME RunsSettled, NEW t \in Thread, at[t] # NoValue, Type(at[t]) = "MEMCPY",
           NEW from, from = OperandValue(at[t], 1), Accessible(from),
           NEW to, to = OperandValue(at[t], 2), Accessible(to),
           NEW len \in 1 .. MaxOffset, program.arg[at[t]] \in {len, UnknownOffset},
           NEW o \in to[2] .. to[2] + len - 1, o \in 0 .. MaxOffset,
           o - to[2] + from[2] \in 0 .. MaxOffset,
           NEW v, v = cell[from[1]][o - to[2] + from[2]], v # NoValue
    PROVE  FromZero(v) \/ Covers(Wrote(at[t], to[1], o), v)
                       \/ Covers(Wrote(at[t], to[1], UnknownOffset), v)
<1> DEFINE x == at[t]
           k == o - to[2] + from[2]
<1>1. x \in Node /\ x \in Walked /\ AInv /\ CellsInv(cell, at) /\ Settled
  BY DEF RunsSettled, RInv, PlacesInv, Within
<1>2. program.operands[x][1] \in OperandsOf(x) /\ program.operands[x][2] \in OperandsOf(x)
  BY <1>1, OperandIn DEF AInv, Arity
<1>3. /\ from \in Node \X (0 .. MaxOffset) /\ to \in Node \X (0 .. MaxOffset)
      /\ CanBeDereferenced(from) /\ CanBeDereferenced(AnyOffset(from))
      /\ CanBeDereferenced(to) /\ CanBeDereferenced(AnyOffset(to))
      /\ Covers(PointsTo(program.operands[x][1]), from)
      /\ Covers(PointsTo(program.operands[x][2]), to)
  BY <1>2, AccessedThere DEF OperandValue
<1>4. PICK p \in Sources(x) : p \in {from, AnyOffset(from)}
  BY <1>3 DEF Covers, Sources
<1>5. PICK q \in Targets(x) : q \in {to, AnyOffset(to)}
  BY <1>3 DEF Covers, Targets
<1>6. p[1] = from[1] /\ q[1] = to[1] /\ from[1] \in Node /\ to[1] \in Node
      /\ Type(from[1]) # "FUNCTION" /\ UnknownOffset \in Offset /\ k \in Offset
      /\ from[2] \in Int /\ to[2] \in Int /\ o \in Int /\ UnknownOffset \notin Int
  BY <1>3, <1>4, <1>5, PointerAssumption DEF AnyOffset, CanBeDereferenced, Offset
<1>7. Wrote(x, to[1], o) = CopiedInto(x, to[1], o)
      /\ Wrote(x, to[1], UnknownOffset) = CopiedInto(x, to[1], UnknownOffset)
  BY DEF Wrote
<1>8. ASSUME NEW i \in {k, UnknownOffset}
      PROVE  \E j \in {o, UnknownOffset} : mem[from[1]][i] \subseteq CopiedInto(x, to[1], j)
  <2>1. CopiedFrom(x, p, i)
    <3>1. CASE i = UnknownOffset \/ p[2] = UnknownOffset
      BY <3>1 DEF CopiedFrom
    <3>2. CASE i # UnknownOffset /\ p[2] # UnknownOffset
      <4>1. i = k /\ p[2] = from[2]
        BY <1>4, <1>8, <3>2 DEF AnyOffset
      <4>2. p[2] <= k /\ k - p[2] < len
        BY <1>6, <4>1
      <4> QED
        BY <4>1, <4>2 DEF CopiedFrom
    <3> QED
      BY <3>1, <3>2
  <2>2. CopiedTo(p, i, q) \in {o, UnknownOffset}
    <3>1. CASE UnknownOffset \in {i, p[2], q[2]}
      BY <3>1 DEF CopiedTo
    <3>2. CASE UnknownOffset \notin {i, p[2], q[2]}
      <4>1. i = k /\ p[2] = from[2] /\ q[2] = to[2]
        BY <1>4, <1>5, <1>8, <3>2 DEF AnyOffset
      <4>2. i - p[2] + q[2] = o
        BY <1>6, <4>1
      <4> QED
        BY <3>2, <4>2 DEF CopiedTo
    <3> QED
      BY <3>1, <3>2
  <2> DEFINE j == CopiedTo(p, i, q)
             c == <<p, q, i>>
  <2>3. c \in Copies(x, to[1], j)
    <3>1. i \in Offset /\ c \in Sources(x) \X Targets(x) \X Offset
      BY <1>6, <1>8
    <3>2. c[2][1] = to[1] /\ c[1] = p /\ c[2] = q /\ c[3] = i
      BY <1>6
    <3> HIDE DEF c
    <3> QED
      BY <2>1, <3>1, <3>2 DEF Copies
  <2>4. mem[from[1]][i] \subseteq CopiedInto(x, to[1], j)
    <3>1. mem[from[1]][i] = mem[c[1][1]][c[3]]
      BY <1>6
    <3> HIDE DEF c
    <3> QED
      BY <2>3, <3>1 DEF CopiedInto
  <2> QED
    BY <2>2, <2>4
<1>9. v = cell[from[1]][k]
  OBVIOUS
<1> HIDE DEF k
<1>10. \/ FromZero(v)
       \/ \E u : /\ Written(u, at)
                 /\ Covers(Wrote(u, from[1], k), v) \/ Covers(Wrote(u, from[1], UnknownOffset), v)
  BY <1>1, <1>6, <1>9 DEF CellsInv
<1>11. FromZero(v) \/ Covers(mem[from[1]][k], v) \/ Covers(mem[from[1]][UnknownOffset], v)
  <2>1. ASSUME NEW u, Written(u, at), NEW i \in {k, UnknownOffset}
        PROVE  Wrote(u, from[1], i) \subseteq mem[from[1]][i]
    BY <1>1, <1>6, <2>1, WroteIsThere DEF Written
  <2> QED
    BY <1>10, <2>1 DEF Covers
<1>12. FromZero(v) \/ Covers(CopiedInto(x, to[1], o), v)
                   \/ Covers(CopiedInto(x, to[1], UnknownOffset), v)
  <2>1. ASSUME NEW i \in {k, UnknownOffset}, Covers(mem[from[1]][i], v)
        PROVE  Covers(CopiedInto(x, to[1], o), v) \/ Covers(CopiedInto(x, to[1], UnknownOffset), v)
    <3>1. PICK j \in {o, UnknownOffset} : mem[from[1]][i] \subseteq CopiedInto(x, to[1], j)
      BY <1>8
    <3> QED
      BY <2>1, <3>1 DEF Covers
  <2> QED
    BY <1>11, <2>1
<1> QED
  BY <1>7, <1>12

\* A MEMCPY, cell by cell.
LEMMA RunMemcpyCorrect ==
    ASSUME RunsSettled, NEW t \in Thread, at[t] # NoValue, RunMemcpy(t)
    PROVE  RInv(reg', cell', at', stack')
<1> DEFINE x == at[t]
           from == OperandValue(x, 1)
           to == OperandValue(x, 2)
<1>1. PICK len \in 1 .. MaxOffset :
         /\ program.arg[x] \in {len, UnknownOffset}
         /\ from[2] + len <= program.size[from[1]] /\ to[2] + len <= program.size[to[1]]
         /\ cell' = [cell EXCEPT ![to[1]] =
               [o \in Offset |-> IF o # UnknownOffset /\ o \in to[2] .. to[2] + len - 1
                                   THEN cell[from[1]][o - to[2] + from[2]] ELSE @[o]]]
  BY DEF RunMemcpy
<1>2. /\ Type(x) = "MEMCPY" /\ Accessible(from) /\ Accessible(to) /\ StepTo(t)
      /\ reg' = reg /\ stack' = stack
  BY DEF RunMemcpy
<1>3. /\ reg \in [Node -> Value \cup {NoValue}] /\ stack \in [Thread -> Seq(Node)]
      /\ cell \in [Node -> [Offset -> Value \cup {NoValue}]]
  BY DEF RunsSettled, RInv, ValuesInv, PlacesInv, CellsInv
<1>4. /\ Moved /\ CallsInv(at', stack) /\ x \in Node /\ x \in Walked
      /\ Within(at', After(x))
  BY <1>2, StepMoves DEF IsCall
<1>5. program.operands[x][1] \in OperandsOf(x) /\ program.operands[x][2] \in OperandsOf(x)
  BY <1>2, <1>4, OperandIn DEF RunsSettled, AInv, Arity
<1>6. from \in Node \X (0 .. MaxOffset) /\ to \in Node \X (0 .. MaxOffset)
  BY <1>2, <1>5, AccessedThere DEF OperandValue
<1>7. program.size \in [Node -> 0 .. MaxOffset] /\ MaxOffset \in Nat
  BY PointerAssumption, ProgramsAssumption DEF RunsSettled, AInv, IInv, ProgramType
<1>8. ASSUME NEW a \in Node, NEW o \in Offset
      PROVE  \/ cell'[a][o] = cell[a][o]
             \/ /\ a = to[1] /\ o \in to[2] .. to[2] + len - 1 /\ o \in 0 .. MaxOffset
                /\ o - to[2] + from[2] \in 0 .. MaxOffset
                /\ cell'[a][o] = cell[from[1]][o - to[2] + from[2]]
  <2>1. CASE a = to[1] /\ o # UnknownOffset /\ o \in to[2] .. to[2] + len - 1
    <3>1. cell'[a][o] = cell[from[1]][o - to[2] + from[2]]
      BY <1>1, <1>3, <2>1
    <3>2. o \in 0 .. MaxOffset
      BY <2>1 DEF Offset
    <3>3. program.size[from[1]] <= MaxOffset /\ from[2] \in 0 .. MaxOffset /\ to[2] \in 0 .. MaxOffset
      BY <1>6, <1>7
    <3>4. o - to[2] + from[2] \in 0 .. MaxOffset
      <4>1. program.size[from[1]] \in Int
        BY <1>6, <1>7
      <4> HIDE DEF from, to
      <4> QED
        BY <1>1, <1>7, <2>1, <3>2, <3>3, <4>1
    <3> QED
      BY <2>1, <3>1, <3>2, <3>4
  <2>2. CASE ~ (a = to[1] /\ o # UnknownOffset /\ o \in to[2] .. to[2] + len - 1)
    BY <1>1, <1>3, <2>2
  <2> QED
    BY <2>1, <2>2
<1>9. cell' \in [Node -> [Offset -> Value \cup {NoValue}]]
  <2>1. \A a \in Node : \A o \in Offset : cell'[a][o] \in Value \cup {NoValue}
    <3>1. from[1] \in Node /\ 0 .. MaxOffset \subseteq Offset
      BY <1>6 DEF Offset
    <3> QED
      BY <1>3, <1>8, <3>1
  <2>2. cell' = [a \in Node |-> cell'[a]] /\ \A a \in Node : cell'[a] = [o \in Offset |-> cell'[a][o]]
    BY <1>1, <1>3
  <2>3. \A a \in Node : cell'[a] \in [Offset -> Value \cup {NoValue}]
    BY <2>1, <2>2
  <2> QED
    BY <2>2, <2>3
<1>10. Written(x, at')
  BY <1>2, <1>4 DEF Written, Writers
<1>11. ASSUME NEW a \in Node, NEW o \in Offset, cell'[a][o] # NoValue
       PROVE  \/ cell'[a][o] = cell[a][o]
              \/ FromZero(cell'[a][o])
              \/ \E w : /\ Written(w, at')
                        /\ \/ Covers(Wrote(w, a, o), cell'[a][o])
                           \/ Covers(Wrote(w, a, UnknownOffset), cell'[a][o])
  <2>1. CASE cell'[a][o] # cell[a][o]
    <3>1. /\ a = to[1] /\ o \in to[2] .. to[2] + len - 1 /\ o \in 0 .. MaxOffset
          /\ o - to[2] + from[2] \in 0 .. MaxOffset
          /\ cell'[a][o] = cell[from[1]][o - to[2] + from[2]]
      BY <1>8, <2>1
    <3>2. FromZero(cell'[a][o]) \/ Covers(Wrote(x, to[1], o), cell'[a][o])
                                \/ Covers(Wrote(x, to[1], UnknownOffset), cell'[a][o])
      BY <1>1, <1>2, <1>11, <3>1, MemcpyWrites
    <3> QED
      BY <1>10, <3>1, <3>2
  <2> QED
    BY <2>1
<1>12. CellsInv(cell', at')
  BY <1>4, <1>9, <1>11, CellsStay
<1>13. ValuesInv(reg', at')
  BY <1>2, <1>3, <1>4, ValuesStay
<1> QED
  BY <1>2, <1>3, <1>4, <1>12, <1>13 DEF RInv, PlacesInv, Moved

\* If adding pointers adds none, they are covered already.
LEMMA AddEachNothing ==
    ASSUME NEW S, NEW P, AddEach(S, P) \subseteq S, NEW p \in P
    PROVE  Covers(S, p)
<1> DEFINE q == AnyOffset(p)
<1>1. q[2] = UnknownOffset /\ AnyOffset(q) = q
  BY DEF AnyOffset
<1>2. CASE q \in S
  BY <1>2 DEF Covers
<1>3. CASE q \notin S /\ q \in P
  <2>1. q \in AddEach(S, P)
    BY <1>1, <1>3 DEF AddEach
  <2> QED
    BY <1>3, <2>1
<1>4. CASE q \notin S /\ q \notin P
  <2>1. p \in AddEach(S, P)
    BY <1>4 DEF AddEach
  <2> QED
    BY <2>1 DEF Covers
<1> QED
  BY <1>2, <1>3, <1>4

\* A call through a pointer, or a FORK, is connected to the function it calls.
LEMMA FunctionFound ==
    ASSUME RunsSettled, NEW x \in Walked, Type(x) \in {"CALL_FUNCPTR", "FORK"},
           NEW v, v = OperandValue(x, 1), v # NoValue, Type(v[1]) = "FUNCTION", Defined(v[1])
    PROVE  v[1] \in callees[x]
<1> DEFINE o == program.operands[x][1]
           functions == {p \in PointsTo(o) : Type(p[1]) = "FUNCTION"}
<1>1. /\ x \in Node /\ AInv /\ program \in Programs /\ ValuesInv(reg, at)
      /\ NewFunctions(x) = {}
  BY WalkedClosed DEF RunsSettled, RInv, AInv, IInv, IsClosed, Settled, AddsNothing
<1>2. o \in Operand
  BY <1>1, OperandsType DEF Arity
<1>3. v \in Value /\ Accounts(PointsTo(o), v)
  BY <1>1, <1>2, OperandAccounted DEF OperandValue
<1>4. v # NullPointer
  BY PointerAssumption DEF Type, NullPointer
<1>5. PICK p \in PointsTo(o) : p \in {v, AnyOffset(v)}
  BY <1>3, <1>4 DEF Accounts, FromZero, Covers
<1>6. p[1] = v[1]
  BY <1>5 DEF AnyOffset
<1>7. AddEach(pts[x], functions) \subseteq pts[x]
  BY <1>1 DEF NewFunctions
<1>8. p \in functions
  BY <1>5, <1>6
<1> HIDE DEF functions
<1>9. PICK q \in pts[x] : q \in {p, AnyOffset(p)}
  BY <1>7, <1>8, AddEachNothing DEF Covers
<1>10. q[1] = v[1]
  BY <1>6, <1>9 DEF AnyOffset
<1> QED
  BY <1>1, <1>9, <1>10 DEF AInv, FindsCallees

\* The arguments of a function that the search enters from where the threads are.
LEMMA ArgumentsAccounted ==
    ASSUME RunsSettled, NEW x \in Node, NEW f \in callees[x], PassArguments(x, f),
           \A C : IsClosed(C) /\ Within(at, C) => program.entry[f] \in C
    PROVE  /\ f \in Node /\ Defined(f) /\ program.entry[f] \in Walked
           /\ reg' \in [Node -> Value \cup {NoValue}]
           /\ \A y \in Node : \/ reg'[y] \in {reg[y], NoValue}
                              \/ /\ Accounts(pts[y], reg'[y])
                                 /\ y \in ToSet(program.formals[f])
<1> DEFINE formals == program.formals[f]
           actuals == program.actuals[x]
           position(y) == {i \in DOMAIN formals : formals[i] = y}
           passed(i) == IF i \in DOMAIN actuals THEN ValueOf(actuals[i]) ELSE NoValue
<1>1. /\ AInv /\ IInv /\ ValuesInv(reg, at) /\ program \in Programs /\ Within(at, Walked)
      /\ program \in ProgramType
  BY ProgramsAssumption DEF RunsSettled, RInv, PlacesInv, AInv, IInv
<1>2. f \in Node /\ Defined(f)
  BY <1>1 DEF IInv, TypeOK, Entered
<1>3. program.entry[f] \in Walked
  BY <1>1, WalkedClosed
<1>4. reg' = [y \in Node |-> IF position(y) = {} THEN reg[y]
                             ELSE passed(CHOOSE i \in position(y) : TRUE)]
  BY DEF PassArguments
<1>5. ASSUME NEW y \in Node, reg'[y] \notin {reg[y], NoValue}
      PROVE  reg'[y] \in Value /\ Accounts(pts[y], reg'[y]) /\ y \in ToSet(formals)
  <2>1. PICK i \in position(y) : reg'[y] = passed(i)
    <3>1. position(y) # {}
      BY <1>4, <1>5
    <3>2. (CHOOSE i \in position(y) : TRUE) \in position(y)
      BY <3>1
    <3> HIDE DEF position, passed
    <3>3. reg'[y] = passed(CHOOSE i \in position(y) : TRUE)
      BY <1>4, <3>1
    <3> QED
      BY <3>2, <3>3
  <2>2. i \in DOMAIN formals /\ formals[i] = y
    OBVIOUS
  <2>3. i \in DOMAIN actuals /\ reg'[y] = ValueOf(actuals[i]) /\ ValueOf(actuals[i]) # NoValue
    BY <1>5, <2>1
  <2> DEFINE o == actuals[i]
  <2>4. o \in Operand
    <3>1. actuals \in Seq(Operand)
      BY <1>1 DEF ProgramType
    <3> HIDE DEF actuals
    <3> QED
      BY <2>3, <3>1
  <2>5. ValueOf(o) \in Value /\ Accounts(PointsTo(o), ValueOf(o)) /\ Past(at, o)
    BY <1>1, <2>3, <2>4, OperandAccounted
  <2>6. y \in ToSet(formals)
    BY <2>2 DEF ToSet
  <2>7. y \in Walked /\ (IsFixed(o) \/ y \in After(o))
    <3>1. ASSUME NEW C, IsClosed(C), Within(at, C)  PROVE y \in C
      BY <1>1, <1>2, <2>6, <3>1, FormalsFollow
    <3>2. y \in Walked
      BY <1>1, <3>1, WalkedClosed
    <3>3. ~ IsFixed(o) => y \in After(o)
      BY <1>1, <2>5, <3>1, AfterClosed DEF Past, IsFixed
    <3> QED
      BY <3>2, <3>3
  <2>8. Type(y) = "PHI"
    BY <1>1, <1>2, <2>2, StructureAssumption DEF Type
  <2>9. OperandsAt(y) \subseteq pts[y]
    BY <2>7, <2>8 DEF RunsSettled, Settled, AddsNothing
  <2>10. o \in OperandsOf(y)
    <3>1. x \in CallersOf(f)
      BY DEF CallersOf
    <3> QED
      BY <1>2, <2>2, <2>3, <2>4, <3>1 DEF OperandsOf
  <2>11. PointsTo(o) \subseteq pts[y]
    <3> HIDE DEF o
    <3> QED
      BY <2>7, <2>9, <2>10 DEF OperandsAt
  <2> QED
    BY <2>3, <2>5, <2>6, <2>11 DEF Accounts, Covers
<1>6. reg' \in [Node -> Value \cup {NoValue}]
  <2>1. \A y \in Node : reg'[y] \in Value \cup {NoValue}
    BY <1>1, <1>5 DEF ValuesInv
  <2>2. reg' = [y \in Node |-> reg'[y]]
    BY <1>4
  <2> QED
    BY <2>1, <2>2
<1> QED
  BY <1>2, <1>3, <1>5, <1>6

\* A call enters a function that the analysis connected to it.
LEMMA RunCallCorrect ==
    ASSUME RunsSettled, NEW t \in Thread, at[t] # NoValue, RunCall(t)
    PROVE  RInv(reg', cell', at', stack')
<1> DEFINE x == at[t]
           v == OperandValue(x, 1)
<1>1. /\ IInv /\ AInv /\ at \in [Thread -> Node \cup {NoValue}] /\ Within(at, Walked)
      /\ CallsInv(at, stack) /\ stack \in [Thread -> Seq(Node)]
      /\ callees \in [Node -> SUBSET Node] /\ cell \in [Node -> [Offset -> Value \cup {NoValue}]]
  BY DEF RunsSettled, AInv, IInv, TypeOK, RInv, PlacesInv, CellsInv
<1>2. x \in Walked /\ x \in Node /\ IsCall(x) /\ cell' = cell
  BY <1>1, WalkedClosed DEF Within, IsClosed, RunCall
<1>3. PICK f : /\ Defined(f) /\ PassArguments(x, f)
               /\ \/ Type(x) = "CALL" /\ f \in program.calls[x]
                  \/ /\ Type(x) # "CALL" /\ v # NoValue
                     /\ Type(v[1]) = "FUNCTION" /\ f = v[1]
               /\ at' = [at EXCEPT ![t] = program.entry[f]]
               /\ stack' = [stack EXCEPT ![t] = <<x>> \o @]
  BY DEF RunCall
<1>4. f \in callees[x]
  <2>1. CASE Type(x) = "CALL"
    BY <1>1, <1>2, <1>3, <2>1 DEF AInv, KeepsCallees
  <2>2. CASE Type(x) # "CALL"
    <3>1. Type(x) = "CALL_FUNCPTR"
      BY <1>2, <2>2 DEF IsCall
    <3> QED
      BY <1>2, <1>3, <2>2, <3>1, FunctionFound
  <2> QED
    BY <2>1, <2>2
<1>5. program.entry[f] \in WalkEdges(x)
  BY <1>2, <1>4, EdgesByType
<1>6. \A C : IsClosed(C) /\ Within(at, C) => program.entry[f] \in C
  BY <1>2, <1>5, RunAssumption DEF IsClosed, Within
<1>7. /\ f \in Node /\ program.entry[f] \in Walked
      /\ reg' \in [Node -> Value \cup {NoValue}]
      /\ \A y \in Node : \/ reg'[y] \in {reg[y], NoValue}
                         \/ Accounts(pts[y], reg'[y]) /\ y \in ToSet(program.formals[f])
  BY <1>2, <1>3, <1>4, <1>6, ArgumentsAccounted
<1>8. /\ Moved
      /\ \A y \in Node : program.entry[f] \in After(y) => Within(at', After(y))
  BY <1>3, <1>5, ThreadMoves
<1>9. \A y \in Node : y \in ToSet(program.formals[f]) => Within(at', After(y))
  BY <1>1, <1>3, <1>7, <1>8, AfterClosed
<1>10. ValuesInv(reg', at')
  BY <1>7, <1>8, <1>9, ValuesStay
<1>11. CellsInv(cell', at')
  BY <1>1, <1>2, <1>8, CellsStay
<1> HIDE DEF x
<1>12. <<x>> \o stack[t] \in Seq(Node) /\ stack' \in [Thread -> Seq(Node)]
  BY <1>1, <1>2, <1>3
<1>13. ASSUME NEW u \in Thread, at'[u] # NoValue, NEW i \in DOMAIN stack'[u]
       PROVE  /\ IsCall(stack'[u][i])
              /\ \E g \in callees[stack'[u][i]] :
                   (IF i = 1 THEN at'[u] ELSE stack'[u][i - 1]) \in Body(program, g)
  <2>1. CASE u # t
    <3>1. at'[u] = at[u] /\ stack'[u] = stack[u]
      BY <1>1, <1>3, <2>1
    <3> QED
      BY <1>1, <1>13, <3>1 DEF CallsInv
  <2>2. CASE u = t
    <3>1. stack'[u] = <<x>> \o stack[t] /\ at'[u] = program.entry[f] /\ stack[t] \in Seq(Node)
      BY <1>1, <1>3, <2>2
    <3>2. CASE i = 1
      <4>1. stack'[u][i] = x
        BY <3>1, <3>2
      <4>2. program.entry[f] \in Body(program, f)
        BY <1>1, <1>3, <1>7, BodyClosed
      <4> QED
        BY <1>2, <1>4, <3>1, <3>2, <4>1, <4>2
    <3>3. CASE i # 1
      <4>1. /\ i - 1 \in DOMAIN stack[t] /\ stack'[u][i] = stack[t][i - 1]
            /\ stack'[u][i - 1] = IF i - 1 = 1 THEN x ELSE stack[t][(i - 1) - 1]
        BY <3>1, <3>3, <1>13
      <4>2. /\ IsCall(stack[t][i - 1])
            /\ \E g \in callees[stack[t][i - 1]] :
                 (IF i - 1 = 1 THEN x ELSE stack[t][(i - 1) - 1]) \in Body(program, g)
        BY <1>1, <4>1 DEF CallsInv, x
      <4> QED
        BY <3>3, <4>1, <4>2
    <3> QED
      BY <3>2, <3>3
  <2> QED
    BY <2>1, <2>2
<1>14. CallsInv(at', stack')
  BY <1>13 DEF CallsInv
<1> QED
  BY <1>8, <1>10, <1>11, <1>12, <1>14 DEF RInv, PlacesInv, Moved

\* A thread that is at a RETURN goes back to the CALL_RETURN of its call, with the value.
LEMMA ReturnAccounted ==
    ASSUME RunsSettled, NEW t \in Thread, at[t] # NoValue, Type(at[t]) = "RETURN",
           stack[t] # <<>>, NEW c, c = stack[t][1], NEW ret, ret = program.callReturn[c]
    PROVE  /\ ret \in WalkEdges(at[t]) /\ ret \in Node /\ ret \in After(ret) /\ c \in Node
           /\ \A o \in OperandsOf(at[t]) : ValueOf(o) # NoValue =>
                 ValueOf(o) \in Value /\ Accounts(pts[ret], ValueOf(o))
<1> DEFINE x == at[t]
<1>1. /\ IInv /\ AInv /\ Within(at, Walked) /\ CallsInv(at, stack) /\ stack \in [Thread -> Seq(Node)]
      /\ program \in Programs /\ program \in ProgramType /\ callees \in [Node -> SUBSET Node]
  BY ProgramsAssumption DEF RunsSettled, AInv, IInv, TypeOK, RInv, PlacesInv
<1>2. x \in Walked /\ x \in Node
  BY <1>1, WalkedClosed DEF Within, IsClosed
<1>3. 1 \in DOMAIN stack[t] /\ c \in Node
  BY <1>1
<1>4. PICK f \in callees[c] : IsCall(c) /\ x \in Body(program, f)
  BY <1>1, <1>3 DEF CallsInv
<1>5. f \in Node /\ Defined(f)
  BY <1>1, <1>3 DEF IInv, Entered
<1>6. x \in program.rets[f]
  BY <1>1, <1>4, <1>5, BodyClosed
<1>7. ret \in ReturnSites(x)
  BY <1>3, <1>4, <1>6 DEF ReturnSites
<1>8. ret \in WalkEdges(x) /\ ret \in Walked /\ ret \in Node
  BY <1>1, <1>2, <1>7, EdgesByType, WalkedClosed DEF IsClosed
<1>9. Type(ret) = "CALL_RETURN"
  <2>1. Type(c) = "CALL" => program.calls[c] # {}
    BY <1>1, <1>3, <1>4 DEF AInv, KeepsCallees
  <2>2. program.type[c] = "CALL_FUNCPTR" \/ (program.type[c] = "CALL" /\ program.calls[c] # {})
    BY <1>3, <1>4, <2>1 DEF IsCall, Type
  <2>3. program.type[ret] = "CALL_RETURN"
    BY <1>1, <1>3, <2>2, StructureAssumption
  <2> QED
    BY <1>8, <2>3 DEF Type
<1>10. x \in OperandsOf(ret)
  BY <1>2, <1>3, <1>4, <1>6, <1>9 DEF OperandsOf
<1>11. ret \in After(x) /\ ret \in After(ret)
  BY <1>1, <1>2, <1>8, AfterClosed DEF IsClosed
<1>12. PointsTo(x) = pts[x]
  BY <1>2, PointerAssumption DEF PointsTo
<1>13. OperandsAt(ret) \subseteq pts[ret]
  BY <1>8, <1>9 DEF RunsSettled, Settled, AddsNothing
<1>14. pts[x] \subseteq pts[ret]
  <2> HIDE DEF x
  <2> QED
    BY <1>10, <1>11, <1>12, <1>13 DEF OperandsAt
<1>15. ASSUME NEW o \in OperandsOf(x), ValueOf(o) # NoValue
       PROVE  ValueOf(o) \in Value /\ Accounts(pts[ret], ValueOf(o))
  BY <1>14, <1>15, CopyAccounted DEF Accounts, Covers
<1> QED
  BY <1>3, <1>8, <1>11, <1>15

\* A RETURN ends the thread, or goes back to the last call.
LEMMA RunReturnCorrect ==
    ASSUME RunsSettled, NEW t \in Thread, at[t] # NoValue, RunReturn(t)
    PROVE  RInv(reg', cell', at', stack')
<1> DEFINE x == at[t]
           c == stack[t][1]
           ret == program.callReturn[c]
<1>1. /\ IInv /\ at \in [Thread -> Node \cup {NoValue}] /\ stack \in [Thread -> Seq(Node)]
      /\ CallsInv(at, stack) /\ callees \in [Node -> SUBSET Node] /\ x \in Node
      /\ cell \in [Node -> [Offset -> Value \cup {NoValue}]] /\ reg \in [Node -> Value \cup {NoValue}]
  BY DEF RunsSettled, AInv, IInv, TypeOK, RInv, PlacesInv, CellsInv, ValuesInv
<1>2. Type(x) = "RETURN" /\ cell' = cell
  BY DEF RunReturn
<1>3. CASE stack[t] = <<>>
  <2>1. at' = [at EXCEPT ![t] = NoValue] /\ reg' = reg /\ stack' = stack
    BY <1>3 DEF RunReturn
  <2>2. Moved
    BY <2>1, ThreadMoves
  <2>3. ValuesInv(reg', at')
    BY <1>1, <2>1, <2>2, ValuesStay
  <2>4. CellsInv(cell', at')
    BY <1>1, <1>2, <2>2, CellsStay
  <2>5. CallsInv(at', stack')
    <3>1. \A u \in Thread : at'[u] # NoValue => at'[u] = at[u]
      BY <1>1, <2>1
    <3> QED
      BY <1>1, <2>1, <3>1 DEF CallsInv
  <2> QED
    BY <1>1, <2>1, <2>2, <2>3, <2>4, <2>5 DEF RInv, PlacesInv, Moved
<1>4. CASE stack[t] # <<>>
  <2>1. /\ at' = [at EXCEPT ![t] = ret] /\ stack' = [stack EXCEPT ![t] = Tail(@)]
        /\ reg' = [reg EXCEPT ![ret] = IF program.operands[x] = <<>> THEN NoValue
                                       ELSE OperandValue(x, 1)]
    <3>1. Head(stack[t]) = c
      BY <1>1, <1>4
    <3> QED
      BY <1>4, <3>1 DEF RunReturn
  <2>2. /\ ret \in WalkEdges(x) /\ ret \in Node /\ ret \in After(ret) /\ c \in Node
        /\ \A o \in OperandsOf(x) : ValueOf(o) # NoValue =>
              ValueOf(o) \in Value /\ Accounts(pts[ret], ValueOf(o))
    BY <1>2, <1>4, ReturnAccounted
  <2>3. Moved /\ Within(at', After(ret))
    BY <2>1, <2>2, ThreadMoves
  <2>4. \/ reg'[ret] = NoValue
        \/ reg'[ret] \in Value /\ Accounts(pts[ret], reg'[ret])
    <3>1. program.operands[x] \in Seq(Operand)
      BY <1>1, ProgramsAssumption DEF IInv, ProgramType
    <3>2. program.operands[x] # <<>> => program.operands[x][1] \in OperandsOf(x)
      BY <1>1, <3>1, OperandIn
    <3>3. reg'[ret] = IF program.operands[x] = <<>> THEN NoValue ELSE OperandValue(x, 1)
      BY <1>1, <2>1, <2>2
    <3> QED
      BY <2>2, <3>2, <3>3 DEF OperandValue
  <2>5. reg' \in [Node -> Value \cup {NoValue}] /\ \A y \in Node \ {ret} : reg'[y] = reg[y]
    BY <1>1, <2>1, <2>4
  <2>6. ValuesInv(reg', at')
    BY <2>3, <2>4, <2>5, ValuesStay
  <2>7. CellsInv(cell', at')
    BY <1>1, <1>2, <2>3, CellsStay
  <2>8. stack' \in [Thread -> Seq(Node)]
    BY <1>1, <1>4, <2>1
  <2>9. ASSUME NEW u \in Thread, at'[u] # NoValue, NEW i \in DOMAIN stack'[u]
        PROVE  /\ IsCall(stack'[u][i])
               /\ \E g \in callees[stack'[u][i]] :
                    (IF i = 1 THEN at'[u] ELSE stack'[u][i - 1]) \in Body(program, g)
    <3>1. CASE u # t
      <4>1. at'[u] = at[u] /\ stack'[u] = stack[u]
        BY <1>1, <2>1, <3>1
      <4> QED
        BY <1>1, <2>9, <4>1 DEF CallsInv
    <3>2. CASE u = t
      <4>1. stack'[u] = Tail(stack[t]) /\ at'[u] = ret /\ stack[t] \in Seq(Node)
        BY <1>1, <2>1, <3>2
      <4>2. /\ i \in Nat \ {0} /\ i + 1 \in DOMAIN stack[t] /\ stack'[u][i] = stack[t][i + 1]
            /\ i # 1 => stack'[u][i - 1] = stack[t][i]
        BY <1>4, <2>9, <4>1
      <4>3. /\ IsCall(stack[t][i + 1])
            /\ \E g \in callees[stack[t][i + 1]] : stack[t][i] \in Body(program, g)
        <5>1. (i + 1) - 1 = i /\ i + 1 # 1
          BY <4>2
        <5> QED
          BY <1>1, <4>2, <5>1 DEF CallsInv
      <4>4. PICK g \in callees[stack[t][i + 1]] : stack[t][i] \in Body(program, g)
        BY <4>3
      <4>5. CASE i = 1
        <5>1. g \in Node /\ Defined(g)
          <6>1. stack[t][i + 1] \in Node
            BY <4>1, <4>2
          <6> QED
            BY <1>1, <6>1 DEF IInv, Entered
        <5>2. IsCall(c)
          <6>1. 1 \in DOMAIN stack[t]
            BY <1>4, <4>1
          <6> QED
            BY <1>1, <6>1 DEF CallsInv
        <5>3. ret \in Body(program, g)
          BY <1>1, <4>4, <4>5, <5>1, <5>2, BodyClosed
        <5> QED
          BY <4>1, <4>2, <4>3, <4>5, <5>3
      <4>6. CASE i # 1
        BY <4>2, <4>3, <4>6
      <4> QED
        BY <4>5, <4>6
    <3> QED
      BY <3>1, <3>2
  <2>10. CallsInv(at', stack')
    BY <2>9 DEF CallsInv
  <2> QED
    BY <2>3, <2>6, <2>7, <2>8, <2>10 DEF RInv, PlacesInv, Moved
<1> QED
  BY <1>3, <1>4

\* A FORK that starts a thread is among the nodes of the program, so that every node may
\* be executed after every other one.
LEMMA RunForkCorrect ==
    ASSUME RunsSettled, NEW t \in Thread, at[t] # NoValue, RunFork(t)
    PROVE  RInv(reg', cell', at', stack')
<1> DEFINE x == at[t]
           forks == {y \in program.succ[x] : Type(y) = "FORK"}
<1>1. /\ IInv /\ AInv /\ at \in [Thread -> Node \cup {NoValue}] /\ Within(at, Walked)
      /\ CallsInv(at, stack) /\ stack \in [Thread -> Seq(Node)]
      /\ callees \in [Node -> SUBSET Node] /\ cell \in [Node -> [Offset -> Value \cup {NoValue}]]
      /\ IsClosed(Walked)
  BY WalkedClosed DEF RunsSettled, AInv, IInv, TypeOK, RInv, PlacesInv, CellsInv
<1>2. x \in Walked /\ x \in Node /\ Type(x) = "CALL" /\ program.calls[x] = {} /\ cell' = cell
  BY <1>1 DEF Within, IsClosed, RunFork
<1>3. PICK y \in forks, new \in {u \in Thread : at[u] = NoValue} :
         LET v == OperandValue(y, 1) IN
         /\ v # NoValue /\ Type(v[1]) = "FUNCTION" /\ Defined(v[1])
         /\ PassArguments(y, v[1])
         /\ stack' = [stack EXCEPT ![new] = <<>>]
         /\ \E next \in program.succ[x] \ forks :
               at' = [at EXCEPT ![t] = next, ![new] = program.entry[v[1]]]
  BY DEF RunFork
<1> DEFINE f == OperandValue(y, 1)[1]
<1>4. program.succ[x] \subseteq WalkEdges(x)
  BY <1>1, <1>2, EdgesByType DEF AInv, KeepsCallees
<1>5. y \in program.succ[x] /\ Type(y) = "FORK" /\ y \in Walked /\ y \in Node
  BY <1>1, <1>2, <1>3, <1>4 DEF IsClosed
<1>6. f \in callees[y]
  BY <1>3, <1>5, FunctionFound
<1>7. program.entry[f] \in WalkEdges(y)
  BY <1>5, <1>6, EdgesByType
<1>8. \A C : IsClosed(C) /\ Within(at, C) => program.entry[f] \in C
  BY <1>4, <1>5, <1>7, RunAssumption DEF IsClosed, Within
<1> HIDE DEF f
<1>9. PassArguments(y, f)
  BY <1>3 DEF f
<1>10. PICK next \in program.succ[x] : at' = [at EXCEPT ![t] = next, ![new] = program.entry[f]]
  BY <1>3 DEF f
<1>11. /\ f \in Node /\ program.entry[f] \in Walked
       /\ reg' \in [Node -> Value \cup {NoValue}]
       /\ \A z \in Node : reg'[z] \in {reg[z], NoValue} \/ Accounts(pts[z], reg'[z])
  BY <1>5, <1>6, <1>8, <1>9, ArgumentsAccounted
<1>12. next \in Walked /\ Walked \subseteq Node
  BY <1>1, <1>2, <1>4 DEF IsClosed
<1>13. Forks /\ \A z \in Node : After(z) = Walked
  BY <1>1, <1>5, AfterClosed DEF Forks
<1>14. new # t /\ new \in Thread
  OBVIOUS
<1>15. /\ at'[t] = next /\ at'[new] = program.entry[f]
       /\ \A u \in Thread \ {t, new} : at'[u] = at[u]
  BY <1>1, <1>10, <1>14
<1>16. Within(at', Walked) /\ at' \in [Thread -> Node \cup {NoValue}]
  BY <1>1, <1>10, <1>11, <1>12, <1>15 DEF Within
<1>17. Moved
  BY <1>13, <1>16 DEF Moved
<1>18. ValuesInv(reg', at')
  BY <1>11, <1>13, <1>16, <1>17, ValuesStay
<1>19. CellsInv(cell', at')
  BY <1>1, <1>2, <1>17, CellsStay
<1>20. stack' = [stack EXCEPT ![new] = <<>>]
  BY <1>3
<1>21. stack' \in [Thread -> Seq(Node)] /\ stack'[new] = <<>>
       /\ \A u \in Thread \ {new} : stack'[u] = stack[u]
  BY <1>1, <1>14, <1>20
<1>22. ASSUME NEW u \in Thread, at'[u] # NoValue, NEW i \in DOMAIN stack'[u]
       PROVE  /\ IsCall(stack'[u][i])
              /\ \E g \in callees[stack'[u][i]] :
                   (IF i = 1 THEN at'[u] ELSE stack'[u][i - 1]) \in Body(program, g)
  <2>1. u # new
    BY <1>21, <1>22
  <2>2. stack'[u] = stack[u] /\ at[u] # NoValue
    BY <1>15, <1>21, <1>22, <2>1
  <2>3. PICK g \in callees[stack[u][i]] :
          (IF i = 1 THEN at[u] ELSE stack[u][i - 1]) \in Body(program, g)
    BY <1>1, <1>22, <2>2 DEF CallsInv
  <2>4. g \in Node /\ Defined(g)
    <3>1. stack[u][i] \in Node
      BY <1>1, <1>22, <2>2
    <3> QED
      BY <1>1, <3>1 DEF IInv, Entered
  <2>5. i = 1 => at'[u] \in Body(program, g)
    <3>1. CASE u = t
      <4>1. i = 1 => x \in Body(program, g)
        BY <2>3, <3>1
      <4> QED
        BY <1>1, <1>10, <1>15, <2>4, <3>1, <4>1, BodyClosed
    <3>2. CASE u # t
      BY <1>15, <2>1, <2>3, <3>2
    <3> QED
      BY <3>1, <3>2
  <2>6. IsCall(stack[u][i])
    BY <1>1, <1>22, <2>2 DEF CallsInv
  <2> QED
    BY <2>2, <2>3, <2>5, <2>6
<1>23. CallsInv(at', stack')
  BY <1>22 DEF CallsInv
<1> QED
  BY <1>13, <1>16, <1>18, <1>19, <1>21, <1>23 DEF RInv, PlacesInv

-----------------------------------------------------------------------------
(* What does not depend on the running program.                              *)

\* The edges, the walk and the sets it reaches are those of the analysis.
LEMMA SameEdges ==
    ASSUME UNCHANGED vars, NEW x
    PROVE  WalkEdges(x)' = WalkEdges(x)
<1>1. program' = program /\ callees' = callees /\ joins' = joins
  BY DEF vars, graph
<1>2. \A y : Type(y)' = Type(y) /\ (IsCall(y)' <=> IsCall(y))
  BY <1>1 DEF Type, IsCall
<1>3. ReturnSites(x)' = ReturnSites(x)
  BY <1>1, <1>2 DEF ReturnSites
<1> DEFINE entries == {program.entry[f] : f \in callees[x]}
           rest == program.succ[x] \cup {j \in Node : \E f \in joins[j] : x \in program.rets[f]}
                      \cup (IF Type(x) = "FORK" THEN entries ELSE {})
<1>4. entries' = entries /\ rest' = rest
  BY <1>1, <1>2
<1>5. CASE IsCall(x) /\ callees[x] # {}
  <2>1. IsCall(x)' /\ callees'[x] # {}
    BY <1>1, <1>5 DEF IsCall, Type
  <2>2. WalkEdges(x) = entries
    BY <1>5 DEF WalkEdges, IsCall
  <2>3. WalkEdges(x)' = entries'
    BY <2>1 DEF WalkEdges, IsCall
  <2> QED
    BY <1>4, <2>2, <2>3
<1>6. CASE Type(x) = "RETURN" /\ ReturnSites(x) # {}
  <2>1. Type(x)' = "RETURN" /\ ReturnSites(x)' # {} /\ ~ IsCall(x)' /\ ~ IsCall(x)
    BY <1>2, <1>3, <1>6 DEF IsCall
  <2>2. WalkEdges(x) = ReturnSites(x)
    BY <1>6, <2>1 DEF WalkEdges
  <2>3. WalkEdges(x)' = ReturnSites(x)'
    BY <2>1 DEF WalkEdges
  <2> QED
    BY <1>3, <2>2, <2>3
<1>7. CASE ~ (IsCall(x) /\ callees[x] # {}) /\ ~ (Type(x) = "RETURN" /\ ReturnSites(x) # {})
  <2>1. /\ ~ (IsCall(x)' /\ callees[x]' # {})
        /\ ~ (Type(x)' = "RETURN" /\ ReturnSites(x)' # {})
    BY <1>1, <1>2, <1>3, <1>7
  <2>2. WalkEdges(x) = rest
    BY <1>7 DEF WalkEdges
  <2>3. WalkEdges(x)' = rest'
    BY <2>1 DEF WalkEdges
  <2> QED
    BY <1>4, <2>2, <2>3
<1> QED
  BY <1>5, <1>6, <1>7

\* Where the search gets does not change.
LEMMA SameWalk ==
    ASSUME UNCHANGED vars
    PROVE  /\ Walked' = Walked /\ (Forks' <=> Forks)
           /\ \A x : After(x)' = After(x) /\ (IsFixed(x)' <=> IsFixed(x))
<1>1. program' = program
  BY DEF vars
<1>2. \A x : WalkEdges(x)' = WalkEdges(x)
  BY SameEdges
<1>3. \A x : Type(x)' = Type(x)
  BY <1>1 DEF Type
<1>4. \A S : Found(S)' = Found(S)
  BY <1>2 DEF Found
<1>5. Walked' = Walked
  <2>1. Walked' = Found({program.root})'
    BY DEF Walked
  <2>2. Found({program.root})' = Found({program.root})
    BY <1>1, <1>2 DEF Found
  <2> QED
    BY <2>1, <2>2 DEF Walked
<1>6. Forks' <=> Forks
  BY <1>3, <1>5 DEF Forks
<1>7. ASSUME NEW x  PROVE After(x)' = After(x)
  <2> DEFINE S == {x} \cup {program.entry[f] : f \in
                  {g \in Node : Defined(g) /\ x \in ToSet(program.formals[g])}}
  <2>1. After(x) = IF Forks THEN Walked ELSE Found(S)
    BY DEF After, Forks
  <2>2. After(x)' = IF Forks' THEN Walked' ELSE Found(S)'
    BY DEF After, Forks
  <2>3. S' = S
    BY <1>1 DEF Defined
  <2>4. Found(S)' = Found(S)
    BY <1>2, <2>3 DEF Found
  <2> QED
    BY <1>5, <1>6, <2>1, <2>2, <2>4
<1>8. \A x : IsFixed(x)' <=> IsFixed(x)
  BY <1>3 DEF IsFixed
<1> QED
  BY <1>5, <1>6, <1>7, <1>8

\* Nor does what the nodes write.
LEMMA SameWrites ==
    ASSUME UNCHANGED vars
    PROVE  /\ \A x : Writers' = Writers /\ PointsTo(x)' = PointsTo(x)
           /\ \A x, a, o : CopiedInto(x, a, o)' = CopiedInto(x, a, o)
           /\ \A x, a, o : Wrote(x, a, o)' = Wrote(x, a, o)
<1>1. program' = program /\ pts' = pts /\ mem' = mem /\ zero' = zero
  BY DEF vars, points
<1>2. \A x : /\ Type(x)' = Type(x) /\ PointsTo(x)' = PointsTo(x) /\ SizeOf(x)' = SizeOf(x)
             /\ (CanBeDereferenced(x)' <=> CanBeDereferenced(x))
  BY <1>1 DEF Type, PointsTo, SizeOf, CanBeDereferenced
<1>3. \A x : Sources(x)' = Sources(x) /\ Targets(x)' = Targets(x)
  BY <1>1, <1>2 DEF Sources, Targets
<1>4. \A x, p, to : Zeroed(x, p, to)' <=> Zeroed(x, p, to)
  BY <1>1, <1>2 DEF Zeroed
<1>5. \A x, p, o, to : /\ CopiedFrom(x, p, o)' <=> CopiedFrom(x, p, o)
                       /\ CopiedTo(p, o, to)' = CopiedTo(p, o, to)
  BY <1>1, <1>2 DEF CopiedFrom, CopiedTo
<1>6. \A x, a : CopiesNull(x, a)' <=> CopiesNull(x, a)
  BY <1>1, <1>3, <1>4 DEF CopiesNull
<1>7. \A x, a, o : Copies(x, a, o)' = Copies(x, a, o)
  BY <1>3, <1>5 DEF Copies
<1>8. \A x, a, o : CopiedInto(x, a, o)' = CopiedInto(x, a, o)
  BY <1>1, <1>6, <1>7 DEF CopiedInto
<1>9. \A x, a, o : Wrote(x, a, o)' = Wrote(x, a, o)
  BY <1>1, <1>2, <1>3, <1>8 DEF Wrote
<1>10. Writers' = Writers
  BY <1>1, <1>2, SameWalk DEF Writers
<1> QED
  BY <1>2, <1>8, <1>9, <1>10

\* Nor what the operands point to.
LEMMA SameOperands ==
    ASSUME UNCHANGED vars
    PROVE  \A x : OperandsAt(x)' = OperandsAt(x)
<1>1. program' = program /\ callees' = callees
  BY DEF vars, graph
<1>2. \A y : Type(y)' = Type(y) /\ (IsCall(y)' <=> IsCall(y)) /\ CallersOf(y)' = CallersOf(y)
  BY <1>1 DEF Type, IsCall, CallersOf
<1>3. \A x : OperandsOf(x)' = OperandsOf(x)
  BY <1>1, <1>2 DEF OperandsOf
<1>4. \A x : {o \in OperandsOf(x) : IsFixed(o) \/ x \in After(o)}'
               = {o \in OperandsOf(x) : IsFixed(o) \/ x \in After(o)}
  BY <1>3, SameWalk
<1> QED
  BY <1>4, SameWrites DEF OperandsAt

\* Nor what can be loaded.
LEMMA SameLoads ==
    ASSUME UNCHANGED vars
    PROVE  \A x, p : LoadedAt(x, p)' = LoadedAt(x, p)
<1>1. program' = program
  BY DEF vars
<1>2. \A p : CanBeDereferenced(p)' <=> CanBeDereferenced(p)
  BY <1>1 DEF CanBeDereferenced, Type
<1>3. \A x : {w \in Writers : w \in ToSet(program.globals) \/ x \in After(w)}'
               = {w \in Writers : w \in ToSet(program.globals) \/ x \in After(w)}
  BY <1>1, SameWrites, SameWalk
<1>4. \A x, a, o : MemoryAt(x, a, o)' = MemoryAt(x, a, o)
  BY <1>3, SameWrites DEF MemoryAt
<1> QED
  BY <1>2, <1>4 DEF LoadedAt

\* So an analysis that has settled stays so.
LEMMA SameSettled ==
    ASSUME UNCHANGED vars
    PROVE  Settled' <=> Settled
<1>1. /\ program' = program /\ pts' = pts /\ mem' = mem /\ zero' = zero /\ phase' = phase /\ n' = n
  BY DEF vars, points
<1>2. \A x : Type(x)' = Type(x)
  BY <1>1 DEF Type
<1>3. \A x : (Type(x) = "LOAD" => \A p \in OperandsAt(x) : LoadedAt(x, p) \subseteq pts[x])'
             <=> (Type(x) = "LOAD" => \A p \in OperandsAt(x) : LoadedAt(x, p) \subseteq pts[x])
  BY <1>1, <1>2, SameOperands, SameLoads
<1>4. \A x : (Type(x) = "GEP" => \A p \in OperandsAt(x) : Covers(pts[x], Shift(p, GepOffset(x))))'
             <=> (Type(x) = "GEP" => \A p \in OperandsAt(x) : Covers(pts[x], Shift(p, GepOffset(x))))
  <2>1. \A x : GepOffset(x)' = GepOffset(x)
    BY <1>1 DEF GepOffset, InLoop, BuiltAtStart, IsCall, Type
  <2>2. \A x, p : Shift(p, GepOffset(x))' = Shift(p, GepOffset(x))
    BY <1>1, <2>1 DEF Shift, SizeOf
  <2>3. \A x, p : Covers(pts[x], Shift(p, GepOffset(x)))' <=> Covers(pts[x], Shift(p, GepOffset(x)))
    BY <1>1, <2>2 DEF Covers
  <2> QED
    BY <1>2, <2>3, SameOperands
<1>5. \A x : (Type(x) \in {"CAST", "PHI", "RETURN", "CALL_RETURN"} => OperandsAt(x) \subseteq pts[x])'
             <=> (Type(x) \in {"CAST", "PHI", "RETURN", "CALL_RETURN"} => OperandsAt(x) \subseteq pts[x])
  BY <1>1, <1>2, SameOperands
<1>6. \A x : (Type(x) = "STORE" => Stored(x) = mem)' <=> (Type(x) = "STORE" => Stored(x) = mem)
  BY <1>1, <1>2 DEF Stored, CanBeDereferenced, Type, PointsTo
<1>7. \A x : (Type(x) = "MEMCPY" => Copied(x) = mem)' <=> (Type(x) = "MEMCPY" => Copied(x) = mem)
  BY <1>1, <1>2, SameWrites DEF Copied
<1>8. \A x : (Type(x) \in {"CALL_FUNCPTR", "FORK"} => NewFunctions(x) = {})'
             <=> (Type(x) \in {"CALL_FUNCPTR", "FORK"} => NewFunctions(x) = {})
  BY <1>1, <1>2 DEF NewFunctions, AddEach, PointsTo, Type
<1>9. \A x : AddsNothing(x)' <=> AddsNothing(x)
  BY <1>3, <1>4, <1>5, <1>6, <1>7, <1>8 DEF AddsNothing
<1>10. GaveUp' <=> GaveUp
  BY <1>1 DEF GaveUp
<1> QED
  BY <1>1, <1>9, <1>10, SameWrites, SameWalk DEF Settled

\* What the run keeps, after a step of the run.
LEMMA SameRun ==
    ASSUME UNCHANGED vars, RInv(reg', cell', at', stack')
    PROVE  RInv(reg, cell, at, stack)'
<1>1. program' = program /\ pts' = pts /\ callees' = callees
  BY DEF vars, points, graph
<1>2. \A x : Type(x)' = Type(x) /\ (IsCall(x)' <=> IsCall(x))
  BY <1>1 DEF Type, IsCall
<1>3. \A w : Written(w, at)' <=> Written(w, at')
  BY <1>1, SameWrites, SameWalk DEF Written, Within
<1>4. \A v : FromZero(v)' <=> FromZero(v)
  BY <1>1 DEF FromZero
<1>5. ValuesInv(reg, at)'
  <2>1. \A S, v : Accounts(S, v)' <=> Accounts(S, v)
    BY <1>4 DEF Accounts, Covers
  <2>2. \A x : Past(at, x)' <=> Past(at', x)
    BY SameWalk DEF Past, Within
  <2> QED
    BY <1>1, <1>4, <2>2 DEF RInv, ValuesInv, Accounts, Covers
<1>6. CellsInv(cell, at)'
  BY <1>1, <1>2, <1>3, <1>4, SameWrites DEF RInv, CellsInv, Covers
<1>7. PlacesInv(at, stack)'
  BY <1>1, <1>2, SameWalk DEF RInv, PlacesInv, CallsInv, Within
<1> QED
  BY <1>5, <1>6, <1>7 DEF RInv

-----------------------------------------------------------------------------
\* Until the analysis has stopped the program has not started.
RunInv ==
    /\ AInv
    /\ RunStart \/ (phase = "done" /\ (Settled => RInv(reg, cell, at, stack)))

\* The run has not started before it does a step.
LEMMA SameStart ==
    ASSUME RunStart, program' = program, UNCHANGED run
    PROVE  RunStart'
<1>1. reg' = reg /\ cell' = cell /\ at' = at /\ stack' = stack
  BY DEF run
<1>2. \A x : Type(x)' = Type(x)
  BY DEF Type
<1>3. PICK offset \in [{x \in Node : Type(x) = "CONSTANT"} -> 0 .. MaxOffset] :
        /\ \A x \in DOMAIN offset : program.arg[x] \in {offset[x], UnknownOffset}
        /\ reg = [x \in Node |-> InitialValue(x, offset)]
  BY DEF RunStart
<1>4. ASSUME NEW x  PROVE InitialValue(x, offset)' = InitialValue(x, offset)
  <2>1. CASE Type(x) \in {"ALLOC", "FUNCTION"}
    <3>1. InitialValue(x, offset) = <<x, 0>>
      BY <2>1 DEF InitialValue
    <3>2. InitialValue(x, offset)' = <<x, 0>>
      BY <1>2, <2>1 DEF InitialValue
    <3> QED
      BY <3>1, <3>2
  <2>2. CASE Type(x) = "CONSTANT"
    <3>1. InitialValue(x, offset) = <<program.operands[x][1], offset[x]>>
      BY <2>2 DEF InitialValue
    <3>2. InitialValue(x, offset)' = <<program.operands[x][1], offset[x]>>
      BY <1>2, <2>2 DEF InitialValue
    <3> QED
      BY <3>1, <3>2
  <2>3. CASE Type(x) \notin {"ALLOC", "FUNCTION", "CONSTANT"}
    <3>1. InitialValue(x, offset) = NoValue
      BY <2>3 DEF InitialValue
    <3>2. InitialValue(x, offset)' = NoValue
      BY <1>2, <2>3 DEF InitialValue
    <3> QED
      BY <3>1, <3>2
  <2> QED
    BY <2>1, <2>2, <2>3
<1>5. reg' = [x \in Node |-> InitialValue(x, offset)']
  BY <1>1, <1>3, <1>4
<1>6. \A o : ValueOf(o)' = ValueOf(o)
  BY <1>1 DEF ValueOf
<1>7. ASSUME NEW a, NEW o  PROVE InitialCell(a, o)' = InitialCell(a, o)
  <2> DEFINE stores == {s \in ToSet(program.globals) :
                          Type(s) = "STORE" /\ ValueOf(program.operands[s][2]) = <<a, o>>}
             first == CHOOSE s \in stores : TRUE
  <2>1. stores' = stores
    BY <1>2, <1>6
  <2>2. first' = first
    BY <2>1
  <2>3. InitialCell(a, o) = IF stores # {} THEN ValueOf(program.operands[first][1])
                            ELSE IF a \in program.zero THEN NullPointer ELSE NoValue
    BY DEF InitialCell
  <2>4. InitialCell(a, o)' = IF stores' # {} THEN ValueOf(program.operands[first][1])'
                             ELSE IF a \in program'.zero THEN NullPointer ELSE NoValue
    BY DEF InitialCell
  <2> HIDE DEF stores, first
  <2>5. ValueOf(program.operands[first][1])' = ValueOf(program.operands[first][1])
    BY <1>1, <2>2 DEF ValueOf
  <2> QED
    BY <2>1, <2>3, <2>4, <2>5
<1>8. cell' = [a \in Node |-> [o \in Offset |-> InitialCell(a, o)']]
  BY <1>1, <1>7 DEF RunStart
<1>9. /\ at' = [t \in Thread |-> IF t = Main THEN program'.root ELSE NoValue]
      /\ stack' = [t \in Thread |-> <<>>]
  BY <1>1 DEF RunStart
<1>10. offset \in [{x \in Node : Type(x)' = "CONSTANT"} -> 0 .. MaxOffset]
       /\ \A x \in DOMAIN offset : program'.arg[x] \in {offset[x], UnknownOffset}
  BY <1>2, <1>3
<1> QED
  BY <1>5, <1>8, <1>9, <1>10 DEF RunStart

\* Every step keeps the invariant of the run.
LEMMA RunKeeps ==
    ASSUME RunInv, [RunNext]_<<vars, run>>
    PROVE  RunInv'
<1>1. CASE Next /\ UNCHANGED run
  <2>1. AInv'
    BY <1>1, AnalysisKeeps DEF RunInv
  <2>2. phase # "done"
    BY <1>1 DEF Next, Process, GlobalsDone, Visit, Iterate, GiveUp, QueueChanged, Fixpoint
  <2>3. program' = program
    BY <1>1 DEF Next, Process, ProcessValue, ProcessStore, ProcessMemcpy, ProcessFuncptr,
       ProcessFork, ProcessJoin, ProcessOther, Take, GlobalsDone, Visit, Iterate, GiveUp,
       QueueChanged, Fixpoint
  <2>4. RunStart'
    BY <1>1, <2>2, <2>3, SameStart DEF RunInv
  <2> QED
    BY <2>1, <2>4 DEF RunInv
<1>2. CASE RunStep
  <2>1. UNCHANGED vars /\ phase = "done" /\ phase' = "done"
    BY <1>2 DEF RunStep, vars
  <2>2. AInv'
    BY <2>1, AnalysisKeeps DEF RunInv
  <2>3. ASSUME Settled  PROVE RInv(reg', cell', at', stack')
    <3>1. RunsSettled
      BY <2>3, RunStarts DEF RunInv, RunsSettled
    <3>2. PICK t \in Thread : /\ at[t] # NoValue
                              /\ \/ RunValue(t) \/ RunStore(t) \/ RunMemcpy(t) \/ RunCall(t)
                                 \/ RunFork(t) \/ RunReturn(t) \/ RunOther(t)
      BY <1>2 DEF RunStep
    <3> QED
      BY <3>1, <3>2, RunValueCorrect, RunStoreCorrect, RunMemcpyCorrect, RunCallCorrect,
         RunForkCorrect, RunReturnCorrect, RunOtherCorrect
  <2> QED
    BY <2>1, <2>2, <2>3, SameSettled, SameRun DEF RunInv
<1>3. CASE UNCHANGED <<vars, run>>
  <2>1. UNCHANGED vars /\ reg' = reg /\ cell' = cell /\ at' = at /\ stack' = stack
        /\ program' = program /\ phase' = phase
    BY <1>3 DEF vars, run
  <2>2. AInv'
    BY <2>1, AnalysisKeeps DEF RunInv
  <2>3. CASE RunStart
    <3>1. RunStart'
      BY <1>3, <2>1, <2>3, SameStart
    <3> QED
      BY <2>2, <3>1 DEF RunInv
  <2>4. CASE phase = "done" /\ (Settled => RInv(reg, cell, at, stack))
    <3>1. Settled => RInv(reg', cell', at', stack')
      BY <2>1, <2>4
    <3> QED
      BY <2>1, <2>2, <2>4, <3>1, SameSettled, SameRun DEF RunInv
  <2> QED
    BY <2>3, <2>4 DEF RunInv
<1> QED
  BY <1>1, <1>2, <1>3 DEF RunNext

\* In a settled analysis every value is accounted for.
LEMMA RunAccounts ==
    ASSUME RunInv, Settled, NEW x \in Node, reg[x] # NoValue
    PROVE  Accounts(pts[x], reg[x])
<1>1. RInv(reg, cell, at, stack)
  BY RunStarts DEF RunInv
<1> QED
  BY <1>1 DEF RInv, ValuesInv

\* Null, which memory that is zero may hold, is left aside.
Reported ==
    Settled => \A x \in Node :
        reg[x] \notin {NoValue, NullPointer} => Covers(pts[x], reg[x])

\* When the analysis has stopped where nothing more is to be found, every pointer that the
\* running program computes is among those that the analysis reports, one for the same
\* object with an unknown offset included.
THEOREM ReportsPointers == RunSpec => []Reported
<1>1. RunInit => RunInv
  BY AnalysisStarts DEF RunInit, RunInv
<1>2. RunInv /\ [RunNext]_<<vars, run>> => RunInv'
  BY RunKeeps
<1>3. RunInv => Reported
  BY RunAccounts DEF Reported, Accounts, FromZero
<1> QED
  BY <1>1, <1>2, <1>3, PTL DEF RunSpec

\* Without memory that is zero the analysis is sound when it has settled.
THEOREM RunSound == RunSpec => [](Settled /\ program.zero = {} => Sound)
<1>1. RunInit => RunInv
  BY AnalysisStarts DEF RunInit, RunInv
<1>2. RunInv /\ [RunNext]_<<vars, run>> => RunInv'
  BY RunKeeps
<1>3. RunInv => (Settled /\ program.zero = {} => Sound)
  BY RunAccounts DEF Sound, Accounts, FromZero
<1> QED
  BY <1>1, <1>2, <1>3, PTL DEF RunSpec
=============================================================================
