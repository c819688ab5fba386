--------------------------- MODULE ThreadRunProofs ---------------------------
(***************************************************************************)
(* What the thread regions, the interference dependences and the           *)
(* synchronisation found guarantee for every well-formed program, any      *)
(* number of threads and any depth of calls, proved with TLAPS.            *)
(***************************************************************************)
EXTENDS ThreadRun, FlowGraphProofs, SequenceTheorems

-----------------------------------------------------------------------------
(* Well-formed programs.                                                     *)

Code(b) == program.code[b]

\* Every block has instructions, each of which is there once.
LEMMA Codes ==
    ASSUME program \in Programs
    PROVE  /\ IsFiniteSet(Inst) /\ IsFiniteSet(Block) /\ IsFiniteSet(DOMAIN program.entry)
           /\ \A b \in Block : /\ Code(b) \in Seq(Inst) /\ Len(Code(b)) \in Nat \ {0}
                               /\ DOMAIN Code(b) = 1 .. Len(Code(b))
                               /\ \A k \in 1 .. Len(Code(b)) : Code(b)[k] \in Inst
           /\ \A b, c \in Block : \A k \in 1 .. Len(Code(b)), m \in 1 .. Len(Code(c)) :
                 Code(b)[k] = Code(c)[m] => b = c /\ k = m
           /\ \A b \in Block : \A k \in 1 .. Len(Code(b)) :
                 /\ program.inst[Code(b)[k]].op = "ret" => k = Len(Code(b)) /\ program.succ[b] = {}
                 /\ IsCall(Code(b)[k]) /\ k = Len(Code(b)) => program.succ[b] = {}
<1>1. WellFormed(program)
  BY ProgramsAssumption
<1>2. Placed(program)
  BY <1>1 DEF WellFormed
<1>3. program.code \in [Block -> Seq(Inst) \ {<<>>}]
  BY <1>2 DEF Placed, Block, Inst
<1>4. ASSUME NEW b \in Block
      PROVE  /\ Code(b) \in Seq(Inst) /\ Len(Code(b)) \in Nat \ {0}
             /\ DOMAIN Code(b) = 1 .. Len(Code(b))
             /\ \A k \in 1 .. Len(Code(b)) : Code(b)[k] \in Inst
  <2>1. Code(b) \in Seq(Inst) /\ Code(b) # <<>>
    BY <1>3 DEF Code
  <2> QED
    BY <2>1, EmptySeq, LenProperties, ElementOfSeq
<1>5. \A b, c \in Block : \A k \in 1 .. Len(Code(b)), m \in 1 .. Len(Code(c)) :
         Code(b)[k] = Code(c)[m] => b = c /\ k = m
  BY <1>2, <1>4 DEF Placed, Block, Code
<1>6. \A b \in Block : \A k \in 1 .. Len(Code(b)) :
         /\ program.inst[Code(b)[k]].op = "ret" => k = Len(Code(b)) /\ program.succ[b] = {}
         /\ IsCall(Code(b)[k]) /\ k = Len(Code(b)) => program.succ[b] = {}
  BY <1>2, <1>4 DEF Placed, Block, Code, IsCall
<1>7. IsFiniteSet(Inst) /\ IsFiniteSet(Block) /\ IsFiniteSet(DOMAIN program.entry)
  BY <1>1 DEF WellFormed, Inst, Block
<1> QED
  BY <1>4, <1>5, <1>6, <1>7

\* Functions and their blocks.
LEMMA FunctionFacts ==
    ASSUME program \in Programs
    PROVE  /\ \A b \in Block : /\ program.succ[b] \subseteq Block
                               /\ program.fun[b] \in DOMAIN program.entry
                               /\ \A c \in program.succ[b] : program.fun[c] = program.fun[b]
           /\ \A f \in DOMAIN program.entry :
                 /\ program.entry[f] \in Block /\ program.fun[program.entry[f]] = f
                 /\ Pred(program.succ, program.entry[f]) = {} /\ f # Own /\ f \notin Library
           /\ DOMAIN program.succ = Block /\ "main" \in DOMAIN program.entry
<1>1. InFunctions(program)
  BY ProgramsAssumption DEF WellFormed
<1> QED
  BY <1>1 DEF InFunctions, Block

\* What is known of a call.
LEMMA CallFacts ==
    ASSUME program \in Programs, NEW i \in Inst, IsCall(i)
    PROVE  /\ IsFiniteSet(Functions(i))
           /\ Functions(i) # {} /\ ~ Cardinality(Functions(i)) > 1 => \E g : Functions(i) = {g}
           /\ \A g : Functions(i) = {g} => /\ ~ Cardinality(Functions(i)) > 1
                                           /\ (CHOOSE h \in Functions(i) : TRUE) = g
           /\ program.inst[i].direct => \E g : Functions(i) = {g}
           /\ "unknown" \notin Functions(i) /\ "return" \notin Functions(i) /\ Own \notin Functions(i)
           /\ "pthread_join" \in Functions(i) =>
                \A j \in program.inst[i].forks \cap Inst :
                   /\ IsCall(j) /\ "pthread_create" \in Functions(j)
                   /\ Started(j) \subseteq joinFunctions(i)
<1>1. CallsAnalysed(program)
  BY ProgramsAssumption DEF WellFormed
<1>2. /\ IsFiniteSet(Functions(i)) /\ Functions(i) \cap {"unknown", "return", Own} = {}
      /\ program.inst[i].direct => Cardinality(Functions(i)) = 1
  BY <1>1 DEF CallsAnalysed, Inst, IsCall, Functions
<1>3. "pthread_join" \in Functions(i) =>
         \A j \in program.inst[i].forks \cap Inst :
            /\ IsCall(j) /\ "pthread_create" \in Functions(j)
            /\ Started(j) \subseteq joinFunctions(i)
  BY <1>1 DEF CallsAnalysed, Inst, IsCall, Functions, Started, Defined, joinFunctions
<1>4. Cardinality(Functions(i)) \in Nat /\ (Cardinality(Functions(i)) = 0 <=> Functions(i) = {})
      /\ (Cardinality(Functions(i)) = 1 <=> \E g : Functions(i) = {g})
  BY <1>2, FS_CardinalityType, FS_EmptySet, FS_Singleton
<1>5. Functions(i) # {} /\ ~ Cardinality(Functions(i)) > 1 => \E g : Functions(i) = {g}
  BY <1>4
<1>6. ASSUME NEW g, Functions(i) = {g} PROVE ~ Cardinality(Functions(i)) > 1
  <2>1. \E h : Functions(i) = {h}
    BY <1>6
  <2>2. Cardinality(Functions(i)) = 1
    BY <1>4, <2>1
  <2> QED
    BY <2>2
<1>7. \A g : Functions(i) = {g} => (CHOOSE h \in Functions(i) : TRUE) = g
  OBVIOUS
<1> QED
  BY <1>2, <1>3, <1>4, <1>5, <1>6, <1>7

-----------------------------------------------------------------------------
(* Nodes of instructions.                                                    *)

Types == {"FORK", "JOIN", "LOCK", "UNLOCK", "CALL", "CALL_FUNCPTR", "RETURN", "GENERAL",
          "CALL_RETURN"}

\* The callee of a call for which the analysis knows none is unknown.
Callees(i) == IF Functions(i) = {} THEN {"unknown"} ELSE Functions(i)

\* The type of a node, and whether it is artificial.
LEMMA NodeTypes ==
    ASSUME program \in Programs, NEW i \in Inst
    PROVE  /\ InstFirst(i) = <<InstFirst(i)[1], i, Own>>
           /\ InstFirst(i)[1] \in Types \ {"CALL_RETURN"}
           /\ ~ IsCall(i) => /\ InstLast(i) = InstFirst(i)
                             /\ InstFirst(i)[1] = IF program.inst[i].op = "ret" THEN "RETURN"
                                                  ELSE "GENERAL"
           /\ IsCall(i) => InstFirst(i)[1] \notin {"RETURN", "GENERAL"}
           /\ \A g : /\ CallNode(i, g)[1] = TypeOfCall(g) /\ CallNode(i, g)[2] = i
                     /\ TypeOfCall(g) \in {"FORK", "JOIN", "LOCK", "UNLOCK", "CALL"}
           /\ IsCall(i) /\ ~ program.inst[i].direct => \A g \in Callees(i) : IsArtificial(CallNode(i, g))
           /\ IsCall(i) /\ program.inst[i].direct => \A g \in Functions(i) :
                 CallNode(i, g) = InstFirst(i) /\ Functions(i) = {g}
<1>1. \A g : TypeOfCall(g) \in {"FORK", "JOIN", "LOCK", "UNLOCK", "CALL"}
  BY DEF TypeOfCall
<1>2. \A g : CallNode(i, g) = <<TypeOfCall(g), i, IF program.inst[i].direct THEN Own ELSE g>>
  BY DEF CallNode
<1>3. ASSUME ~ IsCall(i)
      PROVE  /\ InstFirst(i) = <<IF program.inst[i].op = "ret" THEN "RETURN" ELSE "GENERAL", i, Own>>
             /\ InstLast(i) = InstFirst(i)
  BY <1>3 DEF InstFirst, InstLast
<1>4. ASSUME IsCall(i), ~ program.inst[i].direct
      PROVE  /\ InstFirst(i) = <<"CALL_FUNCPTR", i, Own>>
             /\ \A g \in Callees(i) : IsArtificial(CallNode(i, g))
  <2>1. InstFirst(i) = <<"CALL_FUNCPTR", i, Own>>
    BY <1>4 DEF InstFirst, IsCall
  <2>2. Own \notin Callees(i)
    BY <1>4, CallFacts, ProgramsAssumption DEF Callees, Library
  <2>3. \A g : CallNode(i, g) = <<TypeOfCall(g), i, g>>
    BY <1>2, <1>4
  <2> QED
    BY <2>1, <2>2, <2>3 DEF IsArtificial
<1>5. ASSUME IsCall(i), program.inst[i].direct
      PROVE  /\ \A g \in Functions(i) : InstFirst(i) = CallNode(i, g) /\ Functions(i) = {g}
             /\ \E g : Functions(i) = {g}
  <2>1. PICK h : Functions(i) = {h}
    BY <1>5, CallFacts
  <2>2. (CHOOSE g \in Functions(i) : TRUE) = h
    BY <1>5, <2>1, CallFacts
  <2>3. InstFirst(i) = CallNode(i, h)
    BY <1>5, <2>2 DEF InstFirst, IsCall
  <2> QED
    BY <2>1, <2>3
<1>6. ASSUME IsCall(i), program.inst[i].direct
      PROVE  /\ InstFirst(i) = <<InstFirst(i)[1], i, Own>>
             /\ InstFirst(i)[1] \in {"FORK", "JOIN", "LOCK", "UNLOCK", "CALL"}
  <2>1. PICK g \in Functions(i) : InstFirst(i) = CallNode(i, g)
    BY <1>5, <1>6
  <2>2. InstFirst(i) = <<TypeOfCall(g), i, Own>>
    BY <1>2, <1>6, <2>1
  <2> QED
    BY <1>1, <2>2
<1>7. InstFirst(i) = <<InstFirst(i)[1], i, Own>> /\ InstFirst(i)[1] \in Types \ {"CALL_RETURN"}
  BY <1>3, <1>4, <1>6 DEF Types
<1>8. \A g : CallNode(i, g)[1] = TypeOfCall(g) /\ CallNode(i, g)[2] = i
  BY <1>2
<1>9. IsCall(i) => InstFirst(i)[1] \notin {"RETURN", "GENERAL"}
  BY <1>4, <1>6
<1>10. ~ IsCall(i) => InstFirst(i)[1] = IF program.inst[i].op = "ret" THEN "RETURN" ELSE "GENERAL"
  BY <1>3
<1> QED
  BY <1>1, <1>3, <1>4, <1>5, <1>7, <1>8, <1>9, <1>10

\* Where the nodes of a call end.
LEMMA LastNodes ==
    ASSUME program \in Programs, NEW i \in Inst, IsCall(i)
    PROVE  /\ Functions(i) = {} => InstLast(i) = CallNode(i, "unknown")
           /\ Cardinality(Functions(i)) > 1 => InstLast(i) = <<"CALL_RETURN", i, "return">>
           /\ \A g \in Functions(i) : ~ Cardinality(Functions(i)) > 1 => InstLast(i) = CalleeLast(i, g)
           /\ \A g : /\ Defined(g) => CalleeLast(i, g) = Exit(g) /\ g # "pthread_exit"
                     /\ g = "pthread_exit" => CalleeLast(i, g) = <<"RETURN", i, g>>
                     /\ ~ Defined(g) /\ g # "pthread_exit" => CalleeLast(i, g) = CallNode(i, g)
           /\ InstLast(i)[1] = "RETURN" => Functions(i) = {"pthread_exit"}
           /\ InstLast(i)[1] \in Types \cup {"EXIT"}
<1>1. \A g : /\ Defined(g) => CalleeLast(i, g) = Exit(g) /\ g # "pthread_exit"
             /\ g = "pthread_exit" => CalleeLast(i, g) = <<"RETURN", i, g>>
             /\ ~ Defined(g) /\ g # "pthread_exit" => CalleeLast(i, g) = CallNode(i, g)
  BY FunctionFacts DEF CalleeLast, Defined, Library
<1>2. Functions(i) = {} => InstLast(i) = CallNode(i, "unknown")
  BY DEF InstLast
<1>3. Cardinality(Functions(i)) > 1 => InstLast(i) = <<"CALL_RETURN", i, "return">>
  <2>1. Functions(i) = {} => ~ Cardinality(Functions(i)) > 1
    BY FS_EmptySet
  <2> QED
    BY <2>1 DEF InstLast
<1>4. ASSUME NEW g \in Functions(i), ~ Cardinality(Functions(i)) > 1
      PROVE  Functions(i) = {g} /\ InstLast(i) = CalleeLast(i, g)
  <2>1. Functions(i) = {g}
    BY <1>4, CallFacts
  <2>2. (CHOOSE h \in Functions(i) : TRUE) = g
    BY <2>1, CallFacts
  <2> QED
    BY <1>4, <2>1, <2>2 DEF InstLast
<1>5. \A g : CallNode(i, g)[1] \in {"FORK", "JOIN", "LOCK", "UNLOCK", "CALL"}
  BY NodeTypes
<1>6. \A g : Exit(g)[1] = "EXIT"
  BY DEF Exit
<1>7. InstLast(i)[1] \in Types \cup {"EXIT"} /\ (InstLast(i)[1] = "RETURN" => Functions(i) = {"pthread_exit"})
  <2>1. CASE Functions(i) = {}
    BY <1>2, <1>5, <2>1 DEF Types
  <2>2. CASE Cardinality(Functions(i)) > 1
    BY <1>3, <2>2 DEF Types
  <2>3. CASE Functions(i) # {} /\ ~ Cardinality(Functions(i)) > 1
    <3>1. PICK g \in Functions(i) : Functions(i) = {g} /\ InstLast(i) = CalleeLast(i, g)
      BY <1>4, <2>3
    <3>2. CASE Defined(g)
      BY <1>1, <1>6, <3>1, <3>2
    <3>3. CASE g = "pthread_exit"
      BY <1>1, <3>1, <3>3 DEF Types
    <3>4. CASE ~ Defined(g) /\ g # "pthread_exit"
      BY <1>1, <1>5, <3>1, <3>4 DEF Types
    <3> QED
      BY <3>2, <3>3, <3>4
  <2> QED
    BY <2>1, <2>2, <2>3
<1> QED
  BY <1>1, <1>2, <1>3, <1>4, <1>7

-----------------------------------------------------------------------------
(* The graph.                                                                *)

\* A block is built up to its first return.
LEMMA Lengths ==
    ASSUME program \in Programs, NEW b \in Block
    PROVE  /\ Length(b) \in 1 .. Len(Code(b))
           /\ Length(b) = Len(Code(b)) \/ InstLast(Code(b)[Length(b)])[1] = "RETURN"
           /\ \A k \in 1 .. Length(b) - 1 : InstLast(Code(b)[k])[1] # "RETURN"
<1> DEFINE returns == {k \in 1 .. Len(Code(b)) : InstLast(Code(b)[k])[1] = "RETURN"}
<1>1. Len(Code(b)) \in Nat \ {0} /\ DOMAIN Code(b) = 1 .. Len(Code(b))
  BY Codes
<1>2. Length(b) = IF returns = {} THEN Len(Code(b))
                  ELSE CHOOSE k \in returns : \A j \in returns : k <= j
  BY <1>1 DEF Length, Code
<1>3. CASE returns = {}
  BY <1>1, <1>2, <1>3
<1>4. CASE returns # {}
  <2>1. returns \in SUBSET Nat
    BY <1>1
  <2>2. \E k \in returns : \A j \in returns : k <= j
    <3> HIDE DEF returns
    <3> QED
      BY <1>4, <2>1, LeastMember
  <2>3. Length(b) \in returns /\ \A j \in returns : Length(b) <= j
    BY <1>2, <1>4, <2>2
  <2> QED
    BY <1>1, <2>3
<1> QED
  BY <1>3, <1>4

\* Positions that the graph has, and what is there.
Places == {p \in Block \X Nat : /\ p[1] \in BlocksOf(program.fun[p[1]])
                                /\ program.fun[p[1]] \in BuiltFunctions
                                /\ p[2] \in 1 .. Length(p[1])}
InstAt(p) == program.code[p[1]][p[2]]
FunOf(p) == program.fun[p[1]]

\* The graph and the program do not change.
Static == program \in Programs /\ graph = Graph(Edges)

\* Every edge is in the graph.
LEMMA EdgeInGraph ==
    ASSUME Static, NEW e \in Edges
    PROVE  e[1] \in DOMAIN graph /\ e[2] \in DOMAIN graph /\ e[2] \in graph[e[1]]
<1>1. graph = [n \in Ends(Edges) |-> {d[2] : d \in {c \in Edges : c[1] = n}}]
  BY DEF Static, Graph
<1> HIDE DEF Edges
<1>2. e[1] \in Ends(Edges) /\ e[2] \in Ends(Edges)
  BY DEF Ends
<1>3. graph[e[1]] = {d[2] : d \in {c \in Edges : c[1] = e[1]}}
  BY <1>1, <1>2
<1> QED
  BY <1>1, <1>2, <1>3

\* Whatever the graph has is an edge.
LEMMA GraphHasEdges ==
    ASSUME Static, NEW n \in DOMAIN graph
    PROVE  /\ graph[n] \subseteq DOMAIN graph
           /\ \A s \in graph[n] : \E e \in Edges : e[1] = n /\ e[2] = s
           /\ \E e \in Edges : n = e[1] \/ n = e[2]
<1>1. graph = [m \in Ends(Edges) |-> {d[2] : d \in {c \in Edges : c[1] = m}}]
  BY DEF Static, Graph
<1> HIDE DEF Edges
<1>2. n \in Ends(Edges) /\ graph[n] = {d[2] : d \in {c \in Edges : c[1] = n}}
  BY <1>1
<1>3. ASSUME NEW s \in graph[n]
      PROVE  s \in Ends(Edges) /\ \E e \in Edges : e[1] = n /\ e[2] = s
  <2>1. PICK e \in Edges : e[1] = n /\ s = e[2]
    BY <1>2
  <2> QED
    BY <2>1 DEF Ends
<1> QED
  BY <1>1, <1>2, <1>3 DEF Ends

\* The functions that are built are main and those that their instructions mention.
LEMMA BuiltClosed ==
    ASSUME program \in Programs
    PROVE  /\ "main" \in BuiltFunctions /\ BuiltFunctions \subseteq DOMAIN program.entry
           /\ \A f \in BuiltFunctions : \A b \in BlocksOf(f) : \A i \in Built(b) :
                 Mentioned(i) \subseteq BuiltFunctions
<1> DEFINE calls == [f \in DOMAIN program.entry |->
                        UNION {Mentioned(i) : i \in UNION {Built(b) : b \in BlocksOf(f)}}]
<1>1. \A i : Mentioned(i) \subseteq DOMAIN program.entry
  BY DEF Mentioned, Started, Defined
<1>2. IsGraph(calls)
  <2>1. calls \in [DOMAIN program.entry -> SUBSET DOMAIN program.entry]
    BY <1>1, Zenon
  <2> QED
    BY <2>1, Codes DEF IsGraph
<1>3. {"main"} \in SUBSET DOMAIN calls
  BY FunctionFacts
<1>4. BuiltFunctions = Reachable(calls, {"main"})
  BY DEF BuiltFunctions
<1>5. ASSUME NEW f \in DOMAIN program.entry, NEW b \in BlocksOf(f), NEW i \in Built(b)
      PROVE  Mentioned(i) \subseteq calls[f]
  BY Zenon
<1>6. DOMAIN calls = DOMAIN program.entry
  OBVIOUS
<1> HIDE DEF calls
<1> QED
  BY <1>2, <1>3, <1>4, <1>5, <1>6, ReachableLeast

\* What is at a place is built, and so are the functions that it mentions.
LEMMA PlaceFacts ==
    ASSUME program \in Programs, NEW p \in Places
    PROVE  /\ p = <<p[1], p[2]>> /\ p[1] \in Block /\ p[2] \in 1 .. Length(p[1])
           /\ p[2] \in 1 .. Len(Code(p[1])) /\ Len(Code(p[1])) \in Nat /\ Length(p[1]) \in Nat
           /\ FunOf(p) \in BuiltFunctions /\ p[1] \in BlocksOf(FunOf(p))
           /\ InstAt(p) = Code(p[1])[p[2]] /\ InstAt(p) \in Inst
           /\ InstAt(p) \in Built(p[1]) /\ InstAt(p) \in BuiltInsts
           /\ Mentioned(InstAt(p)) \subseteq BuiltFunctions
<1>1. p = <<p[1], p[2]>> /\ p[1] \in Block /\ p[2] \in 1 .. Length(p[1])
      /\ FunOf(p) \in BuiltFunctions /\ p[1] \in BlocksOf(FunOf(p))
  BY DEF Places, FunOf
<1>2. p[2] \in 1 .. Len(Code(p[1])) /\ Len(Code(p[1])) \in Nat /\ Length(p[1]) \in Nat
  BY <1>1, Codes, Lengths
<1>3. InstAt(p) = Code(p[1])[p[2]] /\ InstAt(p) \in Inst
  BY <1>1, <1>2, Codes DEF InstAt, Code
<1>4. InstAt(p) \in Built(p[1])
  BY <1>1 DEF InstAt, Built
<1>5. InstAt(p) \in BuiltInsts
  BY <1>1, <1>4, Zenon DEF BuiltInsts
<1>6. Mentioned(InstAt(p)) \subseteq BuiltFunctions
  BY <1>1, <1>4, BuiltClosed
<1> QED
  BY <1>1, <1>2, <1>3, <1>4, <1>5, <1>6

\* The four kinds of edges of a function.
Within(f) == UNION {BlockEdges(b) : b \in BlocksOf(f)}
IntoIt(f) == {<<Entry(f), BlockFirst(b)>> : b \in {c \in BlocksOf(f) : Pred(program.succ, c) = {}}}
OutOf(f) == {<<BlockLast(b), Exit(f)>> : b \in {c \in BlocksOf(f) : program.succ[c] = {}}}
Branches(f) == UNION {{<<BlockLast(b), BlockFirst(c)>> : c \in program.succ[b]} : b \in BlocksOf(f)}
\* The edges of a function are of these four kinds.
LEMMA FunctionParts ==
    ASSUME NEW f
    PROVE  FunctionEdges(f) = Within(f) \cup IntoIt(f) \cup OutOf(f) \cup Branches(f)
  BY DEF FunctionEdges, Within, IntoIt, OutOf, Branches

\* The edges at a place: within the nodes of the instruction, to the next instruction of the
\* block, or out of the block.
LEMMA PlaceEdges ==
    ASSUME program \in Programs, NEW p \in Places
    PROVE  /\ InstEdges(InstAt(p)) \subseteq Edges
           /\ p[2] < Length(p[1]) =>
                 <<InstLast(InstAt(p)), InstFirst(Code(p[1])[p[2] + 1])>> \in Edges
           /\ p[2] = Length(p[1]) =>
                 /\ program.succ[p[1]] = {} => <<InstLast(InstAt(p)), Exit(FunOf(p))>> \in Edges
                 /\ \A c \in program.succ[p[1]] :
                       <<InstLast(InstAt(p)), InstFirst(Code(c)[1])>> \in Edges
<1> DEFINE b == p[1]  f == FunOf(p)
<1>1. /\ b \in Block /\ p[2] \in 1 .. Length(b) /\ f \in BuiltFunctions /\ b \in BlocksOf(f)
      /\ InstAt(p) = Code(b)[p[2]] /\ InstAt(p) \in Built(b) /\ Length(b) \in Nat
  BY PlaceFacts
<1>2. FunctionEdges(f) \subseteq Edges
  BY <1>1, Zenon DEF Edges
<1>3. BlockEdges(b) \subseteq FunctionEdges(f)
  <2>1. BlockEdges(b) \subseteq Within(f)
    BY <1>1, Zenon DEF Within
  <2> QED
    BY <2>1, FunctionParts
<1>4. InstEdges(InstAt(p)) \subseteq BlockEdges(b)
  BY <1>1, Zenon DEF BlockEdges
<1>5. ASSUME p[2] < Length(b)
      PROVE  <<InstLast(InstAt(p)), InstFirst(Code(b)[p[2] + 1])>> \in BlockEdges(b)
  <2>1. p[2] \in 1 .. Length(b) - 1
    BY <1>1, <1>5
  <2>2. <<InstLast(program.code[b][p[2]]), InstFirst(program.code[b][p[2] + 1])>> \in
           {<<InstLast(program.code[b][k]), InstFirst(program.code[b][k + 1])>> : k \in 1 .. Length(b) - 1}
    BY <2>1, Zenon
  <2> QED
    BY <1>1, <2>2 DEF BlockEdges, Code
<1>6. ASSUME p[2] = Length(b), program.succ[b] = {}
      PROVE  <<InstLast(InstAt(p)), Exit(f)>> \in FunctionEdges(f)
  <2>1. InstLast(InstAt(p)) = BlockLast(b)
    BY <1>1, <1>6 DEF BlockLast, Code
  <2>2. b \in {c \in BlocksOf(f) : program.succ[c] = {}}
    BY <1>1, <1>6
  <2>3. <<BlockLast(b), Exit(f)>> \in OutOf(f)
    BY <2>2, Zenon DEF OutOf
  <2> QED
    BY <2>1, <2>3, FunctionParts
<1>7. ASSUME p[2] = Length(b), NEW c \in program.succ[b]
      PROVE  <<InstLast(InstAt(p)), InstFirst(Code(c)[1])>> \in FunctionEdges(f)
  <2>1. InstLast(InstAt(p)) = BlockLast(b) /\ InstFirst(Code(c)[1]) = BlockFirst(c)
    BY <1>1, <1>7 DEF BlockLast, BlockFirst, Code
  <2>2. <<BlockLast(b), BlockFirst(c)>> \in {<<BlockLast(b), BlockFirst(d)>> : d \in program.succ[b]}
    BY <1>7, Zenon
  <2>3. <<BlockLast(b), BlockFirst(c)>> \in Branches(f)
    BY <1>1, <2>2, Zenon DEF Branches
  <2> QED
    BY <2>1, <2>3, FunctionParts
<1> HIDE DEF b, f
<1> QED
  BY <1>2, <1>3, <1>4, <1>5, <1>6, <1>7 DEF b, f

\* A function is entered at its first instruction.
LEMMA EntryEdge ==
    ASSUME program \in Programs, NEW f \in BuiltFunctions
    PROVE  /\ Start(f) \in Places /\ FunOf(Start(f)) = f
           /\ <<Entry(f), InstFirst(InstAt(Start(f)))>> \in Edges
<1> DEFINE b == program.entry[f]
<1>1. f \in DOMAIN program.entry
  BY BuiltClosed
<1>2. b \in Block /\ program.fun[b] = f /\ Pred(program.succ, b) = {}
  BY <1>1, FunctionFacts
<1>3. b \in BlocksOf(f)
  BY <1>2 DEF BlocksOf, IsReachable
<1>4. 1 \in 1 .. Length(b)
  BY <1>2, Codes, Lengths
<1>5. Start(f) = <<b, 1>> /\ Start(f) \in Places /\ FunOf(Start(f)) = f
  BY <1>2, <1>3, <1>4 DEF Start, Places, FunOf
<1>6. InstFirst(InstAt(Start(f))) = BlockFirst(b)
  BY <1>5 DEF BlockFirst, InstAt
<1>7. <<Entry(f), BlockFirst(b)>> \in IntoIt(f)
  BY <1>2, <1>3, Zenon DEF IntoIt
<1>8. <<Entry(f), BlockFirst(b)>> \in FunctionEdges(f)
  BY <1>7, FunctionParts
<1>9. FunctionEdges(f) \subseteq Edges
  BY Zenon DEF Edges
<1> QED
  BY <1>5, <1>6, <1>8, <1>9

\* Unless the block ends with a return, the place after one is next to it in the graph, too.
LEMMA NextPlace ==
    ASSUME program \in Programs, NEW q \in Places, InstLast(InstAt(q))[1] # "RETURN",
           NEW p \in After(q)
    PROVE  /\ p \in Places /\ FunOf(p) = FunOf(q)
           /\ <<InstLast(InstAt(q)), InstFirst(InstAt(p))>> \in Edges
<1> DEFINE b == q[1]
<1>1. /\ b \in Block /\ q[2] \in 1 .. Length(b) /\ FunOf(q) \in BuiltFunctions
      /\ b \in BlocksOf(FunOf(q)) /\ InstAt(q) = Code(b)[q[2]] /\ Length(b) \in Nat
      /\ FunOf(q) = program.fun[b]
  BY PlaceFacts DEF FunOf
<1>2. Length(b) \in 1 .. Len(Code(b)) /\ Len(Code(b)) \in Nat
      /\ (q[2] = Length(b) => Length(b) = Len(Code(b)))
  BY <1>1, Lengths, Codes
<1>3. CASE q[2] < Len(Code(b))
  <2>1. p = <<b, q[2] + 1>>
    BY <1>3 DEF After, Code
  <2>2. q[2] < Length(b) /\ q[2] + 1 \in 1 .. Length(b) /\ q[2] + 1 \in Nat
    BY <1>1, <1>2, <1>3
  <2>3. p \in Places /\ FunOf(p) = FunOf(q) /\ InstAt(p) = Code(b)[q[2] + 1]
    BY <1>1, <2>1, <2>2 DEF Places, FunOf, InstAt, Code
  <2> QED
    BY <2>2, <2>3, PlaceEdges
<1>4. CASE ~ q[2] < Len(Code(b))
  <2>1. PICK c \in program.succ[b] : p = <<c, 1>>
    BY <1>4 DEF After, Code
  <2>2. q[2] = Length(b)
    BY <1>1, <1>2, <1>4
  <2>3. c \in Block /\ program.fun[c] = program.fun[b]
    BY <1>1, <2>1, FunctionFacts
  <2>4. c \in BlocksOf(FunOf(q))
    <3>1. b \in Pred(program.succ, c)
      BY <1>1, <2>1, FunctionFacts DEF Pred
    <3> QED
      BY <1>1, <2>3, <3>1 DEF BlocksOf, IsReachable
  <2>5. 1 \in 1 .. Length(c)
    BY <2>3, Codes, Lengths
  <2>6. p \in Places /\ FunOf(p) = FunOf(q) /\ InstAt(p) = Code(c)[1]
    BY <1>1, <2>1, <2>3, <2>4, <2>5 DEF Places, FunOf, InstAt, Code
  <2> QED
    BY <2>1, <2>2, <2>6, PlaceEdges
<1> QED
  BY <1>3, <1>4

\* The edges within the nodes of a call.
LEMMA CallEdges ==
    ASSUME program \in Programs, NEW p \in Places, IsCall(InstAt(p))
    PROVE  LET i == InstAt(p) IN
           /\ \A g \in Functions(i) : Defined(g) => <<CallNode(i, g), Entry(g)>> \in Edges
           /\ "pthread_create" \in Functions(i) =>
                 \A h \in Started(i) : <<CallNode(i, "pthread_create"), Entry(h)>> \in Edges
           /\ ~ program.inst[i].direct =>
                 \A g \in Callees(i) : <<InstFirst(i), CallNode(i, g)>> \in Edges
           /\ Cardinality(Functions(i)) > 1 =>
                 \A g \in Functions(i) : <<CalleeLast(i, g), InstLast(i)>> \in Edges
<1> DEFINE i == InstAt(p)
           inserted == UNION {InsertFunction(i, g) : g \in Functions(i)}
           called == IF program.inst[i].direct THEN {}
                     ELSE IF Functions(i) = {} THEN {<<InstFirst(i), InstLast(i)>>}
                     ELSE {<<InstFirst(i), CallNode(i, g)>> : g \in Functions(i)}
           returned == IF Cardinality(Functions(i)) > 1
                         THEN {<<CalleeLast(i, g), InstLast(i)>> : g \in Functions(i)} ELSE {}
<1>1. InstEdges(i) = inserted \cup called \cup returned
  BY DEF InstEdges
<1>2. InstEdges(i) \subseteq Edges /\ i \in Inst
  BY PlaceEdges, PlaceFacts
<1>3. ASSUME NEW g \in Functions(i), Defined(g)
      PROVE  <<CallNode(i, g), Entry(g)>> \in inserted
  <2>1. InsertFunction(i, g) = {<<CallNode(i, g), Entry(g)>>}
    BY <1>3, FunctionFacts DEF InsertFunction, Defined, Library
  <2> QED
    BY <2>1, Zenon
<1>4. ASSUME "pthread_create" \in Functions(i), NEW h \in Started(i)
      PROVE  <<CallNode(i, "pthread_create"), Entry(h)>> \in inserted
  <2>1. ~ Defined("pthread_create")
    BY FunctionFacts DEF Defined, Library
  <2>2. InsertFunction(i, "pthread_create") = {<<CallNode(i, "pthread_create"), Entry(g)>> : g \in Started(i)}
    BY <2>1 DEF InsertFunction
  <2> QED
    BY <1>4, <2>2, Zenon
<1>5. ASSUME ~ program.inst[i].direct, NEW g \in Callees(i)
      PROVE  <<InstFirst(i), CallNode(i, g)>> \in called
  <2>1. CASE Functions(i) = {}
    <3>1. g = "unknown" /\ InstLast(i) = CallNode(i, "unknown")
      BY <1>2, <2>1, LastNodes DEF Callees
    <3> QED
      BY <1>5, <2>1, <3>1
  <2>2. CASE Functions(i) # {}
    <3>1. g \in Functions(i)
      BY <2>2 DEF Callees
    <3>2. called = {<<InstFirst(i), CallNode(i, h)>> : h \in Functions(i)}
      BY <1>5, <2>2
    <3> HIDE DEF called
    <3> QED
      BY <3>1, <3>2, Zenon
  <2> QED
    BY <2>1, <2>2
<1>6. ASSUME Cardinality(Functions(i)) > 1, NEW g \in Functions(i)
      PROVE  <<CalleeLast(i, g), InstLast(i)>> \in returned
  BY <1>6
<1> HIDE DEF inserted, called, returned, i
<1>7. /\ \A g \in Functions(i) : Defined(g) => <<CallNode(i, g), Entry(g)>> \in Edges
      /\ "pthread_create" \in Functions(i) =>
            \A h \in Started(i) : <<CallNode(i, "pthread_create"), Entry(h)>> \in Edges
      /\ ~ program.inst[i].direct =>
            \A g \in Callees(i) : <<InstFirst(i), CallNode(i, g)>> \in Edges
      /\ Cardinality(Functions(i)) > 1 =>
            \A g \in Functions(i) : <<CalleeLast(i, g), InstLast(i)>> \in Edges
  BY <1>1, <1>2, <1>3, <1>4, <1>5, <1>6
<1> QED
  BY <1>7 DEF i

-----------------------------------------------------------------------------
(* From the instruction that a thread executes to the one it executes next   *)
(* at most two artificial nodes are passed.                                  *)

\* Artificial nodes on the way from place p on.
Passing(p) ==
    {a \in DOMAIN graph :
        /\ IsArtificial(a)
        /\ \/ a[2] = InstAt(p) \/ a[1] \in {"ENTRY", "CALL_RETURN"}
           \/ program.inst[InstAt(p)].op = "ret" /\ a = Exit(FunOf(p))}

\* The way from p to node n.
Way(p, n) ==
    \/ n \in graph[InstFirst(InstAt(p))]
    \/ \E a \in graph[InstFirst(InstAt(p))] \cap Passing(p) :
          \/ n \in graph[a]
          \/ \E b \in graph[a] \cap Passing(p) : n \in graph[b]

\* Two edges make a way, and so do three.
LEMMA Ways ==
    ASSUME Static, NEW p \in Places, NEW n
    PROVE  /\ <<InstFirst(InstAt(p)), n>> \in Edges => Way(p, n)
           /\ \A a \in Passing(p) :
                 <<InstFirst(InstAt(p)), a>> \in Edges /\ <<a, n>> \in Edges => Way(p, n)
           /\ \A a, b \in Passing(p) :
                 <<InstFirst(InstAt(p)), a>> \in Edges /\ <<a, b>> \in Edges /\ <<b, n>> \in Edges
                    => Way(p, n)
<1>1. \A x, y : <<x, y>> \in Edges => x \in DOMAIN graph /\ y \in DOMAIN graph /\ y \in graph[x]
  BY EdgeInGraph
<1> QED
  BY <1>1 DEF Way

\* What is artificial.
LEMMA Artificial ==
    ASSUME program \in Programs
    PROVE  /\ \A g : Defined(g) => IsArtificial(Entry(g)) /\ IsArtificial(Exit(g))
           /\ \A i : IsArtificial(<<"CALL_RETURN", i, "return">>)
           /\ \A i \in Inst : ~ IsArtificial(InstFirst(i))
<1>1. \A g : Defined(g) => g # Own
  BY FunctionFacts DEF Defined
<1>2. "return" # Own
  BY ProgramsAssumption DEF Library
<1>3. \A i \in Inst : InstFirst(i)[3] = Own
  BY NodeTypes
<1> QED
  BY <1>1, <1>2, <1>3 DEF IsArtificial, Entry, Exit

\* The edges of a call, one by one.
LEMMA CalleeEdges ==
    ASSUME Static, NEW q \in Places, NEW i, i = InstAt(q), IsCall(i)
    PROVE  /\ \A g \in Callees(i) :
                 \/ CallNode(i, g) = InstFirst(i)
                 \/ <<InstFirst(i), CallNode(i, g)>> \in Edges /\ CallNode(i, g) \in Passing(q)
           /\ \A g \in Functions(i) : Defined(g) =>
                 /\ <<CallNode(i, g), Entry(g)>> \in Edges
                 /\ Entry(g) \in Passing(q) /\ g \in BuiltFunctions
           /\ \A h \in Started(i) : "pthread_create" \in Functions(i) =>
                 /\ <<CallNode(i, "pthread_create"), Entry(h)>> \in Edges
                 /\ Entry(h) \in Passing(q) /\ h \in BuiltFunctions
           /\ \A g \in Functions(i) :
                 \/ InstLast(i) = CalleeLast(i, g) /\ Functions(i) = {g}
                 \/ /\ <<CalleeLast(i, g), InstLast(i)>> \in Edges
                    /\ InstLast(i) = <<"CALL_RETURN", i, "return">> /\ IsArtificial(InstLast(i))
                    /\ InstLast(i) \in DOMAIN graph
<1>1. program \in Programs /\ i \in Inst /\ Mentioned(i) \subseteq BuiltFunctions
  BY PlaceFacts DEF Static
<1>2. /\ \A g \in Functions(i) : Defined(g) => <<CallNode(i, g), Entry(g)>> \in Edges
      /\ "pthread_create" \in Functions(i) =>
            \A h \in Started(i) : <<CallNode(i, "pthread_create"), Entry(h)>> \in Edges
      /\ ~ program.inst[i].direct =>
            \A g \in Callees(i) : <<InstFirst(i), CallNode(i, g)>> \in Edges
      /\ Cardinality(Functions(i)) > 1 =>
            \A g \in Functions(i) : <<CalleeLast(i, g), InstLast(i)>> \in Edges
  BY <1>1, CallEdges
<1>3. \A x, y : <<x, y>> \in Edges => x \in DOMAIN graph /\ y \in DOMAIN graph
  BY EdgeInGraph
<1>4. ASSUME NEW g \in Callees(i)
      PROVE  \/ CallNode(i, g) = InstFirst(i)
             \/ <<InstFirst(i), CallNode(i, g)>> \in Edges /\ CallNode(i, g) \in Passing(q)
  <2>1. CASE program.inst[i].direct
    <3>1. g \in Functions(i)
      BY <1>1, <1>4, <2>1, CallFacts DEF Callees
    <3> QED
      BY <1>1, <2>1, <3>1, NodeTypes
  <2>2. CASE ~ program.inst[i].direct
    <3>1. <<InstFirst(i), CallNode(i, g)>> \in Edges
      BY <1>2, <2>2
    <3>2. CallNode(i, g) \in DOMAIN graph /\ IsArtificial(CallNode(i, g)) /\ CallNode(i, g)[2] = i
      BY <1>1, <1>3, <2>2, <3>1, NodeTypes
    <3> QED
      BY <3>1, <3>2 DEF Passing
  <2> QED
    BY <2>1, <2>2
<1>5. \A g : Defined(g) => IsArtificial(Entry(g)) /\ Entry(g)[1] = "ENTRY"
  BY <1>1, Artificial DEF Entry
<1>6. ASSUME NEW g \in Functions(i), Defined(g)
      PROVE  /\ <<CallNode(i, g), Entry(g)>> \in Edges
             /\ Entry(g) \in Passing(q) /\ g \in BuiltFunctions
  <2>1. g \in BuiltFunctions
    BY <1>1, <1>6 DEF Mentioned
  <2>2. <<CallNode(i, g), Entry(g)>> \in Edges
    BY <1>2, <1>6
  <2> QED
    BY <1>3, <1>5, <1>6, <2>1, <2>2 DEF Passing
<1>7. ASSUME NEW h \in Started(i), "pthread_create" \in Functions(i)
      PROVE  /\ <<CallNode(i, "pthread_create"), Entry(h)>> \in Edges
             /\ Entry(h) \in Passing(q) /\ h \in BuiltFunctions
  <2>1. h \in BuiltFunctions /\ Defined(h)
    BY <1>1, <1>7 DEF Mentioned, Started
  <2>2. <<CallNode(i, "pthread_create"), Entry(h)>> \in Edges
    BY <1>2, <1>7
  <2> QED
    BY <1>3, <1>5, <1>7, <2>1, <2>2 DEF Passing
<1>8. ASSUME NEW g \in Functions(i)
      PROVE  \/ InstLast(i) = CalleeLast(i, g) /\ Functions(i) = {g}
             \/ /\ <<CalleeLast(i, g), InstLast(i)>> \in Edges
                /\ InstLast(i) = <<"CALL_RETURN", i, "return">> /\ IsArtificial(InstLast(i))
                /\ InstLast(i) \in DOMAIN graph
  <2>1. CASE Cardinality(Functions(i)) > 1
    <3>1. <<CalleeLast(i, g), InstLast(i)>> \in Edges
      BY <1>2, <2>1
    <3>2. InstLast(i) = <<"CALL_RETURN", i, "return">>
      BY <1>1, <2>1, LastNodes
    <3> QED
      BY <1>1, <1>3, <3>1, <3>2, Artificial
  <2>2. CASE ~ Cardinality(Functions(i)) > 1
    <3>1. Functions(i) = {g}
      BY <1>1, <2>2, CallFacts
    <3> QED
      BY <1>1, <2>2, <3>1, LastNodes
  <2> QED
    BY <2>1, <2>2
<1> QED
  BY <1>4, <1>6, <1>7, <1>8

\* An instruction, or a call of what is not defined, and then the next instruction.
LEMMA GoesOnWay ==
    ASSUME Static, NEW q \in Places, NEW i, i = InstAt(q), NEW p \in After(q),
           \/ ~ IsCall(i) /\ program.inst[i].op # "ret"
           \/ IsCall(i) /\ Functions(i) = {}
           \/ IsCall(i) /\ \E g \in Functions(i) : ~ Defined(g) /\ g # "pthread_exit"
    PROVE  /\ p \in Places /\ FunOf(p) = FunOf(q) /\ Way(q, InstFirst(InstAt(p)))
           /\ <<InstLast(i), InstFirst(InstAt(p))>> \in Edges
<1> DEFINE n == InstFirst(InstAt(p))
<1>1. program \in Programs /\ i \in Inst
  BY PlaceFacts DEF Static
<1>2. InstLast(i)[1] # "RETURN"
  <2>1. CASE ~ IsCall(i)
    BY <1>1, <2>1, NodeTypes
  <2>2. CASE IsCall(i)
    BY <1>1, <2>2, LastNodes
  <2> QED
    BY <2>1, <2>2
<1>3. p \in Places /\ FunOf(p) = FunOf(q) /\ <<InstLast(i), n>> \in Edges
  BY <1>1, <1>2, NextPlace
<1>4. Way(q, n)
  <2>1. CASE ~ IsCall(i)
    <3>1. InstLast(i) = InstFirst(i)
      BY <1>1, <2>1, NodeTypes
    <3> QED
      BY <1>3, <3>1, Ways
  <2>2. CASE IsCall(i) /\ Functions(i) = {}
    <3>1. InstLast(i) = CallNode(i, "unknown") /\ "unknown" \in Callees(i)
      BY <1>1, <2>2, LastNodes DEF Callees
    <3>2. InstLast(i) = InstFirst(i) \/ (<<InstFirst(i), InstLast(i)>> \in Edges /\ InstLast(i) \in Passing(q))
      BY <2>2, <3>1, CalleeEdges
    <3> HIDE DEF n
    <3> QED
      BY <1>3, <3>2, Ways
  <2>3. ASSUME IsCall(i), NEW g \in Functions(i), ~ Defined(g), g # "pthread_exit"
        PROVE  Way(q, n)
    <3>1. CalleeLast(i, g) = CallNode(i, g) /\ g \in Callees(i)
      BY <1>1, <2>3, LastNodes DEF Callees
    <3>2. \/ CallNode(i, g) = InstFirst(i)
          \/ <<InstFirst(i), CallNode(i, g)>> \in Edges /\ CallNode(i, g) \in Passing(q)
      BY <2>3, <3>1, CalleeEdges
    <3>3. \/ InstLast(i) = CallNode(i, g)
          \/ <<CallNode(i, g), InstLast(i)>> \in Edges /\ InstLast(i) \in Passing(q)
      BY <2>3, <3>1, CalleeEdges DEF Passing
    <3> HIDE DEF n
    <3> QED
      BY <1>3, <3>2, <3>3, Ways
  <2> HIDE DEF n
  <2> QED
    BY <2>1, <2>2, <2>3
<1> QED
  BY <1>3, <1>4

\* A call of a function that is defined.
LEMMA CallWay ==
    ASSUME Static, NEW q \in Places, IsCall(InstAt(q)), NEW g \in Functions(InstAt(q)), Defined(g)
    PROVE  /\ Start(g) \in Places /\ FunOf(Start(g)) = g
           /\ Way(q, InstFirst(InstAt(Start(g))))
<1> DEFINE i == InstAt(q)
           n == InstFirst(InstAt(Start(g)))
<1>1. /\ <<CallNode(i, g), Entry(g)>> \in Edges
      /\ Entry(g) \in Passing(q) /\ g \in BuiltFunctions
  BY CalleeEdges
<1>2. Start(g) \in Places /\ FunOf(Start(g)) = g /\ <<Entry(g), n>> \in Edges
  BY <1>1, EntryEdge DEF Static
<1>3. g \in Callees(i)
  BY DEF Callees
<1>4. \/ CallNode(i, g) = InstFirst(i)
      \/ <<InstFirst(i), CallNode(i, g)>> \in Edges /\ CallNode(i, g) \in Passing(q)
  BY <1>3, CalleeEdges
<1> HIDE DEF n
<1>5. Way(q, n)
  BY <1>1, <1>2, <1>4, Ways
<1> QED
  BY <1>2, <1>5 DEF n

\* A return to where a call goes on.
LEMMA ReturnWay ==
    ASSUME Static, NEW q \in Places, program.inst[InstAt(q)].op = "ret",
           NEW c \in Places, IsCall(InstAt(c)), FunOf(q) \in Functions(InstAt(c)), NEW p \in After(c)
    PROVE  p \in Places /\ FunOf(p) = FunOf(c) /\ Way(q, InstFirst(InstAt(p)))
<1> DEFINE i == InstAt(q)  j == InstAt(c)  g == FunOf(q)  n == InstFirst(InstAt(p))
<1>1. program \in Programs /\ i \in Inst /\ j \in Inst
  BY PlaceFacts DEF Static
<1>2. g \in BuiltFunctions /\ Defined(g)
  BY <1>1, PlaceFacts, BuiltClosed DEF Defined
<1>3. InstLast(i) = InstFirst(i) /\ <<InstFirst(i), Exit(g)>> \in Edges
  <2>1. ~ IsCall(i)
    BY DEF IsCall
  <2>2. InstLast(i) = InstFirst(i)
    BY <1>1, <2>1, NodeTypes
  <2>3. /\ q[1] \in Block /\ q[2] \in 1 .. Length(q[1]) /\ q[2] \in 1 .. Len(Code(q[1]))
        /\ i = Code(q[1])[q[2]] /\ Len(Code(q[1])) \in Nat /\ Length(q[1]) \in Nat
    BY <1>1, PlaceFacts
  <2>4. q[2] = Len(Code(q[1])) /\ program.succ[q[1]] = {}
    BY <1>1, <2>3, Codes
  <2>5. q[2] = Length(q[1])
    BY <1>1, <2>3, <2>4, Lengths
  <2> QED
    BY <1>1, <2>2, <2>4, <2>5, PlaceEdges
<1>4. Exit(g) \in Passing(q)
  BY <1>1, <1>2, <1>3, EdgeInGraph, Artificial DEF Passing
<1>5. CalleeLast(j, g) = Exit(g) /\ g # "pthread_exit"
  BY <1>1, <1>2, LastNodes
<1>6. \/ InstLast(j) = Exit(g) /\ Functions(j) = {g}
      \/ <<Exit(g), InstLast(j)>> \in Edges /\ InstLast(j) \in Passing(q) /\ InstLast(j)[1] = "CALL_RETURN"
  BY <1>5, CalleeEdges DEF Passing
<1>7. InstLast(j)[1] # "RETURN"
  BY <1>1, <1>5, <1>6, LastNodes DEF Exit
<1>8. p \in Places /\ FunOf(p) = FunOf(c) /\ <<InstLast(j), n>> \in Edges
  BY <1>1, <1>7, NextPlace
<1> HIDE DEF n, i, j, g
<1>9. Way(q, n)
  BY <1>3, <1>4, <1>6, <1>8, Ways DEF i
<1> QED
  BY <1>8, <1>9 DEF n

-----------------------------------------------------------------------------
(* The graph is finite.                                                      *)

\* Where an edge comes from.
InnerEdge(e) == \E i \in BuiltInsts : e \in InstEdges(i)
NextEdge(e) == \E p, q \in Places :
                  /\ e = <<InstLast(InstAt(p)), InstFirst(InstAt(q))>>
                  /\ IF p[2] < Length(p[1]) THEN q = <<p[1], p[2] + 1>>
                     ELSE q[1] \in program.succ[p[1]] /\ q[2] = 1
ExitEdge(e) == \E p \in Places :
                  /\ p[2] = Length(p[1]) /\ program.succ[p[1]] = {}
                  /\ e = <<InstLast(InstAt(p)), Exit(FunOf(p))>>
StartEdge(e) == \E f \in BuiltFunctions, b \in Block :
                   /\ b \in BlocksOf(f) /\ Pred(program.succ, b) = {}
                   /\ e = <<Entry(f), BlockFirst(b)>>
JoinEdge(e) == \E h \in BuiltFunctions, j \in CallsOf("pthread_join") :
                  e = <<Exit(h), CallNode(j, "pthread_join")>>

\* Every edge of the graph is of one of these kinds (build, matchForksAndJoins).
LEMMA EdgeKinds ==
    ASSUME program \in Programs, NEW e \in Edges
    PROVE  InnerEdge(e) \/ NextEdge(e) \/ ExitEdge(e) \/ StartEdge(e) \/ JoinEdge(e)
<1>1. \A f \in BuiltFunctions : \A b \in BlocksOf(f) :
         /\ b \in Block /\ Built(b) \subseteq BuiltInsts
         /\ Length(b) \in Nat /\ 1 \in 1 .. Length(b) /\ Length(b) \in 1 .. Length(b)
         /\ \A c \in program.succ[b] : c \in BlocksOf(f)
  <2> SUFFICES ASSUME NEW f \in BuiltFunctions, NEW b \in BlocksOf(f)
               PROVE  /\ b \in Block /\ Built(b) \subseteq BuiltInsts
                      /\ Length(b) \in Nat /\ 1 \in 1 .. Length(b) /\ Length(b) \in 1 .. Length(b)
                      /\ \A c \in program.succ[b] : c \in BlocksOf(f)
    OBVIOUS
  <2>1. b \in Block /\ program.fun[b] = f
    BY DEF BlocksOf
  <2>2. Built(b) \subseteq BuiltInsts
    BY Zenon DEF BuiltInsts
  <2>3. Length(b) \in Nat /\ 1 \in 1 .. Length(b) /\ Length(b) \in 1 .. Length(b)
    BY <2>1, Codes, Lengths
  <2>4. ASSUME NEW c \in program.succ[b]  PROVE c \in BlocksOf(f)
    <3>1. c \in Block /\ program.fun[c] = f /\ b \in Pred(program.succ, c)
      BY <2>1, <2>4, FunctionFacts DEF Pred
    <3> QED
      BY <3>1 DEF BlocksOf, IsReachable
  <2> QED
    BY <2>1, <2>2, <2>3, <2>4
<1>2. \A f \in BuiltFunctions : \A b \in BlocksOf(f) :
         /\ \A k \in 1 .. Length(b) : /\ <<b, k>> \in Places /\ FunOf(<<b, k>>) = f
                                      /\ InstAt(<<b, k>>) = program.code[b][k]
         /\ BlockFirst(b) = InstFirst(program.code[b][1])
         /\ BlockLast(b) = InstLast(program.code[b][Length(b)])
  <2> SUFFICES ASSUME NEW f \in BuiltFunctions, NEW b \in BlocksOf(f)
               PROVE  /\ \A k \in 1 .. Length(b) : /\ <<b, k>> \in Places /\ FunOf(<<b, k>>) = f
                                                    /\ InstAt(<<b, k>>) = program.code[b][k]
                      /\ BlockFirst(b) = InstFirst(program.code[b][1])
                      /\ BlockLast(b) = InstLast(program.code[b][Length(b)])
    OBVIOUS
  <2>1. program.fun[b] = f /\ b \in Block /\ Length(b) \in Nat
    BY <1>1 DEF BlocksOf
  <2>2. \A k \in 1 .. Length(b) : k \in Nat
    BY <2>1
  <2> QED
    BY <2>1, <2>2 DEF Places, FunOf, InstAt, BlockFirst, BlockLast
<1>3. ASSUME NEW f \in BuiltFunctions, NEW b \in BlocksOf(f), e \in BlockEdges(b)
      PROVE  InnerEdge(e) \/ NextEdge(e)
  <2>1. CASE e \in {<<InstLast(program.code[b][k]), InstFirst(program.code[b][k + 1])>> : k \in 1 .. Length(b) - 1}
    <3>1. PICK k \in 1 .. Length(b) - 1 :
             e = <<InstLast(program.code[b][k]), InstFirst(program.code[b][k + 1])>>
      BY <2>1
    <3>2. k \in 1 .. Length(b) /\ k + 1 \in 1 .. Length(b) /\ k < Length(b)
      BY <1>1
    <3> DEFINE p == <<b, k>>
               q == <<b, k + 1>>
    <3>3. /\ p \in Places /\ q \in Places /\ e = <<InstLast(InstAt(p)), InstFirst(InstAt(q))>>
          /\ p[1] = b /\ p[2] = k
      BY <1>2, <3>1, <3>2
    <3>4. p[2] < Length(p[1]) /\ q = <<p[1], p[2] + 1>>
      BY <3>2, <3>3
    <3> HIDE DEF p, q
    <3> QED
      BY <3>3, <3>4 DEF NextEdge
  <2>2. CASE e \in UNION {InstEdges(i) : i \in Built(b)}
    <3>1. PICK i \in Built(b) : e \in InstEdges(i)
      BY <2>2, Zenon
    <3> QED
      BY <1>1, <3>1 DEF InnerEdge
  <2> QED
    BY <1>3, <2>1, <2>2 DEF BlockEdges
<1>4. ASSUME NEW f \in BuiltFunctions, e \in FunctionEdges(f)
      PROVE  InnerEdge(e) \/ NextEdge(e) \/ ExitEdge(e) \/ StartEdge(e)
  <2>1. CASE e \in Within(f)
    <3>1. PICK b \in BlocksOf(f) : e \in BlockEdges(b)
      BY <2>1, Zenon DEF Within
    <3> QED
      BY <1>3, <3>1
  <2>2. CASE e \in IntoIt(f)
    <3>1. PICK b \in BlocksOf(f) : Pred(program.succ, b) = {} /\ e = <<Entry(f), BlockFirst(b)>>
      BY <2>2, Zenon DEF IntoIt
    <3> QED
      BY <1>1, <3>1 DEF StartEdge
  <2>3. CASE e \in OutOf(f)
    <3>1. PICK b \in BlocksOf(f) : e = <<BlockLast(b), Exit(f)>> /\ program.succ[b] = {}
      BY <2>3, Zenon DEF OutOf
    <3> DEFINE p == <<b, Length(b)>>
    <3>2. p \in Places /\ e = <<InstLast(InstAt(p)), Exit(FunOf(p))>> /\ p[1] = b /\ p[2] = Length(b)
      BY <1>1, <1>2, <3>1
    <3> HIDE DEF p
    <3> QED
      BY <3>1, <3>2 DEF ExitEdge
  <2>4. CASE e \in Branches(f)
    <3>1. PICK b \in BlocksOf(f) : e \in {<<BlockLast(b), BlockFirst(c)>> : c \in program.succ[b]}
      BY <2>4, Zenon DEF Branches
    <3>2. PICK c \in program.succ[b] : e = <<BlockLast(b), BlockFirst(c)>>
      BY <3>1
    <3> DEFINE p == <<b, Length(b)>>
               q == <<c, 1>>
    <3>3. /\ p \in Places /\ q \in Places /\ e = <<InstLast(InstAt(p)), InstFirst(InstAt(q))>>
          /\ p[1] = b /\ p[2] = Length(b) /\ q[1] = c /\ q[2] = 1
      BY <1>1, <1>2, <3>2
    <3>4. ~ p[2] < Length(p[1])
      BY <1>1, <3>3
    <3> HIDE DEF p, q
    <3> QED
      BY <3>2, <3>3, <3>4 DEF NextEdge
  <2> QED
    BY <1>4, <2>1, <2>2, <2>3, <2>4, FunctionParts
<1>5. ASSUME e \in JoinEdges  PROVE JoinEdge(e)
  <2>1. PICK j \in CallsOf("pthread_join") :
           e \in {<<Exit(h), CallNode(j, "pthread_join")>> : h \in joinFunctions(j) \cap BuiltFunctions}
    BY <1>5, Zenon DEF JoinEdges
  <2>2. PICK h \in joinFunctions(j) \cap BuiltFunctions : e = <<Exit(h), CallNode(j, "pthread_join")>>
    BY <2>1
  <2> QED
    BY <2>2 DEF JoinEdge
<1>6. CASE e \in UNION {FunctionEdges(f) : f \in BuiltFunctions}
  <2>1. PICK f \in BuiltFunctions : e \in FunctionEdges(f)
    BY <1>6, Zenon
  <2> QED
    BY <1>4, <2>1
<1> QED
  BY <1>5, <1>6 DEF Edges

\* The values of a function with a finite domain.
LEMMA FiniteImage ==
    ASSUME NEW S, IsFiniteSet(S), NEW T, NEW F \in [S -> T]
    PROVE  IsFiniteSet({F[x] : x \in S})
<1> DEFINE V == {F[x] : x \in S}
<1>1. F \in Surjection(S, V)
  BY DEF Surjection
<1> HIDE DEF V
<1>2. IsFiniteSet(V)
  BY <1>1, FS_Surjection
<1> QED
  BY <1>2 DEF V

\* The nodes that there can be.
AllTypes == Types \cup {"ENTRY", "EXIT"}
Named == UNION {Callees(i) : i \in {j \in Inst : IsCall(j)}}
Names == {Own, "return"} \cup DOMAIN program.entry \cup Named
Nodes == AllTypes \X (Inst \cup {0}) \X Names

\* There are finitely many nodes.
LEMMA NodesFinite ==
    ASSUME program \in Programs
    PROVE  IsFiniteSet(Nodes)
<1> DEFINE C == {j \in Inst : IsCall(j)}
           called == [i \in C |-> Callees(i)]
<1>1. IsFiniteSet(Inst) /\ IsFiniteSet(DOMAIN program.entry) /\ IsFiniteSet(C)
  BY Codes, FS_Subset
<1>2. \A i \in C : IsFiniteSet(Callees(i))
  BY CallFacts, FS_Singleton DEF Callees
<1>3. IsFiniteSet(Named)
  <2>1. called \in [C -> {Callees(i) : i \in C}]
    OBVIOUS
  <2> DEFINE V == {called[i] : i \in C}
  <2>2. IsFiniteSet(V)
    <3> HIDE DEF C, called
    <3> QED
      BY <1>1, <2>1, FiniteImage
  <2>3. V = {Callees(i) : i \in C}
    OBVIOUS
  <2>4. \A T \in V : IsFiniteSet(T)
    BY <1>2, <2>3
  <2> HIDE DEF V
  <2>5. IsFiniteSet(UNION V)
    BY <2>2, <2>4, FS_UNION
  <2> QED
    BY <2>3, <2>5 DEF Named
<1>4. IsFiniteSet(Names) /\ IsFiniteSet(Inst \cup {0})
  <2>1. \A x : IsFiniteSet({x})
    BY FS_Singleton
  <2>2. {Own, "return"} = {Own} \cup {"return"}
    OBVIOUS
  <2>3. IsFiniteSet({Own, "return"}) /\ IsFiniteSet({0})
    BY <2>1, <2>2, FS_AddElement
  <2>4. IsFiniteSet({Own, "return"} \cup DOMAIN program.entry)
    BY <1>1, <2>3, FS_Union
  <2> QED
    BY <1>1, <1>3, <2>3, <2>4, FS_Union DEF Names
<1>5. IsFiniteSet(AllTypes)
  <2>1. AllTypes = ({"FORK"} \cup {"JOIN"} \cup {"LOCK"} \cup {"UNLOCK"} \cup {"CALL"})
                   \cup ({"CALL_FUNCPTR"} \cup {"RETURN"} \cup {"GENERAL"} \cup {"CALL_RETURN"})
                   \cup ({"ENTRY"} \cup {"EXIT"})
    BY DEF AllTypes, Types
  <2>2. \A x : IsFiniteSet({x})
    BY FS_Singleton
  <2>3. IsFiniteSet({"FORK"} \cup {"JOIN"} \cup {"LOCK"} \cup {"UNLOCK"} \cup {"CALL"})
    BY <2>2, FS_AddElement
  <2>4. IsFiniteSet({"CALL_FUNCPTR"} \cup {"RETURN"} \cup {"GENERAL"} \cup {"CALL_RETURN"})
    BY <2>2, FS_AddElement
  <2>5. IsFiniteSet({"ENTRY"} \cup {"EXIT"})
    BY <2>2, FS_AddElement
  <2> QED
    BY <2>1, <2>3, <2>4, <2>5, FS_Union
<1> DEFINE P == (AllTypes \X (Inst \cup {0})) \X Names
           F == [x \in P |-> <<x[1][1], x[1][2], x[2]>>]
<1>6. IsFiniteSet(P)
  BY <1>4, <1>5, FS_Product
<1>7. F \in [P -> Nodes]
  BY DEF Nodes
<1>8. IsFiniteSet({F[x] : x \in P})
  <2> HIDE DEF P, F
  <2> QED
    BY <1>6, <1>7, FiniteImage
<1>9. Nodes \subseteq {F[x] : x \in P}
  <2> SUFFICES ASSUME NEW n \in Nodes  PROVE \E x \in P : F[x] = n
    OBVIOUS
  <2>1. n[1] \in AllTypes /\ n[2] \in Inst \cup {0} /\ n[3] \in Names /\ n = <<n[1], n[2], n[3]>>
    BY DEF Nodes
  <2>2. << <<n[1], n[2]>>, n[3]>> \in P /\ F[<< <<n[1], n[2]>>, n[3]>>] = n
    BY <2>1
  <2> QED
    BY <2>2
<1> HIDE DEF F, P
<1> QED
  BY <1>8, <1>9, FS_Subset

\* Both ends of every edge are such nodes.
LEMMA EdgesInNodes ==
    ASSUME program \in Programs, NEW e \in Edges
    PROVE  e[1] \in Nodes /\ e[2] \in Nodes
<1>1. BuiltInsts \subseteq Inst
  <2> SUFFICES ASSUME NEW i \in BuiltInsts  PROVE i \in Inst
    OBVIOUS
  <2>1. PICK b \in UNION {BlocksOf(f) : f \in BuiltFunctions} : i \in Built(b)
    BY Zenon DEF BuiltInsts
  <2>2. b \in Block
    BY DEF BlocksOf
  <2>3. PICK k \in 1 .. Length(b) : i = program.code[b][k]
    BY <2>1 DEF Built
  <2>4. k \in 1 .. Len(Code(b))
    BY <2>2, Codes, Lengths
  <2> QED
    BY <2>2, <2>3, <2>4, Codes DEF Code
<1>2. \A g \in DOMAIN program.entry : Entry(g) \in Nodes /\ Exit(g) \in Nodes
  BY DEF Nodes, AllTypes, Names, Entry, Exit
<1>3. \A t \in Types, i \in Inst : <<t, i, Own>> \in Nodes /\ <<t, i, "return">> \in Nodes
  BY DEF Nodes, AllTypes, Names
<1>4. ASSUME NEW i \in Inst, IsCall(i), NEW g \in Callees(i)
      PROVE  \A t \in Types : <<t, i, g>> \in Nodes
  <2>1. g \in Named
    BY <1>4, Zenon DEF Named
  <2> QED
    BY <1>4, <2>1 DEF Nodes, AllTypes, Names
<1>5. ASSUME NEW i \in Inst, IsCall(i), NEW g \in Callees(i)
      PROVE  CallNode(i, g) \in Nodes
  <2>1. TypeOfCall(g) \in Types
    BY <1>5, NodeTypes DEF Types
  <2> QED
    BY <1>3, <1>4, <1>5, <2>1 DEF CallNode
<1>6. \A i \in Inst : InstFirst(i) \in Nodes
  <2>1. \A i \in Inst : \E t \in Types : InstFirst(i) = <<t, i, Own>>
    BY NodeTypes
  <2> QED
    BY <1>3, <2>1
<1>7. ASSUME NEW i \in Inst, IsCall(i), NEW g \in Functions(i)
      PROVE  CalleeLast(i, g) \in Nodes
  <2>1. g \in Callees(i)
    BY <1>7 DEF Callees
  <2>2. Defined(g) => CalleeLast(i, g) = Exit(g)
    BY <1>7, LastNodes
  <2>3. g = "pthread_exit" => CalleeLast(i, g) = <<"RETURN", i, g>>
    BY <1>7, LastNodes
  <2>4. ~ Defined(g) /\ g # "pthread_exit" => CalleeLast(i, g) = CallNode(i, g)
    BY <1>7, LastNodes
  <2>5. "RETURN" \in Types
    BY DEF Types
  <2> QED
    BY <1>2, <1>4, <1>5, <1>7, <2>1, <2>2, <2>3, <2>4, <2>5 DEF Defined
<1>8. ASSUME NEW i \in Inst  PROVE InstLast(i) \in Nodes
  <2>1. CASE ~ IsCall(i)
    BY <1>6, <2>1, NodeTypes
  <2>2. CASE IsCall(i) /\ Functions(i) = {}
    BY <1>5, <2>2, LastNodes DEF Callees
  <2>3. CASE IsCall(i) /\ Cardinality(Functions(i)) > 1
    BY <1>3, <2>3, LastNodes DEF Types
  <2>4. CASE IsCall(i) /\ Functions(i) # {} /\ ~ Cardinality(Functions(i)) > 1
    BY <1>7, <2>4, LastNodes
  <2> QED
    BY <2>1, <2>2, <2>3, <2>4
<1>9. CASE InnerEdge(e)
  <2>1. PICK i \in BuiltInsts : e \in InstEdges(i)
    BY <1>9 DEF InnerEdge
  <2>2. i \in Inst /\ IsCall(i)
    BY <1>1, <2>1 DEF InstEdges
  <2> DEFINE inserted == UNION {InsertFunction(i, g) : g \in Functions(i)}
             called == IF program.inst[i].direct THEN {}
                       ELSE IF Functions(i) = {} THEN {<<InstFirst(i), InstLast(i)>>}
                       ELSE {<<InstFirst(i), CallNode(i, g)>> : g \in Functions(i)}
             returned == IF Cardinality(Functions(i)) > 1
                           THEN {<<CalleeLast(i, g), InstLast(i)>> : g \in Functions(i)} ELSE {}
  <2>3. e \in inserted \/ e \in called \/ e \in returned
    BY <2>1, <2>2 DEF InstEdges
  <2>4. \A g \in Functions(i) : g \in Callees(i)
    BY DEF Callees
  <2>5. CASE e \in inserted
    <3>1. PICK g \in Functions(i) : e \in InsertFunction(i, g)
      BY <2>5, Zenon
    <3>2. \/ Defined(g) /\ e = <<CallNode(i, g), Entry(g)>>
          \/ e = <<CallNode(i, g), CalleeLast(i, g)>>
          \/ \E h \in Started(i) : e = <<CallNode(i, g), Entry(h)>>
      BY <3>1 DEF InsertFunction
    <3>3. CallNode(i, g) \in Nodes /\ CalleeLast(i, g) \in Nodes
      BY <1>5, <1>7, <2>2, <2>4
    <3> QED
      BY <1>2, <3>2, <3>3 DEF Defined, Started
  <2>6. CASE e \in called
    <3>1. \/ e = <<InstFirst(i), InstLast(i)>>
          \/ \E g \in Functions(i) : e = <<InstFirst(i), CallNode(i, g)>>
      BY <2>6
    <3> QED
      BY <1>5, <1>6, <1>8, <2>2, <2>4, <3>1
  <2>7. CASE e \in returned
    <3>1. \E g \in Functions(i) : e = <<CalleeLast(i, g), InstLast(i)>>
      BY <2>7
    <3> QED
      BY <1>7, <1>8, <2>2, <3>1
  <2> QED
    BY <2>3, <2>5, <2>6, <2>7
<1>10. CASE NextEdge(e)
  BY <1>6, <1>8, <1>10, PlaceFacts DEF NextEdge
<1>11. CASE ExitEdge(e)
  BY <1>2, <1>8, <1>11, PlaceFacts, BuiltClosed DEF ExitEdge
<1>12. CASE StartEdge(e)
  <2>1. PICK f \in BuiltFunctions, b \in Block : e = <<Entry(f), BlockFirst(b)>>
    BY <1>12 DEF StartEdge
  <2>2. BlockFirst(b) \in Nodes
    BY <1>6, Codes DEF BlockFirst, Code
  <2> QED
    BY <1>2, <2>1, <2>2, BuiltClosed
<1>13. CASE JoinEdge(e)
  <2>1. PICK h \in BuiltFunctions, j \in CallsOf("pthread_join") : e = <<Exit(h), CallNode(j, "pthread_join")>>
    BY <1>13 DEF JoinEdge
  <2>2. j \in Inst /\ IsCall(j) /\ "pthread_join" \in Callees(j)
    BY <1>1 DEF CallsOf, Callees
  <2> QED
    BY <1>2, <1>5, <2>1, <2>2, BuiltClosed
<1> QED
  BY <1>9, <1>10, <1>11, <1>12, <1>13, EdgeKinds

\* So the graph is one that can be searched.
LEMMA GraphFinite ==
    ASSUME Static
    PROVE  IsGraph(graph)
<1>1. DOMAIN graph \subseteq Nodes
  BY GraphHasEdges, EdgesInNodes DEF Static
<1>2. IsFiniteSet(DOMAIN graph)
  BY <1>1, NodesFinite, FS_Subset DEF Static
<1>3. graph = [n \in DOMAIN graph |-> graph[n]]
  BY DEF Static, Graph
<1> QED
  BY <1>2, <1>3, GraphHasEdges DEF IsGraph

\* Every instruction that is built has its nodes in the graph.
LEMMA NodesOfPlaces ==
    ASSUME Static, NEW p \in Places
    PROVE  /\ InstFirst(InstAt(p)) \in DOMAIN graph
           /\ IsCall(InstAt(p)) => \A g \in Functions(InstAt(p)) : CallNode(InstAt(p), g) \in DOMAIN graph
<1> DEFINE i == InstAt(p)
<1>1. program \in Programs /\ i \in Inst
  BY PlaceFacts DEF Static
<1>2. InstLast(i) \in DOMAIN graph
  <2>1. p[2] < Length(p[1]) \/ p[2] = Length(p[1])
    BY <1>1, PlaceFacts
  <2>2. \E n : <<InstLast(i), n>> \in Edges
    BY <1>1, <2>1, PlaceEdges
  <2> QED
    BY <2>2, EdgeInGraph
<1>3. \A x, y : <<x, y>> \in Edges => x \in DOMAIN graph /\ y \in DOMAIN graph
  BY EdgeInGraph
<1>4. CASE ~ IsCall(i)
  BY <1>1, <1>2, <1>4, NodeTypes
<1>5. ASSUME IsCall(i), NEW g \in Callees(i)
      PROVE  InstFirst(i) \in DOMAIN graph /\ CallNode(i, g) \in DOMAIN graph
  <2>1. \/ CallNode(i, g) = InstFirst(i)
        \/ <<InstFirst(i), CallNode(i, g)>> \in Edges
    BY <1>5, CalleeEdges
  <2>2. CASE Functions(i) = {}
    <3>1. CallNode(i, g) = InstLast(i)
      BY <1>1, <1>5, <2>2, LastNodes DEF Callees
    <3> QED
      BY <1>2, <1>3, <2>1, <3>1
  <2>3. CASE g \in Functions(i) /\ Defined(g)
    <3>1. <<CallNode(i, g), Entry(g)>> \in Edges
      BY <1>5, <2>3, CalleeEdges
    <3> QED
      BY <1>3, <2>1, <3>1
  <2>4. CASE g \in Functions(i) /\ g = "pthread_exit"
    <3>1. ~ Defined(g)
      BY <1>1, <2>4, FunctionFacts DEF Defined, Library
    <3>2. InsertFunction(i, g) = {<<CallNode(i, g), CalleeLast(i, g)>>}
      BY <2>4, <3>1 DEF InsertFunction
    <3>3. <<CallNode(i, g), CalleeLast(i, g)>> \in UNION {InsertFunction(i, h) : h \in Functions(i)}
      BY <2>4, <3>2, Zenon
    <3>4. <<CallNode(i, g), CalleeLast(i, g)>> \in InstEdges(i)
      BY <1>5, <3>3 DEF InstEdges
    <3>5. <<CallNode(i, g), CalleeLast(i, g)>> \in Edges
      BY <1>1, <3>4, PlaceEdges
    <3> QED
      BY <1>3, <2>1, <3>5
  <2>5. CASE g \in Functions(i) /\ ~ Defined(g) /\ g # "pthread_exit"
    <3>1. CalleeLast(i, g) = CallNode(i, g)
      BY <1>1, <1>5, <2>5, LastNodes
    <3>2. InstLast(i) = CallNode(i, g) \/ <<CallNode(i, g), InstLast(i)>> \in Edges
      BY <1>5, <2>5, <3>1, CalleeEdges
    <3> QED
      BY <1>2, <1>3, <2>1, <3>2
  <2> QED
    BY <1>5, <2>2, <2>3, <2>4, <2>5 DEF Callees
<1>6. CASE IsCall(i)
  <2>1. \A g \in Functions(i) : g \in Callees(i)
    BY DEF Callees
  <2>2. \E g : g \in Callees(i)
    BY DEF Callees
  <2> HIDE DEF i
  <2>3. InstFirst(i) \in DOMAIN graph
    BY <1>5, <1>6, <2>2
  <2>4. \A g \in Functions(i) : CallNode(i, g) \in DOMAIN graph
    BY <1>5, <1>6, <2>1
  <2> QED
    BY <2>3, <2>4 DEF i
<1> QED
  BY <1>4, <1>6

\* What is built is in some place.
LEMMA BuiltInPlaces ==
    ASSUME program \in Programs, NEW i \in BuiltInsts
    PROVE  \E p \in Places : i = InstAt(p)
<1>1. PICK b \in UNION {BlocksOf(f) : f \in BuiltFunctions} : i \in Built(b)
  BY Zenon DEF BuiltInsts
<1>2. PICK f \in BuiltFunctions : b \in BlocksOf(f)
  BY <1>1, Zenon
<1>3. b \in Block /\ program.fun[b] = f
  BY <1>2 DEF BlocksOf
<1>4. PICK k \in 1 .. Length(b) : i = program.code[b][k]
  BY <1>1 DEF Built
<1>5. k \in Nat
  BY <1>3, Lengths, Codes
<1>6. <<b, k>> \in Places /\ InstAt(<<b, k>>) = i
  BY <1>2, <1>3, <1>4, <1>5 DEF Places, InstAt
<1> QED
  BY <1>6

-----------------------------------------------------------------------------
(* The searches: what is on the stack.                                       *)

Entries == (DOMAIN graph) \X (SUBSET (DOMAIN graph))

\* Pairs are members of a product.
LEMMA Pair ==
    ASSUME NEW A, NEW B, NEW a \in A, NEW b \in B
    PROVE  <<a, b>> \in A \X B
  OBVIOUS

\* To take a successor of the node on top, and to visit it.
LEMMA Pushing ==
    ASSUME NEW S, stack \in Seq(S), stack # <<>>, NEW s,
           <<Current[1], Current[2] \ {s}>> \in S, NEW x \in S
    PROVE  /\ Len(stack) \in Nat \ {0}
           /\ Taken(s) \in Seq(S) /\ Len(Taken(s)) = Len(stack)
           /\ \A k \in 1 .. Len(stack) :
                 Taken(s)[k] = IF k = Len(stack) THEN <<Current[1], Current[2] \ {s}>> ELSE stack[k]
           /\ Append(Taken(s), x) \in Seq(S) /\ Len(Append(Taken(s), x)) = Len(stack) + 1
           /\ \A k \in 1 .. Len(stack) : Append(Taken(s), x)[k] = Taken(s)[k]
           /\ Append(Taken(s), x)[Len(stack) + 1] = x
<1> DEFINE N == Len(stack)
           y == <<Current[1], Current[2] \ {s}>>
<1>1. N \in Nat \ {0} /\ N \in 1 .. N /\ DOMAIN stack = 1 .. N /\ stack \in [1 .. N -> S]
  BY EmptySeq, LenProperties
<1>2. Taken(s) = [stack EXCEPT ![N] = y]
  BY DEF Taken
<1>3. Taken(s) \in Seq(S) /\ Len(Taken(s)) = N
      /\ \A k \in 1 .. N : Taken(s)[k] = IF k = N THEN y ELSE stack[k]
  <2>1. y \in S
    OBVIOUS
  <2> HIDE DEF y
  <2> QED
    BY <1>1, <1>2, <2>1, ExceptSeq
<1> DEFINE seq == Taken(s)
<1>4. seq \in Seq(S) /\ Len(seq) = N
  BY <1>3
<1> HIDE DEF seq, N, y
<1>5. /\ Append(seq, x) \in Seq(S) /\ Len(Append(seq, x)) = Len(seq) + 1
      /\ \A k \in 1 .. Len(seq) : Append(seq, x)[k] = seq[k]
      /\ Append(seq, x)[Len(seq) + 1] = x
  BY <1>4, AppendProperties
<1> QED
  BY <1>1, <1>3, <1>4, <1>5 DEF seq, N, y

\* To leave the node on top.
LEMMA Popping ==
    ASSUME NEW S, stack \in Seq(S), stack # <<>>
    PROVE  /\ Len(stack) \in Nat \ {0} /\ Current = stack[Len(stack)] /\ Current \in S
           /\ Popped \in Seq(S) /\ Len(Popped) = Len(stack) - 1
           /\ \A k \in 1 .. Len(stack) - 1 : Popped[k] = stack[k]
<1>1. Len(stack) \in Nat \ {0} /\ Len(stack) \in 1 .. Len(stack)
      /\ DOMAIN stack = 1 .. Len(stack) /\ stack \in [1 .. Len(stack) -> S]
  BY EmptySeq, LenProperties
<1>2. Current = stack[Len(stack)] /\ Current \in S
  BY <1>1 DEF Current
<1>3. 1 \in 1 .. Len(stack) + 1 /\ Len(stack) - 1 \in 0 .. Len(stack)
  BY <1>1
<1>4. Popped \in Seq(S) /\ Len(Popped) = Len(stack) - 1
      /\ \A k \in 1 .. Len(stack) - 1 : Popped[k] = stack[k]
  BY <1>1, <1>3, SubSeqProperties DEF Popped
<1> QED
  BY <1>1, <1>2, <1>4

-----------------------------------------------------------------------------
(* Regions. A node that does not found its region has one predecessor, which *)
(* is in the region too and is not the end of anything.                      *)

Follows(n, m) ==
    /\ Predecessors(n) = {m} /\ region[n] = region[m]
    /\ m[1] \notin {"EXIT", "FORK"} /\ n[1] \notin {"ENTRY", "JOIN"}
Founded ==
    /\ DOMAIN region \subseteq DOMAIN graph /\ Entry("main") \in DOMAIN region
    /\ \A n \in DOMAIN region : region[n] # n => \E m \in DOMAIN region : Follows(n, m)
    /\ \A n \in DOMAIN region : region[n] \in DOMAIN region /\ region[region[n]] = region[n]

\* Only the successors that are still to be visited from a node on the stack are not in a
\* region; if such a successor is in one, it founds the region.
Ahead(n) == UNION {stack[k][2] : k \in {j \in DOMAIN stack : stack[j][1] = n}}
Explored == \A n \in DOMAIN region : graph[n] \subseteq DOMAIN region \cup Ahead(n)
OnTheWay ==
    /\ stack \in Seq(Entries)
    /\ \A k \in DOMAIN stack : /\ stack[k][1] \in DOMAIN region
                               /\ stack[k][2] \subseteq graph[stack[k][1]]
                               /\ \A s \in stack[k][2] \cap DOMAIN region : region[s] = s
    /\ \A j, k \in DOMAIN stack : stack[j][1] = stack[k][1] => j = k
    /\ DOMAIN region \subseteq OnStack \cup examined

RegionsInv ==
    /\ phase = "sections" => DOMAIN region = {}
    /\ phase = "regions" => Founded /\ Explored /\ OnTheWay
    /\ phase = "run" => Founded /\ \A n \in DOMAIN region : graph[n] \subseteq DOMAIN region

\* Two predecessors are more than one.
LEMMA OnePredecessor ==
    ASSUME Static, NEW n, ~ Cardinality(Predecessors(n)) > 1
    PROVE  \A a, b \in Predecessors(n) : a = b
<1>1. IsFiniteSet(Predecessors(n))
  <2>1. Predecessors(n) \in SUBSET DOMAIN graph
    BY DEF Predecessors, Pred
  <2> QED
    BY <2>1, GraphFinite, FS_Subset DEF IsGraph
<1>2. Cardinality(Predecessors(n)) \in Nat
      /\ (Cardinality(Predecessors(n)) = 0 <=> Predecessors(n) = {})
      /\ (Cardinality(Predecessors(n)) = 1 <=> \E m : Predecessors(n) = {m})
  BY <1>1, FS_CardinalityType, FS_EmptySet, FS_Singleton
<1>3. Predecessors(n) = {} \/ \E m : Predecessors(n) = {m}
  BY <1>2
<1> QED
  BY <1>3

\* The search begins.
LEMMA StartsRegions ==
    ASSUME Static, RegionsInv, StartRegions
    PROVE  RegionsInv'
<1> DEFINE root == Entry("main")
<1>1. /\ phase' = "regions" /\ stack' = << <<root, graph[root]>> >>
      /\ region' = [n \in {root} |-> root] /\ UNCHANGED <<program, graph>>
  BY DEF StartRegions
<1>2. root \in DOMAIN graph /\ graph[root] \in SUBSET DOMAIN graph
  <2>1. <<root, InstFirst(InstAt(Start("main")))>> \in Edges
    BY BuiltClosed, EntryEdge DEF Static
  <2>2. root \in DOMAIN graph
    BY <2>1, EdgeInGraph
  <2> QED
    BY <2>2, GraphHasEdges
<1>3. DOMAIN region' = {root} /\ region'[root] = root
  BY <1>1
<1> HIDE DEF root
<1>4. Founded'
  BY <1>1, <1>2, <1>3 DEF Founded, Follows, root
<1>5. stack' \in Seq(Entries') /\ DOMAIN stack' = {1} /\ stack'[1] = <<root, graph[root]>>
  <2> DEFINE x == <<root, graph[root]>>
  <2>1. x \in Entries
    BY <1>2, Pair DEF x, Entries
  <2>2. Entries' = Entries
    BY <1>1 DEF Entries
  <2> HIDE DEF x
  <2>3. <<x>> \in Seq(Entries) /\ DOMAIN <<x>> = {1} /\ <<x>>[1] = x
    BY <2>1
  <2> QED
    BY <1>1, <2>2, <2>3 DEF x
<1>6. Ahead(root)' = graph[root] /\ OnStack' = {root}
  BY <1>5 DEF Ahead, OnStack
<1>7. Explored' /\ OnTheWay'
  BY <1>1, <1>3, <1>5, <1>6 DEF Explored, OnTheWay
<1> QED
  BY <1>1, <1>4, <1>7 DEF RegionsInv

\* The search visits a successor, which is in no region yet, or passes it.
LEMMA VisitsRegion ==
    ASSUME Static, Founded, Explored, OnTheWay, VisitInRegion
    PROVE  Founded' /\ Explored' /\ OnTheWay'
<1> DEFINE N == Len(stack)
<1>0. PICK c : c = Current[1]
  OBVIOUS
<1>1. stack # <<>> /\ UNCHANGED <<program, graph, phase, examined>>
  BY DEF VisitInRegion
<1>2. PICK s \in Current[2] :
         IF s \in OnStack \/ (s \in DOMAIN region /\ region[s] \in examined)
           THEN stack' = Taken(s) /\ UNCHANGED region
           ELSE /\ stack' = Append(Taken(s), <<s, graph[s]>>)
                /\ region' = [n \in DOMAIN region \cup {s} |->
                       IF n # s THEN region[n]
                       ELSE IF ShouldCreateNewRegion(c, s) THEN s ELSE region[c]]
  BY <1>0 DEF VisitInRegion
<1>3. /\ stack \in Seq(Entries) /\ N \in Nat \ {0} /\ N \in DOMAIN stack /\ DOMAIN stack = 1 .. N
      /\ Current = stack[N] /\ Current \in Entries
  BY <1>1, Popping, LenProperties DEF OnTheWay
<1>4. c \in DOMAIN region /\ s \in graph[c] /\ c \in DOMAIN graph /\ s \in DOMAIN graph
      /\ graph[c] \subseteq DOMAIN graph /\ graph[s] \subseteq DOMAIN graph
  <2>1. c \in DOMAIN region /\ s \in graph[c]
    BY <1>0, <1>2, <1>3 DEF OnTheWay
  <2>2. c \in DOMAIN graph
    BY <2>1 DEF Founded
  <2> QED
    BY <2>1, <2>2, GraphHasEdges
<1>5. <<c, Current[2] \ {s}>> \in Entries /\ <<s, graph[s]>> \in Entries
  <2>1. Current[2] \in SUBSET (DOMAIN graph)
    BY <1>3 DEF Entries
  <2> QED
    BY <1>4, <2>1, Pair DEF Entries
<1>6. /\ Taken(s) \in Seq(Entries) /\ Len(Taken(s)) = N
      /\ \A k \in 1 .. N : Taken(s)[k] = IF k = N THEN <<c, Current[2] \ {s}>> ELSE stack[k]
      /\ Append(Taken(s), <<s, graph[s]>>) \in Seq(Entries)
      /\ Len(Append(Taken(s), <<s, graph[s]>>)) = N + 1
      /\ \A k \in 1 .. N : Append(Taken(s), <<s, graph[s]>>)[k] = Taken(s)[k]
      /\ Append(Taken(s), <<s, graph[s]>>)[N + 1] = <<s, graph[s]>>
  <2> DEFINE x == <<s, graph[s]>>
  <2>1. x \in Entries /\ <<Current[1], Current[2] \ {s}>> \in Entries
    BY <1>0, <1>5
  <2> HIDE DEF x
  <2>2. /\ Taken(s) \in Seq(Entries) /\ Len(Taken(s)) = Len(stack)
        /\ \A k \in 1 .. Len(stack) :
              Taken(s)[k] = IF k = Len(stack) THEN <<Current[1], Current[2] \ {s}>> ELSE stack[k]
        /\ Append(Taken(s), x) \in Seq(Entries) /\ Len(Append(Taken(s), x)) = Len(stack) + 1
        /\ \A k \in 1 .. Len(stack) : Append(Taken(s), x)[k] = Taken(s)[k]
        /\ Append(Taken(s), x)[Len(stack) + 1] = x
    <3>1. stack \in Seq(Entries)
      BY <1>3
    <3> QED
      BY <1>1, <2>1, <3>1, Pushing
  <2> QED
    BY <1>0, <2>2 DEF x
<1>7. Entries' = Entries /\ \A n : Predecessors(n)' = Predecessors(n)
  BY <1>1 DEF Entries, Predecessors
<1>8. \A k \in 1 .. N : /\ Taken(s)[k][1] = stack[k][1]
                        /\ Taken(s)[k][2] \subseteq stack[k][2] /\ stack[k][2] \ {s} \subseteq Taken(s)[k][2]
  <2>1. \A k \in 1 .. N : k # N => Taken(s)[k] = stack[k]
    BY <1>6
  <2>2. Taken(s)[N][1] = c /\ Taken(s)[N][2] = Current[2] \ {s}
    <3>1. N \in 1 .. N
      BY <1>3
    <3>2. Taken(s)[N] = <<c, Current[2] \ {s}>>
      BY <1>6, <3>1
    <3> QED
      BY <3>2
  <2> QED
    BY <1>0, <1>3, <2>1, <2>2
<1>9. OnStack \subseteq DOMAIN region
  BY DEF OnTheWay, OnStack
<1> HIDE DEF N
<1>10. CASE s \in OnStack \/ (s \in DOMAIN region /\ region[s] \in examined)
  <2>1. stack' = Taken(s) /\ region' = region /\ s \in DOMAIN region
    BY <1>2, <1>9, <1>10
  <2>2. DOMAIN stack' = 1 .. N /\ stack' \in Seq(Entries')
    BY <1>6, <1>7, <2>1, LenProperties
  <2>3. Founded'
    BY <1>1, <1>7, <2>1 DEF Founded, Follows
  <2>4. \A n : Ahead(n) \subseteq Ahead(n)' \cup {s}
    <3> SUFFICES ASSUME NEW n, NEW k \in DOMAIN stack, stack[k][1] = n, NEW x \in stack[k][2], x # s
                 PROVE  \E j \in DOMAIN stack' : stack'[j][1] = n /\ x \in stack'[j][2]
      BY DEF Ahead
    <3> QED
      BY <1>3, <1>8, <2>1, <2>2
  <2>5. Explored'
    BY <1>1, <2>1, <2>4 DEF Explored
  <2>6. OnStack' = OnStack
    BY <1>3, <1>8, <2>1, <2>2 DEF OnStack
  <2>7. \A k \in DOMAIN stack' : /\ stack'[k][1] \in DOMAIN region
                                 /\ stack'[k][2] \subseteq graph[stack'[k][1]]
                                 /\ \A x \in stack'[k][2] \cap DOMAIN region : region[x] = x
    BY <1>3, <1>8, <2>1, <2>2 DEF OnTheWay
  <2>8. \A j, k \in DOMAIN stack' : stack'[j][1] = stack'[k][1] => j = k
    BY <1>3, <1>8, <2>1, <2>2 DEF OnTheWay
  <2>9. OnTheWay'
    BY <1>1, <2>1, <2>2, <2>6, <2>7, <2>8 DEF OnTheWay
  <2> QED
    BY <2>3, <2>5, <2>9
<1>11. CASE ~ (s \in OnStack \/ (s \in DOMAIN region /\ region[s] \in examined))
  <2>1. s \notin DOMAIN region
    <3> SUFFICES ASSUME s \in DOMAIN region  PROVE FALSE
      OBVIOUS
    <3>1. region[s] = s
      BY <1>2, <1>3 DEF OnTheWay
    <3> QED
      BY <1>11, <3>1 DEF OnTheWay
  <2>2. /\ stack' = Append(Taken(s), <<s, graph[s]>>)
        /\ DOMAIN region' = DOMAIN region \cup {s}
        /\ \A n \in DOMAIN region : region'[n] = region[n]
        /\ region'[s] = IF ShouldCreateNewRegion(c, s) THEN s ELSE region[c]
    BY <1>2, <1>11, <2>1
  <2>3. /\ DOMAIN stack' = 1 .. N + 1 /\ stack' \in Seq(Entries') /\ stack'[N + 1] = <<s, graph[s]>>
        /\ \A k \in 1 .. N : /\ stack'[k][1] = stack[k][1] /\ stack'[k][2] \subseteq stack[k][2]
                             /\ stack[k][2] \ {s} \subseteq stack'[k][2]
        /\ stack'[N] = <<c, Current[2] \ {s}>>
    BY <1>3, <1>6, <1>7, <1>8, <2>2, LenProperties
  <2>4. \A m \in DOMAIN region : s \in graph[m] => m \in Predecessors(s)
    BY DEF Predecessors, Pred, Founded
  <2>5. region'[s] # s => Predecessors(s) = {c} /\ c[1] \notin {"EXIT", "FORK"} /\ s[1] \notin {"ENTRY", "JOIN"}
    <3> SUFFICES ASSUME region'[s] # s
                 PROVE  Predecessors(s) = {c} /\ c[1] \notin {"EXIT", "FORK"} /\ s[1] \notin {"ENTRY", "JOIN"}
      OBVIOUS
    <3>1. ~ ShouldCreateNewRegion(c, s)
      BY <2>2
    <3>2. c \in Predecessors(s)
      BY <1>4, <2>4
    <3>3. \A a, b \in Predecessors(s) : a = b
      BY <3>1, OnePredecessor DEF ShouldCreateNewRegion
    <3> QED
      BY <3>1, <3>2, <3>3 DEF ShouldCreateNewRegion
  <2>6. Founded'
    <3>1. \A n \in DOMAIN region : region'[n] # n => \E m \in DOMAIN region : Follows(n, m)'
      BY <1>7, <2>2 DEF Founded, Follows
    <3>2. region'[s] # s => Follows(s, c)'
      BY <1>4, <1>7, <2>2, <2>5 DEF Follows
    <3>3. \A n \in DOMAIN region' : region'[n] \in DOMAIN region' /\ region'[region'[n]] = region'[n]
      <4>1. \A n \in DOMAIN region : region[n] \in DOMAIN region /\ region[region[n]] = region[n]
        BY DEF Founded
      <4>2. \A n \in DOMAIN region : region'[n] \in DOMAIN region' /\ region'[region'[n]] = region'[n]
        BY <2>2, <4>1
      <4>3. region'[s] \in DOMAIN region' /\ region'[region'[s]] = region'[s]
        BY <1>4, <2>2, <4>1, <4>2
      <4> QED
        BY <2>2, <4>2, <4>3
    <3>4. DOMAIN region' \subseteq DOMAIN graph' /\ Entry("main") \in DOMAIN region'
      BY <1>1, <1>4, <2>2 DEF Founded
    <3> HIDE DEF Follows
    <3>5. \A n \in DOMAIN region' : region'[n] # n => \E m \in DOMAIN region' : Follows(n, m)'
      BY <1>4, <2>2, <3>1, <3>2
    <3> QED
      BY <3>3, <3>4, <3>5 DEF Founded
  <2>7. \A n : Ahead(n) \subseteq Ahead(n)' \cup {s}
    <3> SUFFICES ASSUME NEW n, NEW k \in DOMAIN stack, stack[k][1] = n, NEW x \in stack[k][2], x # s
                 PROVE  \E j \in DOMAIN stack' : stack'[j][1] = n /\ x \in stack'[j][2]
      BY DEF Ahead
    <3> QED
      BY <1>3, <2>3
  <2>8. graph[s] \subseteq Ahead(s)'
    <3>1. N + 1 \in DOMAIN stack' /\ stack'[N + 1][1] = s /\ stack'[N + 1][2] = graph[s]
      BY <1>3, <2>3
    <3> QED
      BY <3>1 DEF Ahead
  <2>9. Explored'
    BY <1>1, <2>2, <2>7, <2>8 DEF Explored
  <2>10. \A k \in DOMAIN stack' : k \in DOMAIN stack \/ k = N + 1
    BY <1>3, <2>3
  <2>11. \A k \in DOMAIN stack : k \in DOMAIN stack' /\ k # N + 1
    BY <1>3, <2>3
  <2>12. N + 1 \in DOMAIN stack' /\ stack'[N + 1][1] = s /\ stack'[N + 1][2] = graph[s]
    BY <1>3, <2>3
  <2>13. OnStack' = OnStack \cup {s}
    BY <1>3, <2>3, <2>10, <2>11, <2>12 DEF OnStack
  <2>14. \A k \in DOMAIN stack' : stack'[k][1] \in DOMAIN region' /\ stack'[k][2] \subseteq graph[stack'[k][1]]
    <3>1. \A k \in DOMAIN stack : stack[k][1] \in DOMAIN region /\ stack[k][2] \subseteq graph[stack[k][1]]
      BY DEF OnTheWay
    <3> QED
      BY <1>3, <2>2, <2>3, <2>10, <2>12, <3>1
  <2>15. \A j, k \in DOMAIN stack' : stack'[j][1] = stack'[k][1] => j = k
    <3>1. \A k \in 1 .. N : stack[k][1] # s
      BY <1>3, <1>9, <2>1 DEF OnStack
    <3> QED
      BY <1>3, <2>3, <3>1 DEF OnTheWay
  <2>16. ASSUME NEW k \in 1 .. N, NEW x \in stack'[k][2], x \in DOMAIN region'
         PROVE  region'[x] = x
    <3>1. CASE x # s
      <4>1. k \in DOMAIN stack /\ x \in stack[k][2]
        BY <1>3, <2>3, <2>16
      <4>2. x \in DOMAIN region /\ region'[x] = region[x]
        BY <2>2, <2>16, <3>1
      <4> QED
        BY <4>1, <4>2 DEF OnTheWay
    <3>2. CASE x = s
      <4>1. k # N
        BY <2>3, <2>16, <3>2
      <4>2. stack[k][1] \in DOMAIN region /\ s \in graph[stack[k][1]] /\ stack[k][1] # c
        BY <1>0, <1>3, <2>3, <2>16, <3>2, <4>1 DEF OnTheWay, N
      <4>3. stack[k][1] \in Predecessors(s)
        BY <2>4, <4>2
      <4> QED
        BY <2>5, <3>2, <4>2, <4>3
    <3> QED
      BY <3>1, <3>2
  <2>17. ASSUME NEW x \in graph[s], x \in DOMAIN region'
         PROVE  region'[x] = x
    <3>1. s \in Predecessors(x)
      BY <1>4 DEF Predecessors, Pred
    <3>2. CASE x = s
      BY <1>4, <2>1, <2>5, <3>1, <3>2
    <3>3. CASE x \in DOMAIN region
      <4>1. region[x] # x => \E m \in DOMAIN region : Predecessors(x) = {m}
        BY <3>3 DEF Founded, Follows
      <4> QED
        BY <2>1, <2>2, <3>1, <3>3, <4>1
    <3> QED
      BY <2>2, <2>17, <3>2, <3>3
  <2>18. \A k \in DOMAIN stack' : \A x \in stack'[k][2] \cap DOMAIN region' : region'[x] = x
    BY <1>3, <2>3, <2>16, <2>17
  <2>19. OnTheWay'
    BY <1>1, <2>2, <2>3, <2>13, <2>14, <2>15, <2>18 DEF OnTheWay
  <2> QED
    BY <2>6, <2>9, <2>19
<1> QED
  BY <1>10, <1>11

\* A visit is over, and with the first one the search.
LEMMA ExaminesRegion ==
    ASSUME Static, Founded, Explored, OnTheWay, Examine
    PROVE  /\ Founded' /\ Explored'
           /\ phase' = "run" => \A n \in DOMAIN region' : graph'[n] \subseteq DOMAIN region'
           /\ phase' # "run" => OnTheWay'
<1> DEFINE N == Len(stack)
<1>1. /\ stack # <<>> /\ Current[2] = {} /\ stack' = Popped /\ phase = "regions"
      /\ UNCHANGED <<program, graph, region>>
      /\ IF Len(stack) = 1 THEN phase' = "run" /\ examined' = {}
         ELSE examined' = examined \cup {Current[1]} /\ UNCHANGED phase
  BY DEF Examine
<1>2. /\ N \in Nat \ {0} /\ DOMAIN stack = 1 .. N /\ Current = stack[N]
      /\ Popped \in Seq(Entries) /\ Len(Popped) = N - 1
      /\ \A k \in 1 .. N - 1 : Popped[k] = stack[k]
  BY <1>1, Popping, LenProperties DEF OnTheWay
<1>3. /\ stack' \in Seq(Entries') /\ DOMAIN stack' = 1 .. N - 1
      /\ \A k \in 1 .. N - 1 : stack'[k] = stack[k]
  <2>1. Entries' = Entries
    BY <1>1 DEF Entries
  <2> QED
    BY <1>1, <1>2, <2>1, LenProperties
<1> HIDE DEF N
<1>4. Founded'
  BY <1>1 DEF Founded, Follows, Predecessors
<1>5. \A n : Ahead(n) \subseteq Ahead(n)'
  <2> SUFFICES ASSUME NEW n, NEW k \in DOMAIN stack, stack[k][1] = n, NEW x \in stack[k][2]
               PROVE  \E j \in DOMAIN stack' : stack'[j][1] = n /\ x \in stack'[j][2]
    BY DEF Ahead
  <2>1. k # N
    BY <1>1, <1>2
  <2> QED
    BY <1>2, <1>3, <2>1
<1>6. Explored'
  BY <1>1, <1>5 DEF Explored
<1>7. ASSUME phase' = "run"  PROVE \A n \in DOMAIN region' : graph'[n] \subseteq DOMAIN region'
  <2>1. N = 1
    BY <1>1, <1>7 DEF N
  <2>2. \A n : Ahead(n)' = {}
    BY <1>3, <2>1 DEF Ahead
  <2> QED
    BY <1>6, <2>2 DEF Explored
<1>8. ASSUME phase' # "run"  PROVE OnTheWay'
  <2>1. examined' = examined \cup {Current[1]}
    BY <1>1, <1>8
  <2>2. OnStack \subseteq OnStack' \cup {Current[1]}
    BY <1>2, <1>3 DEF OnStack
  <2>3. \A j, k \in DOMAIN stack' : stack'[j][1] = stack'[k][1] => j = k
    BY <1>2, <1>3 DEF OnTheWay
  <2>4. \A k \in DOMAIN stack' : /\ stack'[k][1] \in DOMAIN region
                                 /\ stack'[k][2] \subseteq graph[stack'[k][1]]
                                 /\ \A s \in stack'[k][2] \cap DOMAIN region : region[s] = s
    BY <1>2, <1>3 DEF OnTheWay
  <2> QED
    BY <1>1, <1>3, <2>1, <2>2, <2>3, <2>4 DEF OnTheWay
<1> QED
  BY <1>4, <1>6, <1>7, <1>8

-----------------------------------------------------------------------------
(* The searches for critical sections and regions keep to the graph.         *)

SearchInv ==
    /\ phase \in {"sections", "regions", "run"}
    /\ phase = "sections" => stack \in Seq(Entries) /\ (stack # <<>> => stack[1][1] \in Locks)
    /\ examined \subseteq DOMAIN graph /\ unlocks \subseteq DOMAIN graph /\ DOMAIN section \subseteq Inst
    /\ phase = "run" => stack = <<>>

\* The lock and unlock calls are instructions that are built.
LEMMA LocksInGraph ==
    ASSUME Static
    PROVE  /\ \A l \in Locks : l[2] \in Inst /\ l \in DOMAIN graph /\ l[1] = "LOCK"
           /\ \A i : CorrespondingUnlocks(i) \subseteq DOMAIN graph
<1>1. ASSUME NEW g, NEW i \in CallsOf(g)
      PROVE  i \in Inst /\ CallNode(i, g) \in DOMAIN graph /\ CallNode(i, g)[2] = i
             /\ CallNode(i, g)[1] = TypeOfCall(g)
  <2>1. i \in BuiltInsts /\ IsCall(i) /\ g \in Functions(i)
    BY DEF CallsOf
  <2>2. PICK p \in Places : i = InstAt(p)
    BY <2>1, BuiltInPlaces DEF Static
  <2>3. i \in Inst
    BY <2>2, PlaceFacts DEF Static
  <2> QED
    BY <2>1, <2>2, <2>3, NodesOfPlaces, NodeTypes DEF Static
<1>2. TypeOfCall("pthread_mutex_lock") = "LOCK"
  BY DEF TypeOfCall
<1>3. \A l \in Locks : l[2] \in Inst /\ l \in DOMAIN graph /\ l[1] = "LOCK"
  BY <1>1, <1>2 DEF Locks
<1>4. \A i : CorrespondingUnlocks(i) \subseteq DOMAIN graph
  BY <1>1 DEF CorrespondingUnlocks
<1> QED
  BY <1>3, <1>4

\* What the graph is built from.
LEMMA UnchangedProgram ==
    ASSUME UNCHANGED program
    PROVE  /\ UNCHANGED <<Edges, Locks, Inst, Block, BuiltFunctions, BuiltInsts>>
           /\ \A i : CorrespondingUnlocks(i)' = CorrespondingUnlocks(i)
           /\ \A i, g : /\ IsCall(i)' = IsCall(i) /\ Functions(i)' = Functions(i)
                        /\ Defined(g)' = Defined(g) /\ CallNode(i, g)' = CallNode(i, g)
                        /\ Started(i)' = Started(i) /\ CallsOf(g)' = CallsOf(g)
           /\ \A i : InstFirst(i)' = InstFirst(i)
           /\ \A b : Length(b)' = Length(b) /\ Built(b)' = Built(b) /\ BlocksOf(b)' = BlocksOf(b)
<1>1. Inst' = Inst /\ Block' = Block
  BY DEF Inst, Block
<1>2. \A i, g : /\ IsCall(i)' = IsCall(i) /\ Functions(i)' = Functions(i) /\ Defined(g)' = Defined(g)
               /\ CallNode(i, g)' = CallNode(i, g)
  BY DEF IsCall, Functions, Defined, CallNode
<1>3. \A i, g : CalleeLast(i, g)' = CalleeLast(i, g) /\ Started(i)' = Started(i)
  BY <1>2 DEF CalleeLast, Started, Defined
<1>4. ASSUME NEW i  PROVE InstFirst(i)' = InstFirst(i)
  <2>1. PICK F : F = Functions(i) /\ F = Functions(i)'
    BY <1>2
  <2>2. PICK g : g = CHOOSE h \in F : TRUE
    OBVIOUS
  <2>3. PICK d : d = program.inst[i] /\ d = program'.inst[i]
    OBVIOUS
  <2>4. PICK c : c = CallNode(i, g) /\ c = CallNode(i, g)'
    BY <1>2
  <2>5. IsCall(i)' = IsCall(i)
    BY <1>2
  <2>6. CASE IsCall(i) /\ d.direct
    <3>1. InstFirst(i) = c
      BY <2>1, <2>2, <2>3, <2>4, <2>6 DEF InstFirst, IsCall
    <3>2. InstFirst(i)' = c
      BY <2>1, <2>2, <2>3, <2>4, <2>5, <2>6 DEF InstFirst, IsCall
    <3> QED
      BY <3>1, <3>2
  <2>7. CASE IsCall(i) /\ ~ d.direct
    <3>1. InstFirst(i) = <<"CALL_FUNCPTR", i, Own>>
      BY <2>3, <2>7 DEF InstFirst, IsCall
    <3>2. InstFirst(i)' = <<"CALL_FUNCPTR", i, Own>>
      BY <2>3, <2>5, <2>7 DEF InstFirst, IsCall
    <3> QED
      BY <3>1, <3>2
  <2>8. CASE ~ IsCall(i) /\ d.op = "ret"
    <3>1. InstFirst(i) = <<"RETURN", i, Own>>
      BY <2>3, <2>8 DEF InstFirst
    <3>2. InstFirst(i)' = <<"RETURN", i, Own>>
      BY <2>3, <2>5, <2>8 DEF InstFirst
    <3> QED
      BY <3>1, <3>2
  <2>9. CASE ~ IsCall(i) /\ d.op # "ret"
    <3>1. InstFirst(i) = <<"GENERAL", i, Own>>
      BY <2>3, <2>9 DEF InstFirst
    <3>2. InstFirst(i)' = <<"GENERAL", i, Own>>
      BY <2>3, <2>5, <2>9 DEF InstFirst
    <3> QED
      BY <3>1, <3>2
  <2> QED
    BY <2>6, <2>7, <2>8, <2>9
<1>5. ASSUME NEW i  PROVE InstLast(i)' = InstLast(i)
  <2>1. PICK F : F = Functions(i) /\ F = Functions(i)'
    BY <1>2
  <2>2. /\ IsCall(i)' = IsCall(i) /\ InstFirst(i)' = InstFirst(i)
        /\ CallNode(i, "unknown")' = CallNode(i, "unknown")
        /\ \A g : CalleeLast(i, g)' = CalleeLast(i, g)
    BY <1>2, <1>3, <1>4
  <2>3. InstLast(i) = IF ~ IsCall(i) THEN InstFirst(i)
                      ELSE IF F = {} THEN CallNode(i, "unknown")
                      ELSE IF Cardinality(F) > 1 THEN <<"CALL_RETURN", i, "return">>
                      ELSE CalleeLast(i, CHOOSE g \in F : TRUE)
    BY <2>1 DEF InstLast
  <2>4. InstLast(i)' = IF ~ IsCall(i)' THEN InstFirst(i)'
                      ELSE IF F = {} THEN CallNode(i, "unknown")'
                      ELSE IF Cardinality(F) > 1 THEN <<"CALL_RETURN", i, "return">>
                      ELSE CalleeLast(i, CHOOSE g \in F : TRUE)'
    BY <2>1 DEF InstLast
  <2> QED
    BY <2>2, <2>3, <2>4
<1>6. ASSUME NEW b  PROVE Length(b)' = Length(b) /\ Built(b)' = Built(b)
  <2>1. PICK c : c = program.code[b] /\ c = program'.code[b]
    OBVIOUS
  <2>2. PICK R : R = {k \in DOMAIN c : InstLast(c[k])[1] = "RETURN"}
    OBVIOUS
  <2>3. R = {k \in DOMAIN c : InstLast(c[k])'[1] = "RETURN"}
    BY <1>5, <2>2
  <2>4. Length(b) = IF R = {} THEN Len(c) ELSE CHOOSE k \in R : \A j \in R : k <= j
    BY <2>1, <2>2 DEF Length
  <2>5. Length(b)' = IF R = {} THEN Len(c) ELSE CHOOSE k \in R : \A j \in R : k <= j
    BY <2>1, <2>3 DEF Length
  <2>6. Length(b)' = Length(b)
    BY <2>4, <2>5
  <2>7. Built(b) = {c[k] : k \in 1 .. Length(b)} /\ Built(b)' = {c[k] : k \in 1 .. Length(b)'}
    BY <2>1 DEF Built
  <2> QED
    BY <2>6, <2>7
<1>7. \A i, g : InsertFunction(i, g)' = InsertFunction(i, g)
  <2> SUFFICES ASSUME NEW i, NEW g  PROVE InsertFunction(i, g)' = InsertFunction(i, g)
    OBVIOUS
  <2>1. {<<CallNode(i, g), Entry(h)>> : h \in Started(i)}' = {<<CallNode(i, g), Entry(h)>> : h \in Started(i)}
    BY <1>2, <1>3 DEF Entry
  <2> QED
    BY <1>2, <1>3, <2>1 DEF InsertFunction, Entry
<1>8. ASSUME NEW i  PROVE InstEdges(i)' = InstEdges(i)
  <2>1. PICK F : F = Functions(i) /\ F = Functions(i)'
    BY <1>2
  <2>2. PICK d : d = program.inst[i].direct /\ d = program'.inst[i].direct
    OBVIOUS
  <2> DEFINE A == UNION {InsertFunction(i, g) : g \in F}
             B == {<<InstFirst(i), CallNode(i, g)>> : g \in F}
             C == {<<CalleeLast(i, g), InstLast(i)>> : g \in F}
  <2>3. A' = A
    <3>1. \A x : x \in A <=> \E g \in F : x \in InsertFunction(i, g)
      BY Zenon
    <3>2. \A x : x \in A' <=> \E g \in F : x \in InsertFunction(i, g)'
      BY Zenon
    <3> HIDE DEF A
    <3> QED
      BY <1>7, <3>1, <3>2
  <2>4. B' = B /\ C' = C
    BY <1>2, <1>3, <1>4, <1>5
  <2>5. InstEdges(i) = IF ~ IsCall(i) THEN {}
                       ELSE A \cup (IF d THEN {} ELSE IF F = {} THEN {<<InstFirst(i), InstLast(i)>>} ELSE B)
                              \cup (IF Cardinality(F) > 1 THEN C ELSE {})
    BY <2>1, <2>2 DEF InstEdges
  <2>6. InstEdges(i)' = IF ~ IsCall(i)' THEN {}
                        ELSE A' \cup (IF d THEN {} ELSE IF F = {} THEN {<<InstFirst(i)', InstLast(i)'>>} ELSE B')
                               \cup (IF Cardinality(F) > 1 THEN C' ELSE {})
    BY <2>1, <2>2 DEF InstEdges
  <2> HIDE DEF A, B, C
  <2> QED
    BY <1>2, <1>4, <1>5, <2>3, <2>4, <2>5, <2>6
<1>9. ASSUME NEW b  PROVE BlockEdges(b)' = BlockEdges(b)
  <2> DEFINE A == {<<InstLast(program.code[b][k]), InstFirst(program.code[b][k + 1])>> : k \in 1 .. Length(b) - 1}
             B == UNION {InstEdges(i) : i \in Built(b)}
  <2>1. A' = A
    BY <1>4, <1>5, <1>6
  <2>2. B' = B
    <3>1. \A x : x \in B <=> \E i \in Built(b) : x \in InstEdges(i)
      BY Zenon
    <3>2. \A x : x \in B' <=> \E i \in Built(b)' : x \in InstEdges(i)'
      BY Zenon
    <3> HIDE DEF B
    <3> QED
      BY <1>6, <1>8, <3>1, <3>2
  <2>3. BlockEdges(b) = A \cup B /\ BlockEdges(b)' = A' \cup B'
    BY DEF BlockEdges
  <2> HIDE DEF A, B
  <2> QED
    BY <2>1, <2>2, <2>3
<1>10. \A f : BlocksOf(f)' = BlocksOf(f)
  BY <1>1 DEF BlocksOf, IsReachable
<1>11. \A b : BlockFirst(b)' = BlockFirst(b) /\ BlockLast(b)' = BlockLast(b)
  BY <1>4, <1>5, <1>6 DEF BlockFirst, BlockLast
<1>12. ASSUME NEW f  PROVE FunctionEdges(f)' = FunctionEdges(f)
  <2>1. Within(f)' = Within(f)
    <3>1. \A x : x \in Within(f) <=> \E b \in BlocksOf(f) : x \in BlockEdges(b)
      BY Zenon DEF Within
    <3>2. \A x : x \in Within(f)' <=> \E b \in BlocksOf(f)' : x \in BlockEdges(b)'
      BY Zenon DEF Within
    <3> QED
      BY <1>9, <1>10, <3>1, <3>2
  <2>2. IntoIt(f)' = IntoIt(f) /\ OutOf(f)' = OutOf(f)
    BY <1>10, <1>11 DEF IntoIt, OutOf, Entry, Exit
  <2>3. Branches(f)' = Branches(f)
    <3>1. \A x : x \in Branches(f) <=>
             \E b \in BlocksOf(f) : \E c \in program.succ[b] : x = <<BlockLast(b), BlockFirst(c)>>
      BY DEF Branches
    <3>2. \A x : x \in Branches(f)' <=>
             \E b \in BlocksOf(f)' : \E c \in program'.succ[b] : x = <<BlockLast(b)', BlockFirst(c)'>>
      BY DEF Branches
    <3> QED
      BY <1>10, <1>11, <3>1, <3>2
  <2>4. FunctionEdges(f)' = Within(f)' \cup IntoIt(f)' \cup OutOf(f)' \cup Branches(f)'
    BY DEF FunctionEdges, Within, IntoIt, OutOf, Branches
  <2> QED
    BY <2>1, <2>2, <2>3, <2>4, FunctionParts
<1>13. BuiltFunctions' = BuiltFunctions
  <2>1. \A i : Mentioned(i)' = Mentioned(i)
    BY <1>2, <1>3 DEF Mentioned
  <2> DEFINE M(f) == UNION {Mentioned(i) : i \in UNION {Built(b) : b \in BlocksOf(f)}}
  <2>2. \A f : M(f)' = M(f)
    <3> SUFFICES ASSUME NEW f  PROVE M(f)' = M(f)
      OBVIOUS
    <3>1. \A x : x \in M(f) <=> \E b \in BlocksOf(f) : \E i \in Built(b) : x \in Mentioned(i)
      BY Zenon
    <3>2. \A x : x \in M(f)' <=> \E b \in BlocksOf(f)' : \E i \in Built(b)' : x \in Mentioned(i)'
      BY Zenon
    <3> HIDE DEF M
    <3> QED
      BY <1>6, <1>10, <2>1, <3>1, <3>2
  <2> HIDE DEF M
  <2>3. [f \in DOMAIN program.entry |-> M(f)]' = [f \in DOMAIN program.entry |-> M(f)]
    BY <2>2
  <2> QED
    BY <2>3 DEF BuiltFunctions, M
<1>14. BuiltInsts' = BuiltInsts
  <2>1. \A x : x \in BuiltInsts <=> \E f \in BuiltFunctions : \E b \in BlocksOf(f) : x \in Built(b)
    BY Zenon DEF BuiltInsts
  <2>2. \A x : x \in BuiltInsts' <=> \E f \in BuiltFunctions' : \E b \in BlocksOf(f)' : x \in Built(b)'
    BY Zenon DEF BuiltInsts
  <2> QED
    BY <1>6, <1>10, <1>13, <2>1, <2>2
<1>15. \A g : CallsOf(g)' = CallsOf(g)
  BY <1>2, <1>14 DEF CallsOf
<1>16. JoinEdges' = JoinEdges
  <2>1. \A x : x \in JoinEdges <=>
           \E j \in CallsOf("pthread_join") : \E h \in joinFunctions(j) \cap BuiltFunctions :
              x = <<Exit(h), CallNode(j, "pthread_join")>>
    BY DEF JoinEdges
  <2>2. \A x : x \in JoinEdges' <=>
           \E j \in CallsOf("pthread_join")' : \E h \in joinFunctions(j)' \cap BuiltFunctions' :
              x = <<Exit(h), CallNode(j, "pthread_join")'>>
    BY DEF JoinEdges, Exit
  <2>3. \A j : joinFunctions(j)' = joinFunctions(j)
    BY DEF joinFunctions
  <2> QED
    BY <1>2, <1>13, <1>15, <2>1, <2>2, <2>3
<1>17. Edges' = Edges
  <2>1. \A x : x \in Edges <=> x \in JoinEdges \/ \E f \in BuiltFunctions : x \in FunctionEdges(f)
    BY Zenon DEF Edges
  <2>2. \A x : x \in Edges' <=> x \in JoinEdges' \/ \E f \in BuiltFunctions' : x \in FunctionEdges(f)'
    BY Zenon DEF Edges
  <2> QED
    BY <1>12, <1>13, <1>16, <2>1, <2>2
<1>18. Locks' = Locks
  BY <1>2, <1>15 DEF Locks
<1>19. \A i : CorrespondingUnlocks(i)' = CorrespondingUnlocks(i)
  BY <1>2, <1>15 DEF CorrespondingUnlocks, PointsToOfCall
<1> QED
  BY <1>1, <1>2, <1>3, <1>4, <1>6, <1>10, <1>13, <1>14, <1>15, <1>17, <1>18, <1>19

\* The searches keep what they rely on, whichever step they make.
LEMMA SearchesKeep ==
    ASSUME Static, SearchInv, RegionsInv, Next
    PROVE  Static' /\ SearchInv' /\ RegionsInv'
<1>1. UNCHANGED <<program, graph>>
  BY DEF Next, BuildCriticalSection, VisitInSection, PostVisit, StartRegions, VisitInRegion, Examine
<1>2. Static' /\ Entries' = Entries /\ Locks' = Locks /\ Inst' = Inst
  <2>1. UNCHANGED <<Edges, Locks, Inst>>
    BY <1>1, UnchangedProgram
  <2> QED
    BY <1>1, <2>1 DEF Static, Entries
<1>3. \A n \in DOMAIN graph : graph[n] \in SUBSET (DOMAIN graph)
  BY GraphHasEdges
<1>4. CASE BuildCriticalSection
  <2>1. PICK l \in Locks :
           /\ unlocks' = CorrespondingUnlocks(l[2])
           /\ stack' = << <<l, IF unlocks' = {} THEN {} ELSE graph[l]>> >>
    BY <1>4 DEF BuildCriticalSection
  <2>2. phase = "sections" /\ UNCHANGED <<phase, section, region>> /\ examined' = {}
    BY <1>4 DEF BuildCriticalSection
  <2> DEFINE todo == IF unlocks' = {} THEN {} ELSE graph[l]
             x == <<l, todo>>
  <2>3. l \in DOMAIN graph /\ unlocks' \subseteq DOMAIN graph
    BY <2>1, LocksInGraph
  <2>4. todo \in SUBSET (DOMAIN graph)
    BY <1>3, <2>3
  <2>5. x \in Entries /\ stack' = <<x>> /\ x[1] = l
    <3> HIDE DEF todo
    <3> QED
      BY <2>1, <2>3, <2>4, Pair DEF Entries, todo
  <2> HIDE DEF x, todo
  <2>6. stack' \in Seq(Entries) /\ stack'[1] = x
    BY <2>5
  <2>7. SearchInv'
    BY <1>1, <1>2, <2>2, <2>3, <2>5, <2>6 DEF SearchInv
  <2>8. RegionsInv'
    BY <2>2 DEF RegionsInv
  <2> QED
    BY <1>2, <2>7, <2>8
<1>5. CASE VisitInSection
  <2>1. phase = "sections" /\ stack # <<>> /\ UNCHANGED <<phase, section, region, examined>>
    BY <1>5 DEF VisitInSection
  <2>2. PICK s \in Current[2] :
           IF s \in OnStack \cup examined
             THEN stack' = Taken(s) /\ UNCHANGED unlocks
             ELSE /\ unlocks' = unlocks \ {s}
                  /\ stack' = Append(Taken(s), <<s, IF unlocks' = {} THEN {} ELSE graph[s]>>)
    BY <1>5 DEF VisitInSection
  <2> DEFINE todo == IF unlocks' = {} THEN {} ELSE graph[s]
             x == <<s, todo>>
  <2>3. stack \in Seq(Entries) /\ stack[1][1] \in Locks
    BY <2>1 DEF SearchInv
  <2>4. Current \in Entries
    BY <2>1, <2>3, Popping
  <2>5. Current[1] \in DOMAIN graph /\ Current[2] \in SUBSET (DOMAIN graph) /\ s \in DOMAIN graph
    BY <2>4 DEF Entries
  <2>6. todo \in SUBSET (DOMAIN graph)
    BY <1>3, <2>5
  <2>7. x \in Entries /\ <<Current[1], Current[2] \ {s}>> \in Entries
    <3> HIDE DEF todo
    <3> QED
      BY <2>5, <2>6, Pair DEF Entries
  <2>8. stack' = Taken(s) \/ stack' = Append(Taken(s), x)
    BY <2>2
  <2> HIDE DEF x, todo
  <2>9. /\ Len(stack) \in Nat \ {0}
        /\ Taken(s) \in Seq(Entries) /\ Len(Taken(s)) = Len(stack)
        /\ \A k \in 1 .. Len(stack) :
              Taken(s)[k] = IF k = Len(stack) THEN <<Current[1], Current[2] \ {s}>> ELSE stack[k]
        /\ Append(Taken(s), x) \in Seq(Entries)
        /\ \A k \in 1 .. Len(stack) : Append(Taken(s), x)[k] = Taken(s)[k]
    BY <2>1, <2>3, <2>7, Pushing
  <2>10. stack' \in Seq(Entries) /\ stack'[1][1] \in Locks
    <3>1. Taken(s)[1][1] = stack[1][1]
      BY <2>9 DEF Current
    <3>2. 1 \in 1 .. Len(stack)
      BY <2>9
    <3>3. stack'[1] = Taken(s)[1]
      BY <2>8, <2>9, <3>2
    <3>4. stack' \in Seq(Entries)
      BY <2>8, <2>9
    <3> QED
      BY <2>3, <3>1, <3>3, <3>4
  <2>11. unlocks' \subseteq unlocks
    BY <2>2
  <2>12. SearchInv'
    BY <1>1, <1>2, <2>1, <2>10, <2>11 DEF SearchInv
  <2>13. RegionsInv'
    BY <2>1 DEF RegionsInv
  <2> QED
    BY <1>2, <2>12, <2>13
<1>6. CASE PostVisit
  <2>1. phase = "sections" /\ stack # <<>> /\ UNCHANGED <<phase, unlocks, region>> /\ stack' = Popped
    BY <1>6 DEF PostVisit
  <2>2. stack \in Seq(Entries) /\ stack[1][1] \in Locks
    BY <2>1 DEF SearchInv
  <2>3. /\ Len(stack) \in Nat \ {0} /\ Current = stack[Len(stack)] /\ Current \in Entries
        /\ Popped \in Seq(Entries) /\ Len(Popped) = Len(stack) - 1
        /\ \A k \in 1 .. Len(stack) - 1 : Popped[k] = stack[k]
    BY <2>1, <2>2, Popping
  <2>4. Current[1] \in DOMAIN graph
    BY <2>3 DEF Entries
  <2>5. stack' # <<>> => stack'[1][1] \in Locks
    <3> SUFFICES ASSUME stack' # <<>>  PROVE stack'[1][1] \in Locks
      OBVIOUS
    <3>1. Len(stack') \in Nat \ {0}
      BY <2>1, <2>3, EmptySeq
    <3>2. 1 \in 1 .. Len(stack) - 1
      BY <2>1, <2>3, <3>1
    <3>3. stack'[1] = stack[1]
      BY <2>1, <2>3, <3>2
    <3> QED
      BY <2>2, <3>3
  <2>6. examined' \subseteq DOMAIN graph
    BY <1>6, <2>4 DEF PostVisit, SearchInv
  <2>7. DOMAIN section' \subseteq Inst
    <3>1. CASE Len(stack) > 1
      BY <1>6, <3>1 DEF PostVisit, SearchInv
    <3>2. CASE ~ Len(stack) > 1
      <4>1. DOMAIN section' = DOMAIN section \cup {Current[1][2]}
        BY <1>6, <3>2 DEF PostVisit
      <4>2. Len(stack) = 1
        BY <2>3, <3>2
      <4>3. Current[1][2] \in Inst
        BY <2>2, <2>3, <4>2, LocksInGraph
      <4> QED
        BY <4>1, <4>3 DEF SearchInv
    <3> QED
      BY <3>1, <3>2
  <2>8. SearchInv'
    BY <1>1, <1>2, <2>1, <2>3, <2>5, <2>6, <2>7 DEF SearchInv
  <2>9. RegionsInv'
    BY <2>1 DEF RegionsInv
  <2> QED
    BY <1>2, <2>8, <2>9
<1>7. CASE StartRegions
  <2>1. RegionsInv'
    BY <1>7, StartsRegions
  <2>2. SearchInv'
    BY <1>1, <1>2, <1>7 DEF StartRegions, SearchInv
  <2> QED
    BY <1>2, <2>1, <2>2
<1>8. CASE VisitInRegion
  <2>1. phase = "regions" /\ UNCHANGED <<phase, examined, unlocks, section>>
    BY <1>8 DEF VisitInRegion
  <2>2. Founded' /\ Explored' /\ OnTheWay'
    BY <1>8, <2>1, VisitsRegion DEF RegionsInv
  <2>3. SearchInv'
    BY <1>1, <1>2, <2>1 DEF SearchInv
  <2> QED
    BY <1>2, <2>1, <2>2, <2>3 DEF RegionsInv
<1>9. CASE Examine
  <2>1. phase = "regions" /\ stack # <<>> /\ UNCHANGED <<unlocks, section>> /\ stack' = Popped
        /\ phase' \in {"regions", "run"} /\ (phase' = "run" => Len(stack) = 1)
    BY <1>9 DEF Examine
  <2>2. /\ Founded' /\ Explored'
        /\ phase' = "run" => \A n \in DOMAIN region' : graph'[n] \subseteq DOMAIN region'
        /\ phase' # "run" => OnTheWay'
    BY <1>9, <2>1, ExaminesRegion DEF RegionsInv
  <2>3. stack \in Seq(Entries)
    BY <2>1 DEF RegionsInv, OnTheWay
  <2>4. /\ Current \in Entries /\ Popped \in Seq(Entries) /\ Len(Popped) = Len(stack) - 1
    BY <2>1, <2>3, Popping
  <2>5. Current[1] \in DOMAIN graph
    BY <2>4 DEF Entries
  <2>6. examined' \subseteq DOMAIN graph
    BY <1>9, <2>5 DEF Examine, SearchInv
  <2>7. phase' = "run" => stack' = <<>>
    <3> SUFFICES ASSUME phase' = "run", stack' # <<>>  PROVE FALSE
      OBVIOUS
    <3>1. Len(Popped) \in Nat \ {0}
      BY <2>1, <2>4, EmptySeq
    <3>2. Len(Popped) = 0
      BY <2>1, <2>4
    <3> QED
      BY <3>1, <3>2
  <2>8. SearchInv'
    BY <1>1, <1>2, <2>1, <2>6, <2>7 DEF SearchInv
  <2> QED
    BY <1>2, <2>1, <2>2, <2>8 DEF RegionsInv
<1> QED
  BY <1>4, <1>5, <1>6, <1>7, <1>8, <1>9 DEF Next

-----------------------------------------------------------------------------
(* The threads. Where a thread stands is a place whose node is in a region,  *)
(* and its frames are the places after the calls that it is in.              *)

Standing == Places \cup {NotStarted, Ended, Joined}
InRegions(p) == InstFirst(InstAt(p)) \in DOMAIN region
Frame(p, f) == p \in Places /\ \E q \in Places : /\ p \in After(q) /\ IsCall(InstAt(q))
                                                /\ f \in Functions(InstAt(q))
FramesFit(s, f) ==
    /\ s \in Seq(Places)
    /\ \A k \in 1 .. Len(s) : Frame(s[k], IF k = Len(s) THEN f ELSE FunOf(s[k + 1]))

\* How a thread came to place p: it starts there, or there is a way from the last instruction.
Came(p, last) ==
    \/ last = None /\ \E f \in BuiltFunctions : p = Start(f)
    \/ last # None /\ \E q \in Places : InstAt(q) = last /\ InRegions(q) /\ Way(q, InstFirst(InstAt(p)))

ThreadInv(t) ==
    /\ at[t] \in Places => /\ InRegions(at[t]) /\ Came(at[t], event.last[t])
                           /\ FramesFit(frames[t], FunOf(at[t]))
    /\ at[t] = NotStarted => frames[t] = <<>> /\ event.last[t] = None
    /\ forked[t] # None =>
          \E i \in BuiltInsts : \E h \in Started(i) :
             forked[t] = <<i, h>> /\ IsCall(i) /\ "pthread_create" \in Functions(i)

ThreadsInv ==
    /\ at \in [Thread -> Standing]
    /\ DOMAIN frames = Thread /\ DOMAIN event.last = Thread /\ DOMAIN forked = Thread
    /\ \A t \in Thread : ThreadInv(t)

\* What is in memory was stored there, by an instruction that is in a region.
StoredBy(m, o) ==
    /\ m.inst \in Inst /\ program.inst[m.inst].op = "store" /\ InstFirst(m.inst) \in DOMAIN region
    /\ \E q \in program.inst[m.inst].pts : q.obj \in {o, "unknown"} /\ q.off \in {m.byte, Top}
MemoryInv ==
    /\ DOMAIN memory = Object
    /\ \A o \in Object, k \in 0 .. Size - 1 : memory[o][k] # None => StoredBy(memory[o][k], o)

\* What does not change while the program runs, or the search has ended.
LEMMA UnchangedPlaces ==
    ASSUME UNCHANGED <<program, graph, region>>
    PROVE  /\ UNCHANGED <<Places, Standing, BuiltFunctions, BuiltInsts, Inst>>
           /\ \A p : /\ InstAt(p)' = InstAt(p) /\ FunOf(p)' = FunOf(p) /\ After(p)' = After(p)
                     /\ InRegions(p)' = InRegions(p) /\ Start(p)' = Start(p)
           /\ \A p, q : Way(p, q)' = Way(p, q) /\ Frame(p, q)' = Frame(p, q)
           /\ \A p, q : FramesFit(p, q)' = FramesFit(p, q) /\ Came(p, q)' = Came(p, q)
           /\ \A m, o : StoredBy(m, o)' = StoredBy(m, o)
           /\ \A i, g : /\ IsCall(i)' = IsCall(i) /\ Functions(i)' = Functions(i)
                        /\ CallNode(i, g)' = CallNode(i, g) /\ InstFirst(i)' = InstFirst(i)
                        /\ Started(i)' = Started(i)
<1>1. /\ UNCHANGED <<BuiltFunctions, BuiltInsts, Inst, Block>>
      /\ \A i, g : /\ IsCall(i)' = IsCall(i) /\ Functions(i)' = Functions(i)
                   /\ CallNode(i, g)' = CallNode(i, g) /\ Started(i)' = Started(i)
      /\ \A i : InstFirst(i)' = InstFirst(i)
      /\ \A b : Length(b)' = Length(b) /\ BlocksOf(b)' = BlocksOf(b)
  BY UnchangedProgram
<1>2. \A p : InstAt(p)' = InstAt(p) /\ FunOf(p)' = FunOf(p) /\ After(p)' = After(p) /\ Start(p)' = Start(p)
  BY DEF InstAt, FunOf, After, Start
<1>3. Places' = Places
  BY <1>1 DEF Places
<1>4. Standing' = Standing
  BY <1>3 DEF Standing, NotStarted, Ended, Joined
<1>5. \A p : InRegions(p)' = InRegions(p)
  BY <1>1, <1>2 DEF InRegions
<1>6. \A p : Passing(p)' = Passing(p)
  BY <1>2 DEF Passing, IsArtificial, Exit
<1>7. \A p, q : Way(p, q)' = Way(p, q)
  BY <1>1, <1>2, <1>6 DEF Way
<1>8. \A p, q : Frame(p, q)' = Frame(p, q)
  BY <1>1, <1>2, <1>3 DEF Frame
<1>9. \A p, q : FramesFit(p, q)' = FramesFit(p, q)
  BY <1>2, <1>3, <1>8 DEF FramesFit
<1>10. \A p, q : Came(p, q)' = Came(p, q)
  BY <1>1, <1>2, <1>3, <1>5, <1>7 DEF Came
<1>11. \A m, o : StoredBy(m, o)' = StoredBy(m, o)
  BY <1>1 DEF StoredBy
<1> QED
  BY <1>1, <1>2, <1>3, <1>4, <1>5, <1>7, <1>8, <1>9, <1>10, <1>11

\* A call, and a return.
LEMMA PushFits ==
    ASSUME NEW s, NEW p \in Places, FramesFit(s, FunOf(p)), NEW g, Frame(p, g)
    PROVE  FramesFit(Append(s, p), g)
<1>1. s \in Seq(Places) /\ Len(s) \in Nat
      /\ \A k \in 1 .. Len(s) : Frame(s[k], IF k = Len(s) THEN FunOf(p) ELSE FunOf(s[k + 1]))
  BY LenProperties DEF FramesFit
<1>2. /\ Append(s, p) \in Seq(Places) /\ Len(Append(s, p)) = Len(s) + 1
      /\ \A k \in 1 .. Len(s) : Append(s, p)[k] = s[k]
      /\ Append(s, p)[Len(s) + 1] = p
  BY <1>1, AppendProperties
<1> DEFINE r == Append(s, p)
<1> HIDE DEF r
<1>3. ASSUME NEW k \in 1 .. Len(s) + 1
      PROVE  Frame(r[k], IF k = Len(s) + 1 THEN g ELSE FunOf(r[k + 1]))
  <2>1. CASE k = Len(s) + 1
    BY <1>2, <2>1 DEF r
  <2>2. CASE k # Len(s) + 1
    <3>1. k \in 1 .. Len(s) /\ r[k] = s[k]
      BY <1>1, <1>2, <2>2 DEF r
    <3>2. k = Len(s) => r[k + 1] = p
      BY <1>2 DEF r
    <3>3. k # Len(s) => k + 1 \in 1 .. Len(s) /\ r[k + 1] = s[k + 1]
      BY <1>1, <1>2, <3>1 DEF r
    <3> QED
      BY <1>1, <2>2, <3>1, <3>2, <3>3
  <2> QED
    BY <2>1, <2>2
<1> QED
  BY <1>2, <1>3 DEF FramesFit, r

\* A return to the last frame leaves frames that fit.
LEMMA PopFits ==
    ASSUME NEW s, NEW f, FramesFit(s, f), s # <<>>
    PROVE  /\ s[Len(s)] \in Places /\ Frame(s[Len(s)], f)
           /\ FramesFit(SubSeq(s, 1, Len(s) - 1), FunOf(s[Len(s)]))
<1>1. /\ s \in Seq(Places) /\ s \in [1 .. Len(s) -> Places] /\ Len(s) \in Nat \ {0}
      /\ \A k \in 1 .. Len(s) : Frame(s[k], IF k = Len(s) THEN f ELSE FunOf(s[k + 1]))
  BY LenProperties, EmptySeq DEF FramesFit
<1>2. PICK N \in Nat \ {0} : N = Len(s)
  BY <1>1
<1>3. N \in 1 .. N /\ N - 1 \in Nat /\ \A k \in 1 .. N - 1 : k \in 1 .. N /\ k # N
      /\ (k # N - 1 => k + 1 \in 1 .. N - 1 /\ k + 1 \in 1 .. N /\ k + 1 # N)
  OBVIOUS
<1>4. \A k \in 1 .. N : s[k] \in Places
  BY <1>1, <1>2
<1> DEFINE r == SubSeq(s, 1, N - 1)
<1>5. r \in Seq(Places) /\ Len(r) = N - 1 /\ \A k \in 1 .. N - 1 : r[k] = s[k]
  <2>1. \A k \in 1 .. N - 1 : s[k] \in Places
    BY <1>3, <1>4
  <2> QED
    BY <2>1, SubSeqProperties
<1> HIDE DEF r
<1>6. \A k \in 1 .. N : Frame(s[k], IF k = N THEN f ELSE FunOf(s[k + 1]))
  BY <1>1, <1>2
<1>7. ASSUME NEW k \in 1 .. N - 1
      PROVE  Frame(r[k], IF k = N - 1 THEN FunOf(s[N]) ELSE FunOf(r[k + 1]))
  <2>1. k \in 1 .. N /\ k # N /\ r[k] = s[k]
    BY <1>3, <1>5
  <2>2. Frame(s[k], FunOf(s[k + 1]))
    BY <1>6, <2>1
  <2>3. k # N - 1 => r[k + 1] = s[k + 1]
    BY <1>3, <1>5
  <2>4. k = N - 1 => k + 1 = N
    OBVIOUS
  <2> QED
    BY <2>1, <2>2, <2>3, <2>4
<1>8. FramesFit(r, FunOf(s[N]))
  BY <1>5, <1>7 DEF FramesFit
<1>9. s[N] \in Places /\ Frame(s[N], f)
  BY <1>3, <1>4, <1>6
<1> QED
  BY <1>2, <1>8, <1>9 DEF r

\* What can run is in a place.
LEMMA Standings ==
    ASSUME program \in Programs
    PROVE  /\ \A p \in Standing : Len(p) = 2 <=> p \in Places
           /\ NotStarted \notin Places /\ Ended \notin Places /\ Joined \notin Places
           /\ NotStarted # Ended /\ NotStarted # Joined
           /\ \A p \in Places : Len(p) = 2
<1>1. \A p \in Places : p = <<p[1], p[2]>>
  BY PlaceFacts
<1>2. \A p \in Places : Len(p) = 2
  <2> SUFFICES ASSUME NEW p \in Places  PROVE Len(p) = 2
    OBVIOUS
  <2>1. PICK x, y : p = <<x, y>>
    BY <1>1
  <2> QED
    BY <2>1
<1>3. Len(NotStarted) = 0 /\ Len(Ended) = 1 /\ Len(Joined) = 1
  BY DEF NotStarted, Ended, Joined
<1> QED
  BY <1>2, <1>3 DEF Standing

\* What has been reached is in a region.
LEMMA WayInRegions ==
    ASSUME \A n \in DOMAIN region : graph[n] \subseteq DOMAIN region, NEW q, InRegions(q), NEW n, Way(q, n)
    PROVE  n \in DOMAIN region
  BY DEF Way, InRegions

\* One thread goes on; others are ended or started.
LEMMA Moves ==
    ASSUME Static, \A n \in DOMAIN region : graph[n] \subseteq DOMAIN region, ThreadsInv,
           UNCHANGED <<program, graph, region>>,
           NEW t \in Thread, at[t] \in Places,
           event'.last = [event.last EXCEPT ![t] = InstAt(at[t])],
           at' \in [Thread -> Standing], DOMAIN frames' = Thread, DOMAIN forked' = Thread,
           \A u \in Thread :
              \/ forked'[u] = forked[u]
              \/ \E i \in BuiltInsts : \E h \in Started(i) :
                    forked'[u] = <<i, h>> /\ IsCall(i) /\ "pthread_create" \in Functions(i),
           \A u \in Thread \ {t} :
              /\ frames'[u] = frames[u]
              /\ \/ at'[u] \in {at[u], Ended, Joined}
                 \/ at[u] = NotStarted /\ \E h \in BuiltFunctions : at'[u] = Start(h) /\ InRegions(Start(h)),
           \/ at'[t] = Ended
           \/ /\ at'[t] \in Places /\ Way(at[t], InstFirst(InstAt(at'[t])))
              /\ FramesFit(frames'[t], FunOf(at'[t]))
    PROVE  ThreadsInv'
<1>1. program \in Programs
  BY DEF Static
<1>2. /\ UNCHANGED <<Places, Standing, BuiltFunctions, BuiltInsts, Inst>>
      /\ \A p : /\ InstAt(p)' = InstAt(p) /\ FunOf(p)' = FunOf(p)
                /\ InRegions(p)' = InRegions(p) /\ Start(p)' = Start(p)
      /\ \A p, q : FramesFit(p, q)' = FramesFit(p, q) /\ Came(p, q)' = Came(p, q)
      /\ \A i, g : /\ IsCall(i)' = IsCall(i) /\ Functions(i)' = Functions(i)
                   /\ Started(i)' = Started(i)
  BY UnchangedPlaces
<1>3. event'.last[t] = InstAt(at[t]) /\ DOMAIN event'.last = Thread
      /\ \A u \in Thread \ {t} : event'.last[u] = event.last[u]
  BY DEF ThreadsInv
<1>4. NotStarted \notin Places /\ Ended \notin Places /\ Joined \notin Places
      /\ NotStarted # Ended /\ NotStarted # Joined
  BY <1>1, Standings
<1>5. InstAt(at[t]) # None
  BY <1>1, PlaceFacts, NoneAssumption DEF Inst
<1>6. ASSUME NEW u \in Thread
      PROVE  forked'[u] # None =>
               \E i \in BuiltInsts' : \E h \in Started(i)' :
                  forked'[u] = <<i, h>> /\ IsCall(i)' /\ "pthread_create" \in Functions(i)'
  <2>1. forked[u] # None =>
          \E i \in BuiltInsts : \E h \in Started(i) :
             forked[u] = <<i, h>> /\ IsCall(i) /\ "pthread_create" \in Functions(i)
    BY DEF ThreadsInv, ThreadInv
  <2> QED
    BY <1>2, <2>1
<1>7. ASSUME at'[t] \in Places
      PROVE  InRegions(at'[t]) /\ Came(at'[t], event'.last[t]) /\ FramesFit(frames'[t], FunOf(at'[t]))
  <2>1. Way(at[t], InstFirst(InstAt(at'[t]))) /\ FramesFit(frames'[t], FunOf(at'[t]))
    BY <1>4, <1>7
  <2>2. InRegions(at[t])
    BY DEF ThreadsInv, ThreadInv
  <2>3. InRegions(at'[t])
    BY <2>1, <2>2, WayInRegions DEF InRegions
  <2>4. Came(at'[t], event'.last[t])
    BY <1>3, <1>5, <2>1, <2>2 DEF Came
  <2> QED
    BY <2>1, <2>3, <2>4
<1>8. ASSUME NEW u \in Thread \ {t}
      PROVE  /\ at'[u] \in Places => /\ InRegions(at'[u]) /\ Came(at'[u], event'.last[u])
                                     /\ FramesFit(frames'[u], FunOf(at'[u]))
             /\ at'[u] = NotStarted => frames'[u] = <<>> /\ event'.last[u] = None
  <2>1. frames'[u] = frames[u] /\ event'.last[u] = event.last[u] /\ ThreadInv(u)
    BY <1>3 DEF ThreadsInv
  <2>2. CASE at'[u] = at[u]
    BY <2>1, <2>2 DEF ThreadInv
  <2>3. CASE at'[u] \in {Ended, Joined}
    BY <1>4, <2>3
  <2>4. ASSUME at[u] = NotStarted, NEW h \in BuiltFunctions, at'[u] = Start(h), InRegions(Start(h))
        PROVE  /\ at'[u] \in Places /\ InRegions(at'[u]) /\ Came(at'[u], event'.last[u])
               /\ FramesFit(frames'[u], FunOf(at'[u]))
    <3>1. frames'[u] = <<>> /\ event'.last[u] = None
      BY <2>1, <2>4 DEF ThreadInv
    <3>2. Came(at'[u], event'.last[u])
      BY <2>4, <3>1 DEF Came
    <3>3. FramesFit(frames'[u], FunOf(at'[u]))
      BY <3>1, EmptySeq DEF FramesFit
    <3> QED
      BY <1>1, <2>4, <3>2, <3>3, EntryEdge
  <2> QED
    BY <1>4, <2>2, <2>3, <2>4
<1>9. ASSUME NEW u \in Thread  PROVE ThreadInv(u)'
  <2>1. /\ at'[u] \in Places => /\ InRegions(at'[u]) /\ Came(at'[u], event'.last[u])
                                /\ FramesFit(frames'[u], FunOf(at'[u]))
        /\ at'[u] = NotStarted => frames'[u] = <<>> /\ event'.last[u] = None
    BY <1>4, <1>7, <1>8
  <2> QED
    BY <1>2, <1>6, <2>1 DEF ThreadInv, NotStarted
<1> QED
  BY <1>2, <1>3, <1>9 DEF ThreadsInv

-----------------------------------------------------------------------------
(* The instructions. What is observed of them.                               *)

\* The event has the fields of its record.
LEMMA Observing ==
    ASSUME NEW t, NEW i, NEW record, Executed(t, i, record),
           {"thread", "inst", "before", "last"} \cap DOMAIN record = {}
    PROVE  /\ event'.thread = t /\ event'.inst = i /\ event'.before = event.last[t]
           /\ event'.last = [event.last EXCEPT ![t] = i]
           /\ DOMAIN event' = {"thread", "inst", "before", "last"} \cup DOMAIN record
           /\ \A x \in DOMAIN record : event'[x] = record[x]
<1>1. event' = [x \in {"thread", "inst", "before", "last"} \cup DOMAIN record |->
                  CASE x = "thread" -> t
                    [] x = "inst" -> i
                    [] x = "before" -> event.last[t]
                    [] x = "last" -> [event.last EXCEPT ![t] = i]
                    [] OTHER -> record[x]]
  BY DEF Executed
<1>2. DOMAIN event' = {"thread", "inst", "before", "last"} \cup DOMAIN record
  BY <1>1
<1>3. \A x \in DOMAIN record : event'[x] = record[x]
  BY <1>1
<1> QED
  BY <1>1, <1>2, <1>3

Closed == \A n \in DOMAIN region : graph[n] \subseteq DOMAIN region

\* Every instruction is observed as one of its thread.
LEMMA Records ==
    ASSUME NEW t, NEW i, RunInst(t, i)
    PROVE  \E record : /\ Executed(t, i, record)
                       /\ DOMAIN record \subseteq {"reads", "byte", "creates", "joins", "opens", "closes"}
                       /\ "opens" \in DOMAIN record =>
                             /\ RunLock(t, i)
                             /\ \E m : record.opens = [lock |-> i, mutex |-> m, insts |-> {},
                                                      straight |-> Straight(i)]
<1>1. DOMAIN <<>> = {}
  OBVIOUS
<1>2. CASE RunAccess(t, i)
  <2>1. Executed(t, i, <<>>) \/ \E a : Executed(t, i, [reads |-> memory[a[1]][a[2]], byte |-> a[2]])
    BY <1>2 DEF RunAccess
  <2>2. \A x, y : DOMAIN [reads |-> x, byte |-> y] = {"reads", "byte"}
    OBVIOUS
  <2> HIDE DEF Executed
  <2> QED
    BY <1>1, <2>1, <2>2
<1>3. CASE RunOther(t, i) \/ RunCall(t, i) \/ RunReturn(t, i) \/ RunExit(t, i)
  <2>1. Executed(t, i, <<>>)
    BY <1>3 DEF RunOther, RunCall, RunReturn, RunExit
  <2> QED
    BY <1>1, <2>1
<1>4. CASE RunCreate(t, i)
  <2>1. Executed(t, i, [creates |-> TRUE])
    BY <1>4 DEF RunCreate
  <2> QED
    BY <2>1
<1>5. CASE RunJoin(t, i)
  <2>1. \E u : Executed(t, i, [joins |-> forked[u]])
    BY <1>5 DEF RunJoin
  <2> QED
    BY <2>1
<1>6. CASE RunLock(t, i)
  <2>1. PICK m : Executed(t, i, [opens |-> [lock |-> i, mutex |-> m, insts |-> {}, straight |-> Straight(i)]])
    BY <1>6 DEF RunLock
  <2> DEFINE x == [lock |-> i, mutex |-> m, insts |-> {}, straight |-> Straight(i)]
             r == [opens |-> x]
  <2>2. DOMAIN r = {"opens"} /\ r.opens = x /\ Executed(t, i, r)
    BY <2>1
  <2> HIDE DEF r
  <2> QED
    BY <1>6, <2>2
<1>7. CASE RunUnlock(t, i)
  <2>1. \E x : Executed(t, i, [closes |-> x])
    BY <1>7 DEF RunUnlock
  <2> QED
    BY <2>1
<1> QED
  BY <1>2, <1>3, <1>4, <1>5, <1>6, <1>7 DEF RunInst

\* Every instruction of t is the last that t has executed.
LEMMA EventOf ==
    ASSUME NEW t, NEW i, RunInst(t, i)
    PROVE  /\ event'.thread = t /\ event'.inst = i /\ event'.before = event.last[t]
           /\ event'.last = [event.last EXCEPT ![t] = i] /\ Happened'
<1>1. PICK record : /\ Executed(t, i, record)
                    /\ DOMAIN record \subseteq {"reads", "byte", "creates", "joins", "opens", "closes"}
  BY Records
<1>2. {"thread", "inst", "before", "last"} \cap DOMAIN record = {}
  BY <1>1
<1> QED
  BY <1>1, <1>2, Observing DEF Happened

\* Where the thread only goes on.
LEMMA GoesOnKeeps ==
    ASSUME Static, Closed, ThreadsInv, UNCHANGED <<program, graph, region>>,
           NEW t \in Thread, at[t] \in Places, NEW i, i = InstAt(at[t]),
           event'.last = [event.last EXCEPT ![t] = i],
           GoesOn(t), UNCHANGED forked,
           \/ ~ IsCall(i) /\ program.inst[i].op # "ret"
           \/ IsCall(i) /\ Functions(i) = {}
           \/ IsCall(i) /\ \E g \in Functions(i) : ~ Defined(g) /\ g # "pthread_exit"
    PROVE  ThreadsInv'
<1>1. PICK p \in After(at[t]) : at' = [at EXCEPT ![t] = p] /\ frames' = frames
  BY DEF GoesOn, Goes
<1>2. p \in Places /\ FunOf(p) = FunOf(at[t]) /\ Way(at[t], InstFirst(InstAt(p)))
  BY GoesOnWay
<1>3. at' \in [Thread -> Standing] /\ at'[t] = p /\ \A u \in Thread \ {t} : at'[u] = at[u]
  BY <1>1, <1>2 DEF ThreadsInv, Standing
<1>4. FramesFit(frames'[t], FunOf(p))
  BY <1>1, <1>2 DEF ThreadsInv, ThreadInv
<1>5. DOMAIN frames' = Thread /\ DOMAIN forked' = Thread
  BY <1>1 DEF ThreadsInv
<1> QED
  BY <1>1, <1>2, <1>3, <1>4, <1>5, Moves DEF Closed

\* What the library has is not defined in the program.
LEMMA LibraryFunctions ==
    ASSUME program \in Programs, NEW g \in Library
    PROVE  ~ Defined(g)
  BY FunctionFacts DEF Defined

\* Whatever the thread executes, threads stay where there is a way to.
LEMMA ThreadsKept ==
    ASSUME Static, Closed, ThreadsInv, UNCHANGED vars,
           NEW t \in Thread, at[t] \in Places, NEW i, i = InstAt(at[t]), RunInst(t, i)
    PROVE  ThreadsInv'
<1>1. UNCHANGED <<program, graph, region>> /\ program \in Programs /\ i \in Inst
  BY PlaceFacts DEF vars, Static
<1>2. event'.last = [event.last EXCEPT ![t] = i]
  BY EventOf
<1>3. /\ InRegions(at[t]) /\ FramesFit(frames[t], FunOf(at[t]))
      /\ at \in [Thread -> Standing] /\ DOMAIN frames = Thread /\ DOMAIN forked = Thread
  BY DEF ThreadsInv, ThreadInv
<1>4. \A g \in Library : ~ Defined(g)
  BY <1>1, LibraryFunctions
<1>5. CASE RunAccess(t, i)
  <2>1. ~ IsCall(i) /\ program.inst[i].op # "ret" /\ GoesOn(t) /\ UNCHANGED forked
    BY <1>5 DEF RunAccess, IsCall
  <2> QED
    BY <1>1, <1>2, <2>1, GoesOnKeeps
<1>6. CASE RunOther(t, i)
  <2>1. GoesOn(t) /\ UNCHANGED forked
        /\ (program.inst[i].op = "other" \/ (IsCall(i) /\ (Functions(i) = {} \/ "extern" \in Functions(i))))
    BY <1>6 DEF RunOther
  <2>2. program.inst[i].op = "other" => ~ IsCall(i) /\ program.inst[i].op # "ret"
    BY DEF IsCall
  <2>3. ~ Defined("extern")
    BY <1>4 DEF Library
  <2> QED
    BY <1>1, <1>2, <2>1, <2>2, <2>3, GoesOnKeeps
<1>7. CASE RunLock(t, i) \/ RunUnlock(t, i)
  <2>1. GoesOn(t) /\ UNCHANGED forked /\ IsCall(i)
        /\ ("pthread_mutex_lock" \in Functions(i) \/ "pthread_mutex_unlock" \in Functions(i))
    BY <1>7 DEF RunLock, RunUnlock
  <2>2. ~ Defined("pthread_mutex_lock") /\ ~ Defined("pthread_mutex_unlock")
    BY <1>4 DEF Library
  <2> QED
    BY <1>1, <1>2, <2>1, <2>2, GoesOnKeeps
<1>8. CASE RunCall(t, i)
  <2>1. IsCall(i) /\ UNCHANGED forked
    BY <1>8 DEF RunCall
  <2>2. PICK g \in Functions(i), p \in After(at[t]) :
           /\ Defined(g) /\ at' = [at EXCEPT ![t] = Start(g)]
           /\ frames' = [frames EXCEPT ![t] = Append(@, p)]
    BY <1>8 DEF RunCall
  <2>3. Start(g) \in Places /\ FunOf(Start(g)) = g /\ Way(at[t], InstFirst(InstAt(Start(g))))
    BY <2>1, <2>2, CallWay
  <2>4. p \in Places /\ FunOf(p) = FunOf(at[t])
    <3>1. InstLast(i)[1] # "RETURN"
      <4>1. ~ Defined("pthread_exit")
        BY <1>4 DEF Library
      <4> QED
        BY <1>1, <2>1, <2>2, <4>1, LastNodes
    <3> QED
      BY <1>1, <3>1, NextPlace
  <2>5. Frame(p, g)
    BY <2>1, <2>2, <2>4 DEF Frame
  <2>6. FramesFit(Append(frames[t], p), g)
    BY <1>3, <2>4, <2>5, PushFits
  <2>7. /\ at' \in [Thread -> Standing] /\ at'[t] = Start(g) /\ \A u \in Thread \ {t} : at'[u] = at[u]
        /\ DOMAIN frames' = Thread /\ frames'[t] = Append(frames[t], p)
        /\ \A u \in Thread \ {t} : frames'[u] = frames[u]
    BY <1>3, <2>2, <2>3 DEF Standing
  <2>8. FramesFit(frames'[t], FunOf(at'[t])) /\ at'[t] \in Places /\ Way(at[t], InstFirst(InstAt(at'[t])))
    BY <2>3, <2>6, <2>7
  <2> QED
    BY <1>1, <1>2, <1>3, <2>1, <2>7, <2>8, Moves DEF Closed
<1>9. CASE RunCreate(t, i)
  <2>1. IsCall(i) /\ "pthread_create" \in Functions(i) /\ UNCHANGED frames
    BY <1>9 DEF RunCreate
  <2>2. PICK u \in Thread, h \in Started(i), p \in After(at[t]) :
           /\ at[u] = NotStarted
           /\ at' = [at EXCEPT ![t] = p, ![u] = Start(h)]
           /\ forked' = [forked EXCEPT ![u] = <<i, h>>]
    BY <1>9 DEF RunCreate
  <2>3. p \in Places /\ FunOf(p) = FunOf(at[t]) /\ Way(at[t], InstFirst(InstAt(p)))
    <3>1. ~ Defined("pthread_create")
      BY <1>4 DEF Library
    <3> QED
      BY <2>1, <3>1, GoesOnWay
  <2>4. u # t
    BY <1>1, <2>2, Standings
  <2>5. h \in BuiltFunctions /\ InRegions(Start(h)) /\ Start(h) \in Places
    <3>1. /\ <<CallNode(i, "pthread_create"), Entry(h)>> \in Edges /\ h \in BuiltFunctions
          /\ \/ CallNode(i, "pthread_create") = InstFirst(i)
             \/ <<InstFirst(i), CallNode(i, "pthread_create")>> \in Edges
      BY <2>1, CalleeEdges DEF Callees
    <3>2. Start(h) \in Places /\ <<Entry(h), InstFirst(InstAt(Start(h)))>> \in Edges
      BY <1>1, <3>1, EntryEdge
    <3>3. \A x, y : <<x, y>> \in Edges /\ x \in DOMAIN region => y \in DOMAIN region
      BY EdgeInGraph DEF Closed
    <3>4. InstFirst(i) \in DOMAIN region
      BY <1>3 DEF InRegions
    <3>5. CallNode(i, "pthread_create") \in DOMAIN region
      BY <3>1, <3>3, <3>4
    <3>6. InstFirst(InstAt(Start(h))) \in DOMAIN region
      BY <3>1, <3>2, <3>3, <3>5
    <3> QED
      BY <3>1, <3>2, <3>6 DEF InRegions
  <2>6. /\ at' \in [Thread -> Standing] /\ at'[t] = p /\ at'[u] = Start(h)
        /\ \A v \in Thread \ {t, u} : at'[v] = at[v]
    BY <1>3, <2>2, <2>3, <2>4, <2>5 DEF Standing
  <2>7. /\ DOMAIN forked' = Thread /\ forked'[u] = <<i, h>>
        /\ \A v \in Thread \ {u} : forked'[v] = forked[v]
    BY <1>3, <2>2
  <2>8. i \in BuiltInsts
    BY <1>1, PlaceFacts
  <2>9. FramesFit(frames'[t], FunOf(at'[t])) /\ DOMAIN frames' = Thread
    BY <1>3, <2>1, <2>3, <2>6
  <2>10. \A v \in Thread : \/ forked'[v] = forked[v]
                           \/ \E j \in BuiltInsts : \E g \in Started(j) :
                                 forked'[v] = <<j, g>> /\ IsCall(j) /\ "pthread_create" \in Functions(j)
    BY <2>1, <2>7, <2>8
  <2>11. \A v \in Thread \ {t} :
            /\ frames'[v] = frames[v]
            /\ \/ at'[v] \in {at[v], Ended, Joined}
               \/ at[v] = NotStarted /\ \E g \in BuiltFunctions : at'[v] = Start(g) /\ InRegions(Start(g))
    BY <2>1, <2>2, <2>5, <2>6
  <2>12. at'[t] \in Places /\ Way(at[t], InstFirst(InstAt(at'[t])))
    BY <2>3, <2>6
  <2> QED
    BY <1>1, <1>2, <2>6, <2>7, <2>9, <2>10, <2>11, <2>12, Moves DEF Closed
<1>10. CASE RunJoin(t, i)
  <2>1. IsCall(i) /\ "pthread_join" \in Functions(i) /\ UNCHANGED <<frames, forked>>
    BY <1>10 DEF RunJoin
  <2>2. PICK u \in Thread, p \in After(at[t]) : at[u] = Ended /\ at' = [at EXCEPT ![t] = p, ![u] = Joined]
    BY <1>10 DEF RunJoin
  <2>3. p \in Places /\ FunOf(p) = FunOf(at[t]) /\ Way(at[t], InstFirst(InstAt(p)))
    <3>1. ~ Defined("pthread_join")
      BY <1>4 DEF Library
    <3> QED
      BY <2>1, <3>1, GoesOnWay
  <2>4. u # t
    BY <1>1, <2>2, Standings
  <2>5. /\ at' \in [Thread -> Standing] /\ at'[t] = p /\ at'[u] = Joined
        /\ \A v \in Thread \ {t, u} : at'[v] = at[v]
    BY <1>3, <2>2, <2>3, <2>4 DEF Standing
  <2>6. FramesFit(frames'[t], FunOf(at'[t])) /\ DOMAIN frames' = Thread /\ DOMAIN forked' = Thread
    BY <1>3, <2>1, <2>3, <2>5
  <2>7. \A v \in Thread \ {t} : frames'[v] = frames[v] /\ at'[v] \in {at[v], Ended, Joined}
    BY <2>1, <2>5
  <2>8. at'[t] \in Places /\ Way(at[t], InstFirst(InstAt(at'[t]))) /\ forked' = forked
    BY <2>1, <2>3, <2>5
  <2> QED
    BY <1>1, <1>2, <2>5, <2>6, <2>7, <2>8, Moves DEF Closed
<1>11. CASE RunReturn(t, i)
  <2>1. program.inst[i].op = "ret" /\ UNCHANGED forked
    BY <1>11 DEF RunReturn
  <2>2. CASE frames[t] # <<>>
    <3> DEFINE p == frames[t][Len(frames[t])]
               s == SubSeq(frames[t], 1, Len(frames[t]) - 1)
    <3>1. p \in Places /\ Frame(p, FunOf(at[t])) /\ FramesFit(s, FunOf(p))
      BY <1>3, <2>2, PopFits
    <3>2. at' = [at EXCEPT ![t] = p] /\ frames' = [frames EXCEPT ![t] = s]
      BY <1>11, <2>2 DEF RunReturn
    <3> HIDE DEF p, s
    <3>3. PICK c \in Places : p \in After(c) /\ IsCall(InstAt(c)) /\ FunOf(at[t]) \in Functions(InstAt(c))
      BY <3>1 DEF Frame
    <3>4. Way(at[t], InstFirst(InstAt(p)))
      BY <2>1, <3>3, ReturnWay
    <3>5. /\ at' \in [Thread -> Standing] /\ at'[t] = p /\ \A u \in Thread \ {t} : at'[u] = at[u]
          /\ DOMAIN frames' = Thread /\ frames'[t] = s /\ \A u \in Thread \ {t} : frames'[u] = frames[u]
      BY <1>3, <3>1, <3>2 DEF Standing
    <3>6. at'[t] \in Places /\ Way(at[t], InstFirst(InstAt(at'[t]))) /\ FramesFit(frames'[t], FunOf(at'[t]))
      BY <3>1, <3>4, <3>5
    <3> QED
      BY <1>1, <1>2, <1>3, <2>1, <3>5, <3>6, Moves DEF Closed
  <2>3. CASE frames[t] = <<>>
    <3>1. frames' = frames /\ (at' = [u \in Thread |-> Ended] \/ at' = [at EXCEPT ![t] = Ended])
      BY <1>11, <2>3 DEF RunReturn
    <3>2. /\ at' \in [Thread -> Standing] /\ at'[t] = Ended
          /\ \A u \in Thread \ {t} : frames'[u] = frames[u] /\ at'[u] \in {at[u], Ended, Joined}
      BY <1>3, <3>1 DEF Standing
    <3> QED
      BY <1>1, <1>2, <1>3, <2>1, <3>1, <3>2, Moves DEF Closed
  <2> QED
    BY <2>2, <2>3
<1>12. CASE RunExit(t, i)
  <2>1. at' = [at EXCEPT ![t] = Ended] /\ UNCHANGED <<frames, forked>>
    BY <1>12 DEF RunExit
  <2>2. /\ at' \in [Thread -> Standing] /\ at'[t] = Ended
        /\ \A u \in Thread \ {t} : frames'[u] = frames[u] /\ at'[u] \in {at[u], Ended, Joined}
    BY <1>3, <2>1 DEF Standing
  <2> QED
    BY <1>1, <1>2, <1>3, <2>1, <2>2, Moves DEF Closed
<1> QED
  BY <1>5, <1>6, <1>7, <1>8, <1>9, <1>10, <1>11, <1>12 DEF RunInst

-----------------------------------------------------------------------------
(* Interference.                                                             *)

\* What is stored is stored by an instruction that is in a region.
LEMMA MemoryKept ==
    ASSUME Static, ThreadsInv, MemoryInv, UNCHANGED vars,
           NEW t \in Thread, at[t] \in Places, NEW i, i = InstAt(at[t]), RunInst(t, i)
    PROVE  MemoryInv'
<1>1. UNCHANGED <<program, graph, region>> /\ i \in Inst
  BY PlaceFacts DEF vars, Static
<1>2. \A m, o : StoredBy(m, o)' = StoredBy(m, o)
  BY <1>1, UnchangedPlaces
<1>3. CASE UNCHANGED memory
  BY <1>2, <1>3 DEF MemoryInv
<1>4. CASE RunAccess(t, i) /\ program.inst[i].op # "load"
  <2>1. PICK a \in Targets(i) :
           memory' = [memory EXCEPT ![a[1]] = [k \in 0 .. Size - 1 |->
                        IF k \in a[2] .. a[2] + program.inst[i].size - 1
                          THEN [thread |-> t, inst |-> i, byte |-> a[2]] ELSE @[k]]]
    BY <1>4 DEF RunAccess
  <2>2. program.inst[i].op = "store"
    BY <1>4 DEF RunAccess
  <2> DEFINE m == [thread |-> t, inst |-> i, byte |-> a[2]]
  <2>3. m.inst = i /\ m.byte = a[2]
    OBVIOUS
  <2>4. a[1] \in Object
        /\ \E q \in program.inst[i].pts : q.obj \in {a[1], "unknown"} /\ q.off \in {a[2], Top}
    BY DEF Targets
  <2>5. InstFirst(i) \in DOMAIN region
    BY DEF ThreadsInv, ThreadInv, InRegions
  <2>6. StoredBy(m, a[1])
    <3> HIDE DEF m
    <3> QED
      BY <1>1, <2>2, <2>3, <2>4, <2>5 DEF StoredBy
  <2> HIDE DEF m
  <2>7. DOMAIN memory' = Object /\ \A o \in Object \ {a[1]} : memory'[o] = memory[o]
    BY <2>1 DEF MemoryInv
  <2>8. \A k \in 0 .. Size - 1 : memory'[a[1]][k] \in {m, memory[a[1]][k]}
    BY <2>1, <2>4 DEF MemoryInv, m
  <2>9. ASSUME NEW o \in Object, NEW k \in 0 .. Size - 1, memory'[o][k] # None
        PROVE  StoredBy(memory'[o][k], o)
    BY <2>6, <2>7, <2>8, <2>9 DEF MemoryInv
  <2> QED
    BY <1>2, <2>7, <2>9 DEF MemoryInv
<1>5. UNCHANGED memory \/ (RunAccess(t, i) /\ program.inst[i].op # "load")
  BY DEF RunInst, RunAccess, RunOther, RunCall, RunCreate, RunJoin, RunLock, RunUnlock, RunReturn, RunExit
<1> QED
  BY <1>3, <1>4, <1>5

\* Which instruction was observed to do what.
LEMMA WhatIsObserved ==
    ASSUME NEW t, NEW i, RunInst(t, i)
    PROVE  /\ Observed("reads")' =>
                 /\ program.inst[i].op = "load"
                 /\ \E a \in Targets(i) : event'.reads = memory[a[1]][a[2]] /\ event'.byte = a[2]
           /\ Observed("creates")' => RunCreate(t, i)
           /\ Observed("joins")' =>
                 /\ RunJoin(t, i)
                 /\ \E u \in Thread : /\ forked[u] # None /\ forked[u][1] \in program.inst[i].forks
                                      /\ event'.joins = forked[u]
           /\ Observed("closes")' =>
                 /\ RunUnlock(t, i)
                 /\ \E h \in held[t] : event'.closes = h
<1>1. \A record : Executed(t, i, record)
                    /\ {"thread", "inst", "before", "last"} \cap DOMAIN record = {} =>
         /\ \A x \in {"reads", "byte", "creates", "joins", "closes"} : Observed(x)' <=> x \in DOMAIN record
         /\ \A x \in DOMAIN record : event'[x] = record[x]
  <2> SUFFICES ASSUME NEW record, Executed(t, i, record),
                      {"thread", "inst", "before", "last"} \cap DOMAIN record = {}
               PROVE  /\ \A x \in {"reads", "byte", "creates", "joins", "closes"} : Observed(x)' <=> x \in DOMAIN record
                      /\ \A x \in DOMAIN record : event'[x] = record[x]
    OBVIOUS
  <2>1. /\ DOMAIN event' = {"thread", "inst", "before", "last"} \cup DOMAIN record
        /\ \A x \in DOMAIN record : event'[x] = record[x]
    BY Observing
  <2>2. \A x : Observed(x)' <=> x \in DOMAIN event'
    BY DEF Observed
  <2> QED
    BY <2>1, <2>2
<1> DEFINE observed == {"reads", "byte", "creates", "joins", "opens", "closes"}
<1>2. \A record : Executed(t, i, record) /\ DOMAIN record \subseteq observed =>
         /\ \A x \in {"reads", "byte", "creates", "joins", "closes"} : Observed(x)' <=> x \in DOMAIN record
         /\ \A x \in DOMAIN record : event'[x] = record[x]
  BY <1>1
<1> HIDE DEF observed
<1>3. DOMAIN <<>> = {}
  OBVIOUS
<1>4. CASE RunAccess(t, i)
  <2>1. CASE Executed(t, i, <<>>)
    BY <1>2, <1>3, <2>1 DEF observed
  <2>2. CASE program.inst[i].op = "load"
    <3>1. PICK a \in Targets(i) : Executed(t, i, [reads |-> memory[a[1]][a[2]], byte |-> a[2]])
      BY <1>4, <2>2 DEF RunAccess
    <3> DEFINE r == [reads |-> memory[a[1]][a[2]], byte |-> a[2]]
    <3>2. DOMAIN r = {"reads", "byte"} /\ r.reads = memory[a[1]][a[2]] /\ r.byte = a[2]
      OBVIOUS
    <3>3. Executed(t, i, r)
      BY <3>1
    <3> HIDE DEF r
    <3> QED
      BY <1>2, <2>2, <3>2, <3>3 DEF observed
  <2> QED
    BY <1>4, <2>1, <2>2 DEF RunAccess
<1>5. CASE RunOther(t, i) \/ RunCall(t, i) \/ RunReturn(t, i) \/ RunExit(t, i)
  <2>1. Executed(t, i, <<>>)
    BY <1>5 DEF RunOther, RunCall, RunReturn, RunExit
  <2> QED
    BY <1>2, <1>3, <2>1 DEF observed
<1>6. CASE RunCreate(t, i)
  <2>1. Executed(t, i, [creates |-> TRUE]) /\ DOMAIN [creates |-> TRUE] = {"creates"}
    BY <1>6 DEF RunCreate
  <2> QED
    BY <1>2, <1>6, <2>1 DEF observed
<1>7. CASE RunJoin(t, i)
  <2>1. PICK u \in Thread : /\ forked[u] # None /\ forked[u][1] \in program.inst[i].forks
                            /\ Executed(t, i, [joins |-> forked[u]])
    BY <1>7 DEF RunJoin
  <2> DEFINE r == [joins |-> forked[u]]
  <2>2. DOMAIN r = {"joins"} /\ r.joins = forked[u] /\ Executed(t, i, r)
    BY <2>1
  <2> HIDE DEF r
  <2> QED
    BY <1>2, <1>7, <2>1, <2>2 DEF observed
<1>8. CASE RunLock(t, i)
  <2>1. PICK x : Executed(t, i, [opens |-> x])
    BY <1>8 DEF RunLock
  <2>2. DOMAIN [opens |-> x] = {"opens"}
    OBVIOUS
  <2> QED
    BY <1>2, <2>1, <2>2 DEF observed
<1>9. CASE RunUnlock(t, i)
  <2>1. PICK h \in held[t] : Executed(t, i, [closes |-> h])
    BY <1>9 DEF RunUnlock
  <2> DEFINE r == [closes |-> h]
  <2>2. DOMAIN r = {"closes"} /\ r.closes = h /\ Executed(t, i, r)
    BY <2>1
  <2> HIDE DEF r
  <2> QED
    BY <1>2, <1>9, <2>1, <2>2 DEF observed
<1> QED
  BY <1>4, <1>5, <1>6, <1>7, <1>8, <1>9 DEF RunInst

\* What does not change with the program, the graph and the regions.
LEMMA UnchangedRegions ==
    ASSUME UNCHANGED <<program, graph, region>>
    PROVE  /\ \A j, k : InterferenceDependent(j, k)' = InterferenceDependent(j, k)
           /\ \A n, F : InFront(n, F)' = InFront(n, F)
<1>1. \A j, k : InterferenceDependent(j, k)' = InterferenceDependent(j, k)
  <2>1. \A f : InstsOf(f)' = InstsOf(f)
    BY DEF InstsOf, IsArtificial
  <2>2. \A s : Loads(s)' = Loads(s) /\ Stores(s)' = Stores(s)
    BY DEF Loads, Stores
  <2>3. \A j, k : MayInterfere(j, k)' = MayInterfere(j, k)
    BY DEF MayInterfere, PointsToUnknown
  <2>4. \A p : ParallelRegions(p)' = ParallelRegions(p)
    BY DEF ParallelRegions
  <2> QED
    BY <2>1, <2>2, <2>3, <2>4 DEF InterferenceDependent
<1>2. \A n, F : InFront(n, F)' = InFront(n, F)
  <2> SUFFICES ASSUME NEW n, NEW F  PROVE InFront(n, F)' = InFront(n, F)
    OBVIOUS
  <2>1. InRegion(F)' = InRegion(F) /\ \A m : WithinRegion(m, F)' = WithinRegion(m, F)
    BY DEF InRegion, WithinRegion
  <2> DEFINE R == [m \in InRegion(F) |-> WithinRegion(m, F)]
             S == UNION {WithinRegion(m, F) : m \in {k \in InRegion(F) : ~ IsArtificial(k)}}
  <2>2. R' = R
    BY <2>1
  <2>3. S' = S
    BY <2>1 DEF IsArtificial
  <2>4. InFront(n, F) = (n \in Reachable(R, S)) /\ InFront(n, F)' = (n \in Reachable(R', S'))
    BY DEF InFront
  <2> HIDE DEF R, S
  <2> QED
    BY <2>2, <2>3, <2>4
<1> QED
  BY <1>1, <1>2

\* A load that is executed depends on the store whose value it reads.
LEMMA InterferenceStep ==
    ASSUME Static, ThreadsInv, MemoryInv, UNCHANGED vars,
           NEW t \in Thread, at[t] \in Places, NEW i, i = InstAt(at[t]), RunInst(t, i)
    PROVE  InterferenceFound'
<1>1. UNCHANGED <<program, graph, region>> /\ i \in Inst /\ program \in Programs
  BY PlaceFacts DEF vars, Static
<1>2. \A j, k : InterferenceDependent(j, k)' = InterferenceDependent(j, k)
  BY <1>1, UnchangedRegions
<1> SUFFICES ASSUME Observed("reads")', event'.reads # None, event'.reads.byte = event'.byte
             PROVE  InterferenceDependent(event.inst, event.reads.inst)'
  BY DEF InterferenceFound
<1>3. event'.inst = i
  BY EventOf
<1>4. program.inst[i].op = "load"
      /\ \E a \in Targets(i) : event'.reads = memory[a[1]][a[2]] /\ event'.byte = a[2]
  BY WhatIsObserved
<1>5. PICK a \in Targets(i) : event'.reads = memory[a[1]][a[2]] /\ event'.byte = a[2]
  BY <1>4
<1>6. /\ a[1] \in Object /\ a[2] \in 0 .. Size - 1
      /\ \E p \in program.inst[i].pts : p.obj \in {a[1], "unknown"} /\ p.off \in {a[2], Top}
  BY DEF Targets
<1> DEFINE m == event'.reads
           j == m.inst
<1>7. StoredBy(m, a[1])
  BY <1>5, <1>6 DEF MemoryInv
<1>8. m.byte = a[2]
  BY <1>5
<1> HIDE DEF m
<1>9. MayInterfere(i, j)
  BY <1>6, <1>7, <1>8 DEF StoredBy, MayInterfere, PointsToUnknown
<1>10. \A k \in Inst : InstFirst(k) \in DOMAIN region => k \in InstsOf(region[InstFirst(k)])
  <2> SUFFICES ASSUME NEW k \in Inst, InstFirst(k) \in DOMAIN region
               PROVE  k \in InstsOf(region[InstFirst(k)])
    OBVIOUS
  <2>1. ~ IsArtificial(InstFirst(k)) /\ InstFirst(k)[2] = k
    <3>1. \E x : InstFirst(k) = <<x, k, Own>>
      BY <1>1, NodeTypes
    <3> QED
      BY <1>1, <3>1, Artificial
  <2> QED
    BY <2>1 DEF InstsOf
<1>11. InstFirst(i) \in DOMAIN region /\ InstFirst(j) \in DOMAIN region /\ j \in Inst
  BY <1>7 DEF ThreadsInv, ThreadInv, InRegions, StoredBy
<1>12. i \in Loads(InstsOf(region[InstFirst(i)])) /\ j \in Stores(InstsOf(region[InstFirst(j)]))
  BY <1>1, <1>4, <1>7, <1>10, <1>11 DEF Loads, Stores, StoredBy
<1>13. InterferenceDependent(i, j)
  BY <1>9, <1>11, <1>12 DEF InterferenceDependent, ParallelRegions
<1> QED
  BY <1>2, <1>3, <1>13 DEF m

-----------------------------------------------------------------------------
(* Regions run as a whole.                                                   *)

\* What is in front of a node of a region are nodes of the region that do not found it, each
\* with one predecessor: an instruction, or another that has one in front of it.
LEMMA InFrontOf ==
    ASSUME Static, Founded, NEW F, NEW n, InFront(n, F)
    PROVE  /\ n \in DOMAIN region /\ region[n] = F
           /\ \E m \in DOMAIN region : Follows(n, m) /\ (~ IsArtificial(m) \/ InFront(m, F))
<1> DEFINE R == [m \in InRegion(F) |-> WithinRegion(m, F)]
           S == UNION {WithinRegion(m, F) : m \in {k \in InRegion(F) : ~ IsArtificial(k)}}
           C == {x \in InRegion(F) :
                    \E m \in DOMAIN region : Follows(x, m) /\ (~ IsArtificial(m) \/ InFront(m, F))}
<1>1. InRegion(F) \subseteq DOMAIN region /\ DOMAIN region \subseteq DOMAIN graph
      /\ \A x \in InRegion(F) : region[x] = F
  BY DEF InRegion, Founded
<1>2. \A x : InFront(x, F) <=> x \in Reachable(R, S)
  BY DEF InFront
<1>3. IsGraph(R) /\ DOMAIN R = InRegion(F)
  <2>1. IsFiniteSet(InRegion(F))
    BY <1>1, GraphFinite, FS_Subset DEF IsGraph
  <2>2. \A m : WithinRegion(m, F) \subseteq InRegion(F)
    BY DEF WithinRegion
  <2> QED
    BY <2>1, <2>2 DEF IsGraph
<1>4. \A x : x \in S <=> \E m \in InRegion(F) : ~ IsArtificial(m) /\ x \in WithinRegion(m, F)
  BY Zenon
<1>5. S \in SUBSET DOMAIN R
  BY <1>3, <1>4 DEF WithinRegion
<1> HIDE DEF S
<1>6. ASSUME NEW m \in InRegion(F), NEW x \in WithinRegion(m, F), ~ IsArtificial(m) \/ InFront(m, F)
      PROVE  x \in C
  <2>1. x \in graph[m] /\ x \in InRegion(F) /\ region[x] # x
    BY <1>1, <1>6 DEF WithinRegion
  <2>2. PICK k \in DOMAIN region : Follows(x, k)
    BY <1>1, <2>1 DEF Founded
  <2>3. m \in Predecessors(x)
    BY <1>1, <2>1 DEF Predecessors, Pred
  <2>4. k = m
    BY <2>2, <2>3 DEF Follows
  <2> QED
    BY <1>6, <2>1, <2>2, <2>4
<1>7. S \subseteq C
  BY <1>4, <1>6
<1>8. \A m \in Reachable(R, S) \cap C : R[m] \subseteq C
  <2> SUFFICES ASSUME NEW m \in InRegion(F), InFront(m, F), NEW x \in R[m]  PROVE x \in C
    BY <1>2
  <2>1. x \in WithinRegion(m, F)
    OBVIOUS
  <2> HIDE DEF C
  <2> QED
    BY <1>6, <2>1
<1> HIDE DEF R, C
<1>9. Reachable(R, S) \subseteq C
  BY <1>3, <1>5, <1>7, <1>8, ReachableLeast
<1>10. n \in C
  BY <1>2, <1>9
<1> QED
  BY <1>1, <1>10 DEF C

\* So every edge to it comes from such a node.
LEMMA ComesFrom ==
    ASSUME Static, Founded, NEW F, NEW n, InFront(n, F), NEW a \in DOMAIN graph, n \in graph[a]
    PROVE  /\ a \in DOMAIN region /\ region[a] = F /\ (IsArtificial(a) => InFront(a, F))
           /\ a[1] \notin {"EXIT", "FORK"} /\ n[1] \notin {"ENTRY", "JOIN"}
<1>1. PICK m \in DOMAIN region : Follows(n, m) /\ (~ IsArtificial(m) \/ InFront(m, F))
  BY InFrontOf
<1>2. a \in Predecessors(n)
  BY DEF Predecessors, Pred
<1>3. a = m
  BY <1>1, <1>2 DEF Follows
<1>4. region[n] = F
  BY InFrontOf
<1> QED
  BY <1>1, <1>3, <1>4 DEF Follows

\* An instruction that has one of its region in front of it comes right after one.
LEMMA ComesAfter ==
    ASSUME Static, Founded, NEW p \in Places, NEW last, Came(p, last),
           NEW F, InFront(InstFirst(InstAt(p)), F)
    PROVE  last # None /\ region[InstFirst(last)] = F
<1> DEFINE n == InstFirst(InstAt(p))
<1>1. \A x, y : y \in graph[x] /\ x \in DOMAIN graph /\ InFront(y, F) =>
         region[x] = F /\ (IsArtificial(x) => InFront(x, F))
  BY ComesFrom
<1>2. ASSUME NEW f \in BuiltFunctions, p = Start(f)  PROVE FALSE
  <2>1. <<Entry(f), n>> \in Edges
    BY <1>2, EntryEdge DEF Static
  <2>2. Entry(f) \in DOMAIN graph /\ n \in graph[Entry(f)]
    BY <2>1, EdgeInGraph
  <2>3. Defined(f)
    BY BuiltClosed DEF Defined, Static
  <2>4. IsArtificial(Entry(f))
    BY <2>3, Artificial DEF Static
  <2> HIDE DEF n
  <2>5. InFront(Entry(f), F)
    BY <1>1, <2>2, <2>4 DEF n
  <2>6. PICK m \in DOMAIN region : Follows(Entry(f), m)
    BY <2>5, InFrontOf
  <2> QED
    BY <2>6 DEF Follows, Entry
<1>3. ASSUME NEW q \in Places, InstAt(q) = last, Way(q, n)
      PROVE  region[InstFirst(last)] = F
  <2> DEFINE k == InstFirst(last)
  <2>1. k \in DOMAIN graph
    BY <1>3, NodesOfPlaces
  <2>2. \A a \in Passing(q) : a \in DOMAIN graph /\ IsArtificial(a)
    BY DEF Passing
  <2>3. \/ n \in graph[k]
        \/ \E a \in graph[k] \cap Passing(q) :
              \/ n \in graph[a]
              \/ \E b \in graph[a] \cap Passing(q) : n \in graph[b]
    BY <1>3 DEF Way
  <2>4. InFront(n, F)
    OBVIOUS
  <2> HIDE DEF k, n
  <2>5. region[k] = F
    BY <1>1, <2>1, <2>2, <2>3, <2>4
  <2> QED
    BY <2>5 DEF k
<1> QED
  BY <1>2, <1>3 DEF Came

\* Where a thread goes on after it has created one nothing is in front.
LEMMA NothingBeforeFork ==
    ASSUME Static, Founded, NEW q \in Places, NEW i, i = InstAt(q), IsCall(i),
           "pthread_create" \in Functions(i), NEW p \in After(q), NEW F
    PROVE  ~ InFront(InstFirst(InstAt(p)), F)
<1> DEFINE n == InstFirst(InstAt(p))
           c == CallNode(i, "pthread_create")
<1>1. program \in Programs /\ i \in Inst /\ ~ Defined("pthread_create")
  BY PlaceFacts, LibraryFunctions DEF Static, Library
<1>2. c[1] = "FORK"
  <2>1. TypeOfCall("pthread_create") = "FORK"
    BY DEF TypeOfCall
  <2> QED
    BY <1>1, <2>1, NodeTypes
<1>3. <<InstLast(i), n>> \in Edges
  BY <1>1, GoesOnWay
<1>4. CalleeLast(i, "pthread_create") = c
  BY <1>1, LastNodes
<1>5. InstLast(i) = c \/ (<<c, InstLast(i)>> \in Edges /\ IsArtificial(InstLast(i)))
  BY <1>4, CalleeEdges
<1>6. \A x, y : <<x, y>> \in Edges => x \in DOMAIN graph /\ y \in graph[x]
  BY EdgeInGraph
<1> HIDE DEF n, c
<1>7. \A x, y : <<x, y>> \in Edges /\ InFront(y, F) =>
         x[1] # "FORK" /\ (IsArtificial(x) => InFront(x, F))
  BY <1>6, ComesFrom
<1>8. ~ InFront(n, F)
  BY <1>2, <1>3, <1>5, <1>7
<1> QED
  BY <1>8 DEF n

\* The step: regions run as a whole.
LEMMA RegionsStep ==
    ASSUME Static, Founded, ThreadsInv, UNCHANGED vars,
           NEW t \in Thread, at[t] \in Places, NEW i, i = InstAt(at[t]), RunInst(t, i)
    PROVE  RegionsRunWhole'
<1>1. UNCHANGED <<program, graph, region>> /\ i \in Inst /\ program \in Programs
  BY PlaceFacts DEF vars, Static
<1>2. /\ \A p : InstAt(p)' = InstAt(p)
      /\ \A j, g : InstFirst(j)' = InstFirst(j) /\ CallNode(j, g)' = CallNode(j, g)
  BY <1>1, UnchangedPlaces
<1>3. \A n, F : InFront(n, F)' = InFront(n, F)
  BY <1>1, UnchangedRegions
<1>4. event'.thread = t /\ event'.inst = i /\ event'.before = event.last[t]
  BY EventOf
<1>5. InRegions(at[t]) /\ Came(at[t], event.last[t])
  BY DEF ThreadsInv, ThreadInv
<1>6. \/ event.last[t] # None /\ region[InstFirst(event.last[t])] = region[InstFirst(i)]
      \/ ~ InFront(InstFirst(i), region[InstFirst(i)])
  BY <1>5, ComesAfter
<1>7. ASSUME Observed("creates")'
      PROVE  \A F : ~ InFront(InstFirst(InstAt(at'[t])), F)
  <2>1. RunCreate(t, i)
    BY <1>7, WhatIsObserved
  <2>2. IsCall(i) /\ "pthread_create" \in Functions(i)
    BY <2>1 DEF RunCreate
  <2>3. PICK u \in Thread, h \in Started(i), p \in After(at[t]) :
           at[u] = NotStarted /\ at' = [at EXCEPT ![t] = p, ![u] = Start(h)]
    BY <2>1 DEF RunCreate
  <2>4. u # t
    BY <1>1, <2>3, Standings
  <2>5. at'[t] = p
    BY <2>3, <2>4 DEF ThreadsInv
  <2> QED
    BY <2>2, <2>3, <2>5, NothingBeforeFork
<1>8. ASSUME Observed("joins")'
      PROVE  \A F : ~ InFront(CallNode(i, "pthread_join"), F)
  <2>1. TypeOfCall("pthread_join") = "JOIN"
    BY DEF TypeOfCall
  <2>2. CallNode(i, "pthread_join")[1] = "JOIN"
    BY <1>1, <2>1, NodeTypes
  <2> QED
    BY <2>2, InFrontOf DEF Follows
<1>9. NodeOf(event.inst)' = InstFirst(i) /\ NodeOf(event.before)' = InstFirst(event.last[t])
  BY <1>2, <1>4 DEF NodeOf
<1>10. NextInst(event.thread)' = InstAt(at'[t])
  BY <1>1, <1>4 DEF NextInst, InstAt
<1>11. NodeOf(NextInst(event.thread))' = InstFirst(InstAt(at'[t]))
  BY <1>2, <1>10 DEF NodeOf
<1>12. CallNode(event.inst, "pthread_join")' = CallNode(i, "pthread_join")
  BY <1>2, <1>4
<1> QED
  BY <1>1, <1>3, <1>4, <1>5, <1>6, <1>7, <1>8, <1>9, <1>11, <1>12 DEF RegionsRunWhole, InRegions

-----------------------------------------------------------------------------
(* Critical sections. Whatever node of T one comes to, one stays in T until  *)
(* u, if the nodes of T have one successor.                                  *)

LockNode(l) == CallNode(l, "pthread_mutex_lock")
Carries(T, u) == \A m \in T : m = u \/ graph[m] = {} \/ graph[m] \cap T # {}

\* What has been visited, and what the search from lock node l has found of unlock u.
Visited == OnStack \cup examined
Found(l, u) ==
    IF u \in unlocks THEN \A n \in Visited : graph[n] \subseteq Visited \cup Ahead(n)
    ELSE \E T \in SUBSET Visited : l \in T /\ Carries(T, u)

Chained ==
    /\ \A k \in DOMAIN stack : stack[k][2] \subseteq graph[stack[k][1]]
    /\ \A j, k \in DOMAIN stack : k = j + 1 => stack[k][1] \in graph[stack[j][1]]
Sectioned ==
    \A l \in DOMAIN section : \A u \in CorrespondingUnlocks(l) :
       \E T \in SUBSET (section[l] \cup {LockNode(l)}) : LockNode(l) \in T /\ Carries(T, u)

SectionsInv ==
    /\ Sectioned
    /\ phase # "sections" => {l[2] : l \in Locks} \subseteq DOMAIN section
    /\ phase = "sections" /\ stack # <<>> =>
          Chained /\ \A u \in CorrespondingUnlocks(stack[1][1][2]) : Found(stack[1][1], u)

\* The search visits a successor, or passes it.
LEMMA VisitsSection ==
    ASSUME Static, SearchInv, SectionsInv, VisitInSection
    PROVE  SectionsInv'
<1> DEFINE N == Len(stack)
<1>0. PICK c, l : c = Current[1] /\ l = stack[1][1]
  OBVIOUS
<1>1. /\ phase = "sections" /\ stack # <<>>
      /\ UNCHANGED <<program, graph, phase, examined, section, region>>
  BY DEF VisitInSection
<1>2. PICK s \in Current[2] :
         IF s \in Visited
           THEN stack' = Taken(s) /\ UNCHANGED unlocks
           ELSE /\ unlocks' = unlocks \ {s}
                /\ stack' = Append(Taken(s), <<s, IF unlocks' = {} THEN {} ELSE graph[s]>>)
  BY DEF VisitInSection, Visited
<1>3. PICK todo : todo = IF unlocks' = {} THEN {} ELSE graph[s]
  OBVIOUS
<1>4. /\ stack \in Seq(Entries) /\ N \in Nat \ {0} /\ N \in DOMAIN stack /\ 1 \in DOMAIN stack
      /\ DOMAIN stack = 1 .. N /\ Current = stack[N] /\ Current \in Entries
  BY <1>1, Popping, LenProperties DEF SearchInv
<1>5. s \in graph[c] /\ Current[2] \subseteq graph[c]
  BY <1>0, <1>1, <1>2, <1>4 DEF SectionsInv, Chained
<1>6. <<c, Current[2] \ {s}>> \in Entries /\ <<s, todo>> \in Entries
  <2>1. c \in DOMAIN graph /\ Current[2] \in SUBSET (DOMAIN graph) /\ s \in DOMAIN graph
    BY <1>0, <1>2, <1>4 DEF Entries
  <2>2. todo \in SUBSET (DOMAIN graph)
    BY <1>3, <2>1, GraphHasEdges
  <2> QED
    BY <2>1, <2>2, Pair DEF Entries
<1>7. /\ Taken(s) \in Seq(Entries) /\ Len(Taken(s)) = N
      /\ \A k \in 1 .. N : Taken(s)[k] = IF k = N THEN <<c, Current[2] \ {s}>> ELSE stack[k]
      /\ Append(Taken(s), <<s, todo>>) \in Seq(Entries)
      /\ Len(Append(Taken(s), <<s, todo>>)) = N + 1
      /\ \A k \in 1 .. N : Append(Taken(s), <<s, todo>>)[k] = Taken(s)[k]
      /\ Append(Taken(s), <<s, todo>>)[N + 1] = <<s, todo>>
  <2> DEFINE x == <<s, todo>>
  <2>1. x \in Entries /\ <<Current[1], Current[2] \ {s}>> \in Entries
    BY <1>0, <1>6
  <2> HIDE DEF x
  <2>2. /\ Taken(s) \in Seq(Entries) /\ Len(Taken(s)) = Len(stack)
        /\ \A k \in 1 .. Len(stack) :
              Taken(s)[k] = IF k = Len(stack) THEN <<Current[1], Current[2] \ {s}>> ELSE stack[k]
        /\ Append(Taken(s), x) \in Seq(Entries) /\ Len(Append(Taken(s), x)) = Len(stack) + 1
        /\ \A k \in 1 .. Len(stack) : Append(Taken(s), x)[k] = Taken(s)[k]
        /\ Append(Taken(s), x)[Len(stack) + 1] = x
    <3>1. stack \in Seq(Entries)
      BY <1>4
    <3> QED
      BY <1>1, <2>1, <3>1, Pushing
  <2> QED
    BY <1>0, <2>2 DEF x
<1>8. \A k \in 1 .. N : /\ Taken(s)[k][1] = stack[k][1]
                        /\ Taken(s)[k][2] \subseteq stack[k][2] /\ stack[k][2] \ {s} \subseteq Taken(s)[k][2]
  <2>1. \A k \in 1 .. N : k # N => Taken(s)[k] = stack[k]
    BY <1>7
  <2>2. Taken(s)[N][1] = c /\ Taken(s)[N][2] = Current[2] \ {s}
    <3>1. N \in 1 .. N
      BY <1>4
    <3>2. Taken(s)[N] = <<c, Current[2] \ {s}>>
      BY <1>7, <3>1
    <3> QED
      BY <3>2
  <2> QED
    BY <1>0, <1>4, <2>1, <2>2
<1>9. \A i : CorrespondingUnlocks(i)' = CorrespondingUnlocks(i) /\ LockNode(i)' = LockNode(i)
  BY <1>1, UnchangedProgram DEF LockNode
<1>10. \A T, u : Carries(T, u)' = Carries(T, u)
  BY <1>1 DEF Carries
<1>11. Sectioned'
  BY <1>1, <1>9, <1>10 DEF Sectioned, SectionsInv
<1>12. \A k \in DOMAIN stack : stack[k][2] \subseteq graph[stack[k][1]]
  BY <1>1 DEF SectionsInv, Chained
<1>13. \A j, k \in DOMAIN stack : k = j + 1 => stack[k][1] \in graph[stack[j][1]]
  BY <1>1 DEF SectionsInv, Chained
<1>14. \A u \in CorrespondingUnlocks(l[2]) : Found(l, u)
  BY <1>0, <1>1 DEF SectionsInv
<1> HIDE DEF N
<1>15. CASE s \in Visited
  <2>1. stack' = Taken(s) /\ unlocks' = unlocks
    BY <1>2, <1>15
  <2>2. DOMAIN stack' = 1 .. N
    BY <1>7, <2>1, LenProperties
  <2>3. Visited' = Visited
    BY <1>1, <1>4, <1>8, <2>1, <2>2 DEF Visited, OnStack
  <2>4. \A n : Ahead(n) \subseteq Ahead(n)' \cup {s}
    <3> SUFFICES ASSUME NEW n, NEW k \in DOMAIN stack, stack[k][1] = n, NEW x \in stack[k][2], x # s
                 PROVE  \E j \in DOMAIN stack' : stack'[j][1] = n /\ x \in stack'[j][2]
      BY DEF Ahead
    <3> QED
      BY <1>4, <1>8, <2>1, <2>2
  <2>5. Chained'
    <3>1. \A k \in DOMAIN stack' : stack'[k][2] \subseteq graph'[stack'[k][1]]
      BY <1>1, <1>4, <1>8, <1>12, <2>1, <2>2
    <3>2. \A j, k \in DOMAIN stack' : k = j + 1 => stack'[k][1] \in graph'[stack'[j][1]]
      BY <1>1, <1>4, <1>8, <1>13, <2>1, <2>2
    <3> QED
      BY <3>1, <3>2 DEF Chained
  <2>6. stack'[1][1] = l
    BY <1>0, <1>4, <1>8, <2>1
  <2>7. ASSUME NEW u \in CorrespondingUnlocks(l[2])  PROVE Found(l, u)'
    <3>1. Found(l, u)
      BY <1>14
    <3>2. CASE u \in unlocks
      <4>1. \A n \in Visited : graph[n] \subseteq Visited \cup Ahead(n)
        BY <3>1, <3>2 DEF Found
      <4>2. \A n \in Visited : graph[n] \subseteq Visited \cup Ahead(n)'
        BY <1>15, <2>4, <4>1
      <4> QED
        BY <1>1, <2>1, <2>3, <3>2, <4>2 DEF Found
    <3>3. CASE u \notin unlocks
      BY <1>10, <2>1, <2>3, <3>1, <3>3 DEF Found
    <3> QED
      BY <3>2, <3>3
  <2>8. \A u \in CorrespondingUnlocks(stack[1][1][2])' : Found(stack[1][1], u)'
    BY <1>9, <2>6, <2>7
  <2> QED
    BY <1>1, <1>11, <2>5, <2>8 DEF SectionsInv
<1>16. CASE s \notin Visited
  <2>1. unlocks' = unlocks \ {s} /\ stack' = Append(Taken(s), <<s, todo>>)
    BY <1>2, <1>3, <1>16
  <2>2. /\ DOMAIN stack' = 1 .. N + 1 /\ stack'[N + 1] = <<s, todo>>
        /\ \A k \in 1 .. N : /\ stack'[k][1] = stack[k][1] /\ stack'[k][2] \subseteq stack[k][2]
                             /\ stack[k][2] \ {s} \subseteq stack'[k][2]
    BY <1>4, <1>7, <1>8, <2>1, LenProperties
  <2>3. \A k \in DOMAIN stack' : k \in DOMAIN stack \/ k = N + 1
    BY <1>4, <2>2
  <2>4. \A k \in DOMAIN stack : k \in DOMAIN stack' /\ k # N + 1
    BY <1>4, <2>2
  <2>5. N + 1 \in DOMAIN stack' /\ stack'[N + 1][1] = s /\ stack'[N + 1][2] = todo
    BY <1>4, <2>2
  <2>6. OnStack' = OnStack \cup {s} /\ Visited' = Visited \cup {s}
    <3>1. OnStack' = OnStack \cup {s}
      BY <1>4, <2>2, <2>3, <2>4, <2>5 DEF OnStack
    <3> QED
      BY <1>1, <3>1 DEF Visited
  <2>7. \A n : Ahead(n) \subseteq Ahead(n)' \cup {s}
    <3> SUFFICES ASSUME NEW n, NEW k \in DOMAIN stack, stack[k][1] = n, NEW x \in stack[k][2], x # s
                 PROVE  \E j \in DOMAIN stack' : stack'[j][1] = n /\ x \in stack'[j][2]
      BY DEF Ahead
    <3> QED
      BY <1>4, <2>2, <2>4
  <2>8. todo \subseteq Ahead(s)'
    BY <2>5 DEF Ahead
  <2>9. todo \subseteq graph[s]
    BY <1>3
  <2>10. \A j \in DOMAIN stack' : j + 1 \in DOMAIN stack' => stack'[j + 1][1] \in graph[stack'[j][1]]
    <3> SUFFICES ASSUME NEW j \in DOMAIN stack', j + 1 \in DOMAIN stack'
                 PROVE  stack'[j + 1][1] \in graph[stack'[j][1]]
      OBVIOUS
    <3>1. j \in 1 .. N
      BY <1>4, <2>2
    <3>2. CASE j = N
      BY <1>0, <1>4, <1>5, <2>2, <2>5, <3>1, <3>2
    <3>3. CASE j # N
      <4>1. j + 1 \in 1 .. N
        BY <1>4, <3>1, <3>3
      <4> QED
        BY <1>4, <1>13, <2>2, <3>1, <4>1
    <3> QED
      BY <3>2, <3>3
  <2>11. Chained'
    <3>1. \A k \in DOMAIN stack' : stack'[k][2] \subseteq graph'[stack'[k][1]]
      BY <1>1, <1>4, <1>12, <2>2, <2>3, <2>5, <2>9
    <3>2. \A j, k \in DOMAIN stack' : k = j + 1 => stack'[k][1] \in graph'[stack'[j][1]]
      BY <1>1, <2>10
    <3> QED
      BY <3>1, <3>2 DEF Chained
  <2>12. stack'[1][1] = l
    BY <1>0, <1>4, <2>2
  <2>13. ASSUME NEW u \in CorrespondingUnlocks(l[2])  PROVE Found(l, u)'
    <3>1. Found(l, u)
      BY <1>14
    <3>2. CASE u \in unlocks /\ u # s
      <4>1. \A n \in Visited : graph[n] \subseteq Visited \cup Ahead(n)
        BY <3>1, <3>2 DEF Found
      <4>2. u \in unlocks' /\ todo = graph[s]
        BY <1>3, <2>1, <3>2
      <4>3. \A n \in Visited' : graph[n] \subseteq Visited' \cup Ahead(n)'
        BY <2>6, <2>7, <2>8, <4>1, <4>2
      <4> QED
        BY <1>1, <4>2, <4>3 DEF Found
    <3>3. CASE u \notin unlocks
      <4>1. \E T \in SUBSET Visited : l \in T /\ Carries(T, u)
        BY <3>1, <3>3 DEF Found
      <4>2. u \notin unlocks'
        BY <2>1, <3>3
      <4> QED
        BY <1>10, <2>6, <4>1, <4>2 DEF Found
    <3>4. CASE u = s
      <4> DEFINE T == OnStack \cup {s}
      <4>1. T \in SUBSET Visited'
        BY <2>6 DEF Visited
      <4>2. l \in T
        BY <1>0, <1>4 DEF OnStack
      <4>3. ASSUME NEW m \in T, m # s  PROVE graph[m] \cap T # {}
        <5>1. PICK k \in DOMAIN stack : m = stack[k][1]
          BY <4>3 DEF OnStack
        <5>2. k \in DOMAIN stack' /\ k + 1 \in DOMAIN stack' /\ stack'[k][1] = m
          BY <1>4, <2>2, <5>1
        <5>3. stack'[k + 1][1] \in graph[m] /\ stack'[k + 1][1] \in T
          BY <2>6, <2>10, <5>2 DEF OnStack
        <5> QED
          BY <5>3
      <4>4. Carries(T, u)
        BY <3>4, <4>3 DEF Carries
      <4>5. u \notin unlocks'
        BY <2>1, <3>4
      <4> HIDE DEF T
      <4> QED
        BY <1>10, <4>1, <4>2, <4>4, <4>5 DEF Found
    <3> QED
      BY <3>2, <3>3, <3>4
  <2>14. \A u \in CorrespondingUnlocks(stack[1][1][2])' : Found(stack[1][1], u)'
    BY <1>9, <2>12, <2>13
  <2> QED
    BY <1>1, <1>11, <2>11, <2>14 DEF SectionsInv
<1> QED
  BY <1>15, <1>16


\* The search begins at a lock.
LEMMA BuildsSection ==
    ASSUME Static, SectionsInv, BuildCriticalSection
    PROVE  SectionsInv'
<1>1. /\ phase = "sections" /\ stack = <<>> /\ examined' = {}
      /\ UNCHANGED <<program, graph, phase, section, region>>
  BY DEF BuildCriticalSection
<1>2. PICK l \in Locks :
         /\ unlocks' = CorrespondingUnlocks(l[2])
         /\ stack' = << <<l, IF unlocks' = {} THEN {} ELSE graph[l]>> >>
  BY DEF BuildCriticalSection
<1>3. PICK todo : todo = IF unlocks' = {} THEN {} ELSE graph[l]
  OBVIOUS
<1>4. DOMAIN stack' = {1} /\ stack'[1][1] = l /\ stack'[1][2] = todo /\ todo \subseteq graph[l]
  BY <1>2, <1>3
<1>5. \A i : CorrespondingUnlocks(i)' = CorrespondingUnlocks(i) /\ LockNode(i)' = LockNode(i)
  BY <1>1, UnchangedProgram DEF LockNode
<1>6. \A T, u : Carries(T, u)' = Carries(T, u)
  BY <1>1 DEF Carries
<1>7. Sectioned'
  BY <1>1, <1>5, <1>6 DEF Sectioned, SectionsInv
<1>8. Chained'
  <2>1. \A k \in DOMAIN stack' : stack'[k][2] \subseteq graph'[stack'[k][1]]
    BY <1>1, <1>4
  <2>2. \A j, k \in DOMAIN stack' : k = j + 1 => stack'[k][1] \in graph'[stack'[j][1]]
    BY <1>4
  <2> QED
    BY <2>1, <2>2 DEF Chained
<1>9. Visited' = {l} /\ todo \subseteq Ahead(l)'
  BY <1>1, <1>4 DEF Visited, OnStack, Ahead
<1>10. ASSUME NEW u \in CorrespondingUnlocks(l[2])  PROVE Found(l, u)'
  <2>1. u \in unlocks' /\ todo = graph[l]
    BY <1>2, <1>3
  <2> QED
    BY <1>1, <1>9, <2>1 DEF Found
<1>11. \A u \in CorrespondingUnlocks(stack[1][1][2])' : Found(stack[1][1], u)'
  BY <1>4, <1>5, <1>10
<1> QED
  BY <1>1, <1>7, <1>8, <1>11 DEF SectionsInv

\* The visit of a node is over; that of the lock ends the search.
LEMMA EndsVisit ==
    ASSUME Static, SearchInv, SectionsInv, PostVisit
    PROVE  SectionsInv'
<1>0. PICK c, l : c = Current[1] /\ l = stack[1][1]
  OBVIOUS
<1>1. /\ phase = "sections" /\ stack # <<>> /\ Current[2] = {} /\ stack' = Popped
      /\ UNCHANGED <<program, graph, phase, unlocks, region>>
      /\ examined' = IF Len(stack) > 1 THEN examined \cup {c} ELSE {}
      /\ section' = IF Len(stack) > 1 THEN section
                    ELSE [i \in DOMAIN section \cup {c[2]} |-> IF i = c[2] THEN examined ELSE section[i]]
  BY <1>0 DEF PostVisit
<1>2. PICK N : N = Len(stack)
  OBVIOUS
<1>3. /\ stack \in Seq(Entries) /\ N \in Nat \ {0} /\ DOMAIN stack = 1 .. N /\ 1 \in DOMAIN stack
      /\ N \in DOMAIN stack /\ Current = stack[N] /\ l \in Locks
      /\ Popped \in Seq(Entries) /\ Len(Popped) = N - 1
      /\ \A k \in 1 .. N - 1 : Popped[k] = stack[k]
  BY <1>0, <1>1, <1>2, Popping, LenProperties DEF SearchInv
<1>4. DOMAIN stack' = 1 .. N - 1 /\ \A k \in 1 .. N - 1 : stack'[k] = stack[k]
  BY <1>1, <1>3, LenProperties
<1>5. \A i : CorrespondingUnlocks(i)' = CorrespondingUnlocks(i) /\ LockNode(i)' = LockNode(i)
  BY <1>1, UnchangedProgram DEF LockNode
<1>6. \A T, u : Carries(T, u)' = Carries(T, u)
  BY <1>1 DEF Carries
<1>7. /\ \A k \in DOMAIN stack : stack[k][2] \subseteq graph[stack[k][1]]
      /\ \A j, k \in DOMAIN stack : k = j + 1 => stack[k][1] \in graph[stack[j][1]]
      /\ \A u \in CorrespondingUnlocks(l[2]) : Found(l, u)
  BY <1>0, <1>1 DEF SectionsInv, Chained
<1>8. CASE N > 1
  <2>1. examined' = examined \cup {c} /\ section' = section /\ 1 \in 1 .. N - 1
    BY <1>1, <1>2, <1>3, <1>8
  <2>2. Visited' = Visited
    BY <1>0, <1>3, <1>4, <2>1 DEF Visited, OnStack
  <2>3. \A n : Ahead(n) \subseteq Ahead(n)'
    <3> SUFFICES ASSUME NEW n, NEW k \in DOMAIN stack, stack[k][1] = n, NEW x \in stack[k][2]
                 PROVE  \E j \in DOMAIN stack' : stack'[j][1] = n /\ x \in stack'[j][2]
      BY DEF Ahead
    <3>1. k # N
      BY <1>1, <1>3
    <3> QED
      BY <1>3, <1>4, <3>1
  <2>4. Chained'
    <3>1. \A k \in DOMAIN stack' : stack'[k][2] \subseteq graph'[stack'[k][1]]
      BY <1>1, <1>3, <1>4, <1>7
    <3>2. \A j, k \in DOMAIN stack' : k = j + 1 => stack'[k][1] \in graph'[stack'[j][1]]
      BY <1>1, <1>3, <1>4, <1>7
    <3> QED
      BY <3>1, <3>2 DEF Chained
  <2>5. Sectioned'
    BY <1>5, <1>6, <2>1 DEF Sectioned, SectionsInv
  <2>6. stack'[1][1] = l
    BY <1>0, <1>4, <2>1
  <2>7. ASSUME NEW u \in CorrespondingUnlocks(l[2])  PROVE Found(l, u)'
    <3>1. Found(l, u)
      BY <1>7
    <3>2. CASE u \in unlocks
      <4>1. \A n \in Visited : graph[n] \subseteq Visited \cup Ahead(n)'
        BY <2>3, <3>1, <3>2 DEF Found
      <4> QED
        BY <1>1, <2>2, <3>2, <4>1 DEF Found
    <3>3. CASE u \notin unlocks
      BY <1>1, <1>6, <2>2, <3>1, <3>3 DEF Found
    <3> QED
      BY <3>2, <3>3
  <2>8. \A u \in CorrespondingUnlocks(stack[1][1][2])' : Found(stack[1][1], u)'
    BY <1>5, <2>6, <2>7
  <2> QED
    BY <1>1, <2>4, <2>5, <2>8 DEF SectionsInv
<1>9. CASE ~ N > 1
  <2>1. N = 1 /\ c = l /\ stack[1][2] = {}
    BY <1>0, <1>1, <1>3, <1>9
  <2>2. stack' = <<>>
    <3> SUFFICES ASSUME stack' # <<>>  PROVE FALSE
      OBVIOUS
    <3>1. Len(Popped) \in Nat \ {0}
      BY <1>1, <1>3, EmptySeq
    <3>2. Len(Popped) = 0
      BY <1>3, <2>1
    <3> QED
      BY <3>1, <3>2
  <2>3. l = LockNode(l[2])
    <3>1. PICK i \in CallsOf("pthread_mutex_lock") : l = LockNode(i)
      BY <1>3 DEF Locks, LockNode
    <3>2. l[2] = i
      BY <3>1 DEF LockNode, CallNode
    <3> QED
      BY <3>1, <3>2
  <2>4. Visited = examined \cup {l}
    BY <1>0, <1>3, <2>1 DEF Visited, OnStack
  <2>5. \A n : Ahead(n) = {}
    BY <1>3, <2>1 DEF Ahead
  <2>6. ASSUME NEW u \in CorrespondingUnlocks(l[2])
        PROVE  \E T \in SUBSET (examined \cup {l}) : l \in T /\ Carries(T, u)
    <3>1. Found(l, u)
      BY <1>7
    <3>2. CASE u \in unlocks
      <4>1. \A n \in Visited : graph[n] \subseteq Visited
        BY <2>5, <3>1, <3>2 DEF Found
      <4>2. Carries(Visited, u)
        BY <4>1 DEF Carries
      <4> QED
        BY <2>4, <4>2
    <3>3. CASE u \notin unlocks
      BY <2>4, <3>1, <3>3 DEF Found
    <3> QED
      BY <3>2, <3>3
  <2>7. /\ DOMAIN section' = DOMAIN section \cup {l[2]} /\ section'[l[2]] = examined
        /\ \A i \in DOMAIN section : i # l[2] => section'[i] = section[i]
    BY <1>1, <1>2, <2>1
  <2>8. \A i \in DOMAIN section' : \A u \in CorrespondingUnlocks(i) :
           \E T \in SUBSET (section'[i] \cup {LockNode(i)}) : LockNode(i) \in T /\ Carries(T, u)
    <3>1. \A i \in DOMAIN section : \A u \in CorrespondingUnlocks(i) :
             \E T \in SUBSET (section[i] \cup {LockNode(i)}) : LockNode(i) \in T /\ Carries(T, u)
      BY DEF SectionsInv, Sectioned
    <3>2. \A u \in CorrespondingUnlocks(l[2]) :
             \E T \in SUBSET (section'[l[2]] \cup {LockNode(l[2])}) : LockNode(l[2]) \in T /\ Carries(T, u)
      BY <2>3, <2>6, <2>7
    <3> QED
      BY <2>7, <3>1, <3>2
  <2>9. Sectioned'
    BY <1>5, <1>6, <2>8 DEF Sectioned
  <2> QED
    BY <1>1, <2>2, <2>9 DEF SectionsInv
<1> QED
  BY <1>8, <1>9

\* All steps keep what has been found.
LEMMA SectionsKept ==
    ASSUME Static, SearchInv, SectionsInv, Next
    PROVE  SectionsInv'
<1>1. CASE StartRegions \/ VisitInRegion \/ Examine
  <2>1. /\ UNCHANGED <<program, graph, section>> /\ phase' # "sections"
        /\ {l[2] : l \in Locks} \subseteq DOMAIN section
    BY <1>1 DEF StartRegions, VisitInRegion, Examine, SectionsInv
  <2>2. \A i : CorrespondingUnlocks(i)' = CorrespondingUnlocks(i) /\ LockNode(i)' = LockNode(i)
    BY <2>1, UnchangedProgram DEF LockNode
  <2>3. \A T, u : Carries(T, u)' = Carries(T, u)
    BY <2>1 DEF Carries
  <2>4. Sectioned'
    BY <2>1, <2>2, <2>3 DEF Sectioned, SectionsInv
  <2>5. Locks' = Locks
    BY <2>1, UnchangedProgram
  <2> QED
    BY <2>1, <2>4, <2>5 DEF SectionsInv
<1> QED
  BY <1>1, BuildsSection, VisitsSection, EndsVisit DEF Next

-----------------------------------------------------------------------------
(* Joins.                                                                    *)

\* What does not change with the program and the sections.
LEMMA UnchangedDependences ==
    ASSUME UNCHANGED <<program, graph, section>>
    PROVE  /\ UNCHANGED <<ForkJoinDependences, CriticalSectionDependences>>
           /\ \A i, g : CallNode(i, g)' = CallNode(i, g)
<1>1. /\ \A i, g : CallNode(i, g)' = CallNode(i, g) /\ CallsOf(g)' = CallsOf(g)
      /\ \A i : InstFirst(i)' = InstFirst(i) /\ CorrespondingUnlocks(i)' = CorrespondingUnlocks(i)
      /\ BuiltInsts' = BuiltInsts
  BY UnchangedProgram
<1>2. \A j : CorrespondingForks(j)' = CorrespondingForks(j)
  BY <1>1 DEF CorrespondingForks, matchJoin
<1>3. ForkJoinDependences' = ForkJoinDependences
  <2>1. \A x : x \in ForkJoinDependences <=>
           \E j \in CallsOf("pthread_join") : x \in {<<j, i>> : i \in CorrespondingForks(j)}
    BY Zenon DEF ForkJoinDependences
  <2>2. \A x : x \in ForkJoinDependences' <=>
           \E j \in CallsOf("pthread_join")' : x \in {<<j, i>> : i \in CorrespondingForks(j)'}
    BY Zenon DEF ForkJoinDependences
  <2> QED
    BY <1>1, <1>2, <2>1, <2>2
<1>4. CriticalSectionDependences' = CriticalSectionDependences
  <2>1. \A x : x \in CriticalSectionDependences <=>
           \E l \in DOMAIN section :
              \/ \E n \in section[l] : ~ IsArtificial(n) /\ x = <<l, n[2]>>
              \/ \E u \in CorrespondingUnlocks(l) : x = <<u[2], l>>
    BY DEF CriticalSectionDependences
  <2>2. \A x : x \in CriticalSectionDependences' <=>
           \E l \in DOMAIN section' :
              \/ \E n \in section'[l] : ~ IsArtificial(n)' /\ x = <<l, n[2]>>
              \/ \E u \in CorrespondingUnlocks(l)' : x = <<u[2], l>>
    BY DEF CriticalSectionDependences
  <2>3. \A n : IsArtificial(n)' = IsArtificial(n)
    BY DEF IsArtificial
  <2> QED
    BY <1>1, <2>1, <2>2, <2>3
<1> QED
  BY <1>1, <1>3, <1>4

\* A thread that is joined is one that a fork of the join created.
LEMMA JoinsStep ==
    ASSUME Static, ThreadsInv, UNCHANGED vars,
           NEW t \in Thread, at[t] \in Places, NEW i, i = InstAt(at[t]), RunInst(t, i)
    PROVE  JoinsMatched'
<1>1. /\ UNCHANGED <<program, graph, section>> /\ program \in Programs
      /\ i \in Inst /\ i \in BuiltInsts
  BY PlaceFacts DEF vars, Static
<1>2. /\ UNCHANGED ForkJoinDependences /\ \A g : CallNode(i, g)' = CallNode(i, g)
      /\ \A f : Exit(f)' = Exit(f)
  BY <1>1, UnchangedDependences DEF Exit
<1>3. event'.inst = i
  BY EventOf
<1> SUFFICES ASSUME Observed("joins")'
             PROVE  /\ CallNode(event.inst, "pthread_join")' \in graph'[Exit(event'.joins[2])]
                    /\ program'.inst[event'.joins[1]].direct
                          => <<event'.inst, event'.joins[1]>> \in ForkJoinDependences'
  BY DEF JoinsMatched, Exit
<1>4. RunJoin(t, i) /\ \E u \in Thread : /\ forked[u] # None /\ forked[u][1] \in program.inst[i].forks
                                         /\ event'.joins = forked[u]
  BY WhatIsObserved
<1>5. IsCall(i) /\ "pthread_join" \in Functions(i)
  BY <1>4 DEF RunJoin
<1>6. PICK j, h :
         /\ j \in BuiltInsts /\ h \in Started(j) /\ event'.joins = <<j, h>> /\ j \in program.inst[i].forks
         /\ IsCall(j) /\ "pthread_create" \in Functions(j)
  BY <1>4 DEF ThreadsInv, ThreadInv
<1>7. PICK p \in Places : j = InstAt(p)
  BY <1>1, <1>6, BuiltInPlaces
<1>8. j \in Inst /\ h \in BuiltFunctions
  BY <1>1, <1>6, <1>7, PlaceFacts, CalleeEdges
<1>9. h \in joinFunctions(i) /\ i \in CallsOf("pthread_join")
  BY <1>1, <1>5, <1>6, <1>8, CallFacts DEF CallsOf
<1>10. CallNode(i, "pthread_join") \in graph[Exit(h)]
  <2> DEFINE e == <<Exit(h), CallNode(i, "pthread_join")>>
  <2>1. \A x : x \in JoinEdges <=>
           \E k \in CallsOf("pthread_join") : \E g \in joinFunctions(k) \cap BuiltFunctions :
              x = <<Exit(g), CallNode(k, "pthread_join")>>
    BY DEF JoinEdges
  <2>2. e \in JoinEdges
    BY <1>8, <1>9, <2>1
  <2>3. e \in Edges
    BY <2>2 DEF Edges
  <2> QED
    BY <2>3, EdgeInGraph
<1>11. ASSUME program.inst[j].direct  PROVE <<i, j>> \in ForkJoinDependences
  <2>1. InstFirst(j) = CallNode(j, "pthread_create")
    BY <1>1, <1>6, <1>8, <1>11, NodeTypes
  <2>2. TypeOfCall("pthread_create") = "FORK"
    BY DEF TypeOfCall
  <2>3. InstFirst(j)[1] = "FORK"
    BY <1>1, <1>8, <2>1, <2>2, NodeTypes
  <2>4. j \in CorrespondingForks(i)
    BY <1>6, <2>3 DEF CorrespondingForks, matchJoin
  <2>5. \A x : x \in ForkJoinDependences <=>
           \E l \in CallsOf("pthread_join") : \E k \in CorrespondingForks(l) : x = <<l, k>>
    BY DEF ForkJoinDependences
  <2> QED
    BY <1>9, <2>4, <2>5
<1> QED
  BY <1>1, <1>2, <1>3, <1>6, <1>10, <1>11

-----------------------------------------------------------------------------
(* Where the graph goes on in one way.                                       *)

Single(n) == \A a, b \in graph[n] : a = b

\* Where the nodes of an instruction end.
LEMMA LastTypes ==
    ASSUME program \in Programs, NEW i \in Inst
    PROVE  /\ InstLast(i)[1] \in Types \cup {"EXIT"}
           /\ InstLast(i)[1] = "CALL_RETURN" =>
                 IsCall(i) /\ InstLast(i) = <<"CALL_RETURN", i, "return">>
<1>1. CASE ~ IsCall(i)
  <2>1. InstLast(i)[1] \in {"RETURN", "GENERAL"}
    BY <1>1, NodeTypes
  <2> QED
    BY <2>1 DEF Types
<1>2. CASE IsCall(i)
  <2>1. \A g : CallNode(i, g)[1] \in {"FORK", "JOIN", "LOCK", "UNLOCK", "CALL"}
    BY NodeTypes
  <2>2. CASE Functions(i) = {}
    BY <1>2, <2>1, <2>2, LastNodes DEF Types
  <2>3. CASE Cardinality(Functions(i)) > 1
    BY <1>2, <2>3, LastNodes DEF Types
  <2>4. ASSUME NEW g \in Functions(i), ~ Cardinality(Functions(i)) > 1
        PROVE  InstLast(i)[1] \in (Types \ {"CALL_RETURN"}) \cup {"EXIT"}
    <3>1. InstLast(i) = CalleeLast(i, g)
      BY <1>2, <2>4, LastNodes
    <3>2. CalleeLast(i, g) \in {Exit(g), <<"RETURN", i, g>>, CallNode(i, g)}
      BY <1>2, LastNodes
    <3> QED
      BY <2>1, <3>1, <3>2 DEF Types, Exit
  <2> QED
    BY <1>2, <2>2, <2>3, <2>4, LastNodes
<1> QED
  BY <1>1, <1>2

\* The edges within the nodes of a call do not come from where its callees begin or return.
LEMMA InnerSources ==
    ASSUME program \in Programs, NEW e, InnerEdge(e)
    PROVE  \E x, y : e = <<x, y>> /\ x[1] \notin {"ENTRY", "CALL_RETURN"}
<1>1. PICK i \in BuiltInsts : e \in InstEdges(i)
  BY DEF InnerEdge
<1>2. i \in Inst /\ IsCall(i)
  BY <1>1, BuiltInPlaces, PlaceFacts DEF InstEdges
<1>3. \A g : CallNode(i, g)[1] \in {"FORK", "JOIN", "LOCK", "UNLOCK", "CALL"}
  BY <1>2, NodeTypes
<1>4. InstFirst(i)[1] \notin {"ENTRY", "CALL_RETURN"}
  BY <1>2, NodeTypes DEF Types
<1> DEFINE inserted == UNION {InsertFunction(i, g) : g \in Functions(i)}
           called == IF program.inst[i].direct THEN {}
                     ELSE IF Functions(i) = {} THEN {<<InstFirst(i), InstLast(i)>>}
                     ELSE {<<InstFirst(i), CallNode(i, g)>> : g \in Functions(i)}
           returned == IF Cardinality(Functions(i)) > 1
                         THEN {<<CalleeLast(i, g), InstLast(i)>> : g \in Functions(i)} ELSE {}
<1>5. e \in inserted \/ e \in called \/ e \in returned
  BY <1>1, <1>2 DEF InstEdges
<1>6. CASE e \in inserted
  <2>1. PICK g \in Functions(i) : e \in InsertFunction(i, g)
    BY <1>6, Zenon
  <2>2. \E y : e = <<CallNode(i, g), y>>
    BY <2>1 DEF InsertFunction
  <2> QED
    BY <1>3, <2>2
<1>7. CASE e \in called
  <2>1. \E y : e = <<InstFirst(i), y>>
    BY <1>7
  <2> QED
    BY <1>4, <2>1
<1>8. CASE e \in returned
  <2>1. PICK g \in Functions(i) : e = <<CalleeLast(i, g), InstLast(i)>>
    BY <1>8
  <2>2. CalleeLast(i, g) \in {Exit(g), <<"RETURN", i, g>>, CallNode(i, g)}
    BY <1>2, LastNodes
  <2>3. CalleeLast(i, g)[1] \notin {"ENTRY", "CALL_RETURN"}
    BY <1>3, <2>2 DEF Exit
  <2> QED
    BY <2>1, <2>3
<1> QED
  BY <1>5, <1>6, <1>7, <1>8

\* Each instruction is in one place.
LEMMA OnePlace ==
    ASSUME program \in Programs, NEW p \in Places, NEW q \in Places, InstAt(p) = InstAt(q)
    PROVE  p = q
<1>1. /\ p = <<p[1], p[2]>> /\ p[1] \in Block /\ p[2] \in 1 .. Len(Code(p[1])) /\ InstAt(p) = Code(p[1])[p[2]]
      /\ q = <<q[1], q[2]>> /\ q[1] \in Block /\ q[2] \in 1 .. Len(Code(q[1])) /\ InstAt(q) = Code(q[1])[q[2]]
  BY PlaceFacts
<1>2. \A b, c \in Block : \A k \in 1 .. Len(Code(b)), m \in 1 .. Len(Code(c)) :
         Code(b)[k] = Code(c)[m] => b = c /\ k = m
  BY Codes
<1>3. Code(p[1])[p[2]] = Code(q[1])[q[2]]
  BY <1>1
<1>4. p[1] = q[1] /\ p[2] = q[2]
  BY <1>1, <1>2, <1>3
<1> QED
  BY <1>1, <1>4

\* A function is entered at one block, and after a call the code goes on in one place.
LEMMA Singles ==
    ASSUME Static, NEW n \in DOMAIN graph, n[1] \in {"ENTRY", "CALL_RETURN"}
    PROVE  Single(n)
<1>1. program \in Programs
  BY DEF Static
<1>2. \A s \in graph[n] : <<n, s>> \in Edges
  <2> SUFFICES ASSUME NEW s \in graph[n]  PROVE <<n, s>> \in Edges
    OBVIOUS
  <2>1. PICK e \in Edges : e[1] = n /\ e[2] = s
    BY GraphHasEdges
  <2>2. \E x, y : e = <<x, y>>
    BY <1>1, EdgeKinds, InnerSources DEF NextEdge, ExitEdge, StartEdge, JoinEdge
  <2> QED
    BY <2>1, <2>2
<1>3. \A s \in graph[n] : ~ InnerEdge(<<n, s>>) /\ ~ JoinEdge(<<n, s>>)
  BY <1>1, InnerSources DEF JoinEdge, Exit
<1>4. CASE n[1] = "ENTRY"
  <2>1. ASSUME NEW s \in graph[n]  PROVE StartEdge(<<n, s>>)
    <3>1. \A p \in Places : InstLast(InstAt(p))[1] # "ENTRY"
      BY <1>1, PlaceFacts, LastTypes DEF Types
    <3>2. ~ NextEdge(<<n, s>>) /\ ~ ExitEdge(<<n, s>>)
      BY <1>4, <3>1 DEF NextEdge, ExitEdge
    <3> QED
      BY <1>1, <1>2, <1>3, <3>2, EdgeKinds
  <2>2. \A s \in graph[n] : \E f \in BuiltFunctions : n = Entry(f) /\ s = BlockFirst(program.entry[f])
    <3> SUFFICES ASSUME NEW s \in graph[n]
                 PROVE  \E f \in BuiltFunctions : n = Entry(f) /\ s = BlockFirst(program.entry[f])
      OBVIOUS
    <3>1. PICK f \in BuiltFunctions, b \in Block :
             b \in BlocksOf(f) /\ Pred(program.succ, b) = {} /\ <<n, s>> = <<Entry(f), BlockFirst(b)>>
      BY <2>1 DEF StartEdge
    <3>2. b = program.entry[f]
      BY <3>1 DEF BlocksOf, IsReachable
    <3> QED
      BY <3>1, <3>2
  <2>3. \A f, g : Entry(f) = Entry(g) => f = g
    BY DEF Entry
  <2> QED
    BY <2>2, <2>3 DEF Single
<1>5. CASE n[1] = "CALL_RETURN"
  <2>1. ASSUME NEW s \in graph[n]  PROVE NextEdge(<<n, s>>) \/ ExitEdge(<<n, s>>)
    <3>1. ~ StartEdge(<<n, s>>)
      BY <1>5 DEF StartEdge, Entry
    <3> QED
      BY <1>1, <1>2, <1>3, <3>1, EdgeKinds
  <2>2. \A p \in Places : n = InstLast(InstAt(p)) =>
           n[2] = InstAt(p) /\ IsCall(InstAt(p))
    <3> SUFFICES ASSUME NEW p \in Places, n = InstLast(InstAt(p))
                 PROVE  n[2] = InstAt(p) /\ IsCall(InstAt(p))
      OBVIOUS
    <3>1. n = <<"CALL_RETURN", InstAt(p), "return">> /\ IsCall(InstAt(p))
      BY <1>1, <1>5, PlaceFacts, LastTypes
    <3> QED
      BY <3>1
  <2>3. \A p, q \in Places : n = InstLast(InstAt(p)) /\ n = InstLast(InstAt(q)) => p = q
    <3> SUFFICES ASSUME NEW p \in Places, NEW q \in Places, n = InstLast(InstAt(p)), n = InstLast(InstAt(q))
                 PROVE  p = q
      OBVIOUS
    <3>1. n[2] = InstAt(p)
      BY <2>2
    <3>2. n[2] = InstAt(q)
      BY <2>2
    <3> QED
      BY <1>1, <3>1, <3>2, OnePlace
  <2>4. \A p \in Places : n = InstLast(InstAt(p)) /\ ~ p[2] < Length(p[1]) => program.succ[p[1]] = {}
    <3> SUFFICES ASSUME NEW p \in Places, n = InstLast(InstAt(p)), ~ p[2] < Length(p[1])
                 PROVE  program.succ[p[1]] = {}
      OBVIOUS
    <3>1. /\ p[1] \in Block /\ p[2] \in 1 .. Length(p[1]) /\ p[2] \in 1 .. Len(Code(p[1]))
          /\ Len(Code(p[1])) \in Nat /\ Length(p[1]) \in Nat /\ InstAt(p) = Code(p[1])[p[2]]
      BY <1>1, PlaceFacts
    <3>2. p[2] = Length(p[1])
      BY <3>1
    <3>3. InstLast(Code(p[1])[Length(p[1])])[1] # "RETURN"
      BY <1>5, <3>1, <3>2
    <3>4. Length(p[1]) = Len(Code(p[1]))
      BY <1>1, <3>1, <3>3, Lengths
    <3> QED
      BY <1>1, <2>2, <3>1, <3>2, <3>4, Codes
  <2>5. \A s \in graph[n] : \E p \in Places :
           /\ n = InstLast(InstAt(p))
           /\ s = IF p[2] < Length(p[1]) THEN InstFirst(InstAt(<<p[1], p[2] + 1>>)) ELSE Exit(FunOf(p))
    <3> SUFFICES ASSUME NEW s \in graph[n]
                 PROVE  \E p \in Places :
                           /\ n = InstLast(InstAt(p))
                           /\ s = IF p[2] < Length(p[1]) THEN InstFirst(InstAt(<<p[1], p[2] + 1>>))
                                  ELSE Exit(FunOf(p))
      OBVIOUS
    <3>1. CASE NextEdge(<<n, s>>)
      <4>1. PICK p \in Places, q \in Places :
               /\ n = InstLast(InstAt(p)) /\ s = InstFirst(InstAt(q))
               /\ IF p[2] < Length(p[1]) THEN q = <<p[1], p[2] + 1>>
                  ELSE q[1] \in program.succ[p[1]] /\ q[2] = 1
        BY <3>1 DEF NextEdge
      <4>2. p[2] < Length(p[1])
        BY <2>4, <4>1
      <4> QED
        BY <4>1, <4>2
    <3>2. CASE ExitEdge(<<n, s>>)
      <4>1. PICK p \in Places : /\ p[2] = Length(p[1]) /\ n = InstLast(InstAt(p)) /\ s = Exit(FunOf(p))
        BY <3>2 DEF ExitEdge
      <4>2. Length(p[1]) \in Nat
        BY <1>1, PlaceFacts
      <4>3. ~ p[2] < Length(p[1])
        BY <4>1, <4>2
      <4> QED
        BY <4>1, <4>3
    <3> QED
      BY <2>1, <3>1, <3>2
  <2> QED
    BY <2>3, <2>5 DEF Single
<1> QED
  BY <1>4, <1>5

-----------------------------------------------------------------------------
(* What a thread has executed since a lock is on every way to the unlock.    *)

\* Whatever leads from the lock that h records to an instruction that has not been executed
\* since, comes to node n.
Leads(h, n) ==
    \A T, v : /\ InstFirst(h.lock) \in T /\ Carries(T, InstFirst(v))
              /\ v \in Inst /\ v # h.lock /\ v \notin h.insts
              => n \in T

HeldBy(t, h) ==
    /\ DOMAIN h = {"lock", "mutex", "insts", "straight"}
    /\ h.lock \in CallsOf("pthread_mutex_lock") /\ h.insts \subseteq Inst
    /\ h.straight => /\ \A x \in h.insts : Leads(h, InstFirst(x))
                     /\ at[t] \in Places => Leads(h, InstFirst(InstAt(at[t])))

HeldInv ==
    /\ DOMAIN held = Thread
    /\ \A t \in Thread : /\ at[t] = NotStarted => held[t] = {}
                         /\ \A h \in held[t] : HeldBy(t, h)

\* Where the graph goes on in one way, one goes on in T.
LEMMA StraightOn ==
    ASSUME Static, NEW q \in Places, Straight(InstAt(q)), NEW n, Way(q, n),
           NEW T, NEW v \in Inst, v # InstAt(q), Carries(T, InstFirst(v)), InstFirst(InstAt(q)) \in T
    PROVE  n \in T
<1> DEFINE i == InstAt(q)
<1>1. program \in Programs /\ i \in Inst /\ i \in Built(q[1]) /\ q[1] \in Block
      /\ InstFirst(i) \in DOMAIN graph
  BY PlaceFacts, NodesOfPlaces DEF Static
<1>2. \A m \in DOMAIN graph : Cardinality(graph[m]) <= 1 => Single(m)
  <2> SUFFICES ASSUME NEW m \in DOMAIN graph, Cardinality(graph[m]) <= 1  PROVE Single(m)
    OBVIOUS
  <2>1. IsFiniteSet(graph[m])
    BY GraphHasEdges, GraphFinite, FS_Subset DEF IsGraph
  <2>2. Cardinality(graph[m]) \in Nat
        /\ (Cardinality(graph[m]) = 0 <=> graph[m] = {})
        /\ (Cardinality(graph[m]) = 1 <=> \E x : graph[m] = {x})
    BY <2>1, FS_CardinalityType, FS_EmptySet, FS_Singleton
  <2>3. graph[m] = {} \/ \E x : graph[m] = {x}
    BY <2>2
  <2> QED
    BY <2>3 DEF Single
<1>3. \A m \in DOMAIN graph : m \in T /\ m # InstFirst(v) /\ Single(m) => graph[m] \subseteq T
  BY DEF Carries, Single
<1>4. InstFirst(i) # InstFirst(v) /\ InstFirst(i)[2] = i
  <2>1. \A k \in Inst : InstFirst(k)[2] = k
    <3> SUFFICES ASSUME NEW k \in Inst  PROVE InstFirst(k)[2] = k
      OBVIOUS
    <3>1. \E x : InstFirst(k) = <<x, k, Own>>
      BY <1>1, NodeTypes
    <3> QED
      BY <3>1
  <2> QED
    BY <1>1, <2>1
<1>5. Single(InstFirst(i))
  BY <1>1, <1>2, <1>4 DEF Straight
<1>6. \A a \in Passing(q) : a \in DOMAIN graph /\ a # InstFirst(v) /\ Single(a)
  <2> SUFFICES ASSUME NEW a \in Passing(q)  PROVE a \in DOMAIN graph /\ a # InstFirst(v) /\ Single(a)
    OBVIOUS
  <2>1. a \in DOMAIN graph /\ IsArtificial(a)
    BY DEF Passing
  <2>2. a # InstFirst(v)
    BY <1>1, <2>1, Artificial
  <2>3. CASE a[2] = i
    BY <1>2, <2>1, <2>2, <2>3 DEF Straight
  <2>4. CASE a[1] \in {"ENTRY", "CALL_RETURN"}
    BY <2>1, <2>2, <2>4, Singles
  <2>5. CASE program.inst[i].op = "ret" /\ a = Exit(FunOf(q))
    BY <1>1, <1>2, <2>1, <2>2, <2>5 DEF Straight, FunOf
  <2> QED
    BY <2>1, <2>2, <2>3, <2>4, <2>5 DEF Passing
<1> HIDE DEF i
<1> QED
  BY <1>1, <1>3, <1>4, <1>5, <1>6 DEF Way, i

\* What others do to a thread.
LEMMA OthersStay ==
    ASSUME NEW t \in Thread, NEW i, RunInst(t, i), DOMAIN at = Thread
    PROVE  \A u \in Thread \ {t} : at[u] = NotStarted \/ at'[u] \in {at[u], Ended, Joined}
<1>1. CASE RunAccess(t, i) \/ RunOther(t, i) \/ RunLock(t, i) \/ RunUnlock(t, i)
  <2>1. GoesOn(t)
    BY <1>1 DEF RunAccess, RunOther, RunLock, RunUnlock
  <2> QED
    BY <2>1 DEF GoesOn, Goes
<1>2. CASE RunCall(t, i) \/ RunExit(t, i)
  <2>1. \E p : at' = [at EXCEPT ![t] = p]
    BY <1>2 DEF RunCall, RunExit
  <2> QED
    BY <2>1
<1>3. CASE RunCreate(t, i)
  <2>1. PICK u \in Thread, h \in Started(i), p \in After(at[t]) :
           at[u] = NotStarted /\ at' = [at EXCEPT ![t] = p, ![u] = Start(h)]
    BY <1>3 DEF RunCreate
  <2>2. \A v \in Thread \ {t, u} : at'[v] = at[v]
    BY <2>1
  <2> QED
    BY <2>1, <2>2
<1>4. CASE RunJoin(t, i)
  <2>1. \E u, p : at' = [at EXCEPT ![t] = p, ![u] = Joined]
    BY <1>4 DEF RunJoin
  <2> QED
    BY <2>1
<1>5. CASE RunReturn(t, i)
  <2>1. (\E p : at' = [at EXCEPT ![t] = p]) \/ at' = [u \in Thread |-> Ended]
    BY <1>5 DEF RunReturn
  <2> QED
    BY <2>1
<1> QED
  BY <1>1, <1>2, <1>3, <1>4, <1>5 DEF RunInst

\* What the thread records of the locks that it holds.
Recorded(h, i) == [h EXCEPT !.insts = @ \cup {i}, !.straight = @ /\ Straight(i)]
Opened(i, m) == [lock |-> i, mutex |-> m, insts |-> {}, straight |-> Straight(i)]

\* Only the locks of the thread that executes change, and only by these.
LEMMA HeldAfter ==
    ASSUME NEW t \in Thread, NEW i, RunInst(t, i), DOMAIN held = Thread
    PROVE  /\ DOMAIN held' = Thread /\ \A u \in Thread \ {t} : held'[u] = held[u]
           /\ \A g \in held'[t] :
                 \/ \E h \in held[t] : g = Recorded(h, i)
                 \/ RunLock(t, i) /\ \E m : g = Opened(i, m)
<1>1. PICK record : /\ Executed(t, i, record)
                    /\ "opens" \in DOMAIN record =>
                          /\ RunLock(t, i)
                          /\ \E m : record.opens = Opened(i, m)
  BY Records DEF Opened
<1> DEFINE kept == {[h EXCEPT !.insts = @ \cup {i}, !.straight = @ /\ Straight(i)] :
                       h \in {g \in held[t] : "closes" \notin DOMAIN record \/ g # record.closes}}
           opened == IF "opens" \in DOMAIN record THEN {record.opens} ELSE {}
<1>2. held' = [held EXCEPT ![t] = kept \cup opened]
  BY <1>1 DEF Executed
<1>3. \A g \in kept : \E h \in held[t] : g = Recorded(h, i)
  BY DEF Recorded
<1>4. \A g \in opened : "opens" \in DOMAIN record /\ g = record.opens
  OBVIOUS
<1> HIDE DEF kept, opened
<1>5. DOMAIN held' = Thread /\ held'[t] = kept \cup opened /\ \A u \in Thread \ {t} : held'[u] = held[u]
  BY <1>2
<1> QED
  BY <1>1, <1>3, <1>4, <1>5

\* What led to a node still does after more has been executed.
LEMMA StillLeads ==
    ASSUME NEW h, NEW g, g.lock = h.lock, h.insts \subseteq g.insts, NEW n, Leads(h, n)
    PROVE  Leads(g, n)
  BY DEF Leads

\* Where the thread goes on is on the ways from the locks that it holds, too.
LEMMA HeldKept ==
    ASSUME Static, ThreadsInv, HeldInv, ThreadsInv', UNCHANGED vars,
           NEW t \in Thread, at[t] \in Places, NEW i, i = InstAt(at[t]), RunInst(t, i)
    PROVE  HeldInv'
<1>1. /\ UNCHANGED <<program, graph, region>> /\ program \in Programs
      /\ i \in Inst /\ i \in BuiltInsts
  BY PlaceFacts DEF vars, Static
<1>2. /\ UNCHANGED <<Places, Inst>>
      /\ \A p : InstAt(p)' = InstAt(p)
      /\ \A p, q : Way(p, q)' = Way(p, q) /\ Came(p, q)' = Came(p, q)
      /\ \A j : InstFirst(j)' = InstFirst(j)
      /\ \A g : CallsOf(g)' = CallsOf(g)
  BY <1>1, UnchangedPlaces, UnchangedProgram
<1>3. \A T, u : Carries(T, u)' = Carries(T, u)
  BY <1>1 DEF Carries
<1>4. \A h, n : Leads(h, n)' = Leads(h, n)
  BY <1>2, <1>3 DEF Leads
<1>0. DOMAIN held = Thread
  BY DEF HeldInv
<1>5. /\ DOMAIN held' = Thread /\ \A u \in Thread \ {t} : held'[u] = held[u]
      /\ \A g \in held'[t] :
            \/ \E h \in held[t] : g = Recorded(h, i)
            \/ RunLock(t, i) /\ \E m : g = Opened(i, m)
  BY <1>0, HeldAfter
<1>6. NotStarted \notin Places /\ Ended \notin Places /\ Joined \notin Places
      /\ NotStarted # Ended /\ NotStarted # Joined
  BY <1>1, Standings
<1>7. \A u \in Thread \ {t} : at[u] = NotStarted \/ at'[u] \in {at[u], Ended, Joined}
  BY OthersStay DEF ThreadsInv
<1>8. at'[t] # NotStarted
  <2> SUFFICES ASSUME at'[t] = NotStarted  PROVE FALSE
    OBVIOUS
  <2>1. event'.last[t] = None
    BY <1>2 DEF ThreadsInv, ThreadInv, NotStarted
  <2>2. event'.last[t] = i
    BY EventOf DEF ThreadsInv
  <2> QED
    BY <1>1, <2>1, <2>2, NoneAssumption DEF Inst
<1>9. ASSUME at'[t] \in Places
      PROVE  \E q \in Places : InstAt(q) = i /\ Way(q, InstFirst(InstAt(at'[t])))
  <2>1. Came(at'[t], event'.last[t])
    BY <1>2, <1>9 DEF ThreadsInv, ThreadInv
  <2>2. event'.last[t] = i
    BY EventOf DEF ThreadsInv
  <2>3. i # None
    BY <1>1, NoneAssumption DEF Inst
  <2> QED
    BY <2>1, <2>2, <2>3 DEF Came
<1>10. ASSUME at'[t] \in Places, Straight(i), NEW g, g.lock = i \/ i \in g.insts,
              g.lock # i => Leads(g, InstFirst(i))
       PROVE  Leads(g, InstFirst(InstAt(at'[t])))
  <2> DEFINE n == InstFirst(InstAt(at'[t]))
  <2>1. PICK q \in Places : InstAt(q) = i /\ Way(q, n)
    BY <1>9, <1>10
  <2> HIDE DEF n
  <2> SUFFICES ASSUME NEW T, NEW v \in Inst, InstFirst(g.lock) \in T, Carries(T, InstFirst(v)),
                      v # g.lock, v \notin g.insts
               PROVE  n \in T
    BY DEF Leads, n
  <2>2. InstFirst(i) \in T
    BY <1>10 DEF Leads
  <2>3. v # i
    BY <1>10
  <2> QED
    BY <1>10, <2>1, <2>2, <2>3, StraightOn
<1>11. ASSUME NEW g \in held'[t]  PROVE HeldBy(t, g)'
  <2>1. ASSUME NEW h \in held[t], g = Recorded(h, i)
        PROVE  HeldBy(t, g)'
    <3>1. HeldBy(t, h)
      BY DEF HeldInv
    <3>2. /\ DOMAIN g = {"lock", "mutex", "insts", "straight"} /\ g.lock = h.lock
          /\ g.insts = h.insts \cup {i} /\ (g.straight => h.straight /\ Straight(i))
      BY <2>1, <3>1 DEF HeldBy, Recorded
    <3>3. ASSUME g.straight
          PROVE  /\ \A x \in g.insts : Leads(g, InstFirst(x))
                 /\ at'[t] \in Places => Leads(g, InstFirst(InstAt(at'[t])))
      <4>1. (\A x \in h.insts : Leads(h, InstFirst(x))) /\ Leads(h, InstFirst(i))
        BY <3>1, <3>2, <3>3 DEF HeldBy
      <4>2. (\A x \in h.insts : Leads(g, InstFirst(x))) /\ Leads(g, InstFirst(i))
        BY <3>2, <4>1, StillLeads
      <4>3. i \in g.insts
        BY <3>2
      <4> QED
        BY <1>10, <3>2, <3>3, <4>2, <4>3
    <3>4. g.lock \in CallsOf("pthread_mutex_lock") /\ g.insts \subseteq Inst
      BY <1>1, <3>1, <3>2 DEF HeldBy
    <3> QED
      BY <1>2, <1>4, <3>2, <3>3, <3>4 DEF HeldBy
  <2>2. ASSUME RunLock(t, i), NEW m, g = Opened(i, m)
        PROVE  HeldBy(t, g)'
    <3>1. /\ DOMAIN g = {"lock", "mutex", "insts", "straight"} /\ g.lock = i /\ g.insts = {}
          /\ (g.straight => Straight(i))
      BY <2>2 DEF Opened
    <3>2. i \in CallsOf("pthread_mutex_lock")
      BY <1>1, <2>2 DEF RunLock, CallsOf
    <3>3. g.straight /\ at'[t] \in Places => Leads(g, InstFirst(InstAt(at'[t])))
      BY <1>10, <3>1
    <3> QED
      BY <1>2, <1>4, <3>1, <3>2, <3>3 DEF HeldBy
  <2> QED
    BY <1>5, <2>1, <2>2
<1>12. ASSUME NEW u \in Thread \ {t}
       PROVE  /\ at'[u] = NotStarted => held'[u] = {}
              /\ \A h \in held'[u] : HeldBy(u, h)'
  <2>1. at[u] = NotStarted => held'[u] = {}
    BY <1>5 DEF HeldInv
  <2>2. \A h \in held'[u] : HeldBy(u, h)
    BY <1>5 DEF HeldInv
  <2>3. CASE at[u] = NotStarted
    BY <2>1, <2>3
  <2>4. CASE at'[u] = at[u]
    BY <1>2, <1>4, <2>1, <2>2, <2>4 DEF HeldBy
  <2>5. CASE at'[u] \in {Ended, Joined}
    BY <1>2, <1>4, <1>6, <2>2, <2>5 DEF HeldBy
  <2> QED
    BY <1>7, <2>3, <2>4, <2>5
<1>13. \A u \in Thread : /\ at'[u] = NotStarted => held'[u] = {}
                         /\ \A h \in held'[u] : HeldBy(u, h)'
  BY <1>8, <1>11, <1>12
<1> QED
  BY <1>5, <1>13 DEF HeldInv, NotStarted

\* What a thread does between a lock and the unlock depends on the lock.
LEMMA SectionsStep ==
    ASSUME Static, SearchInv, SectionsInv, ThreadsInv, HeldInv, phase = "run", UNCHANGED vars,
           NEW t \in Thread, at[t] \in Places, NEW i, i = InstAt(at[t]), RunInst(t, i)
    PROVE  SectionsFound'
<1>1. /\ UNCHANGED <<program, graph, section>> /\ program \in Programs
      /\ i \in Inst /\ i \in BuiltInsts
  BY PlaceFacts DEF vars, Static
<1>2. UNCHANGED CriticalSectionDependences
  BY <1>1, UnchangedDependences
<1>3. event'.inst = i
  BY EventOf
<1> SUFFICES ASSUME NEW h, h = event'.closes, Observed("closes")',
                    h.straight, i \notin h.insts,
                    program.inst[i].direct, program.inst[h.lock].direct
             PROVE  /\ \A x \in h.insts \ {h.lock} : <<h.lock, x>> \in CriticalSectionDependences
                    /\ <<i, h.lock>> \in CriticalSectionDependences
  BY <1>1, <1>2, <1>3 DEF SectionsFound
<1>4. RunUnlock(t, i) /\ h \in held[t]
  BY WhatIsObserved
<1>5. IsCall(i) /\ "pthread_mutex_unlock" \in Functions(i)
  BY <1>4 DEF RunUnlock
<1>6. PICK l : l = h.lock
  OBVIOUS
<1>7. /\ l \in CallsOf("pthread_mutex_lock") /\ h.insts \subseteq Inst
      /\ \A x \in h.insts : Leads(h, InstFirst(x))
  BY <1>4, <1>6 DEF HeldInv, HeldBy
<1>8. l \in Inst /\ IsCall(l) /\ "pthread_mutex_lock" \in Functions(l)
  <2>1. l \in BuiltInsts /\ IsCall(l) /\ "pthread_mutex_lock" \in Functions(l)
    BY <1>7 DEF CallsOf
  <2> QED
    BY <1>1, <2>1, BuiltInPlaces, PlaceFacts
<1>9. /\ InstFirst(l) = LockNode(l) /\ Functions(l) = {"pthread_mutex_lock"}
      /\ InstFirst(i) = CallNode(i, "pthread_mutex_unlock") /\ Functions(i) = {"pthread_mutex_unlock"}
  BY <1>1, <1>5, <1>6, <1>8, NodeTypes DEF LockNode
<1>10. i # l
  BY <1>9
<1>11. InstFirst(i) \in CorrespondingUnlocks(l)
  <2>1. PointsToOfCall(l) \cap PointsToOfCall(i) # {}
    BY <1>6 DEF PointsToOfCall
  <2>2. i \in CallsOf("pthread_mutex_unlock")
    BY <1>1, <1>5 DEF CallsOf
  <2> QED
    BY <1>9, <2>1, <2>2 DEF CorrespondingUnlocks
<1>12. l \in DOMAIN section
  <2>1. LockNode(l) \in Locks
    BY <1>7 DEF Locks, LockNode
  <2>2. LockNode(l)[2] = l
    BY DEF LockNode, CallNode
  <2> QED
    BY <2>1, <2>2 DEF SectionsInv
<1>13. PICK T \in SUBSET (section[l] \cup {LockNode(l)}) : LockNode(l) \in T /\ Carries(T, InstFirst(i))
  BY <1>11, <1>12 DEF SectionsInv, Sectioned
<1>14. \A x : x \in CriticalSectionDependences <=>
          \E k \in DOMAIN section :
             \/ \E n \in section[k] : ~ IsArtificial(n) /\ x = <<k, n[2]>>
             \/ \E u \in CorrespondingUnlocks(k) : x = <<u[2], k>>
  BY DEF CriticalSectionDependences
<1>15. \A k \in Inst : ~ IsArtificial(InstFirst(k)) /\ InstFirst(k)[2] = k
  <2> SUFFICES ASSUME NEW k \in Inst  PROVE ~ IsArtificial(InstFirst(k)) /\ InstFirst(k)[2] = k
    OBVIOUS
  <2>1. \E x : InstFirst(k) = <<x, k, Own>>
    BY <1>1, NodeTypes
  <2> QED
    BY <1>1, <2>1, Artificial
<1>16. <<i, l>> \in CriticalSectionDependences
  BY <1>1, <1>11, <1>12, <1>14, <1>15
<1>17. ASSUME NEW x \in h.insts, x # l  PROVE <<l, x>> \in CriticalSectionDependences
  <2>1. InstFirst(x) \in T
    BY <1>1, <1>6, <1>7, <1>9, <1>10, <1>13 DEF Leads
  <2>2. InstFirst(x) # LockNode(l)
    BY <1>7, <1>8, <1>9, <1>15, <1>17
  <2>3. InstFirst(x) \in section[l] /\ x \in Inst
    BY <1>7, <1>13, <2>1, <2>2
  <2> QED
    BY <1>12, <1>14, <1>15, <2>3
<1> QED
  BY <1>6, <1>16, <1>17

-----------------------------------------------------------------------------
(* The inductive invariant: what holds during the searches, and once they    *)
(* are over while the program runs.                                          *)

Fresh ==
    /\ at = [t \in Thread |-> IF t = Main THEN Start("main") ELSE NotStarted]
    /\ frames = [t \in Thread |-> <<>>]
    /\ forked = [t \in Thread |-> None]
    /\ memory = [o \in Object |-> [k \in 0 .. Size - 1 |-> None]]
    /\ held = [t \in Thread |-> {}]
    /\ event = [thread |-> None, last |-> [t \in Thread |-> None]]

Analysed == Static /\ SearchInv /\ RegionsInv /\ SectionsInv
IndInv ==
    /\ Analysed
    /\ phase # "run" => Fresh
    /\ phase = "run" => ThreadsInv /\ MemoryInv /\ HeldInv

\* When the searches are over nothing has run yet.
LEMMA FreshRuns == Static /\ Founded /\ Closed /\ Fresh => ThreadsInv /\ MemoryInv /\ HeldInv
<1> SUFFICES ASSUME Static, Founded, Closed, Fresh  PROVE ThreadsInv /\ MemoryInv /\ HeldInv
  OBVIOUS
<1>1. program \in Programs /\ "main" \in BuiltFunctions
  BY BuiltClosed DEF Static
<1>2. Start("main") \in Places /\ <<Entry("main"), InstFirst(InstAt(Start("main")))>> \in Edges
  BY <1>1, EntryEdge
<1>3. InRegions(Start("main"))
  <2>1. Entry("main") \in DOMAIN region /\ InstFirst(InstAt(Start("main"))) \in graph[Entry("main")]
    BY <1>2, EdgeInGraph DEF Founded
  <2> QED
    BY <2>1 DEF Closed, InRegions
<1>4. NotStarted \notin Places
  BY <1>1, Standings
<1>5. /\ DOMAIN at = Thread /\ DOMAIN frames = Thread /\ DOMAIN forked = Thread
      /\ DOMAIN held = Thread /\ DOMAIN event.last = Thread
      /\ \A t \in Thread : /\ at[t] \in {Start("main"), NotStarted} /\ frames[t] = <<>>
                           /\ forked[t] = None /\ held[t] = {} /\ event.last[t] = None
  BY DEF Fresh
<1>6. at \in [Thread -> Standing]
  BY <1>2 DEF Fresh, Standing
<1>7. ASSUME NEW t \in Thread  PROVE ThreadInv(t)
  <2>0. \A f : FramesFit(<<>>, f)
    <3>1. << >> \in Seq(Places) /\ 1 .. Len(<< >>) = {}
      BY EmptySeq
    <3> QED
      BY <3>1 DEF FramesFit
  <2>1. FramesFit(frames[t], FunOf(at[t]))
    BY <1>5, <2>0
  <2>2. at[t] \in Places => at[t] = Start("main")
    BY <1>4, <1>5
  <2>3. Came(Start("main"), event.last[t])
    BY <1>1, <1>5 DEF Came
  <2> QED
    BY <1>3, <1>5, <2>1, <2>2, <2>3 DEF ThreadInv
<1>8. MemoryInv
  BY DEF Fresh, MemoryInv
<1> QED
  BY <1>5, <1>6, <1>7, <1>8 DEF ThreadsInv, HeldInv

\* What does not change with any variable.
LEMMA UnchangedAnalysis ==
    ASSUME Analysed, UNCHANGED vars
    PROVE  Analysed'
<1>1. /\ UNCHANGED <<Edges, Locks, Inst>>
      /\ \A i : CorrespondingUnlocks(i)' = CorrespondingUnlocks(i)
      /\ \A i, g : CallNode(i, g)' = CallNode(i, g)
  BY UnchangedProgram DEF vars
<1>2. Static'
  BY <1>1 DEF Analysed, Static, vars
<1>3. UNCHANGED <<Entries, OnStack, Visited>> /\ \A n : Ahead(n)' = Ahead(n) /\ Predecessors(n)' = Predecessors(n)
  BY DEF vars, Entries, OnStack, Visited, Ahead, Predecessors
<1>4. SearchInv'
  BY <1>1, <1>3 DEF Analysed, SearchInv, vars
<1>5. RegionsInv'
  <2>1. \A n, m : Follows(n, m)' = Follows(n, m)
    BY <1>3 DEF Follows, vars
  <2>2. Founded' = Founded /\ Explored' = Explored /\ OnTheWay' = OnTheWay
    BY <1>3, <2>1 DEF Founded, Explored, OnTheWay, vars
  <2> QED
    BY <2>2 DEF Analysed, RegionsInv, vars
<1>6. SectionsInv'
  <2>1. \A i : LockNode(i)' = LockNode(i)
    BY <1>1 DEF LockNode
  <2>2. \A T, u : Carries(T, u)' = Carries(T, u)
    BY DEF Carries, vars
  <2>3. Sectioned' = Sectioned /\ Chained' = Chained
    BY <1>1, <2>1, <2>2 DEF Sectioned, Chained, vars
  <2>4. \A l, u : Found(l, u)' = Found(l, u)
    BY <1>3, <2>2 DEF Found, vars
  <2> QED
    BY <1>1, <2>3, <2>4 DEF Analysed, SectionsInv, vars
<1> QED
  BY <1>2, <1>4, <1>5, <1>6 DEF Analysed

\* In the beginning.
LEMMA InitInv == RunInit => IndInv
<1> SUFFICES ASSUME RunInit  PROVE IndInv
  OBVIOUS
<1>1. Init /\ Fresh
  BY DEF RunInit, Fresh
<1>2. Static /\ phase = "sections" /\ stack = <<>>
  BY <1>1 DEF Init, Static
<1>3. DOMAIN section = {} /\ DOMAIN region = {} /\ examined = {} /\ unlocks = {}
  BY <1>1 DEF Init
<1>4. SearchInv
  BY <1>2, <1>3, EmptySeq DEF SearchInv
<1>5. RegionsInv /\ SectionsInv
  BY <1>2, <1>3 DEF RegionsInv, SectionsInv, Sectioned
<1> QED
  BY <1>1, <1>2, <1>4, <1>5 DEF IndInv, Analysed

\* A thread that can execute an instruction is in front of it.
LEMMA RunningPlace ==
    ASSUME Static, ThreadsInv, NEW t \in Thread, Running(t)
    PROVE  at[t] \in Places /\ NextInst(t) = InstAt(at[t])
  BY Standings DEF Static, ThreadsInv, Running, NextInst, InstAt

\* The analyses keep their part of the invariant, and the program has not started.
LEMMA BuildKeeps ==
    ASSUME IndInv, Build
    PROVE  IndInv'
<1>1. Static /\ SearchInv /\ RegionsInv /\ SectionsInv /\ Next
  BY DEF IndInv, Analysed, Build
<1>2. Analysed'
  BY <1>1, SearchesKeep, SectionsKept DEF Analysed
<1>3. phase # "run"
  BY <1>1 DEF Next, BuildCriticalSection, VisitInSection, PostVisit, StartRegions, VisitInRegion, Examine
<1>4. program' = program
  BY <1>1 DEF Next, BuildCriticalSection, VisitInSection, PostVisit, StartRegions, VisitInRegion, Examine
<1>5. Fresh'
  <2>1. Fresh /\ UNCHANGED run
    BY <1>3 DEF IndInv, Build
  <2>2. Start("main")' = Start("main")
    BY <1>4 DEF Start
  <2> QED
    BY <2>1, <2>2 DEF Fresh, run
<1>6. phase' = "run" => (Static /\ Founded /\ Closed /\ Fresh)'
  BY <1>2, <1>5 DEF Analysed, RegionsInv, Closed
<1>7. (Static /\ Founded /\ Closed /\ Fresh)' => (ThreadsInv /\ MemoryInv /\ HeldInv)'
  BY FreshRuns, PTL
<1> QED
  BY <1>2, <1>5, <1>6, <1>7 DEF IndInv

\* So does every instruction of a thread.
LEMMA RunKeeps ==
    ASSUME IndInv, RunStep
    PROVE  IndInv'
<1>1. PICK t \in Thread : Running(t) /\ RunInst(t, NextInst(t))
  BY DEF RunStep
<1>2. /\ phase = "run" /\ UNCHANGED vars
      /\ Analysed /\ Static /\ SearchInv /\ RegionsInv /\ ThreadsInv /\ MemoryInv /\ HeldInv
  BY DEF IndInv, Analysed, RunStep
<1>3. Founded /\ Closed
  BY <1>2 DEF RegionsInv, Closed
<1>4. at[t] \in Places /\ NextInst(t) = InstAt(at[t])
  BY <1>1, <1>2, RunningPlace
<1>5. ThreadsInv' /\ MemoryInv'
  BY <1>1, <1>2, <1>3, <1>4, ThreadsKept, MemoryKept
<1>6. HeldInv'
  BY <1>1, <1>2, <1>4, <1>5, HeldKept
<1>7. Analysed' /\ phase' = "run"
  BY <1>2, UnchangedAnalysis DEF vars
<1> QED
  BY <1>5, <1>6, <1>7 DEF IndInv

\* And a step that changes nothing.
LEMMA StutterKeeps ==
    ASSUME IndInv, UNCHANGED <<vars, run>>
    PROVE  IndInv'
<1>1. Analysed' /\ phase' = phase /\ UNCHANGED <<program, graph, region>> /\ UNCHANGED run
  BY UnchangedAnalysis DEF IndInv, vars
<1>2. Fresh => Fresh'
  <2>1. Start("main")' = Start("main")
    BY <1>1 DEF Start
  <2> QED
    BY <1>1, <2>1 DEF Fresh, run
<1>3. ThreadsInv => ThreadsInv'
  <2>1. \A t : ThreadInv(t)' = ThreadInv(t)
    BY <1>1, UnchangedPlaces DEF ThreadInv, run
  <2> QED
    BY <1>1, <2>1, UnchangedPlaces DEF ThreadsInv, run
<1>4. MemoryInv => MemoryInv'
  BY <1>1, UnchangedPlaces DEF MemoryInv, run
<1>5. HeldInv => HeldInv'
  <2>1. /\ UNCHANGED <<Places, Inst>> /\ \A p : InstAt(p)' = InstAt(p)
        /\ \A j : InstFirst(j)' = InstFirst(j) /\ \A g : CallsOf(g)' = CallsOf(g)
    BY <1>1, UnchangedPlaces, UnchangedProgram
  <2>2. \A T, u : Carries(T, u)' = Carries(T, u)
    BY <1>1 DEF Carries
  <2>3. \A h, n : Leads(h, n)' = Leads(h, n)
    BY <2>1, <2>2 DEF Leads
  <2>4. \A t, h : HeldBy(t, h)' = HeldBy(t, h)
    BY <1>1, <2>1, <2>3 DEF HeldBy, run
  <2> QED
    BY <1>1, <2>4 DEF HeldInv, run
<1> QED
  BY <1>1, <1>2, <1>3, <1>4, <1>5 DEF IndInv

\* The inductive invariant holds.
THEOREM Invariant == Spec => []IndInv
<1>1. RunInit => IndInv
  BY InitInv
<1>2. IndInv /\ [Build \/ RunStep]_<<vars, run>> => IndInv'
  BY BuildKeeps, RunKeeps, StutterKeeps
<1> QED
  BY <1>1, <1>2, PTL DEF Spec

-----------------------------------------------------------------------------
(* The properties.                                                           *)

Promises == RegionsRunWhole /\ InterferenceFound /\ SynchronisationFound

\* Before anything has run there is nothing to observe.
LEMMA NothingObserved == Fresh => Promises
  BY DEF Fresh, Promises, RegionsRunWhole, InterferenceFound, SynchronisationFound,
         JoinsMatched, SectionsFound, Happened, Observed

\* While the analyses are built there is nothing to observe.
LEMMA BuildPromises ==
    ASSUME IndInv, IndInv', Build
    PROVE  Promises'
<1>1. Fresh /\ event' = event
  BY DEF IndInv, Build, Next, BuildCriticalSection, VisitInSection, PostVisit, StartRegions,
         VisitInRegion, Examine, run
<1>2. DOMAIN event' = {"thread", "last"}
  BY <1>1 DEF Fresh
<1> QED
  BY <1>2 DEF Promises, RegionsRunWhole, InterferenceFound, SynchronisationFound,
              JoinsMatched, SectionsFound, Happened, Observed

\* What an instruction lets a thread observe is among the dependences.
LEMMA RunPromises ==
    ASSUME IndInv, RunStep
    PROVE  Promises'
<1>1. PICK t \in Thread : Running(t) /\ RunInst(t, NextInst(t))
  BY DEF RunStep
<1>2. /\ phase = "run" /\ UNCHANGED vars
      /\ Static /\ SearchInv /\ RegionsInv /\ SectionsInv /\ ThreadsInv /\ MemoryInv /\ HeldInv
  BY DEF IndInv, Analysed, RunStep
<1>3. Founded
  BY <1>2 DEF RegionsInv
<1>4. at[t] \in Places /\ NextInst(t) = InstAt(at[t])
  BY <1>1, <1>2, RunningPlace
<1>5. RegionsRunWhole' /\ InterferenceFound'
  BY <1>1, <1>2, <1>3, <1>4, RegionsStep, InterferenceStep
<1>6. JoinsMatched' /\ SectionsFound'
  BY <1>1, <1>2, <1>4, JoinsStep, SectionsStep
<1> QED
  BY <1>5, <1>6 DEF Promises, SynchronisationFound

\* A step that changes nothing changes no property.
LEMMA StutterPromises ==
    ASSUME Promises, UNCHANGED <<vars, run>>
    PROVE  Promises'
<1>1. /\ UNCHANGED <<program, graph, region, section>> /\ event' = event /\ at' = at
      /\ UNCHANGED <<ForkJoinDependences, CriticalSectionDependences>>
      /\ \A j, k : InterferenceDependent(j, k)' = InterferenceDependent(j, k)
      /\ \A n, F : InFront(n, F)' = InFront(n, F)
      /\ \A i, g : CallNode(i, g)' = CallNode(i, g)
      /\ \A i : InstFirst(i)' = InstFirst(i)
  BY UnchangedRegions, UnchangedDependences, UnchangedProgram DEF vars, run
<1>2. RegionsRunWhole => RegionsRunWhole'
  <2>1. \A t : NextInst(t)' = NextInst(t)
    BY <1>1 DEF NextInst
  <2>2. /\ \A i : NodeOf(i)' = NodeOf(i)
        /\ Happened' = Happened /\ \A o : Observed(o)' = Observed(o)
    BY <1>1 DEF NodeOf, Happened, Observed
  <2> QED
    BY <1>1, <2>1, <2>2 DEF RegionsRunWhole
<1>3. InterferenceFound => InterferenceFound'
  BY <1>1 DEF InterferenceFound, Observed
<1>4. JoinsMatched => JoinsMatched'
  BY <1>1 DEF JoinsMatched, Observed, Exit
<1>5. SectionsFound => SectionsFound'
  BY <1>1 DEF SectionsFound, Observed
<1> QED
  BY <1>2, <1>3, <1>4, <1>5 DEF Promises, SynchronisationFound

\* What threads do to each other is among the dependences, all the time.
THEOREM PromisesKept == Spec => []Promises
<1>1. RunInit => IndInv /\ Promises
  BY InitInv, NothingObserved DEF RunInit, Fresh
<1>2. IndInv /\ Promises /\ [Build \/ RunStep]_<<vars, run>> => IndInv' /\ Promises'
  BY BuildKeeps, RunKeeps, StutterKeeps, BuildPromises, RunPromises, StutterPromises
<1> QED
  BY <1>1, <1>2, PTL DEF Spec

\* Every instruction that runs is in a region, and the region runs as a whole
\* (shouldCreateNewRegion, visit).
THEOREM RegionsWhole == Spec => []RegionsRunWhole
<1>1. Promises => RegionsRunWhole
  BY DEF Promises
<1> QED
  BY <1>1, PromisesKept, PTL

\* A load depends on the store of another thread that it reads at the same byte
\* (computeInterferenceDependentEdges).
THEOREM InterferenceComplete == Spec => []InterferenceFound
<1>1. Promises => InterferenceFound
  BY DEF Promises
<1> QED
  BY <1>1, PromisesKept, PTL

\* Forks are matched with the joins that wait for their threads, and a critical section holds
\* what runs between the lock and the unlock (matchForksAndJoins, VisitInSection).
THEOREM SynchronisationComplete == Spec => []SynchronisationFound
<1>1. Promises => SynchronisationFound
  BY DEF Promises
<1> QED
  BY <1>1, PromisesKept, PTL

\* The search and the regions have the types and the shape that the later steps rely on.
THEOREM TypesRight == Spec => []TypeOK
<1>1. IndInv => TypeOK
  <2> SUFFICES ASSUME IndInv  PROVE TypeOK
    OBVIOUS
  <2>1. Static /\ SearchInv /\ RegionsInv
    BY DEF IndInv, Analysed
  <2>2. DOMAIN region \subseteq DOMAIN graph /\ \A n \in DOMAIN region : region[region[n]] = region[n]
    BY <2>1 DEF SearchInv, RegionsInv, Founded
  <2>3. /\ \A k \in DOMAIN stack : stack[k][2] \subseteq DOMAIN graph
        /\ OnStack \subseteq DOMAIN graph
    BY <2>1 DEF SearchInv, RegionsInv, OnTheWay, Entries, OnStack
  <2> QED
    BY <2>1, <2>2, <2>3 DEF TypeOK, Static, SearchInv
<1> QED
  BY <1>1, Invariant, PTL
=============================================================================
