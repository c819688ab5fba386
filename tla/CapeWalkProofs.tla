-------------------------- MODULE CapeWalkProofs --------------------------
(***************************************************************************)
(* What the walks guarantee for every dependence graph, every set of       *)
(* starting nodes and every order of the nodes in memory, proved with      *)
(* TLAPS: each walk is a graph walk in the sense of GraphWalk.             *)
(***************************************************************************)
EXTENDS CapeWalk, FlowGraphProofs, SequenceTheorems, TLAPS

-----------------------------------------------------------------------------
(* The range of a queue.                                                     *)

\* Appending a node adds it to the nodes in the queue.
LEMMA RangeAppend ==
    ASSUME NEW S, NEW q \in Seq(S), NEW e \in S
    PROVE  Range(Append(q, e)) = Range(q) \cup {e}
<1>1. DOMAIN Append(q, e) = 1 .. Len(q) + 1 /\ DOMAIN q = 1 .. Len(q)
  OBVIOUS
<1>2. \A i \in 1 .. Len(q) : Append(q, e)[i] = q[i]
  OBVIOUS
<1>3. Append(q, e)[Len(q) + 1] = e
  OBVIOUS
<1>4. Len(q) \in Nat
  OBVIOUS
<1> QED
  BY <1>1, <1>2, <1>3, <1>4 DEF Range

\* The nodes of a queue are its first node and the nodes of the rest.
LEMMA RangeTail ==
    ASSUME NEW S, NEW q \in Seq(S), q # <<>>
    PROVE  Range(q) = Range(Tail(q)) \cup {Head(q)} /\ Tail(q) \in Seq(S) /\ Head(q) \in S
<1>1. DOMAIN Tail(q) = 1 .. Len(q) - 1 /\ DOMAIN q = 1 .. Len(q) /\ Len(q) \in Nat \ {0}
  BY HeadTailProperties, EmptySeq
<1>2. \A i \in 1 .. Len(q) - 1 : Tail(q)[i] = q[i + 1]
  BY HeadTailProperties
<1>3. Head(q) = q[1]
  BY HeadTailProperties
<1>4. Range(q) \subseteq Range(Tail(q)) \cup {Head(q)}
  <2>1. ASSUME NEW i \in 1 .. Len(q), q[i] # q[1]
        PROVE  q[i] \in Range(Tail(q))
    <3>1. i - 1 \in 1 .. Len(q) - 1 /\ (i - 1) + 1 = i
      BY <1>1, <2>1
    <3>2. Tail(q)[i - 1] = q[i]
      BY <3>1, <1>2
    <3> QED
      BY <1>1, <3>1, <3>2 DEF Range
  <2>2. Range(q) = {q[i] : i \in 1 .. Len(q)}
    BY <1>1 DEF Range
  <2> QED
    BY <1>3, <2>1, <2>2
<1>5. Range(Tail(q)) \cup {Head(q)} \subseteq Range(q)
  <2>1. \A j \in 1 .. Len(q) - 1 : j + 1 \in 1 .. Len(q)
    BY <1>1
  <2>2. 1 \in 1 .. Len(q)
    BY <1>1
  <2> QED
    BY <2>1, <2>2, <1>1, <1>2, <1>3 DEF Range
<1> QED
  BY <1>4, <1>5, HeadTailProperties

\* A queue of one node holds that node.
LEMMA RangeOne ==
    ASSUME NEW S, NEW e \in S
    PROVE  Range(<<e>>) = {e} /\ <<e>> \in Seq(S)
  BY DEF Range

\* No node is in the empty queue.
LEMMA RangeEmpty == Range(<<>>) = {}
  BY DEF Range

-----------------------------------------------------------------------------
(* Types.                                                                    *)

\* The kinds of edges and the fields of a program.
LEMMA ProgramFacts ==
    ASSUME program \in Programs
    PROVE  /\ program \in ProgramType
           /\ \A k \in EdgeKind, n \in Node : Succ(program, k, n) \in SUBSET Node
           /\ \A n \in Node : program.bbcd[n] \in SUBSET Node
           /\ \A n \in Node : program.loop[n] \in SUBSET Node
           /\ \A n \in Node : program.entry[n] \in Node \cup {None}
           /\ program.starts \in SUBSET Node
  BY ProgramsAssumption DEF ProgramType, Succ

LEMMA NoEdgesType == NoEdges \in [Kinds -> SUBSET Node]
  BY DEF NoEdges

\* A walk begins with its starting node as the only one to process.
LEMMA BeginFacts ==
    ASSUME NEW s \in Node, Begin(s)
    PROVE  /\ queue' \in Seq(Node) /\ visited' = {s} /\ Pending' = {s}
           /\ ~EdgesLeft' /\ cur' = None /\ todo' \in [Kinds -> SUBSET Node]
<1>1. queue' \in Seq(Node) /\ Range(queue') = {s}
  BY RangeOne DEF Begin
<1>2. todo' = NoEdges /\ ~EdgesLeft'
  BY DEF Begin, EdgesLeft, NoEdges
<1>3. Pending' = {s}
  BY <1>1, <1>2 DEF Pending
<1> QED
  BY <1>1, <1>2, <1>3, NoEdgesType DEF Begin

\* What enqueue does to the queue.
LEMMA EnqueueFacts ==
    ASSUME queue \in Seq(Node), visited \subseteq Node, Range(queue) \subseteq visited,
           NEW t \in Node, enqueue(t)
    PROVE  /\ queue' \in Seq(Node) /\ visited' = visited \cup {t}
           /\ Range(queue') = Range(queue) \cup (visited' \ visited)
<1>1. CASE t \in visited
  BY <1>1 DEF enqueue
<1>2. CASE t \notin visited
  <2>1. queue' = Append(queue, t) /\ visited' = visited \cup {t}
    BY <1>2 DEF enqueue
  <2>2. Range(queue') = Range(queue) \cup {t} /\ queue' \in Seq(Node)
    BY <2>1, RangeAppend
  <2>3. visited' \ visited = {t}
    BY <2>1, <1>2
  <2> QED
    BY <2>1, <2>2, <2>3
<1> QED
  BY <1>1, <1>2

\* The effect of Edge on the state of the walk.
LEMMA EdgeFacts ==
    ASSUME TypeOK, Edge
    PROVE  \E k \in Kinds, t \in Node :
              /\ t \in todo[k] /\ EdgesLeft
              /\ todo' = [todo EXCEPT ![k] = @ \ {t}]
              /\ parent' \in [Node -> Node \cup {None}]
              /\ queue' \in Seq(Node)
              /\ visited' = visited \/ visited' = visited \cup {t}
              /\ Skip(k, cur, t) \/ t \in visited'
              /\ Range(queue') = Range(queue) \cup (visited' \ visited)
<1>1. PICK k \in Kinds : IsNext(k) /\ \E t \in todo[k] :
          /\ todo' = [todo EXCEPT ![k] = @ \ {t}]
          /\ parent' = IF IsDown(program, k, cur, t)
                         THEN [parent EXCEPT ![t] = cur] ELSE parent
          /\ IF Skip(k, cur, t) THEN UNCHANGED <<queue, visited>> ELSE enqueue(t)
  BY Zenon DEF Edge
<1>2. PICK t \in todo[k] :
          /\ todo' = [todo EXCEPT ![k] = @ \ {t}]
          /\ parent' = IF IsDown(program, k, cur, t)
                         THEN [parent EXCEPT ![t] = cur] ELSE parent
          /\ IF Skip(k, cur, t) THEN UNCHANGED <<queue, visited>> ELSE enqueue(t)
  BY <1>1
<1>3. t \in Node
  BY <1>2 DEF TypeOK
<1>4. EdgesLeft
  BY <1>2 DEF EdgesLeft
<1>5. parent' \in [Node -> Node \cup {None}]
  BY <1>2, <1>3 DEF TypeOK
<1>6. Range(queue) \subseteq visited
  BY DEF TypeOK, Pending
<1>7. /\ queue' \in Seq(Node) /\ (visited' = visited \/ visited' = visited \cup {t})
      /\ Skip(k, cur, t) \/ t \in visited'
      /\ Range(queue') = Range(queue) \cup (visited' \ visited)
  <2>1. CASE Skip(k, cur, t)
    <3>1. queue' = queue /\ visited' = visited
      BY <1>2, <2>1
    <3> QED
      BY <3>1, <2>1 DEF TypeOK
  <2>2. CASE ~Skip(k, cur, t)
    <3>1. enqueue(t)
      BY <1>2, <2>2
    <3> QED
      BY <3>1, <1>3, <1>6, EnqueueFacts DEF TypeOK
  <2> QED
    BY <2>1, <2>2
<1> QED
  BY <1>2, <1>3, <1>4, <1>5, <1>7

\* The effect of Pop on the state of the walk.
LEMMA PopFacts ==
    ASSUME TypeOK, Pop
    PROVE  /\ pass # 3 /\ ~EdgesLeft /\ Pending = Range(queue)
           /\ cur' \in Node /\ queue' \in Seq(Node)
           /\ Range(queue) = Range(queue') \cup {cur'}
           /\ visited' = visited
           /\ todo' \in [Kinds -> SUBSET Node]
           /\ \A k \in EdgeKind : todo'[k] = Succ(program, k, cur')
           /\ pass # 0 => todo'["bbcd"] = program.bbcd[cur']
           /\ todo'["bbcd"] \in {{}, program.bbcd[cur']}
           /\ todo'["loop"] \subseteq program.loop[cur']
<1>1. queue # <<>> /\ queue \in Seq(Node) /\ ~EdgesLeft /\ pass # 3
  BY DEF Pop, TypeOK
<1>2. cur' = Head(queue) /\ queue' = Tail(queue) /\ visited' = visited
  BY DEF Pop
<1>3. cur' \in Node /\ queue' \in Seq(Node) /\ Range(queue) = Range(queue') \cup {cur'}
  BY <1>1, <1>2, RangeTail
<1>4. todo' = [k \in Kinds |->
                IF k \in EdgeKind THEN Succ(program, k, cur')
                ELSE IF pass = 0 THEN MarkTodo(cur')[k]
                ELSE IF k = "bbcd" THEN program.bbcd[cur'] ELSE {}]
  BY <1>2 DEF Pop
<1>5. /\ program \in ProgramType
      /\ \A k \in EdgeKind : Succ(program, k, cur') \in SUBSET Node
      /\ program.bbcd[cur'] \in SUBSET Node
      /\ program.loop[cur'] \in SUBSET Node
  BY <1>3, ProgramFacts DEF TypeOK
<1>6. /\ MarkTodo(cur')["bbcd"] \in {{}, program.bbcd[cur']}
      /\ MarkTodo(cur')["loop"] \subseteq program.loop[cur']
  BY DEF MarkTodo, NoEdges, Kinds, EdgeKind
<1>7. Kinds = EdgeKind \cup {"loop", "bbcd"} /\ "loop" \notin EdgeKind /\ "bbcd" \notin EdgeKind
  BY DEF Kinds, EdgeKind
<1>8. /\ \A k \in EdgeKind : todo'[k] = Succ(program, k, cur')
      /\ pass # 0 => todo'["bbcd"] = program.bbcd[cur']
      /\ todo'["bbcd"] \in {{}, program.bbcd[cur']}
      /\ todo'["loop"] \subseteq program.loop[cur']
  BY <1>4, <1>6, <1>7
<1>9. todo' \in [Kinds -> SUBSET Node]
  BY <1>4, <1>5, <1>7, <1>8
<1> QED
  BY <1>1, <1>2, <1>3, <1>8, <1>9 DEF Pending

LEMMA InitType == Init => TypeOK
<1> SUFFICES ASSUME Init PROVE TypeOK
  OBVIOUS
<1>1. ~EdgesLeft /\ todo \in [Kinds -> SUBSET Node]
  BY NoEdgesType DEF Init, EdgesLeft, NoEdges
<1>2. Pending = {} /\ queue \in Seq(Node)
  BY <1>1, RangeEmpty DEF Init, Pending
<1> QED
  BY <1>1, <1>2 DEF Init, TypeOK, WalkDone

LEMMA NextType == TypeOK /\ [Next]_vars => TypeOK'
<1> SUFFICES ASSUME TypeOK, [Next]_vars PROVE TypeOK'
  OBVIOUS
<1>0. program.starts \in SUBSET Node
  BY ProgramFacts DEF TypeOK
<1>1. CASE Edge
  <2>1. PICK k \in Kinds, t \in Node :
              /\ t \in todo[k] /\ EdgesLeft
              /\ todo' = [todo EXCEPT ![k] = @ \ {t}]
              /\ parent' \in [Node -> Node \cup {None}]
              /\ queue' \in Seq(Node)
              /\ visited' = visited \/ visited' = visited \cup {t}
              /\ Skip(k, cur, t) \/ t \in visited'
              /\ Range(queue') = Range(queue) \cup (visited' \ visited)
    BY <1>1, EdgeFacts
  <2>2. UNCHANGED <<program, order, left, start, pass, cur, sliced, marked, handled>>
    BY <1>1 DEF Edge
  <2>3. Pending' \subseteq visited'
    BY <2>1, <2>2 DEF TypeOK, Pending
  <2>4. todo' \in [Kinds -> SUBSET Node]
    BY <2>1 DEF TypeOK
  <2>5. pass # 3
    BY <2>1 DEF TypeOK, WalkDone
  <2> QED
    BY <2>1, <2>2, <2>3, <2>4, <2>5 DEF TypeOK
<1>2. CASE Pop
  <2>1. /\ cur' \in Node /\ queue' \in Seq(Node) /\ visited' = visited /\ pass # 3
        /\ todo' \in [Kinds -> SUBSET Node]
        /\ Pending' \subseteq visited'
    BY <1>2, PopFacts DEF TypeOK, Pending
  <2>2. UNCHANGED <<program, order, left, start, pass, parent>>
    BY <1>2 DEF Pop
  <2>3. mark(cur') \/ handleLoop(cur') \/ handleAccess(cur')
    BY <1>2 DEF Pop
  <2>4. program.loop[cur'] \in SUBSET Node /\ program.entry[cur'] \in Node \cup {None}
    BY <2>1, ProgramFacts DEF TypeOK
  <2>5. sliced' \subseteq Node /\ marked' \subseteq Node /\ handled' \subseteq Node
    BY <2>1, <2>3, <2>4
      DEF TypeOK, mark, handleLoop, handleAccess, LoopAccesses
  <2> QED
    BY <2>1, <2>2, <2>5 DEF TypeOK
<1>3. CASE FirstPass
  <2>1. PICK s \in left : left' = left \ {s} /\ start' = s /\ Begin(s)
    BY <1>3 DEF FirstPass
  <2>2. s \in Node
    BY <1>0, <2>1 DEF TypeOK
  <2>3. UNCHANGED <<program, order, parent, sliced, marked, handled>> /\ pass' = 0
    BY <1>3 DEF FirstPass
  <2>4. /\ queue' \in Seq(Node) /\ visited' = {s} /\ Pending' = {s}
        /\ cur' = None /\ todo' \in [Kinds -> SUBSET Node]
    BY <2>1, <2>2, BeginFacts
  <2> QED
    BY <2>1, <2>2, <2>3, <2>4, WalkAssumption DEF TypeOK
<1>4. CASE NextPass
  <2>1. start \in Node
    BY <1>4 DEF NextPass, TypeOK
  <2>2. /\ Begin(start) /\ pass' = pass + 1 /\ pass \in 0 .. 1
        /\ UNCHANGED <<program, order, left, start, parent, sliced, marked, handled>>
    BY <1>4 DEF NextPass, TypeOK
  <2>3. /\ queue' \in Seq(Node) /\ visited' = {start} /\ Pending' = {start}
        /\ cur' = None /\ todo' \in [Kinds -> SUBSET Node]
    BY <2>1, <2>2, BeginFacts
  <2> QED
    BY <2>1, <2>2, <2>3 DEF TypeOK
<1>5. CASE LastPass
  <2>1. UNCHANGED <<Pending, todo>> /\ WalkDone'
    BY <1>5 DEF LastPass, walk, Pending, EdgesLeft, WalkDone
  <2> QED
    BY <1>5, <2>1 DEF LastPass, walk, TypeOK
<1>6. CASE UNCHANGED vars
  <2>1. UNCHANGED <<Pending, WalkDone>>
    BY <1>6 DEF vars, walk, Pending, EdgesLeft, WalkDone
  <2> QED
    BY <1>6, <2>1 DEF vars, walk, TypeOK
<1> QED
  BY <1>1, <1>2, <1>3, <1>4, <1>5, <1>6 DEF Next

\* The state of a walk keeps its types, and a walk has discovered the nodes it
\* queues (NodesWalk.h:enqueue).
THEOREM TypeCorrect == Spec => []TypeOK
BY InitType, NextType, PTL DEF Spec

-----------------------------------------------------------------------------
(* The walks refine GraphWalk.                                               *)

\* The edges of the node that is processed: those done, and those left.
CurInv ==
    EdgesLeft =>
        /\ cur \in Node
        /\ \A k \in Kinds : todo[k] \subseteq May[cur]
        /\ \A k \in EdgeKind : Always(program, k, cur) \subseteq visited \cup todo[k]
        /\ pass # 0 => program.bbcd[cur] \subseteq visited \cup todo["bbcd"]

\* Which successors a walk may and must discover, node by node.
LEMMA MustMayFacts ==
    ASSUME NEW n \in Node, NEW t \in Node
    PROVE  /\ t \in Must[n] <=>
                  \/ \E k \in EdgeKind : t \in Always(program, k, n)
                  \/ pass # 0 /\ t \in program.bbcd[n]
           /\ t \in May[n] <=>
                  \/ \E k \in EdgeKind : t \in Succ(program, k, n)
                  \/ t \in program.bbcd[n] \/ t \in program.loop[n]
<1>1. t \in Must[n] <=> \/ \E k \in EdgeKind : t \in Always(program, k, n)
                        \/ pass # 0 /\ t \in program.bbcd[n]
  BY Zenon DEF Must
<1>2. t \in May[n] <=> \/ \E k \in EdgeKind : t \in Succ(program, k, n)
                       \/ t \in program.bbcd[n] \/ t \in program.loop[n]
  BY Zenon DEF May
<1> QED
  BY <1>1, <1>2

\* No walk discovers or misses what is not a node.
LEMMA MustMayType ==
    ASSUME NEW n \in Node
    PROVE  Must[n] \subseteq Node /\ May[n] \subseteq Node
  BY DEF Must, May

\* As long as the program is the same and pass 0 is not left, so are they.
LEMMA SameGraph ==
    ASSUME program' = program, (pass' = 0) = (pass = 0)
    PROVE  Must' = Must /\ May' = May
  BY DEF Must, May

LEMMA PopCurInv == ASSUME TypeOK, Pop PROVE CurInv'
<1>1. /\ cur' \in Node /\ visited' = visited /\ pass' = pass /\ program' = program
      /\ \A k \in EdgeKind : todo'[k] = Succ(program, k, cur')
      /\ pass # 0 => todo'["bbcd"] = program.bbcd[cur']
      /\ todo'["bbcd"] \in {{}, program.bbcd[cur']}
      /\ todo'["loop"] \subseteq program.loop[cur']
  BY PopFacts DEF Pop
<1>2. \A k \in EdgeKind : Always(program, k, cur') \subseteq Succ(program, k, cur')
  BY DEF Always
<1>3. \A k \in EdgeKind : Always(program, k, cur)' \subseteq todo'[k]
  BY <1>1, <1>2 DEF Always, Succ, Cut, IsReturn
<1>4. \A k \in Kinds : todo'[k] \subseteq May[cur']
  <2> SUFFICES ASSUME NEW k \in Kinds, NEW t \in todo'[k] PROVE t \in May[cur']
    OBVIOUS
  <2>1. \/ \E j \in EdgeKind : t \in Succ(program, j, cur')
        \/ t \in program.bbcd[cur'] \/ t \in program.loop[cur']
    <3>1. CASE k \in EdgeKind
      BY <3>1, <1>1
    <3>2. CASE k = "loop"
      BY <3>2, <1>1
    <3>3. CASE k = "bbcd"
      BY <3>3, <1>1
    <3> QED
      BY <3>1, <3>2, <3>3 DEF Kinds
  <2>2. t \in Node
    BY PopFacts
  <2> QED
    BY <2>1, <2>2, <1>1, MustMayFacts
<1>5. May' = May
  BY <1>1, SameGraph
<1> QED
  BY <1>1, <1>3, <1>4, <1>5 DEF CurInv

LEMMA EdgeCurInv == ASSUME TypeOK, CurInv, Edge PROVE CurInv'
<1>1. PICK k \in Kinds, t \in Node :
              /\ t \in todo[k] /\ EdgesLeft
              /\ todo' = [todo EXCEPT ![k] = @ \ {t}]
              /\ parent' \in [Node -> Node \cup {None}]
              /\ queue' \in Seq(Node)
              /\ visited' = visited \/ visited' = visited \cup {t}
              /\ Skip(k, cur, t) \/ t \in visited'
              /\ Range(queue') = Range(queue) \cup (visited' \ visited)
  BY EdgeFacts
<1>2. cur' = cur /\ pass' = pass /\ program' = program
  BY DEF Edge
<1>3. May' = May
  BY <1>2, SameGraph
<1>4. \A j \in Kinds : todo'[j] = IF j = k THEN todo[j] \ {t} ELSE todo[j]
  BY <1>1 DEF TypeOK
<1>5. visited \subseteq visited'
  BY <1>1
<1>6. ASSUME NEW j \in EdgeKind
      PROVE  Always(program, j, cur) \subseteq visited' \cup todo'[j]
  <2>1. j \in Kinds
    BY DEF Kinds
  <2>2. Always(program, j, cur) \subseteq visited \cup todo[j]
    BY <1>1 DEF CurInv
  <2>3. CASE j # k
    BY <2>1, <2>2, <2>3, <1>4, <1>5
  <2>4. CASE j = k
    <3>1. t \in Always(program, j, cur) => t \in visited'
      BY <2>4, <1>1 DEF Skip, Unmatched, Always
    <3> QED
      BY <2>1, <2>2, <2>4, <3>1, <1>4, <1>5
  <2> QED
    BY <2>3, <2>4
<1>7. pass # 0 => program.bbcd[cur] \subseteq visited' \cup todo'["bbcd"]
  <2>1. ~Skip("bbcd", cur, t)
    BY DEF Skip, Cut, Unmatched, IsReturn
  <2>2. "bbcd" \in Kinds
    BY DEF Kinds
  <2> QED
    BY <1>1, <1>4, <1>5, <2>1, <2>2 DEF CurInv
<1>8. \A j \in Kinds : todo'[j] \subseteq May[cur]
  BY <1>1, <1>4 DEF CurInv
<1>9. \A j \in EdgeKind : Always(program, j, cur)' = Always(program, j, cur)
  BY <1>2 DEF Always, Succ, Cut, IsReturn
<1> QED
  BY <1>1, <1>2, <1>3, <1>6, <1>7, <1>8, <1>9 DEF CurInv

LEMMA NextCurInv == TypeOK /\ CurInv /\ [Next]_vars => CurInv'
<1> SUFFICES ASSUME TypeOK, CurInv, [Next]_vars PROVE CurInv'
  OBVIOUS
<1>1. CASE Edge
  BY <1>1, EdgeCurInv
<1>2. CASE Pop
  BY <1>2, PopCurInv
<1>3. CASE FirstPass
  <2>1. ~EdgesLeft'
    BY <1>3 DEF FirstPass, Begin, EdgesLeft, NoEdges
  <2> QED
    BY <2>1 DEF CurInv
<1>4. CASE NextPass
  <2>1. ~EdgesLeft'
    BY <1>4 DEF NextPass, Begin, EdgesLeft, NoEdges
  <2> QED
    BY <2>1 DEF CurInv
<1>5. CASE LastPass
  <2>1. ~EdgesLeft'
    BY <1>5 DEF LastPass, WalkDone, EdgesLeft, walk
  <2> QED
    BY <2>1 DEF CurInv
<1>6. CASE UNCHANGED vars
  <2>1. May' = May
    BY <1>6, SameGraph DEF vars
  <2>2. \A k \in EdgeKind : Always(program, k, cur)' = Always(program, k, cur)
    BY <1>6 DEF vars, walk, Always, Succ, Cut, IsReturn
  <2>3. /\ program' = program /\ pass' = pass /\ visited' = visited
        /\ cur' = cur /\ todo' = todo /\ EdgesLeft' = EdgesLeft
    BY <1>6 DEF vars, walk, EdgesLeft
  <2> QED
    BY <2>1, <2>2, <2>3 DEF CurInv
<1> QED
  BY <1>1, <1>2, <1>3, <1>4, <1>5, <1>6 DEF Next

LEMMA InitRefines == Init => GW!Init /\ CurInv
<1> SUFFICES ASSUME Init PROVE GW!Init /\ CurInv
  OBVIOUS
<1>1. ~EdgesLeft
  BY DEF Init, EdgesLeft, NoEdges
<1>2. Pending = {} /\ visited = {}
  BY <1>1, RangeEmpty DEF Init, Pending
<1> QED
  BY <1>1, <1>2 DEF GW!Init, CurInv

\* An edge that is processed is a step of the abstract walk at cur; the walk is
\* finished with cur if it was the last edge.
LEMMA EdgeRefines == ASSUME TypeOK, CurInv, Edge PROVE GW!Step
<1>1. PICK k \in Kinds, t \in Node :
              /\ t \in todo[k] /\ EdgesLeft
              /\ todo' = [todo EXCEPT ![k] = @ \ {t}]
              /\ parent' \in [Node -> Node \cup {None}]
              /\ queue' \in Seq(Node)
              /\ visited' = visited \/ visited' = visited \cup {t}
              /\ Skip(k, cur, t) \/ t \in visited'
              /\ Range(queue') = Range(queue) \cup (visited' \ visited)
  BY EdgeFacts
<1>2. cur' = cur /\ pass' = pass /\ program' = program
  BY DEF Edge
<1>3. Must' = Must /\ May' = May
  BY <1>2, SameGraph
<1>4. cur \in Pending /\ cur \in visited /\ cur \in Node
  BY <1>1 DEF Pending, TypeOK, CurInv
<1>5. visited' \ visited \subseteq May[cur] /\ visited \subseteq visited'
  <2>1. todo[k] \subseteq May[cur]
    BY <1>1 DEF CurInv
  <2> QED
    BY <1>1, <2>1
<1>6. CASE EdgesLeft'
  <2>1. Pending' = Pending \cup (visited' \ visited)
    BY <1>1, <1>2, <1>6 DEF Pending
  <2> QED
    BY <1>3, <1>4, <1>5, <2>1 DEF GW!Step
<1>7. CASE ~EdgesLeft'
  <2>1. Pending' = Range(queue) \cup (visited' \ visited) /\ Pending = Range(queue) \cup {cur}
    BY <1>1, <1>7 DEF Pending
  <2>2. CASE cur \in Range(queue)
    <3>1. Pending' = Pending \cup (visited' \ visited)
      BY <2>1, <2>2
    <3> QED
      BY <1>3, <1>4, <1>5, <3>1 DEF GW!Step
  <2>3. CASE cur \notin Range(queue)
    <3>1. Pending' = (Pending \cup (visited' \ visited)) \ {cur}
      BY <2>1, <2>3, <1>4
    <3>2. CurInv'
      BY EdgeCurInv
    <3>3. Must[cur] \subseteq visited'
      <4>1. \A j \in Kinds : todo'[j] = IF j = k THEN todo[j] \ {t} ELSE todo[j]
        BY <1>1 DEF TypeOK
      <4>2. \A j \in Kinds : todo'[j] = {}
        BY <1>7 DEF EdgesLeft
      <4>3. \A j \in EdgeKind : Always(program, j, cur) \subseteq visited'
        <5> SUFFICES ASSUME NEW j \in EdgeKind
                     PROVE  Always(program, j, cur) \subseteq visited'
          OBVIOUS
        <5>1. j \in Kinds
          BY DEF Kinds
        <5>2. Always(program, j, cur) \subseteq visited \cup todo[j]
          BY <1>1 DEF CurInv
        <5>3. CASE j # k
          <6>1. todo[j] = {}
            BY <5>1, <5>3, <4>1, <4>2
          <6> QED
            BY <5>2, <6>1, <1>5
        <5>4. CASE j = k
          <6>1. todo[j] = {t}
            BY <5>1, <5>4, <4>1, <4>2, <1>1
          <6>2. t \in Always(program, j, cur) => t \in visited'
            BY <5>4, <1>1 DEF Skip, Unmatched, Always
          <6> QED
            BY <5>2, <6>1, <6>2, <1>5
        <5> QED
          BY <5>3, <5>4
      <4>4. pass # 0 => program.bbcd[cur] \subseteq visited'
        <5>1. "bbcd" \in Kinds
          BY DEF Kinds
        <5>2. ~Skip("bbcd", cur, t)
          BY DEF Skip, Cut, Unmatched, IsReturn
        <5>3. todo["bbcd"] \subseteq visited'
          BY <5>1, <5>2, <4>1, <4>2, <1>1
        <5> QED
          BY <1>1, <5>3, <1>5 DEF CurInv
      <4> QED
        BY <1>4, <4>3, <4>4, MustMayFacts, MustMayType
    <3> QED
      BY <1>3, <1>4, <1>5, <3>1, <3>3 DEF GW!Step
  <2> QED
    BY <2>2, <2>3
<1> QED
  BY <1>6, <1>7

\* A node that is popped stays pending while it has edges; without edges, the
\* walk is finished with it.
LEMMA PopRefines == ASSUME TypeOK, Pop PROVE GW!Step \/ UNCHANGED GW!vars
<1>1. /\ pass' = pass /\ program' = program /\ pass # 3 /\ Pending = Range(queue)
      /\ cur' \in Node /\ Range(queue) = Range(queue') \cup {cur'}
      /\ visited' = visited
      /\ \A k \in EdgeKind : todo'[k] = Succ(program, k, cur')
      /\ pass # 0 => todo'["bbcd"] = program.bbcd[cur']
  BY PopFacts DEF Pop
<1>2. Must' = Must /\ May' = May
  BY <1>1, SameGraph
<1>3. CASE Pending' = Pending
  BY <1>1, <1>2, <1>3 DEF GW!vars
<1>4. CASE Pending' # Pending
  <2>1. ~EdgesLeft' /\ cur' \notin Range(queue') /\ Pending' = Pending \ {cur'}
    BY <1>1, <1>4 DEF Pending
  <2>2. Must[cur'] = {}
    <3>1. \A k \in Kinds : todo'[k] = {}
      BY <2>1 DEF EdgesLeft
    <3>2. \A k \in EdgeKind : k \in Kinds
      BY DEF Kinds
    <3>3. \A k \in EdgeKind : Always(program, k, cur') = {}
      BY <1>1, <3>1, <3>2 DEF Always
    <3>4. pass # 0 => program.bbcd[cur'] = {}
      BY <1>1, <3>1 DEF Kinds
    <3> QED
      BY <1>1, <3>3, <3>4, MustMayFacts, MustMayType
  <2>3. cur' \in Pending
    BY <1>1
  <2>4. visited' \ visited = {}
    BY <1>1
  <2> QED
    BY <1>1, <1>2, <2>1, <2>2, <2>3, <2>4 DEF GW!Step
<1> QED
  BY <1>3, <1>4

LEMMA NextRefines == TypeOK /\ CurInv /\ [Next]_vars => [GW!Next]_(GW!vars)
<1> SUFFICES ASSUME TypeOK, CurInv, [Next]_vars PROVE GW!Next \/ UNCHANGED GW!vars
  OBVIOUS
<1>1. CASE Edge
  BY <1>1, EdgeRefines DEF GW!Next
<1>2. CASE Pop
  BY <1>2, PopRefines DEF GW!Next
<1>3. DOMAIN May' = Node
  BY DEF May
<1>4. CASE FirstPass
  <2>1. PICK s \in left : Begin(s)
    BY <1>4 DEF FirstPass
  <2>2. s \in Node
    BY <2>1, ProgramFacts DEF TypeOK
  <2>3. Pending = {}
    BY <1>4, RangeEmpty DEF FirstPass, TypeOK, WalkDone, Pending
  <2> QED
    BY <1>3, <2>1, <2>2, <2>3, BeginFacts DEF GW!Begin, GW!Next
<1>5. CASE NextPass
  <2>1. start \in Node /\ Begin(start)
    BY <1>5 DEF NextPass, TypeOK
  <2>2. Pending = {}
    BY <1>5, RangeEmpty DEF NextPass, WalkDone, Pending
  <2> QED
    BY <1>3, <2>1, <2>2, BeginFacts DEF GW!Begin, GW!Next
<1>6. CASE LastPass
  <2>1. Must' = Must /\ May' = May
    BY <1>6, SameGraph DEF LastPass
  <2>2. visited' = visited /\ Pending' = Pending
    BY <1>6 DEF LastPass, walk, Pending, EdgesLeft
  <2> QED
    BY <2>1, <2>2 DEF GW!vars
<1>7. CASE UNCHANGED vars
  <2>1. Must' = Must /\ May' = May
    BY <1>7, SameGraph DEF vars
  <2>2. visited' = visited /\ Pending' = Pending
    BY <1>7 DEF vars, walk, Pending, EdgesLeft
  <2> QED
    BY <2>1, <2>2 DEF GW!vars
<1> QED
  BY <1>1, <1>2, <1>4, <1>5, <1>6, <1>7 DEF Next

\* The walks implement GraphWalk: whatever the order of the nodes and whatever
\* the parent slots hold, they invent no node and miss none but on return edges.
THEOREM Implements == Spec => IsGraphWalk
<1>1. Spec => [](TypeOK /\ CurInv)
  <2>1. Init => TypeOK /\ CurInv
    BY InitType, InitRefines
  <2>2. TypeOK /\ CurInv /\ [Next]_vars => (TypeOK /\ CurInv)'
    BY NextType, NextCurInv
  <2> QED
    BY <2>1, <2>2, PTL DEF Spec
<1> QED
  BY <1>1, InitRefines, NextRefines, PTL DEF Spec, IsGraphWalk, GW!Spec

-----------------------------------------------------------------------------
(* What the abstract walk guarantees, the walks guarantee.                   *)

LEMMA AbstractComplete == WalkComplete /\ [GW!Next]_(GW!vars) => WalkComplete'
<1> SUFFICES ASSUME WalkComplete, GW!Next \/ UNCHANGED GW!vars PROVE WalkComplete'
  OBVIOUS
<1>1. CASE GW!Begin
  BY <1>1 DEF GW!Begin, WalkComplete
<1>2. CASE GW!Step
  BY <1>2 DEF GW!Step, WalkComplete
<1>3. CASE UNCHANGED GW!vars
  BY <1>3 DEF GW!vars, WalkComplete
<1> QED
  BY <1>1, <1>2, <1>3 DEF GW!Next

\* A walk is finished with a node only when the nodes that depend on it in any
\* calling context are discovered.
THEOREM Complete == Spec => []WalkComplete
<1>1. GW!Init => WalkComplete
  BY DEF GW!Init, WalkComplete
<1> QED
  BY <1>1, AbstractComplete, Implements, PTL DEF IsGraphWalk, GW!Spec

-----------------------------------------------------------------------------
(* Where the walks come to.                                                  *)

\* What is known of the graphs of a program.
LEMMA ProgramShape ==
    ASSUME program \in Programs
    PROVE  /\ \A n \in Node : /\ Kind(n) = "entry" => program.entry[n] = n
                              /\ program.entry[n] # None => Kind(program.entry[n]) = "entry"
                              /\ program.loop[n] # {} => Kind(n) = "br"
                              /\ \A m \in program.bbcd[n] \cup program.loop[n] :
                                    program.entry[m] = program.entry[n]
                              /\ Home(program, n) = program.entry[n]
           /\ \A n \in program.atSecret : Kind(n) \in {"load", "store"}
<1>1. WellFormed(program)
  BY ProgramsAssumption
<1> QED
  BY <1>1 DEF WellFormed, Kind, Home

\* Where the edges of a node lead in the context of the node.
LEMMA ForwardFacts ==
    ASSUME program \in Programs, NEW n \in Node, NEW c \in Contexts
    PROVE  /\ Forward(program, <<n, c>>) \subseteq Node \X Contexts
           /\ \A m \in program.bbcd[n] \cup program.loop[n] :
                 <<m, c>> \in Forward(program, <<n, c>>)
           /\ \A k \in EdgeKind : \A t \in Succ(program, k, n) : \A d \in Contexts :
                 ~Cut(program, k, n, t) /\ d \in Into(program, n, c, k, t) =>
                    <<t, d>> \in Forward(program, <<n, c>>)
<1> DEFINE x == <<n, c>>
<1>1. x[1] = n /\ x[2] = c
  OBVIOUS
<1> HIDE DEF x
<1>2. ASSUME NEW t \in Node, NEW d \in Contexts,
             \/ t \in program.bbcd[n] \cup program.loop[n] /\ d = c
             \/ \E k \in EdgeKind : /\ t \in Succ(program, k, n) /\ ~Cut(program, k, n, t)
                                   /\ d \in Into(program, n, c, k, t)
      PROVE  <<t, d>> \in Forward(program, x)
  <2> DEFINE y == <<t, d>>
  <2>1. y[1] = t /\ y[2] = d /\ y \in Node \X Contexts
    OBVIOUS
  <2> HIDE DEF y
  <2>2. y \in Forward(program, x)
    BY <1>1, <1>2, <2>1, Zenon DEF Forward
  <2> QED
    BY <2>2 DEF y
<1>3. program.bbcd[n] \subseteq Node /\ program.loop[n] \subseteq Node
  BY ProgramFacts
<1>4. \A k \in EdgeKind : Succ(program, k, n) \subseteq Node
  BY ProgramFacts
<1>5. Forward(program, x) \subseteq Node \X Contexts
  BY Zenon DEF Forward
<1>6. \A m \in program.bbcd[n] \cup program.loop[n] : <<m, c>> \in Forward(program, x)
  BY <1>2, <1>3
<1>7. \A k \in EdgeKind : \A t \in Succ(program, k, n) : \A d \in Contexts :
         ~Cut(program, k, n, t) /\ d \in Into(program, n, c, k, t) =>
            <<t, d>> \in Forward(program, x)
  BY <1>2, <1>4
<1> QED
  BY <1>5, <1>6, <1>7 DEF x

\* Realizable is closed under the edges that it follows.
LEMMA PlacesExact ==
    ASSUME program \in Programs, NEW s \in Node
    PROVE  /\ <<s, "up">> \in Places(program, s)
           /\ Places(program, s) \subseteq Node \X Contexts
           /\ \A x \in Places(program, s) : Forward(program, x) \subseteq Places(program, s)
<1> DEFINE G == ContextGraph(program)
           S == {<<s, "up">>}
           R == Reachable(G, S)
<1>1. DOMAIN G = Node \X Contexts /\ \A x \in Node \X Contexts : G[x] = Forward(program, x)
  BY DEF ContextGraph
<1>2. \A x \in Node \X Contexts : Forward(program, x) \subseteq Node \X Contexts
  BY Zenon DEF Forward
<1>3. IsGraph(G)
  <2>1. IsFiniteSet(Contexts)
    <3>1. Contexts = {"down"} \cup {"up"}
      BY DEF Contexts
    <3> QED
      BY <3>1, FS_Singleton, FS_AddElement
  <2>2. IsFiniteSet(Node \X Contexts)
    BY <2>1, WalkAssumption, FS_Product
  <2>3. G \in [Node \X Contexts -> SUBSET (Node \X Contexts)]
    BY <1>2 DEF ContextGraph
  <2> QED
    BY <1>1, <2>2, <2>3 DEF IsGraph
<1>4. S \in SUBSET DOMAIN G
  BY <1>1 DEF Contexts
<1> HIDE DEF G, S
<1>5. R \subseteq DOMAIN G /\ S \subseteq R /\ \A b \in R : G[b] \subseteq R
  BY <1>3, <1>4, ReachableLeast, Zenon
<1>6. R = Places(program, s)
  BY DEF Places, G, S
<1> QED
  BY <1>1, <1>5, <1>6 DEF S

\* Where the running walk has come to, in a context it can be in: in a function that was
\* entered by a call, the slot of the function holds a call that the walk came through.
PlaceAt(n) ==
    \/ <<n, "up">> \in Places(program, start)
    \/ /\ <<n, "down">> \in Places(program, start)
       /\ program.entry[n] \in Node /\ parent[program.entry[n]] \in visited

\* The edges that are left are edges of the node that is processed.
TodoOfCur ==
    EdgesLeft =>
        /\ cur \in visited
        /\ \A k \in EdgeKind : todo[k] \subseteq Succ(program, k, cur)
        /\ todo["bbcd"] \subseteq program.bbcd[cur]
        /\ todo["loop"] \subseteq program.loop[cur]

PlaceInv == TodoOfCur /\ (pass # 3 => \A n \in visited : PlaceAt(n))

\* One iteration of processEdges in full.
LEMMA EdgeParts ==
    ASSUME TypeOK, Edge
    PROVE  \E k \in Kinds, t \in Node :
              /\ t \in todo[k] /\ EdgesLeft /\ pass # 3
              /\ todo' = [todo EXCEPT ![k] = @ \ {t}]
              /\ parent' = IF IsDown(program, k, cur, t)
                             THEN [parent EXCEPT ![t] = cur] ELSE parent
              /\ \/ Skip(k, cur, t) /\ queue' = queue /\ visited' = visited
                 \/ ~Skip(k, cur, t) /\ t \in visited /\ queue' = queue /\ visited' = visited
                 \/ ~Skip(k, cur, t) /\ t \notin visited
                    /\ queue' = Append(queue, t) /\ visited' = visited \cup {t}
<1>1. PICK k \in Kinds : IsNext(k) /\ \E t \in todo[k] :
          /\ todo' = [todo EXCEPT ![k] = @ \ {t}]
          /\ parent' = IF IsDown(program, k, cur, t)
                         THEN [parent EXCEPT ![t] = cur] ELSE parent
          /\ IF Skip(k, cur, t) THEN UNCHANGED <<queue, visited>> ELSE enqueue(t)
  BY Zenon DEF Edge
<1>2. PICK t \in todo[k] :
          /\ todo' = [todo EXCEPT ![k] = @ \ {t}]
          /\ parent' = IF IsDown(program, k, cur, t)
                         THEN [parent EXCEPT ![t] = cur] ELSE parent
          /\ IF Skip(k, cur, t) THEN UNCHANGED <<queue, visited>> ELSE enqueue(t)
  BY <1>1
<1>3. t \in Node
  BY <1>2 DEF TypeOK
<1>4. EdgesLeft
  BY <1>2 DEF EdgesLeft
<1>5. pass # 3
  BY <1>4 DEF TypeOK, WalkDone
<1>6. \/ Skip(k, cur, t) /\ queue' = queue /\ visited' = visited
      \/ ~Skip(k, cur, t) /\ t \in visited /\ queue' = queue /\ visited' = visited
      \/ ~Skip(k, cur, t) /\ t \notin visited
         /\ queue' = Append(queue, t) /\ visited' = visited \cup {t}
  BY <1>2, Zenon DEF enqueue
<1> QED
  BY <1>2, <1>3, <1>4, <1>5, <1>6

LEMMA EdgeTodo == ASSUME TypeOK, TodoOfCur, Edge PROVE TodoOfCur'
<1>1. PICK k \in Kinds, t \in Node :
         /\ t \in todo[k] /\ EdgesLeft
         /\ todo' = [todo EXCEPT ![k] = @ \ {t}]
         /\ visited \subseteq visited'
  BY EdgeParts
<1>2. cur' = cur /\ program' = program
  BY DEF Edge
<1>3. \A j \in Kinds : todo'[j] \subseteq todo[j]
  BY <1>1 DEF TypeOK
<1>4. "bbcd" \in Kinds /\ "loop" \in Kinds /\ EdgeKind \subseteq Kinds
  BY DEF Kinds
<1>5. \A j \in EdgeKind : Succ(program', j, cur') = Succ(program, j, cur)
  BY <1>2
<1> QED
  BY <1>1, <1>2, <1>3, <1>4, <1>5 DEF TodoOfCur

LEMMA PopTodo == ASSUME TypeOK, Pop PROVE TodoOfCur' /\ cur' \in visited'
<1>1. /\ visited' = visited /\ program' = program
      /\ \A k \in EdgeKind : todo'[k] = Succ(program, k, cur')
      /\ todo'["bbcd"] \in {{}, program.bbcd[cur']}
      /\ todo'["loop"] \subseteq program.loop[cur']
      /\ cur' \in Range(queue)
  BY PopFacts DEF Pop
<1>2. cur' \in visited
  BY <1>1 DEF TypeOK, Pending
<1>3. \A k \in EdgeKind : Succ(program', k, cur') = Succ(program, k, cur')
  BY <1>1
<1> QED
  BY <1>1, <1>2, <1>3 DEF TodoOfCur

LEMMA EdgePlace == ASSUME TypeOK, PlaceInv, Edge PROVE PlaceInv'
<1>1. PICK k \in Kinds, t \in Node :
              /\ t \in todo[k] /\ EdgesLeft /\ pass # 3
              /\ todo' = [todo EXCEPT ![k] = @ \ {t}]
              /\ parent' = IF IsDown(program, k, cur, t)
                             THEN [parent EXCEPT ![t] = cur] ELSE parent
              /\ \/ Skip(k, cur, t) /\ queue' = queue /\ visited' = visited
                 \/ ~Skip(k, cur, t) /\ t \in visited /\ queue' = queue /\ visited' = visited
                 \/ ~Skip(k, cur, t) /\ t \notin visited
                    /\ queue' = Append(queue, t) /\ visited' = visited \cup {t}
  BY EdgeParts
<1>2. cur' = cur /\ program' = program /\ start' = start /\ pass' = pass
  BY DEF Edge
<1>3. TodoOfCur'
  BY EdgeTodo DEF PlaceInv
<1>4. /\ cur \in visited /\ cur \in Node /\ visited \subseteq Node /\ start \in Node
      /\ parent \in [Node -> Node \cup {None}] /\ program \in Programs
  BY <1>1 DEF PlaceInv, TodoOfCur, TypeOK
<1>5. \A e \in Node : parent[e] \in visited => parent'[e] \in visited
  BY <1>1, <1>4
<1>6. \A n \in visited : PlaceAt(n)'
  BY <1>1, <1>2, <1>5 DEF PlaceInv, PlaceAt
<1>7. ASSUME ~Skip(k, cur, t), t \notin visited, visited' = visited \cup {t}
      PROVE  PlaceAt(t)'
  <2> DEFINE P == Places(program, start)
             e == program.entry[cur]
  <2>1. PlaceAt(cur)
    BY <1>1, <1>4 DEF PlaceInv
  <2>2. \A c \in Contexts : <<cur, c>> \in P => Forward(program, <<cur, c>>) \subseteq P
    BY <1>4, PlacesExact
  <2>3. PICK c \in Contexts : /\ <<cur, c>> \in P
                              /\ c = "down" => e \in Node /\ parent[e] \in visited
    BY <2>1 DEF PlaceAt, Contexts
  <2>4. P' = P
    BY <1>2 DEF Places
  <2> HIDE DEF P
  \* a successor in the same function and context
  <2>5. ASSUME <<t, c>> \in P, program.entry[t] = e PROVE PlaceAt(t)'
    <3>1. CASE c = "up"
      BY <2>4, <2>5, <3>1 DEF PlaceAt, P
    <3>2. CASE c = "down"
      <4>1. program'.entry[t] = e /\ parent'[e] \in visited'
        BY <1>2, <1>5, <1>7, <2>3, <2>5, <3>2
      <4> QED
        BY <1>2, <2>3, <2>4, <2>5, <3>2, <4>1 DEF PlaceAt, P
    <3> QED
      BY <3>1, <3>2 DEF Contexts
  <2>6. ASSUME <<t, "up">> \in P PROVE PlaceAt(t)'
    BY <2>4, <2>6 DEF PlaceAt, P
  <2>7. CASE k \notin EdgeKind
    <3>1. t \in program.bbcd[cur] \cup program.loop[cur]
      BY <1>1, <2>7 DEF Kinds, PlaceInv, TodoOfCur
    <3>2. <<t, c>> \in P /\ program.entry[t] = e
      BY <1>4, <2>2, <2>3, <3>1, ForwardFacts, ProgramShape
    <3> QED
      BY <2>5, <3>2
  <2>8. CASE k \in EdgeKind
    <3>1. t \in Succ(program, k, cur) /\ ~Cut(program, k, cur, t) /\ ~Unmatched(k, cur, t)
      BY <1>1, <1>7, <2>8 DEF Skip, PlaceInv, TodoOfCur
    <3>2. \A d \in Contexts : d \in Into(program, cur, c, k, t) => <<t, d>> \in P
      BY <1>4, <2>2, <2>3, <2>8, <3>1, ForwardFacts
    <3>3. CASE IsDown(program, k, cur, t)
      <4>1. program.entry[t] = t
        BY <1>4, <3>3, ProgramShape DEF IsDown, Kind
      <4>2. parent'[t] = cur
        BY <1>1, <1>4, <3>3
      <4>3. <<t, "down">> \in P
        BY <3>2, <3>3 DEF Into, Contexts
      <4> QED
        BY <1>2, <1>4, <1>7, <2>4, <4>1, <4>2, <4>3 DEF PlaceAt, P
    <3>4. CASE ~IsDown(program, k, cur, t) /\ IsReturn(program, k, cur, t)
      <4>1. CASE c = "up"
        BY <2>6, <3>2, <3>4, <4>1 DEF Into, Contexts
      <4>2. CASE c = "down"
        <5>1. Home(program, cur) = e
          BY <1>4, ProgramShape
        <5>2. e # None /\ parent[e] # None
          BY <1>4, <2>3, <4>2, WalkAssumption
        <5>3. parent[e] = t
          BY <3>1, <3>4, <5>1, <5>2 DEF Unmatched
        <5> QED
          BY <1>7, <2>3, <4>2, <5>3
      <4> QED
        BY <4>1, <4>2 DEF Contexts
    <3>5. CASE ~IsDown(program, k, cur, t) /\ ~IsReturn(program, k, cur, t)
      BY <2>5, <2>6, <3>2, <3>5 DEF Into, Contexts
    <3> QED
      BY <3>3, <3>4, <3>5
  <2> QED
    BY <2>7, <2>8
<1>8. \A n \in visited' : PlaceAt(n)'
  BY <1>1, <1>6, <1>7
<1> QED
  BY <1>3, <1>8 DEF PlaceInv

LEMMA NextPlace == TypeOK /\ PlaceInv /\ [Next]_vars => PlaceInv'
<1> SUFFICES ASSUME TypeOK, PlaceInv, [Next]_vars PROVE PlaceInv'
  OBVIOUS
<1>0. program \in Programs /\ program.starts \in SUBSET Node
  BY ProgramFacts DEF TypeOK
<1>1. CASE Edge
  BY <1>1, EdgePlace
<1>2. CASE Pop
  <2>1. TodoOfCur'
    BY <1>2, PopTodo
  <2>2. /\ UNCHANGED <<program, start, pass, visited, parent>> /\ pass # 3
    BY <1>2 DEF Pop
  <2> QED
    BY <2>1, <2>2 DEF PlaceInv, PlaceAt
\* a walk begins where any call may be returned to
<1>3. ASSUME NEW s \in Node, Begin(s), start' = s, program' = program
      PROVE  PlaceInv'
  <2>1. visited' = {s} /\ ~EdgesLeft'
    BY <1>3, BeginFacts
  <2>2. <<s, "up">> \in Places(program, s)
    BY <1>0, PlacesExact
  <2> QED
    BY <1>3, <2>1, <2>2 DEF PlaceInv, PlaceAt, TodoOfCur
<1>4. CASE FirstPass
  <2>1. PICK s \in left : start' = s /\ Begin(s)
    BY <1>4 DEF FirstPass
  <2> QED
    BY <1>0, <1>3, <1>4, <2>1 DEF FirstPass, TypeOK
<1>5. CASE NextPass
  BY <1>3, <1>5 DEF NextPass, TypeOK
<1>6. CASE LastPass
  BY <1>6 DEF LastPass, walk, PlaceInv, TodoOfCur, EdgesLeft
<1>7. CASE UNCHANGED vars
  BY <1>7 DEF vars, walk, PlaceInv, PlaceAt, TodoOfCur, EdgesLeft
<1> QED
  BY <1>1, <1>2, <1>4, <1>5, <1>6, <1>7 DEF Next


-----------------------------------------------------------------------------
(* The first walk is not stopped by a branch that was marked before.         *)

\* The pass 0 of a program with one starting node.
FirstWalk == pass = 0 /\ program.starts = {start}

Entries == {n \in Node : Kind(n) = "entry"}

\* Nodes that the walk has popped, and what it leaves to discover of the nodes that a
\* branch among them controls.
Popped == visited \ Range(queue)
BlocksLeft(n) == IF EdgesLeft /\ n = cur THEN todo["bbcd"] ELSE {}

FirstInv ==
    /\ IF start = None THEN sliced = {} ELSE start \notin left /\ start \in program.starts
    /\ IsInjective(queue)
    /\ FirstWalk =>
          /\ sliced \subseteq Popped \cup Entries
          /\ \A n \in Popped : Kind(n) = "br" => program.bbcd[n] \subseteq visited \cup BlocksLeft(n)

\* A queue with no node twice has none twice when its first node is removed, and that
\* node is no more in it.
LEMMA OnceTail ==
    ASSUME NEW S, NEW q \in Seq(S), q # <<>>, IsInjective(q)
    PROVE  IsInjective(Tail(q)) /\ Head(q) \notin Range(Tail(q))
<1>1. DOMAIN Tail(q) = 1 .. Len(q) - 1 /\ DOMAIN q = 1 .. Len(q) /\ Len(q) \in Nat \ {0}
  BY HeadTailProperties, EmptySeq
<1>2. \A i \in 1 .. Len(q) - 1 : Tail(q)[i] = q[i + 1]
  BY HeadTailProperties
<1>3. Head(q) = q[1]
  BY HeadTailProperties
<1>4. ASSUME NEW i \in 1 .. Len(q) - 1  PROVE Tail(q)[i] # Head(q)
  <2>1. i + 1 \in DOMAIN q /\ 1 \in DOMAIN q /\ i + 1 # 1
    BY <1>1
  <2> QED
    BY <1>2, <1>3, <2>1 DEF IsInjective
<1>5. ASSUME NEW i \in 1 .. Len(q) - 1, NEW j \in 1 .. Len(q) - 1, Tail(q)[i] = Tail(q)[j]
      PROVE  i = j
  <2>1. i + 1 \in DOMAIN q /\ j + 1 \in DOMAIN q
    BY <1>1
  <2>2. i + 1 = j + 1
    BY <1>2, <1>5, <2>1 DEF IsInjective
  <2> QED
    BY <2>2
<1> QED
  BY <1>1, <1>4, <1>5 DEF Range, IsInjective

\* Nor when a node that is not in it is appended.
LEMMA OnceAppend ==
    ASSUME NEW S, NEW q \in Seq(S), NEW e \in S, IsInjective(q), e \notin Range(q)
    PROVE  IsInjective(Append(q, e))
<1>1. DOMAIN Append(q, e) = 1 .. Len(q) + 1 /\ DOMAIN q = 1 .. Len(q) /\ Len(q) \in Nat
  OBVIOUS
<1>2. \A i \in 1 .. Len(q) : Append(q, e)[i] = q[i] /\ q[i] # e
  BY <1>1 DEF Range
<1>3. Append(q, e)[Len(q) + 1] = e
  OBVIOUS
<1>4. ASSUME NEW i \in 1 .. Len(q) + 1, NEW j \in 1 .. Len(q) + 1, Append(q, e)[i] = Append(q, e)[j]
      PROVE  i = j
  <2>1. i \in 1 .. Len(q) \/ i = Len(q) + 1
    BY <1>1
  <2>2. j \in 1 .. Len(q) \/ j = Len(q) + 1
    BY <1>1
  <2> QED
    BY <1>1, <1>2, <1>3, <1>4, <2>1, <2>2 DEF IsInjective
<1> QED
  BY <1>1, <1>4 DEF IsInjective

\* A queue of one node has none twice.
LEMMA OnceBegin == ASSUME NEW s \in Node, Begin(s) PROVE IsInjective(queue') /\ Popped' = {}
<1>1. queue' = <<s>> /\ visited' = {s} /\ Range(<<s>>) = {s}
  BY RangeOne DEF Begin
<1>2. IsInjective(<<s>>)
  BY DEF IsInjective
<1> QED
  BY <1>1, <1>2 DEF Popped

\* An edge adds to the nodes that are discovered, and to none that are popped.
LEMMA EdgeQueue ==
    ASSUME TypeOK, Edge, IsInjective(queue)
    PROVE  IsInjective(queue') /\ Popped' = Popped /\ visited \subseteq visited'
<1>1. PICK k \in Kinds, t \in Node :
         \/ queue' = queue /\ visited' = visited
         \/ t \notin visited /\ queue' = Append(queue, t) /\ visited' = visited \cup {t}
  BY EdgeParts
<1>2. CASE queue' = queue /\ visited' = visited
  BY <1>2 DEF Popped
<1>3. CASE t \notin visited /\ queue' = Append(queue, t) /\ visited' = visited \cup {t}
  <2>1. queue \in Seq(Node) /\ Range(queue) \subseteq visited
    BY DEF TypeOK, Pending
  <2>2. Range(queue') = Range(queue) \cup {t}
    BY <1>3, <2>1, RangeAppend
  <2>3. IsInjective(queue')
    BY <1>3, <2>1, OnceAppend
  <2> QED
    BY <1>3, <2>1, <2>2, <2>3 DEF Popped
<1> QED
  BY <1>1, <1>2, <1>3

\* The node that is popped is the only one more that is popped.
LEMMA PopQueue ==
    ASSUME TypeOK, Pop, IsInjective(queue)
    PROVE  /\ IsInjective(queue') /\ cur' \in Range(queue) /\ cur' \in visited
           /\ Popped' = Popped \cup {cur'} /\ cur' \notin Popped
<1>1. /\ visited' = visited /\ cur' = Head(queue) /\ queue' = Tail(queue)
      /\ queue # <<>> /\ queue \in Seq(Node)
  BY DEF Pop, TypeOK
<1>2. Range(queue) = Range(queue') \cup {cur'} /\ Range(queue) \subseteq visited
  BY PopFacts DEF TypeOK
<1>3. IsInjective(queue') /\ cur' \notin Range(queue')
  BY <1>1, OnceTail
<1> QED
  BY <1>1, <1>2, <1>3 DEF Popped

LEMMA EdgeFirst == ASSUME TypeOK, TodoOfCur, FirstInv, Edge PROVE FirstInv'
<1>1. PICK k \in Kinds, t \in Node :
         /\ t \in todo[k] /\ EdgesLeft
         /\ todo' = [todo EXCEPT ![k] = @ \ {t}]
         /\ ~Skip(k, cur, t) => t \in visited'
  BY EdgeFacts
<1>2. UNCHANGED <<program, left, start, pass, cur, sliced>>
  BY DEF Edge
<1>3. IsInjective(queue') /\ Popped' = Popped /\ visited \subseteq visited'
  BY EdgeQueue DEF FirstInv
<1>4. Entries' = Entries /\ FirstWalk' = FirstWalk
  BY <1>2 DEF Entries, Kind, FirstWalk
<1>5. todo["bbcd"] \subseteq visited' \cup todo'["bbcd"]
  <2>1. "bbcd" \in Kinds
    BY DEF Kinds
  <2>2. CASE k = "bbcd"
    <3>1. ~Skip("bbcd", cur, t)
      BY DEF Skip, Cut, Unmatched, IsReturn
    <3> QED
      BY <1>1, <2>1, <2>2, <3>1 DEF TypeOK
  <2>3. CASE k # "bbcd"
    BY <1>1, <2>1, <2>3 DEF TypeOK
  <2> QED
    BY <2>2, <2>3
<1>6. (\E j \in Kinds : todo'[j] # {}) \/ todo'["bbcd"] = {}
  BY DEF Kinds
<1>7. ASSUME FirstWalk, NEW n \in Popped, Kind(n) = "br"
      PROVE  program.bbcd[n] \subseteq visited' \cup BlocksLeft(n)'
  <2>1. program.bbcd[n] \subseteq visited \cup BlocksLeft(n)
    BY <1>7 DEF FirstInv
  <2>2. CASE n = cur
    <3>1. BlocksLeft(n) = todo["bbcd"]
      BY <1>1, <2>2 DEF BlocksLeft
    <3>2. BlocksLeft(n)' = todo'["bbcd"]
      BY <1>2, <1>6, <2>2 DEF BlocksLeft, EdgesLeft
    <3> QED
      BY <1>3, <1>5, <2>1, <3>1, <3>2
  <2>3. CASE n # cur
    BY <1>3, <2>1, <2>3 DEF BlocksLeft
  <2> QED
    BY <2>2, <2>3
<1>8. FirstWalk => sliced' \subseteq Popped' \cup Entries'
  BY <1>2, <1>3, <1>4 DEF FirstInv
<1>9. FirstWalk => \A n \in Popped' : Kind(n)' = "br" =>
         program'.bbcd[n] \subseteq visited' \cup BlocksLeft(n)'
  BY <1>2, <1>3, <1>7 DEF Kind
<1> QED
  BY <1>2, <1>3, <1>4, <1>8, <1>9 DEF FirstInv

LEMMA PopFirst == ASSUME TypeOK, FirstInv, Pop PROVE FirstInv'
<1>1. /\ pass # 3 /\ ~EdgesLeft /\ cur' \in Node /\ visited' = visited
      /\ UNCHANGED <<program, left, start, pass>>
  BY PopFacts DEF Pop
<1>2. /\ IsInjective(queue') /\ cur' \in visited
      /\ Popped' = Popped \cup {cur'} /\ cur' \notin Popped
  BY PopQueue DEF FirstInv
<1>3. start # None /\ program \in Programs
  BY <1>1 DEF TypeOK
<1>4. ASSUME FirstWalk PROVE sliced' \subseteq Popped' \cup Entries'
  <2>1. mark(cur')
    BY <1>4 DEF Pop, FirstWalk, handleLoop, handleAccess
  <2>2. sliced' \subseteq sliced \cup {cur'} \cup ({program.entry[cur']} \ {None})
    BY <2>1 DEF mark
  <2>3. {program.entry[cur']} \ {None} \subseteq Entries
    BY <1>1, <1>3, ProgramFacts, ProgramShape DEF Entries
  <2>4. Entries' = Entries
    BY <1>1 DEF Entries, Kind
  <2> QED
    BY <1>2, <1>4, <2>2, <2>3, <2>4 DEF FirstInv
<1>5. ASSUME FirstWalk, NEW n \in Popped', Kind(n) = "br"
      PROVE  program.bbcd[n] \subseteq visited \cup BlocksLeft(n)'
  <2>1. CASE n # cur'
    <3>1. n \in Popped
      BY <1>2, <2>1
    <3> QED
      BY <1>1, <1>5, <3>1 DEF FirstInv, BlocksLeft
  <2>2. CASE n = cur'
    <3>1. n \notin sliced
      BY <1>2, <1>5, <2>2 DEF FirstInv, Entries
    <3>2. NewlyMarked(n)
      BY <1>1, <1>3, <1>5, <2>2, <3>1, ProgramShape DEF NewlyMarked
    <3>3. todo'["bbcd"] = MarkTodo(n)["bbcd"]
      BY <1>5, <2>2 DEF Pop, FirstWalk, Kinds, EdgeKind
    <3>4. todo'["bbcd"] = program.bbcd[n]
      BY <1>5, <3>2, <3>3 DEF MarkTodo, NoEdges, Kinds
    <3>5. program.bbcd[n] # {} => EdgesLeft'
      BY <3>4 DEF EdgesLeft, Kinds
    <3> QED
      BY <2>2, <3>4, <3>5 DEF BlocksLeft
  <2> QED
    BY <2>1, <2>2
<1>6. FirstWalk' = FirstWalk
  BY <1>1 DEF FirstWalk
<1>7. FirstWalk => \A n \in Popped' : Kind(n)' = "br" =>
         program'.bbcd[n] \subseteq visited' \cup BlocksLeft(n)'
  BY <1>1, <1>5 DEF Kind
<1> QED
  BY <1>1, <1>2, <1>3, <1>4, <1>6, <1>7 DEF FirstInv

LEMMA NextFirst == TypeOK /\ TodoOfCur /\ FirstInv /\ [Next]_vars => FirstInv'
<1> SUFFICES ASSUME TypeOK, TodoOfCur, FirstInv, [Next]_vars PROVE FirstInv'
  OBVIOUS
<1>0. program.starts \in SUBSET Node
  BY ProgramFacts DEF TypeOK
<1>1. CASE Edge
  BY <1>1, EdgeFirst
<1>2. CASE Pop
  BY <1>2, PopFirst
<1>3. CASE FirstPass
  <2>1. PICK s \in left : left' = left \ {s} /\ start' = s /\ Begin(s)
    BY <1>3 DEF FirstPass
  <2>2. UNCHANGED <<program, sliced>>
    BY <1>3 DEF FirstPass
  <2>3. s \in program.starts /\ s \in Node /\ s # None
    BY <1>0, <2>1, WalkAssumption DEF TypeOK
  <2>4. IsInjective(queue') /\ Popped' = {}
    BY <2>1, <2>3, OnceBegin
  <2>5. program.starts = {s} => sliced = {}
    BY <2>1 DEF FirstInv
  <2> QED
    BY <2>1, <2>2, <2>3, <2>4, <2>5 DEF FirstInv, FirstWalk
<1>4. CASE NextPass
  <2>1. start \in Node /\ Begin(start) /\ pass' # 0
    BY <1>4 DEF NextPass, TypeOK
  <2>2. UNCHANGED <<program, left, start, sliced>>
    BY <1>4 DEF NextPass
  <2>3. IsInjective(queue')
    BY <2>1, OnceBegin
  <2> QED
    BY <2>1, <2>2, <2>3 DEF FirstInv, FirstWalk
<1>5. CASE LastPass
  BY <1>5 DEF LastPass, walk, FirstInv, FirstWalk
<1>6. CASE UNCHANGED vars
  <2>1. UNCHANGED <<program, left, start, pass, queue, visited, cur, todo, sliced>>
    BY <1>6 DEF vars, walk
  <2> QED
    BY <2>1 DEF FirstInv, FirstWalk, Popped, Entries, Kind, BlocksLeft, EdgesLeft
<1> QED
  BY <1>1, <1>2, <1>3, <1>4, <1>5, <1>6 DEF Next

\* At the end of a walk it has come only where the calls it came through return to, and
\* the one pass 0 of a program has followed each branch (NodesWalk.h:processEdges with its
\* parent slots, Slicing.h:markSlice).
THEOREM WalksExact == Spec => []WalkExact
<1>1. TypeOK /\ PlaceInv /\ FirstInv => WalkExact
  <2> SUFFICES ASSUME TypeOK, PlaceInv, FirstInv PROVE WalkExact
    OBVIOUS
  <2>1. ASSUME pass # 3 PROVE visited \subseteq Realizable(program, start)
    <3> SUFFICES ASSUME NEW n \in visited PROVE n \in Realizable(program, start)
      OBVIOUS
    <3>1. PICK c \in Contexts : <<n, c>> \in Places(program, start)
      BY <2>1 DEF PlaceInv, PlaceAt, Contexts
    <3>2. <<n, c>>[1] = n
      OBVIOUS
    <3> QED
      BY <3>1, <3>2 DEF Realizable
  <2>2. ASSUME FirstWalk, NEW n \in visited \ Pending, Kind(n) = "br"
        PROVE  program.bbcd[n] \subseteq visited
    <3>1. n \in Popped /\ (EdgesLeft => n # cur)
      BY <2>2 DEF Pending, Popped
    <3> QED
      BY <2>2, <3>1 DEF FirstInv, BlocksLeft
  <2> QED
    BY <2>1, <2>2 DEF WalkExact, FirstWalk
<1>2. Init => TypeOK /\ PlaceInv /\ FirstInv
  <2> SUFFICES ASSUME Init PROVE TypeOK /\ PlaceInv /\ FirstInv
    OBVIOUS
  <2>1. ~EdgesLeft /\ pass = 3 /\ queue = <<>> /\ start = None /\ sliced = {}
    BY DEF Init, EdgesLeft, NoEdges
  <2>2. IsInjective(<<>>)
    BY DEF IsInjective
  <2> QED
    BY <2>1, <2>2, InitType DEF PlaceInv, TodoOfCur, FirstInv, FirstWalk
<1>3. TypeOK /\ PlaceInv /\ FirstInv /\ [Next]_vars => (TypeOK /\ PlaceInv /\ FirstInv)'
  BY NextType, NextPlace, NextFirst DEF PlaceInv
<1> QED
  BY <1>1, <1>2, <1>3, PTL DEF Spec


-----------------------------------------------------------------------------
(* What is handled was marked.                                               *)

\* What needs no more marking: a node is marked, is an access to the secret, or is an
\* entry node, which is marked with the function.
Settled == marked \cup program.atSecret \cup Entries

\* Pass 0 marks all that it discovers and the loops of the branches that it marks.
MarkInv ==
    /\ sliced \subseteq marked \cup Entries
    /\ handled \subseteq marked \cup program.atSecret
    /\ pass = 0 => visited \subseteq Range(queue) \cup Settled
    /\ \A n \in marked : program.loop[n] \subseteq
          Settled \cup IF pass = 0 THEN Range(queue) \cup todo["loop"] ELSE {}

\* Only pass 0 marks, and what it pops is settled then.
LEMMA PopMarks ==
    ASSUME TypeOK, MarkInv, Pop
    PROVE  /\ marked \subseteq marked' /\ Settled \subseteq Settled'
           /\ sliced' \subseteq marked' \cup Entries
           /\ pass # 0 => marked' = marked
           /\ pass = 0 => /\ cur' \in Settled' /\ marked' \subseteq marked \cup {cur'}
                          /\ handled' = handled
                          /\ cur' \in marked' \ marked =>
                                todo'["loop"] = program.loop[cur'] \ sliced
<1>1. cur' \in Node /\ program' = program /\ program \in Programs
  BY PopFacts DEF Pop, TypeOK
<1>2. Entries' = Entries /\ sliced \subseteq marked \cup Entries
  BY <1>1 DEF Entries, Kind, MarkInv
<1>3. CASE pass = 0
  <2>1. mark(cur')
    BY <1>3 DEF Pop, handleLoop, handleAccess
  <2>2. {program.entry[cur']} \ {None} \subseteq Entries
    BY <1>1, ProgramFacts, ProgramShape DEF Entries
  <2>3. CASE NewlyMarked(cur')
    <3>1. marked' = marked \cup {cur'} /\ handled' = handled
          /\ sliced' = sliced \cup {cur'} \cup ({program.entry[cur']} \ {None})
      BY <2>1, <2>3 DEF mark
    <3>2. todo'["loop"] = MarkTodo(cur')["loop"]
      BY <1>3 DEF Pop, Kinds, EdgeKind
    <3>3. todo'["loop"] = program.loop[cur'] \ sliced
      BY <2>3, <3>2 DEF MarkTodo, NoEdges, Kinds
    <3> QED
      BY <1>1, <1>2, <1>3, <2>2, <3>1, <3>3 DEF Settled
  <2>4. CASE ~NewlyMarked(cur')
    <3>1. marked' = marked /\ handled' = handled /\ sliced' = sliced
      BY <2>1, <2>4 DEF mark
    <3>2. cur' \in Settled
      BY <1>2, <2>4 DEF NewlyMarked, Settled
    <3> QED
      BY <1>1, <1>2, <1>3, <3>1, <3>2 DEF Settled
  <2> QED
    BY <2>3, <2>4
<1>4. CASE pass # 0
  <2>1. marked' = marked /\ sliced' \subseteq sliced
    BY <1>4 DEF Pop, mark, handleLoop, handleAccess
  <2> QED
    BY <1>1, <1>2, <1>4, <2>1 DEF Settled
<1> QED
  BY <1>3, <1>4

LEMMA PopMarkInv == ASSUME TypeOK, MarkInv, Pop PROVE MarkInv'
<1>1. /\ pass # 3 /\ cur' \in Node /\ Range(queue) = Range(queue') \cup {cur'}
      /\ visited' = visited /\ pass' = pass /\ program' = program /\ program \in Programs
      /\ todo["loop"] = {}
  BY PopFacts DEF Pop, TypeOK, EdgesLeft, Kinds
<1>2. Entries' = Entries
  BY <1>1 DEF Entries, Kind
<1>3. /\ marked \subseteq marked' /\ Settled \subseteq Settled'
      /\ sliced' \subseteq marked' \cup Entries
      /\ pass # 0 => marked' = marked
      /\ pass = 0 => /\ cur' \in Settled' /\ marked' \subseteq marked \cup {cur'}
                     /\ handled' = handled
                     /\ cur' \in marked' \ marked => todo'["loop"] = program.loop[cur'] \ sliced
  BY PopMarks
\* pass 1 handles what a loop reads and writes, pass 2 the popped node
<1>4. handled' \subseteq marked' \cup program'.atSecret
  <2>1. handled \subseteq marked \cup program.atSecret
    BY DEF MarkInv
  <2>2. CASE handleLoop(cur') /\ cur' \in sliced
    <3>1. handled' = handled \cup LoopAccesses(cur') /\ pass = 1
      BY <2>2 DEF handleLoop
    <3>2. CASE cur' \in marked
      <4>1. program.loop[cur'] \subseteq Settled
        BY <3>1, <3>2 DEF MarkInv
      <4>2. LoopAccesses(cur') \subseteq marked \cup program.atSecret
        BY <4>1 DEF LoopAccesses, Settled, Entries
      <4> QED
        BY <1>1, <1>3, <2>1, <3>1, <4>2
    <3>3. CASE cur' \notin marked
      <4>1. Kind(cur') = "entry"
        BY <2>2, <3>3 DEF MarkInv, Entries
      <4>2. LoopAccesses(cur') = {}
        BY <1>1, <4>1, ProgramShape DEF LoopAccesses
      <4> QED
        BY <1>1, <1>3, <2>1, <3>1, <4>2
    <3> QED
      BY <3>2, <3>3
  <2>3. CASE handleAccess(cur') /\ cur' \in sliced /\ IsAccess(cur')
    <3>1. handled' = handled \cup {cur'}
      BY <2>3 DEF handleAccess
    <3>2. cur' \in marked
      BY <2>3 DEF MarkInv, Entries, IsAccess
    <3> QED
      BY <1>1, <1>3, <2>1, <3>1, <3>2
  <2>4. CASE handled' = handled
    BY <1>1, <1>3, <2>1, <2>4
  <2> QED
    BY <2>2, <2>3, <2>4 DEF Pop, mark, handleLoop, handleAccess
<1>5. pass = 0 => visited' \subseteq Range(queue') \cup Settled'
  BY <1>1, <1>3 DEF MarkInv
<1>6. ASSUME NEW n \in marked'
      PROVE  program.loop[n] \subseteq
                Settled' \cup IF pass = 0 THEN Range(queue') \cup todo'["loop"] ELSE {}
  <2>1. CASE n \in marked
    BY <1>1, <1>3, <2>1 DEF MarkInv
  <2>2. CASE n \notin marked
    <3>1. pass = 0 /\ n = cur' /\ todo'["loop"] = program.loop[n] \ sliced
      BY <1>3, <1>6, <2>2
    <3>2. sliced \subseteq Settled'
      BY <1>2, <1>3 DEF MarkInv, Settled
    <3> QED
      BY <3>1, <3>2
  <2> QED
    BY <2>1, <2>2
<1> QED
  BY <1>1, <1>2, <1>3, <1>4, <1>5, <1>6 DEF MarkInv

LEMMA EdgeMarkInv == ASSUME TypeOK, MarkInv, Edge PROVE MarkInv'
<1>1. PICK k \in Kinds, t \in Node :
              /\ t \in todo[k] /\ EdgesLeft
              /\ todo' = [todo EXCEPT ![k] = @ \ {t}]
              /\ queue' \in Seq(Node)
              /\ visited' = visited \/ visited' = visited \cup {t}
              /\ Skip(k, cur, t) \/ t \in visited'
              /\ Range(queue') = Range(queue) \cup (visited' \ visited)
  BY EdgeFacts
<1>2. UNCHANGED <<program, pass, cur, sliced, marked, handled>>
  BY DEF Edge
<1>3. Settled' = Settled /\ Entries' = Entries
  BY <1>2 DEF Settled, Entries, Kind
<1>4. pass = 0 => visited' \subseteq Range(queue') \cup Settled
  BY <1>1 DEF MarkInv
<1>5. ASSUME pass = 0 PROVE todo["loop"] \subseteq Range(queue') \cup Settled \cup todo'["loop"]
  <2>1. "loop" \in Kinds
    BY DEF Kinds
  <2>2. CASE k = "loop"
    <3>1. ~Skip("loop", cur, t)
      BY DEF Skip, Cut, Unmatched, IsReturn
    <3> QED
      BY <1>1, <1>4, <1>5, <2>1, <2>2, <3>1 DEF TypeOK
  <2>3. CASE k # "loop"
    BY <1>1, <2>1, <2>3 DEF TypeOK
  <2> QED
    BY <2>2, <2>3
<1>6. ASSUME NEW n \in marked
      PROVE  program.loop[n] \subseteq
                Settled \cup IF pass = 0 THEN Range(queue') \cup todo'["loop"] ELSE {}
  BY <1>1, <1>5 DEF MarkInv
<1> QED
  BY <1>2, <1>3, <1>4, <1>6 DEF MarkInv

LEMMA NextMarkInv == TypeOK /\ MarkInv /\ [Next]_vars => MarkInv'
<1> SUFFICES ASSUME TypeOK, MarkInv, [Next]_vars PROVE MarkInv'
  OBVIOUS
<1>1. CASE Edge
  BY <1>1, EdgeMarkInv
<1>2. CASE Pop
  BY <1>2, PopMarkInv
<1>3. ASSUME UNCHANGED <<program, sliced, marked, handled>>
      PROVE  Settled' = Settled /\ Entries' = Entries
  BY <1>3 DEF Settled, Entries, Kind
<1>4. CASE FirstPass
  <2>1. PICK s \in left : Begin(s)
    BY <1>4 DEF FirstPass
  <2>2. s \in Node
    BY <2>1, ProgramFacts DEF TypeOK
  <2>3. Range(queue') = visited'
    BY <2>1, <2>2, RangeOne DEF Begin
  <2>4. UNCHANGED <<program, sliced, marked, handled>> /\ pass # 0
    BY <1>4 DEF FirstPass
  <2> QED
    BY <1>3, <2>3, <2>4 DEF MarkInv
<1>5. CASE NextPass
  <2>1. UNCHANGED <<program, sliced, marked, handled>> /\ pass' # 0
    BY <1>5 DEF NextPass, TypeOK
  <2>2. Range(queue) = {} /\ todo["loop"] = {}
    BY <1>5, RangeEmpty DEF NextPass, WalkDone, EdgesLeft, Kinds
  <2> QED
    BY <1>3, <2>1, <2>2 DEF MarkInv
<1>6. CASE LastPass
  <2>1. UNCHANGED <<program, sliced, marked, handled>> /\ pass' # 0 /\ pass # 0
    BY <1>6 DEF LastPass
  <2> QED
    BY <1>3, <2>1 DEF MarkInv
<1>7. CASE UNCHANGED vars
  <2>1. UNCHANGED <<program, sliced, marked, handled, pass, queue, visited, todo>>
    BY <1>7 DEF vars, walk
  <2> QED
    BY <1>3, <2>1 DEF MarkInv
<1> QED
  BY <1>1, <1>2, <1>4, <1>5, <1>6, <1>7 DEF Next


-----------------------------------------------------------------------------
(* What is marked is handled.                                                *)

\* Programs of which the walks handle every marked access.
Simple == OneCallSite /\ LoopsControlled /\ ~CopyInLoop

\* The edges that a walk follows when no return is unmatched.
Follows(p, k, n) == {t \in Succ(p, k, n) : ~Cut(p, k, n, t)}
Follow(p) ==
    [n \in Node |-> p.bbcd[n] \cup {t \in Node : \E k \in EdgeKind : t \in Follows(p, k, n)}]
Depending(p, s) == Reachable(Follow(p), {s})

\* All that depends on s is reached from s, over any edge that is followed and loops.
LEMMA DependingExact ==
    ASSUME program \in Programs, NEW s \in Node
    PROVE  LET D == Depending(program, s) IN
           /\ D \subseteq Node /\ s \in D
           /\ \A n \in D : \A k \in EdgeKind : Follows(program, k, n) \subseteq D
           /\ \A n \in D : program.bbcd[n] \subseteq D
           /\ LoopsControlled => \A n \in D : program.loop[n] \subseteq D
           /\ \A C : s \in C
                     /\ (\A n \in D \cap C : /\ program.bbcd[n] \subseteq C
                                             /\ \A k \in EdgeKind : Follows(program, k, n) \subseteq C)
                     => D \subseteq C
<1> DEFINE G == Follow(program)
           D == Depending(program, s)
<1>1. /\ \A n \in Node : program.bbcd[n] \in SUBSET Node
      /\ \A n \in Node : \A k \in EdgeKind : Follows(program, k, n) \subseteq Node
      /\ program.bbcd \in [Node -> SUBSET Node]
  BY ProgramFacts, ProgramsAssumption DEF Follows, ProgramType
<1>2. DOMAIN G = Node
  BY DEF Follow
<1>3. \A n \in Node : \A t : t \in G[n] <=> \/ t \in program.bbcd[n]
                                           \/ \E k \in EdgeKind : t \in Follows(program, k, n)
  BY <1>1, Zenon DEF Follow
<1> HIDE DEF G
<1>4. G \in [Node -> SUBSET Node]
  <2>1. \A n \in Node : G[n] \in SUBSET Node
    BY <1>1, <1>3
  <2>2. G = [n \in Node |-> G[n]]
    BY DEF G, Follow
  <2> QED
    BY <2>1, <2>2
<1>5. IsGraph(G) /\ IsGraph(program.bbcd)
  BY <1>1, <1>2, <1>4, WalkAssumption DEF IsGraph
<1>6. /\ D \subseteq Node /\ s \in D
      /\ \A b \in D : G[b] \subseteq D
      /\ \A C : s \in C /\ (\A b \in D \cap C : G[b] \subseteq C) => D \subseteq C
  <2>1. {s} \in SUBSET DOMAIN G
    BY <1>2
  <2>2. /\ D \subseteq Node /\ {s} \subseteq D
        /\ \A b \in D : G[b] \subseteq D
        /\ \A C : {s} \subseteq C /\ (\A b \in D \cap C : G[b] \subseteq C) => D \subseteq C
    <3>1. D = Reachable(G, {s})
      BY DEF Depending, G
    <3> HIDE DEF D
    <3> QED
      BY <1>2, <1>5, <2>1, <3>1, ReachableLeast, Zenon
  <2> QED
    BY <2>2
<1>7. ASSUME NEW n \in D
      PROVE  /\ program.bbcd[n] \subseteq D
             /\ \A k \in EdgeKind : Follows(program, k, n) \subseteq D
  BY <1>3, <1>6
<1>8. ASSUME LoopsControlled, NEW n \in D PROVE program.loop[n] \subseteq D
  <2> DEFINE R == Reachable(program.bbcd, {n})
  <2>1. n \in Node /\ {n} \in SUBSET DOMAIN program.bbcd
    BY <1>1, <1>6, <1>8
  <2>2. \A C : {n} \subseteq C /\ (\A b \in R \cap C : program.bbcd[b] \subseteq C) => R \subseteq C
    BY <1>5, <2>1, ReachableLeast, Zenon
  <2> HIDE DEF R, D
  <2>3. R \subseteq D
    BY <1>7, <1>8, <2>2
  <2>4. program.loop[n] \subseteq R
    BY <1>8, <2>1 DEF LoopsControlled, R
  <2> QED
    BY <2>3, <2>4
<1>9. ASSUME NEW C, s \in C,
             \A n \in D \cap C : /\ program.bbcd[n] \subseteq C
                                 /\ \A k \in EdgeKind : Follows(program, k, n) \subseteq C
      PROVE  D \subseteq C
  <2>1. \A b \in D \cap C : G[b] \subseteq C
    BY <1>3, <1>6, <1>9
  <2> HIDE DEF D
  <2> QED
    BY <1>6, <1>9, <2>1
<1> HIDE DEF D
<1> QED
  BY <1>6, <1>7, <1>8, <1>9 DEF D

MarkedAccesses == {n \in marked : IsAccess(n)}

\* The edges of kind k of n that are left.
Left(n, k) == IF EdgesLeft /\ n = cur THEN todo[k] ELSE {}

SlotInv == \A e \in Node : parent[e] # None =>
              /\ <<parent[e], e>> \in program.edge["cd"]
              /\ IsDown(program, "cd", parent[e], e)

\* Marked accesses remain sliced until they are handled, and they depend on the starting
\* node; passes 1 and 2 come to all that depends on it.
HandleInv ==
    /\ MarkedAccesses \subseteq handled \cup sliced
    /\ IF pass = 3 THEN MarkedAccesses \subseteq handled
       ELSE /\ MarkedAccesses \subseteq handled \cup Depending(program, start)
            /\ start \in visited /\ visited \subseteq Depending(program, start)
    /\ pass \in {1, 2} => \A n \in Popped :
          /\ program.bbcd[n] \subseteq visited \cup Left(n, "bbcd")
          /\ \A k \in EdgeKind : Follows(program, k, n) \subseteq visited \cup Left(n, k)
    /\ pass = 2 => Popped \cap sliced \cap MarkedAccesses \subseteq handled

\* In programs with one call site per function every return is matched.
LEMMA Matched ==
    ASSUME TypeOK, SlotInv, OneCallSite, NEW k \in EdgeKind, NEW n \in Node,
           NEW t \in Succ(program, k, n)
    PROVE  ~Unmatched(k, n, t)
<1> SUFFICES ASSUME Unmatched(k, n, t) PROVE FALSE
  OBVIOUS
<1> DEFINE e == Home(program, n)
<1>1. IsReturn(program, k, n, t) /\ e # None /\ parent[e] # None /\ parent[e] # t
  BY DEF Unmatched
<1>2. <<n, t>> \in program.edge[k]
  BY DEF Succ
<1>3. e \in Node
  BY <1>1, ProgramFacts DEF Home, TypeOK
<1> DEFINE x == <<n, t>>
           y == <<parent[e], e>>
<1>4. x[1] = n /\ x[2] = t /\ y[1] = parent[e] /\ y[2] = e
  OBVIOUS
<1>5. y \in program.edge["cd"] /\ IsDown(program, "cd", y[1], y[2])
  BY <1>1, <1>3, <1>4 DEF SlotInv
<1> HIDE DEF x, y, e
<1>6. x \in program.edge[k]
  BY <1>2 DEF x
<1>7. IsReturn(program, k, x[1], x[2]) /\ y[2] = Home(program, x[1])
  BY <1>1, <1>4 DEF e
<1>8. y[1] = x[2]
  BY <1>5, <1>6, <1>7, Zenon DEF OneCallSite
<1> QED
  BY <1>1, <1>4, <1>8

LEMMA NextSlotInv == TypeOK /\ TodoOfCur /\ SlotInv /\ [Next]_vars => SlotInv'
<1> SUFFICES ASSUME TypeOK, TodoOfCur, SlotInv, [Next]_vars PROVE SlotInv'
  OBVIOUS
<1>1. CASE Edge
  <2>1. PICK k \in Kinds, t \in Node :
              /\ t \in todo[k] /\ EdgesLeft
              /\ parent' = IF IsDown(program, k, cur, t)
                             THEN [parent EXCEPT ![t] = cur] ELSE parent
    BY <1>1, EdgeParts
  <2>2. program' = program
    BY <1>1 DEF Edge
  <2>3. CASE ~IsDown(program, k, cur, t)
    BY <2>1, <2>2, <2>3 DEF SlotInv
  <2>4. CASE IsDown(program, k, cur, t)
    <3>1. k = "cd" /\ t \in Succ(program, "cd", cur)
      BY <2>1, <2>4 DEF IsDown, TodoOfCur, EdgeKind
    <3>2. <<cur, t>> \in program.edge["cd"]
      BY <3>1 DEF Succ
    <3>3. \A e \in Node : parent'[e] = IF e = t THEN cur ELSE parent[e]
      BY <2>1, <2>4 DEF TypeOK
    <3> QED
      BY <2>2, <2>4, <3>1, <3>2, <3>3 DEF SlotInv
  <2> QED
    BY <2>3, <2>4
<1>2. CASE ~Edge
  <2>1. parent' = parent /\ program' = program
    BY <1>2 DEF Next, Pop, FirstPass, NextPass, LastPass, vars, walk
  <2> QED
    BY <2>1 DEF SlotInv
<1> QED
  BY <1>1, <1>2

LEMMA EdgeHandle ==
    ASSUME TypeOK, TodoOfCur, IsInjective(queue), SlotInv, HandleInv, Simple, Edge
    PROVE  HandleInv'
<1>1. PICK k \in Kinds, t \in Node :
         /\ t \in todo[k] /\ EdgesLeft /\ pass # 3
         /\ todo' = [todo EXCEPT ![k] = @ \ {t}]
         /\ \/ Skip(k, cur, t) /\ visited' = visited
            \/ ~Skip(k, cur, t) /\ t \in visited /\ visited' = visited
            \/ ~Skip(k, cur, t) /\ visited' = visited \cup {t}
  BY EdgeParts
<1>2. UNCHANGED <<program, start, pass, cur, sliced, marked, handled>>
  BY DEF Edge
<1>3. Popped' = Popped /\ visited \subseteq visited'
  BY EdgeQueue
<1>4. MarkedAccesses' = MarkedAccesses
  BY <1>2 DEF MarkedAccesses, IsAccess, Kind
<1>5. /\ cur \in visited /\ cur \in Node /\ start \in Node /\ program \in Programs
      /\ visited \subseteq Depending(program, start)
  BY <1>1 DEF TodoOfCur, TypeOK, HandleInv
<1>6. k \in EdgeKind => t \in Succ(program, k, cur)
  BY <1>1 DEF TodoOfCur
<1>7. Skip(k, cur, t) <=> Cut(program, k, cur, t)
  <2>1. CASE k \in EdgeKind
    BY <1>5, <1>6, <2>1, Matched DEF Skip, Simple
  <2>2. CASE k \notin EdgeKind
    BY <2>2 DEF Skip, Unmatched, IsReturn, EdgeKind, Kinds
  <2> QED
    BY <2>1, <2>2
<1>8. ~Skip(k, cur, t) => t \in Depending(program, start)
  <2>1. CASE k \in EdgeKind
    <3>1. ~Skip(k, cur, t) => t \in Follows(program, k, cur)
      BY <1>6, <1>7, <2>1 DEF Follows
    <3> QED
      BY <1>5, <2>1, <3>1, DependingExact
  <2>2. CASE k \notin EdgeKind
    <3>1. t \in program.bbcd[cur] \cup program.loop[cur]
      BY <1>1, <2>2 DEF TodoOfCur, Kinds
    <3> QED
      BY <1>5, <3>1, DependingExact DEF Simple
  <2> QED
    BY <2>1, <2>2
<1>9. visited' \subseteq Depending(program, start)
  BY <1>1, <1>5, <1>8
<1>10. EdgeKind \subseteq Kinds /\ "bbcd" \in Kinds
  BY DEF Kinds
\* the edge that is processed leads to a node that is discovered, or is not followed
<1>11. \A j \in Kinds : todo'[j] = IF j = k THEN todo[j] \ {t} ELSE todo[j]
  BY <1>1 DEF TypeOK
<1>12. ASSUME NEW n \in Popped, NEW j \in Kinds PROVE Left(n, j) \subseteq Left(n, j)' \cup {t}
  <2>1. CASE n = cur
    <3>1. todo'[j] # {} => EdgesLeft'
      BY DEF EdgesLeft
    <3> QED
      BY <1>1, <1>2, <1>11, <2>1, <3>1 DEF Left
  <2>2. CASE n # cur
    BY <2>2 DEF Left
  <2> QED
    BY <2>1, <2>2
<1>13. ASSUME NEW n \in Popped, NEW j \in Kinds, t \notin visited' PROVE
          /\ j # "bbcd" => Left(n, j) \subseteq Left(n, j)' \cup {m \in Node : Cut(program, j, n, m)}
          /\ j = "bbcd" => Left(n, j) \subseteq Left(n, j)'
  <2>1. Skip(k, cur, t) /\ Cut(program, k, cur, t)
    BY <1>1, <1>7, <1>13
  <2>2. k # "bbcd"
    BY <2>1 DEF Cut
  <2>3. CASE n = cur
    <3>1. todo'[j] # {} => EdgesLeft'
      BY DEF EdgesLeft
    <3>2. Left(n, j) = todo[j] /\ Left(n, j)' = todo'[j]
      BY <1>1, <1>2, <2>3, <3>1 DEF Left
    <3>3. j = k => t \in {m \in Node : Cut(program, j, n, m)}
      BY <2>1, <2>3
    <3>4. todo[j] \subseteq todo'[j] \cup (IF j = k THEN {t} ELSE {})
      BY <1>11
    <3> QED
      BY <2>2, <3>2, <3>3, <3>4
  <2>4. CASE n # cur
    BY <2>4 DEF Left
  <2> QED
    BY <2>3, <2>4
<1>14. ASSUME pass \in {1, 2}, NEW n \in Popped
       PROVE  /\ program.bbcd[n] \subseteq visited' \cup Left(n, "bbcd")'
              /\ \A j \in EdgeKind : Follows(program, j, n) \subseteq visited' \cup Left(n, j)'
  <2>1. /\ program.bbcd[n] \subseteq visited \cup Left(n, "bbcd")
        /\ \A j \in EdgeKind : Follows(program, j, n) \subseteq visited \cup Left(n, j)
    BY <1>14 DEF HandleInv
  <2>2. program.bbcd[n] \subseteq visited' \cup Left(n, "bbcd")'
    <3>1. CASE t \in visited'
      BY <1>3, <1>10, <1>12, <1>14, <2>1, <3>1
    <3>2. CASE t \notin visited'
      BY <1>3, <1>10, <1>13, <1>14, <2>1, <3>2
    <3> QED
      BY <3>1, <3>2
  <2>3. ASSUME NEW j \in EdgeKind
        PROVE  Follows(program, j, n) \subseteq visited' \cup Left(n, j)'
    <3>1. CASE t \in visited'
      BY <1>3, <1>10, <1>12, <1>14, <2>1, <3>1
    <3>2. CASE t \notin visited'
      <4>1. Left(n, j) \subseteq Left(n, j)' \cup {m \in Node : Cut(program, j, n, m)}
        BY <1>10, <1>13, <1>14, <3>2 DEF EdgeKind
      <4>2. \A m \in Follows(program, j, n) : ~Cut(program, j, n, m)
        BY DEF Follows
      <4> QED
        BY <1>3, <2>1, <4>1, <4>2
    <3> QED
      BY <3>1, <3>2
  <2> QED
    BY <2>2, <2>3
<1>15. \A n, j : Follows(program', j, n) = Follows(program, j, n)
  BY <1>2
<1> QED
  BY <1>1, <1>2, <1>3, <1>4, <1>5, <1>9, <1>14, <1>15 DEF HandleInv

LEMMA PopHandle ==
    ASSUME TypeOK, MarkInv, IsInjective(queue), HandleInv, Simple, Pop
    PROVE  HandleInv'
<1>1. /\ pass # 3 /\ ~EdgesLeft /\ cur' \in Node /\ visited' = visited
      /\ UNCHANGED <<program, start, pass>> /\ program \in Programs
      /\ \A k \in EdgeKind : todo'[k] = Succ(program, k, cur')
      /\ pass # 0 => todo'["bbcd"] = program.bbcd[cur']
  BY PopFacts DEF Pop, TypeOK
<1>2. /\ cur' \in Range(queue) /\ cur' \in visited
      /\ Popped' = Popped \cup {cur'} /\ cur' \notin Popped
  BY PopQueue
<1>3. mark(cur') \/ handleLoop(cur') \/ handleAccess(cur')
  BY DEF Pop
<1>4. /\ MarkedAccesses' \subseteq MarkedAccesses \cup {cur'}
      /\ pass # 0 => MarkedAccesses' = MarkedAccesses
      /\ MarkedAccesses \subseteq MarkedAccesses'
  BY <1>1, <1>3 DEF mark, handleLoop, handleAccess, MarkedAccesses, IsAccess, Kind
<1>5. handled \subseteq handled'
  BY <1>3 DEF mark, handleLoop, handleAccess
\* loops that do not copy memory are handled as a whole
<1>6. MarkedAccesses' \subseteq handled' \cup sliced'
  <2>1. MarkedAccesses \subseteq handled \cup sliced
    BY DEF HandleInv
  <2>2. CASE mark(cur')
    <3>1. sliced \subseteq sliced'
      BY <2>2 DEF mark
    <3>2. \A n \in marked' : n \in marked \/ n \in sliced'
      BY <2>2 DEF mark
    <3>3. MarkedAccesses' \subseteq MarkedAccesses \cup sliced'
      BY <1>1, <3>2 DEF MarkedAccesses, IsAccess, Kind
    <3> QED
      BY <1>5, <2>1, <3>1, <3>3
  <2>3. CASE handleLoop(cur')
    <3>1. \A m \in program.loop[cur'] : IsAccess(m) => m \in LoopAccesses(cur')
      <4>1. program.loop[cur'] \subseteq Node
        BY <1>1, ProgramFacts
      <4> QED
        BY <1>1, <4>1 DEF Simple, CopyInLoop, IsAccess, LoopAccesses
    <3>2. CASE cur' \in sliced
      <4>1. handled' = handled \cup LoopAccesses(cur') /\ sliced' = sliced \ program.loop[cur']
        BY <2>3, <3>2 DEF handleLoop
      <4>2. \A m \in MarkedAccesses : IsAccess(m)
        BY DEF MarkedAccesses
      <4>3. MarkedAccesses' = MarkedAccesses
        BY <1>4, <2>3 DEF handleLoop
      <4>4. ASSUME NEW m \in MarkedAccesses PROVE m \in handled' \cup sliced'
        <5>1. CASE m \in program.loop[cur']
          BY <3>1, <4>1, <4>2, <5>1
        <5>2. CASE m \notin program.loop[cur']
          BY <2>1, <4>1, <5>2
        <5> QED
          BY <5>1, <5>2
      <4> QED
        BY <4>3, <4>4
    <3>3. CASE cur' \notin sliced
      BY <1>4, <2>1, <2>3, <3>3 DEF handleLoop
    <3> QED
      BY <3>2, <3>3
  <2>4. CASE handleAccess(cur')
    BY <1>4, <1>5, <2>1, <2>4 DEF handleAccess
  <2> QED
    BY <1>3, <2>2, <2>3, <2>4
<1>7. MarkedAccesses' \subseteq handled' \cup Depending(program, start)
  BY <1>1, <1>2, <1>4, <1>5 DEF HandleInv
<1>8. ASSUME pass \in {1, 2}, NEW n \in Popped'
      PROVE  /\ program.bbcd[n] \subseteq visited \cup Left(n, "bbcd")'
             /\ \A k \in EdgeKind : Follows(program, k, n) \subseteq visited \cup Left(n, k)'
  <2>1. CASE n # cur'
    <3>1. n \in Popped /\ \A k : Left(n, k) = {}
      BY <1>1, <1>2, <2>1 DEF Left
    <3> QED
      BY <1>8, <3>1 DEF HandleInv
  <2>2. CASE n = cur'
    <3>1. \A k \in Kinds : Left(n, k)' = todo'[k]
      BY <2>2 DEF Left, EdgesLeft
    <3>2. \A k \in EdgeKind : Follows(program, k, n) \subseteq todo'[k] /\ k \in Kinds
      BY <1>1, <2>2 DEF Follows, Kinds
    <3>3. program.bbcd[n] = todo'["bbcd"] /\ "bbcd" \in Kinds
      BY <1>1, <1>8, <2>2 DEF Kinds
    <3> QED
      BY <3>1, <3>2, <3>3
  <2> QED
    BY <2>1, <2>2
<1>9. pass = 2 => Popped' \cap sliced' \cap MarkedAccesses' \subseteq handled'
  <2> SUFFICES ASSUME pass = 2 PROVE Popped' \cap sliced' \cap MarkedAccesses' \subseteq handled'
    OBVIOUS
  <2>1. handleAccess(cur')
    BY <1>3 DEF mark, handleLoop
  <2>2. sliced' = sliced /\ MarkedAccesses' = MarkedAccesses
    BY <1>4, <2>1 DEF handleAccess
  <2>3. cur' \in sliced \cap MarkedAccesses => cur' \in handled'
    BY <2>1 DEF handleAccess, MarkedAccesses
  <2> QED
    BY <1>2, <1>5, <2>2, <2>3 DEF HandleInv
<1>10. \A n, j : Follows(program', j, n) = Follows(program, j, n)
  BY <1>1
<1> QED
  BY <1>1, <1>6, <1>7, <1>8, <1>9, <1>10 DEF HandleInv

LEMMA NextHandle ==
    TypeOK /\ TodoOfCur /\ MarkInv /\ IsInjective(queue) /\ SlotInv /\ (Simple => HandleInv)
    /\ [Next]_vars => (Simple => HandleInv)'
<1> SUFFICES ASSUME TypeOK, TodoOfCur, MarkInv, IsInjective(queue), SlotInv,
                    Simple => HandleInv, [Next]_vars
             PROVE  (Simple => HandleInv)'
  OBVIOUS
<1>1. program' = program
  BY DEF Next, Edge, Pop, FirstPass, NextPass, LastPass, vars
<1>2. Simple' = Simple
  BY <1>1 DEF Simple, OneCallSite, LoopsControlled, CopyInLoop, Kind
<1> SUFFICES ASSUME Simple, HandleInv PROVE HandleInv'
  BY <1>2
<1>3. CASE Edge
  BY <1>3, EdgeHandle
<1>4. CASE Pop
  BY <1>4, PopHandle
<1>5. ASSUME UNCHANGED <<marked, handled>>
      PROVE  MarkedAccesses' = MarkedAccesses
  BY <1>1, <1>5 DEF MarkedAccesses, IsAccess, Kind
<1>6. program \in Programs /\ program.starts \in SUBSET Node
  BY ProgramFacts DEF TypeOK
<1>7. CASE FirstPass
  <2>1. PICK s \in left : start' = s /\ Begin(s)
    BY <1>7 DEF FirstPass
  <2>2. /\ UNCHANGED <<sliced, marked, handled>> /\ pass = 3 /\ pass' = 0
        /\ s \in Node
    BY <1>6, <1>7, <2>1 DEF FirstPass, TypeOK
  <2>3. visited' = {s} /\ s \in Depending(program, s)
    BY <1>6, <2>1, <2>2, DependingExact DEF Begin
  <2> QED
    BY <1>1, <1>5, <2>1, <2>2, <2>3 DEF HandleInv
<1>8. CASE NextPass
  <2>1. /\ UNCHANGED <<start, sliced, marked, handled>> /\ pass # 3 /\ pass' # 3
        /\ start \in Node /\ Begin(start)
    BY <1>8 DEF NextPass, TypeOK
  <2>2. visited' = {start} /\ start \in Depending(program, start) /\ Popped' = {}
    BY <1>6, <2>1, DependingExact, OnceBegin DEF Begin
  <2> QED
    BY <1>1, <1>5, <2>1, <2>2 DEF HandleInv
\* pass 2 has come to all that depends on the starting node
<1>9. CASE LastPass
  <2>1. /\ UNCHANGED <<sliced, marked, handled>> /\ pass = 2 /\ pass' = 3 /\ WalkDone
        /\ start \in Node
    BY <1>9 DEF LastPass, TypeOK
  <2>2. Popped = visited /\ \A n, k : Left(n, k) = {}
    BY <2>1, RangeEmpty DEF WalkDone, Popped, Left
  <2>3. \A n \in visited : /\ program.bbcd[n] \subseteq visited
                           /\ \A k \in EdgeKind : Follows(program, k, n) \subseteq visited
    BY <2>1, <2>2 DEF HandleInv
  <2>4. Depending(program, start) \subseteq visited
    BY <1>6, <2>1, <2>3, DependingExact DEF HandleInv
  <2>5. MarkedAccesses \subseteq handled
    BY <2>1, <2>2, <2>4 DEF HandleInv
  <2> QED
    BY <1>5, <2>1, <2>5 DEF HandleInv
<1>10. CASE UNCHANGED vars
  <2>1. UNCHANGED <<program, start, pass, queue, visited, cur, todo, sliced, marked, handled>>
    BY <1>10 DEF vars, walk
  <2>2. MarkedAccesses' = MarkedAccesses /\ Popped' = Popped
    BY <1>5, <2>1 DEF Popped
  <2>3. \A n, k : Left(n, k)' = Left(n, k)
    BY <2>1 DEF Left, EdgesLeft
  <2> QED
    BY <2>1, <2>2, <2>3 DEF HandleInv
<1> QED
  BY <1>3, <1>4, <1>7, <1>8, <1>9, <1>10 DEF Next

\* The accesses that pass 0 marks are handled by the time its starting node is done with, in
\* the programs that AccessesHandled says; nothing else is handled (Slicing.h:markSlice,
\* llvm-dg-dump.cpp's three walks).
THEOREM MarkedAreHandled == Spec => []AccessesHandled
<1> DEFINE Inv == TypeOK /\ TodoOfCur /\ MarkInv /\ IsInjective(queue) /\ SlotInv
                  /\ (Simple => HandleInv)
<1>1. Inv => AccessesHandled
  BY DEF AccessesHandled, Simple, EveryAccessHandled, HandleInv, MarkedAccesses, MarkInv
<1>2. Init => Inv
  <2> SUFFICES ASSUME Init PROVE Inv
    OBVIOUS
  <2>1. /\ ~EdgesLeft /\ pass = 3 /\ queue = <<>> /\ sliced = {} /\ marked = {} /\ handled = {}
        /\ visited = {} /\ parent = [n \in Node |-> None]
    BY DEF Init, EdgesLeft, NoEdges
  <2>2. IsInjective(<<>>)
    BY DEF IsInjective
  <2>3. MarkInv /\ HandleInv
    BY <2>1 DEF MarkInv, HandleInv, MarkedAccesses
  <2> QED
    BY <2>1, <2>2, <2>3, InitType DEF TodoOfCur, SlotInv
<1>3. Inv /\ [Next]_vars => Inv'
  <2> SUFFICES ASSUME Inv, [Next]_vars PROVE Inv'
    OBVIOUS
  <2>1. TypeOK' /\ MarkInv' /\ SlotInv' /\ (Simple => HandleInv)'
    BY NextType, NextMarkInv, NextSlotInv, NextHandle
  <2>2. TodoOfCur' /\ IsInjective(queue')
    <3>1. CASE Edge
      BY <3>1, EdgeTodo, EdgeQueue
    <3>2. CASE Pop
      BY <3>2, PopTodo, PopQueue
    <3>3. ASSUME NEW s \in Node, Begin(s) PROVE TodoOfCur' /\ IsInjective(queue')
      BY <3>3, BeginFacts, OnceBegin DEF TodoOfCur
    <3>4. CASE FirstPass \/ NextPass
      <4>1. \E s \in Node : Begin(s)
        BY <3>4, ProgramFacts DEF FirstPass, NextPass, TypeOK
      <4> QED
        BY <3>3, <4>1
    <3>5. CASE LastPass \/ UNCHANGED vars
      <4>1. UNCHANGED <<program, queue, visited, cur, todo>>
        BY <3>5 DEF LastPass, vars, walk
      <4> QED
        BY <4>1 DEF TodoOfCur, EdgesLeft
    <3> QED
      BY <3>1, <3>2, <3>4, <3>5 DEF Next
  <2> QED
    BY <2>1, <2>2
<1> QED
  BY <1>1, <1>2, <1>3, PTL DEF Spec
=============================================================================
