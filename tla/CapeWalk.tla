------------------------------ MODULE CapeWalk ------------------------------
(***************************************************************************)
(* The forward walks that find the secret-dependent accesses: the FIFO     *)
(* worklist of NodesWalk.h with its matching of returns to calls, driven   *)
(* three times per starting node by llvm-dg-dump.cpp, with the function    *)
(* markSlice of Slicing.h called on each node.  Pass 0 marks, pass 1       *)
(* handles the loops that a secret-dependent branch may leave, pass 2      *)
(* handles the other accesses.                                             *)
(*                                                                         *)
(* Where transactions and preloading calls are inserted for a handled      *)
(* access is left to CapePlace; here an access is handled when             *)
(* handlePreloadingForSensitiveAccesses is called for it.                  *)
(***************************************************************************)
EXTENDS FlowGraph, Sequences, Functions

CONSTANTS
    Node,     \* nodes of the dependence graphs
    None,     \* the null pointer
    Programs, \* the graphs of the programs considered, see ProgramType
    Orders    \* orders of the nodes in memory, as sets of pairs; the empty
              \* order stands for all of them

ASSUME WalkAssumption ==
    IsFiniteSet(Node) /\ None \notin Node /\ Orders \subseteq SUBSET (Node \X Node)

(***************************************************************************)
(* "entry" is the node of a function, "ret" a return node, "memcpy" a call *)
(* of llvm.memcpy or llvm.memset, "br" a conditional branch; all else that *)
(* matters to no condition here is "inst".                                 *)
(***************************************************************************)
NodeKind == {"entry", "call", "memcpy", "ret", "load", "store", "br", "inst"}
EdgeKind == {"cd", "dd", "use", "id"}

ProgramType ==
    [kind : [Node -> NodeKind],
     entry : [Node -> Node \cup {None}],      \* entry node of the node's graph
     edge : [EdgeKind -> SUBSET (Node \X Node)],
     bbcd : [Node -> SUBSET Node],            \* nodes of the blocks control
                                              \* dependent on the node's block
     loop : [Node -> SUBSET Node],            \* for a branch that may leave
                                              \* its loop, the loop's nodes
     atSecret : SUBSET Node,                  \* loads and stores whose address
                                              \* may be that of the secret
     ofSecret : SUBSET Node,                  \* stores whose value may be
     starts : SUBSET Node]                    \* getSecretNodes

\* What the construction of the graphs guarantees: an entry node belongs to its own
\* graph, control dependences between blocks and loops do not leave a function, only
\* branches leave loops, and only loads and stores are at an address.
WellFormed(p) ==
    /\ \A n \in Node : /\ p.kind[n] = "entry" => p.entry[n] = n
                       /\ p.entry[n] # None => p.kind[p.entry[n]] = "entry"
                       /\ p.loop[n] # {} => p.kind[n] = "br"
                       /\ \A m \in p.bbcd[n] \cup p.loop[n] : p.entry[m] = p.entry[n]
    /\ \A n \in p.atSecret : p.kind[n] \in {"load", "store"}

ASSUME ProgramsAssumption ==
    Programs \subseteq ProgramType /\ \A p \in Programs : WellFormed(p)

VARIABLES
    program,  \* constant
    order,    \* constant: the order in which a std::set yields its nodes
    left,     \* starting nodes not yet walked from
    start,    \* the starting node of the running passes
    pass,     \* pass_id; 3 between two starting nodes
    queue,    \* the FIFO queue
    visited,  \* nodes with lastwalkid = run_id
    cur,      \* the node whose edges are processed, None between nodes
    todo,     \* todo[k]: targets of the edges of kind k still to process
    parent,   \* parent[n]: the call through which entry n was last reached
    sliced,   \* nodes with slice > 0
    marked,   \* history: nodes that pass 0 marked
    handled   \* history: accesses handled by pass 1 or 2

walk == <<queue, visited, cur, todo, parent>>
vars == <<program, order, left, start, pass, walk, sliced, marked, handled>>

\* The order in which the kinds of edges of a node are processed: "loop"
\* stands for what markSlice enqueues itself, "bbcd" for processBBlockCDs.
Order == <<"loop", "cd", "bbcd", "dd", "use", "id">>
Kinds == EdgeKind \cup {"loop", "bbcd"}
NoEdges == [k \in Kinds |-> {}]

Succ(p, k, n) == {t \in Node : <<n, t>> \in p.edge[k]}

Kind(n) == program.kind[n]
CallNodes == {n \in Node : Kind(n) \in {"call", "memcpy"}}

-----------------------------------------------------------------------------
(* markSlice.                                                               *)

\* Pass 0 marks n now: an access to the secret itself is not marked.
NewlyMarked(n) == n \notin sliced /\ n \notin program.atSecret

\* The accesses that pass 2 recognises.
IsAccess(n) == Kind(n) \in {"load", "store", "memcpy"}

\* Fault: the stores of a loop are forgotten.
LoopLoads(n) == {m \in program.loop[n] : Kind(m) = "load"}

\* A loop is handled as a whole: all its loads and stores, wherever they are
\* in it.  Its nodes are no longer sliced, so that pass 2 leaves them alone.
LoopAccesses(n) == {m \in program.loop[n] : Kind(m) \in {"load", "store"}}

\* Fault: the control dependences between blocks are not followed in pass 0.
MarkTodoWithoutBlocks(n) ==
    [NoEdges EXCEPT
        !["loop"] = IF NewlyMarked(n) THEN program.loop[n] \ sliced ELSE {}]

\* What is left to enqueue after markSlice on n in pass 0.
MarkTodo(n) ==
    [NoEdges EXCEPT
        !["loop"] = IF NewlyMarked(n) THEN program.loop[n] \ sliced ELSE {},
        !["bbcd"] = IF NewlyMarked(n) /\ Kind(n) = "br" THEN program.bbcd[n] ELSE {}]

\* Marking a node marks the graph of its function, and with it the entry node.
mark(n) ==
    /\ pass = 0
    /\ sliced' = IF NewlyMarked(n)
                   THEN sliced \cup {n} \cup ({program.entry[n]} \ {None}) ELSE sliced
    /\ marked' = IF NewlyMarked(n) THEN marked \cup {n} ELSE marked
    /\ UNCHANGED handled

handleLoop(n) ==
    /\ pass = 1
    /\ IF n \in sliced
         THEN /\ handled' = handled \cup LoopAccesses(n)
              /\ sliced' = sliced \ program.loop[n]
         ELSE UNCHANGED <<handled, sliced>>
    /\ UNCHANGED marked

handleAccess(n) ==
    /\ pass = 2
    /\ handled' = IF n \in sliced /\ IsAccess(n) THEN handled \cup {n} ELSE handled
    /\ UNCHANGED <<sliced, marked>>

-----------------------------------------------------------------------------
(* NodesWalk.                                                               *)

\* Edges of kind k are processed next.
IsNext(k) ==
    /\ todo[k] # {}
    /\ \E i \in DOMAIN Order :
          Order[i] = k /\ \A j \in 1 .. i - 1 : todo[Order[j]] = {}

EdgesLeft == \E k \in Kinds : todo[k] # {}

\* Edges that a walk never follows: data does not flow into a call but from a
\* return, and a store of the secret's address is not followed.
Cut(p, k, n, t) ==
    /\ k \in {"dd", "use"}
    /\ \/ p.kind[t] \in {"call", "memcpy"} /\ p.kind[n] \notin {"ret", "entry"}
       \/ t \in p.ofSecret

\* Edges that lead from a function back to its callers.
IsReturn(p, k, n, t) ==
    /\ p.kind[t] \in {"call", "memcpy"}
    /\ \/ p.kind[n] = "entry" /\ k = "use"
       \/ p.kind[n] = "ret" /\ k \in {"dd", "use"}

\* The node whose parent decides which return edges of n are followed.
Home(p, n) == IF p.kind[n] = "entry" THEN n ELSE p.entry[n]

\* Fault: only the uses of a function are matched, not its returns.
UnmatchedUse(k, n, t) ==
    /\ IsReturn(program, k, n, t) /\ Kind(n) = "entry"
    /\ parent[n] # None /\ parent[n] # t

Unmatched(k, n, t) ==
    /\ IsReturn(program, k, n, t)
    /\ LET e == Home(program, n) IN
          e # None /\ parent[e] # None /\ parent[e] # t

Skip(k, n, t) == Cut(program, k, n, t) \/ Unmatched(k, n, t)

\* A call reaches the entry of its callee.
IsDown(p, k, n, t) ==
    k = "cd" /\ p.kind[n] \in {"call", "memcpy"} /\ p.kind[t] = "entry"

\* Fault: a node that an earlier pass marked counts as visited.
EnqueueUnsliced(n) ==
    IF n \in visited \cup sliced THEN UNCHANGED <<queue, visited>>
    ELSE queue' = Append(queue, n) /\ visited' = visited \cup {n}

enqueue(n) ==
    IF n \in visited
      THEN UNCHANGED <<queue, visited>>
      ELSE queue' = Append(queue, n) /\ visited' = visited \cup {n}

\* One iteration of processEdges.
Edge ==
    /\ \E k \in Kinds : IsNext(k) /\ \E t \in todo[k] :
          /\ \A u \in todo[k] : <<u, t>> \notin order
          /\ todo' = [todo EXCEPT ![k] = @ \ {t}]
          /\ parent' = IF IsDown(program, k, cur, t)
                         THEN [parent EXCEPT ![t] = cur] ELSE parent
          /\ IF Skip(k, cur, t)
               THEN UNCHANGED <<queue, visited>>
               ELSE enqueue(t)
    /\ UNCHANGED <<program, order, left, start, pass, cur, sliced, marked, handled>>

\* The next node is popped and given to markSlice.
Pop ==
    /\ pass # 3 /\ ~EdgesLeft /\ queue # <<>>
    /\ LET n == Head(queue) IN
          /\ cur' = n
          /\ queue' = Tail(queue)
          /\ mark(n) \/ handleLoop(n) \/ handleAccess(n)
          /\ todo' = [k \in Kinds |->
                IF k \in EdgeKind THEN Succ(program, k, n)
                ELSE IF pass = 0 THEN MarkTodo(n)[k]
                ELSE IF k = "bbcd" THEN program.bbcd[n] ELSE {}]
    /\ UNCHANGED <<program, order, left, start, pass, visited, parent>>

-----------------------------------------------------------------------------
(* The driver.                                                              *)

\* Fault: run_id does not grow.
BeginWithOldId(s) ==
    queue' = <<s>> /\ visited' = visited \cup {s} /\ cur' = None /\ todo' = NoEdges

\* A walk from s: run_id grows, hence no node is visited.
Begin(s) == queue' = <<s>> /\ visited' = {s} /\ cur' = None /\ todo' = NoEdges

WalkDone == queue = <<>> /\ ~EdgesLeft

FirstPass ==
    /\ pass = 3
    /\ \E s \in left :
          /\ left' = left \ {s} /\ start' = s
          /\ Begin(s)
    /\ pass' = 0
    /\ UNCHANGED <<program, order, parent, sliced, marked, handled>>

\* Fault: the second pass is followed by itself.
SecondPassAgain ==
    /\ pass < 2 /\ WalkDone
    /\ pass' = 1
    /\ Begin(start)
    /\ UNCHANGED <<program, order, left, start, parent, sliced, marked, handled>>

NextPass ==
    /\ pass < 2 /\ WalkDone
    /\ pass' = pass + 1
    /\ Begin(start)
    /\ UNCHANGED <<program, order, left, start, parent, sliced, marked, handled>>

LastPass ==
    /\ pass = 2 /\ WalkDone
    /\ pass' = 3
    /\ UNCHANGED <<program, order, left, start, walk, sliced, marked, handled>>

Init ==
    /\ program \in Programs /\ order \in Orders
    /\ left = program.starts
    /\ start = None /\ pass = 3
    /\ queue = <<>> /\ visited = {} /\ cur = None /\ todo = NoEdges
    /\ parent = [n \in Node |-> None]
    /\ sliced = {} /\ marked = {} /\ handled = {}

Next == Edge \/ Pop \/ FirstPass \/ NextPass \/ LastPass

\* The driver is one sequential program.
Spec == Init /\ [][Next]_vars
FairSpec == Spec /\ WF_vars(Next)

-----------------------------------------------------------------------------
(* Properties.                                                              *)

\* Nodes the running walk has discovered and not finished with.
Pending == Range(queue) \cup IF EdgesLeft THEN {cur} ELSE {}

\* Types; the walk has discovered every node that it is not finished with.
TypeOK ==
    /\ program \in Programs /\ order \in Orders
    /\ left \subseteq program.starts /\ start \in Node \cup {None}
    /\ pass \in 0 .. 3 /\ IF pass = 3 THEN WalkDone ELSE start # None
    /\ queue \in Seq(Node) /\ visited \subseteq Node /\ Pending \subseteq visited
    /\ cur \in Node \cup {None}
    /\ todo \in [Kinds -> SUBSET Node]
    /\ parent \in [Node -> Node \cup {None}]
    /\ sliced \subseteq Node /\ marked \subseteq Node /\ handled \subseteq Node

\* Edges of kind k that every walk follows, whatever was visited before.
Always(p, k, n) ==
    {t \in Succ(p, k, n) : ~Cut(p, k, n, t) /\ ~IsReturn(p, k, n, t)}

Must == [n \in Node |-> {t \in Node :
    \/ \E k \in EdgeKind : t \in Always(program, k, n)
    \/ pass # 0 /\ t \in program.bbcd[n]}]

May == [n \in Node |-> {t \in Node :
    \/ \E k \in EdgeKind : t \in Succ(program, k, n)
    \/ t \in program.bbcd[n] \/ t \in program.loop[n]}]

GW == INSTANCE GraphWalk
        WITH must <- Must, may <- May, seen <- visited, pending <- Pending

\* Each of the walks is a graph walk in the sense of GraphWalk: it invents no
\* node and misses no node that an edge leads to, but for the return edges that
\* NodesWalk.h skips on purpose.
IsGraphWalk == GW!Spec

\* A walk is finished with a node only when all that depends on the node in any
\* calling context is discovered.
WalkComplete == \A n \in visited \ Pending : Must[n] \subseteq visited

\* Where the walk from s may come to when a function that was entered through a
\* call returns to no other call: <<n, "down">> if the function of n was entered
\* so, <<n, "up">> if by another edge, from where any call may be returned to.
Contexts == {"down", "up"}

\* The contexts in which an edge of kind k leads from n in context c to t.
Into(p, n, c, k, t) ==
    IF IsDown(p, k, n, t) THEN {"down"}
    ELSE IF IsReturn(p, k, n, t) THEN {"up"} \cap {c}
    ELSE IF p.entry[t] = p.entry[n] THEN {c} ELSE {"up"}

Forward(p, x) ==
    {y \in Node \X Contexts :
        \/ y[1] \in p.bbcd[x[1]] \cup p.loop[x[1]] /\ y[2] = x[2]
        \/ \E k \in EdgeKind : /\ y[1] \in Succ(p, k, x[1]) /\ ~Cut(p, k, x[1], y[1])
                              /\ y[2] \in Into(p, x[1], x[2], k, y[1])}

ContextGraph(p) == [x \in Node \X Contexts |-> Forward(p, x)]
Places(p, s) == Reachable(ContextGraph(p), {<<s, "up">>})
Realizable(p, s) == {x[1] : x \in Places(p, s)}

\* The single parent slot of an entry node, which survives the pass that wrote
\* it and is overwritten by every call, never makes a walk return to a call from
\* which the function was not entered.  And the pass 0 of a single starting node is
\* finished with a branch only when all that the branch controls is discovered,
\* although markSlice asks for it in one of its four returns only.
WalkExact ==
    /\ pass # 3 /\ WalkDone => visited \subseteq Realizable(program, start)
    /\ pass = 0 /\ program.starts = {start} =>
           \A n \in visited \ Pending : Kind(n) = "br" => program.bbcd[n] \subseteq visited

\* Functions are called from one place each: what is entered by a call returns to no other.
OneCallSite ==
    \A k \in EdgeKind : \A x \in program.edge[k] :
        IsReturn(program, k, x[1], x[2]) =>
            \A y \in program.edge["cd"] :
                IsDown(program, "cd", y[1], y[2]) /\ y[2] = Home(program, x[1]) => y[1] = x[2]

\* The nodes of a loop are control dependent, over any number of blocks, on a branch that
\* may leave it.  (Not so if the loop is all that an endless loop around it contains.)
LoopsControlled == \A n \in Node : program.loop[n] \subseteq Reachable(program.bbcd, {n})

CopyInLoop == \E n, m \in Node : m \in program.loop[n] /\ Kind(m) = "memcpy"

\* Between two starting nodes every access that pass 0 marked as dependent on the
\* secret has been handled, by pass 1 or by pass 2.
EveryAccessHandled == pass = 3 => {n \in marked : IsAccess(n)} \subseteq handled

\* That is so where each function has one call site, the loops that a secret-dependent
\* branch may leave are controlled by it and do not copy memory.  No access is handled that
\* pass 0 did not mark, but for the accesses to the secret in a loop handled as a whole.
AccessesHandled ==
    /\ (OneCallSite /\ LoopsControlled /\ ~CopyInLoop) => EveryAccessHandled
    /\ handled \subseteq marked \cup program.atSecret

\* The three passes end for every starting node.
Terminates == <>(pass = 3 /\ left = {} /\ start # None)
=============================================================================
