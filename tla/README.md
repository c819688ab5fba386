# Cape in TLA+

Cape is a compiler analysis and transformation that protects programs against cache side
channels with hardware transactional memory. It is built on dg, a library of dependence
analyses for LLVM bitcode. `tools/llvm-dg-dump` finds the instructions that depend on a
secret, places transactions and preloading code around the accesses whose address or
execution depends on it, and the result runs with the support code of `samples/common.h`.

This directory holds TLA+ modules for the parts that carry that logic, TLC configurations
that check them on small instances, and proofs for TLAPS of what should hold for every
program, graph and bound. Paths below are relative to `src/`.

Contents: 1. the system; 2. the modules and how they correspond to the code; 3. what the
runs check; 4. what is proved; 5. where the code differs from what is written about it;
6. what is not modelled; 7. what could follow.


## 1. The system

The tool is a pipeline. Each stage reads the result of those before it.

    bitcode
      -> pointer graph  -> pointer analysis -> points-to sets
      -> read-write graph -> memory SSA     -> data dependences
      -> blocks, post-dominators            -> control dependences
      -> threads, regions, critical sections
      -> dependence graph (nodes, blocks, edges of all kinds)
      -> walk from the secret, three passes -> marked nodes, handled accesses
      -> placement of transactions          -> transformed bitcode
    transformed program + common.h          -> runs on the HTM

| Component | Code | State | Operations | What is hard | What makes it correct |
|---|---|---|---|---|---|
| Run-time support | `samples/common.h` | `allocMap`, `mallocMap`, `funcMap`, counters, the retry count, what the hardware restores | start, end, abort, push, pop, preload | an abort at any instruction undoes memory and registers; activations that return without a pop; nesting | live buffers are registered and preloaded in full; the retry loop ends after its bound; counters balance |
| Secret-dependence walk | `include/dg/legacy/NodesWalk.h`, `markSlice` in `include/dg/Slicing.h`, `tools/llvm-dg-dump.cpp` | queue, run id on nodes, parent of entry nodes, slice marks | process a node's edges, mark, three passes | order of nodes in memory; one slot per function for the matching of returns; marks are removed while the walk runs | everything dependent is marked, nothing is reached by mismatched calls, what is marked is handled |
| Transaction placement | `include/dg/Slicing.h` | slice ids of blocks, inserted calls | find the highest branch, insert start, end, preloads | accesses in any order share marks; loops, callers, PHI nodes | every secret-dependent access runs in a transaction that has preloaded what it touches; transactions are closed and not nested |
| Pointer graph builder | `lib/llvm/PointerAnalysis` | nodes, edges and operands, functions built, calls to be finished | build instructions, blocks, functions, globals; connect calls, threads and joins | functions built on demand, in recursion and while the analysis runs; blocks without nodes; initialisers that refer to each other | the graph has the ways of the program, and passes its validator |
| Pointer analysis | `lib/PointerAnalysis`, `include/dg/PointerAnalysis` | points-to sets, memory objects, the worklist, a graph that grows | process a node, queue what is reachable from the changed ones, connect calls, forks and joins | the graph changes under the iteration; partial reprocessing; offsets; a limit on iterations; threads | whatever the program computes is reported |
| Points-to sets | `include/dg/PointerAnalysis/PointsToSets`, `include/dg/ADT/Bitvector.h` | numbers given to pointers, words of bits | add, unite, remove, swap, questions | a border between offsets kept in bits and others; the unknown offset; numbers shared by all sets | a representation is the set of the pointers that were added |
| Control dependences | `lib/ControlDependence`, `lib/llvm/ControlDependence`, `include/dg/Dominators` | colours, counters, stacks, frontiers, symbol sets; what was asked for | search from a target, close a set, walk a cycle, pass frontiers up; answer a question on demand | counters that go on after they reached zero; results that may depend on the order; loops without exit; calls that do not return | the computed relation is the defined one, whatever was asked before |
| Interval map | `include/dg/ADT/DisjunctiveIntervalMap.h` | disjoint intervals with sets of values | add, update, split, query | intervals that overlap entries in every way; insertion into the map that is walked through | byte by byte a map to sets of values |
| Data dependences | `lib/ReadWriteGraph`, `lib/llvm/ReadWriteGraph`, `lib/MemorySSA`, `lib/llvm/DataDependence` | definitions of blocks, PHI nodes, summaries of procedures, interval maps | find definitions on demand, place PHIs, summarise | cycles in the search; partial overwrites; recursion; what an earlier question leaves behind | a read sees every write that may reach it |
| Dependence graph | `include/dg/DependenceGraph.h`, `include/dg/llvm/LLVMDependenceGraph.h`, `lib/llvm/LLVMDependenceGraph.cpp`, `lib/llvm/LLVMNode.cpp` | nodes, parameters, edges | build a function where a call reaches it, match parameters, add edges | globals become parameters on the way to main; recursion; threads; calls that do not return | whatever flows between functions has a path |
| Threads | `lib/llvm/ThreadRegions`, `lib/llvm/ForkJoin` | graph of threads, regions, critical sections | build, search | forks in loops, joins of unknown threads, locks | no dependence between threads is missed |
| System dependence graph | `lib/llvm/SystemDependenceGraph`, `lib/SystemDependenceGraph` | graphs of functions, artificial nodes | build nodes, add dependences | links between functions in whichever order | what ends the program controls what would have followed |
| Value relations | `include/dg/llvm/ValueRelations` | equalities, contents of memory and comparisons at each location | sweep over the locations, pass to callees, query | kills, joins, what is taken for fixed, closure | a relation holds whenever the program is there |
| dg's own slicer, call graph, tools | `include/dg/llvm/LLVMSlicer.h` and others | | | | not used by Cape's transformation |

Components interact by calls in one process, one after the other; nothing in the tool runs
concurrently. Its non-determinism is that of addresses: `std::set` and hash maps of
pointers decide the order in which nodes are taken, and a result that depends on it differs
between runs. The transformed program does meet concurrency: an abort of the hardware may
happen between any two of its instructions. So do the programs that are analysed, which may have threads.


## 2. The modules

    CapeRuntime ---- CapeRuntimeProofs                       MCCapeRuntime
    GraphWalk <-implements- CapeWalk ---- CapeWalkProofs     MCCapeWalk
    FlowGraph <- CapeWalk, CapePlace                         MCCapePlace
         \---- FlowGraphProofs <- CapeWalkProofs, CapePlaceProofs
    PointerAnalysis, FlowGraph <- PointerRun                 MCPointerRun
         \---- PointerAnalysisProofs (with FlowGraphProofs)
    FlowGraph <- PointerGraphBuilder <- PointerGraphRun      MCPointerGraph
         (PointerGraphRun takes the analysis from PointerAnalysis by INSTANCE)
    SparseBitvector <- PointsToSets -implements-> SimplePointsToSet   MCPointsToSets
         \---- DataTypesProofs (with IntervalMap)
    FlowGraph <- ControlDependence ---- ControlDependenceProofs
    FlowGraph <- ControlDependenceAnalysis <- LegacyNTSCD
         \<- SystemDependenceGraph                           MCControlDependence
    Intervals <- IntervalMap ---- DataTypesProofs
         \       \-implements-> ByteMap
          <- ReadWriteGraph <- MemorySSA <- DataDependence   MCDataDependence
    DependenceGraph; FlowGraph <- ThreadRegions <- ThreadRun MCDependenceGraph
         (DependenceGraph takes its programs from FlowPrograms, MCDependenceGraph instantiates both)
         \---- FlowGraphProofs, ThreadRun <- ThreadRunProofs
    ValueRelations <- ValueRelationsRun                      MCValueRelations

`X <- Y` means that Y extends X. Every module names its bounds in its CONSTANTS. Operators
whose comment begins with "Fault:" stand beside a definition of the code and change it in
the way a plausible mistake would; nothing uses them but the tests of the properties.

Most analyses are held against the program itself: PointerRun, PointerGraphRun, DataDependence, ThreadRun, ControlDependenceAnalysis,
ValueRelationsRun and CapePlace go on, when the analysis is done, with a run of the program that was
analysed, along any path, and the property compares what happens with what the analysis says. A property about a
definition (a dependence, a frontier, a dominator) is stated with the definition of the literature, not with the algorithm.
### CapeRuntime (samples/common.h)

One thread runs the instrumented program. `calls` and `live` are the program: activations
of instrumented functions and their buffers. `stack` and `size` are `allocMap`, with one
size per buffer id as in the code; `mallocLen` is `mallocMap`. `control` says where in
`startTransaction` the thread is; `saved` is what the hardware restores, registers
included, so the retry count of an inner `startTransaction` goes back with the abort.
Abort is possible in every state inside a transaction. The actions are `EnterEntry` (a call
of a function that allocates in its entry block), `EnterLater` and `AllocaLater` (a call of one that
allocates in a later block, maybe never or many times), `Leave` with and without
the pop, `Malloc`, `Free`, the preloads `iterateAllocStack`, `iterateMallocSet` and `preloadInstAddr`, and
`startTransaction`, `XBegin` (started, refused or nested too deep), `Abort`, `Retry` and `endTransaction`.
The bodies of `insertMallocSet` and `eraseMallocSet` are commented out in
the code, so they do nothing here either.

### CapeWalk and GraphWalk (NodesWalk.h, markSlice, llvm-dg-dump.cpp)

CapeWalk takes one edge per step in the order of the code (`Order`), and the targets of one
kind of edges in the order of `order`, or in any order when that is empty. `parent` is the
slot in an entry node in which a walk keeps the call it came through. `markSlice` is modelled
with its four returns, each of which decides whether the walk goes on to the blocks that the node
controls. GraphWalk is the abstract specification: it says only that a walk invents no node
and is not finished with a node before all its obligatory successors are discovered. CapeWalk
implements it under a refinement mapping that takes `must` and `may` from the program.
`WellFormed` is what is assumed of the graphs: entry nodes belong to their own graphs, blocks' dependences and loops stay in
a function, branches leave loops, loads and stores are at addresses. `OneCallSite`, `LoopsControlled` and `CopyInLoop` name the programs
whose marked accesses are all handled; `MCCapeWalk` has one program for each of them that is lost without it.

### CapePlace (Slicing.h)

First the tool: `FirstPass` and `SecondPass` handle a branch or an access, in any order, with
the search for the highest branch through dominators and callers, and insert calls in
`code`. Then the transformed program runs (`EnterBlock`, `Item`, `Call`, `Branch`, `Return`)
along any path, and the properties speak about that run. The slice id of a block is one value with
several meanings in the code, and it is one value in the model: `PlaceLoop` gives 0 to the blocks of a loop, which also forgets that they were
in a transaction (`Slicing.h:972`). A branch is the end of any block that goes on (`IsBr`): the programs have no `switch` on the secret, which the
code, testing for the opcode `Br` (`Slicing.h:502`, `538`, `880`, `956`), would not treat at all.

The last section of the module, `Structured`, says of a program that its secret-dependent code is in regions with one entry.
The tool does not test for it: it is the condition under which what it places is proved to be enough. A `top` is a branch on the secret
that lies in no other one's part, or the dominator of a loop that is left on the secret and for which no branch is found; its part is what lies between it and its
end, with the functions called there. Parts have one entry and do not overlap (`SingleEntry`, `Apart`), blocks with calls or marked branches in them are marked (`Marked`),
a loop without a branch is the only one of its top (`OwnLoop`), and each access and each secret loop is controlled by a branch that the search can start from (`Found`)
or depends on the secret by its address only (`Quiet`). TLC finds ten of the eleven programs of `place_good` structured. NoLoopEnd is not: after its loop
there is no one block where a transaction could end, and the tool crashes. None of the programs of section 5 that are left without protection is structured.

### PointerAnalysis and PointerRun (lib/PointerAnalysis, lib/llvm/PointerAnalysis)

PointerAnalysis is the flow-insensitive analysis that the tool uses: one action per type of
node, the breadth-first search that fills the queue (`Visit`), the rounds (`QueueChanged`),
the limit (`GiveUp`). Calls through pointers, forks and joins connect the graph while it is
processed. PointerRun then runs the analysed program, and `Sound` compares the values of its
registers with the points-to sets. An empty set stands for any pointer, as for the users of
the analysis. `Settled` says that to process any node once more would add nothing that may be there when
the node is executed (`After`): this is what the rule of reprocessing is to achieve, and `Terminates` asks for it. `StructureAssumption` is what
the builder makes of functions: arguments behind the entry, known returns, a return site for each call that may have a callee. Abstracted: the order of siblings in the search is arbitrary;
`callIsCompatible` is ignored; a result pointer of `pthread_join` is NULL; invalidation of
nodes is off; variadic arguments are left out here (they are in PointerGraphRun), and so is the value of a thread that a join returns (joins are taken
to have no place for it; `AddFunctionToJoin` of PointerGraphBuilder builds the PHI and the store of it). GEPs in loops lose their offset only
in functions that exist when the analysis starts (`BuiltAtStart`), as the code prepares no others; a fork that resolves to a function without a body ends the analysis, as the assertion of
`buildFunction` does. Further: in the run each allocation site allocates once
and functions are not recursive.

### PointerGraphBuilder and PointerGraphRun (lib/llvm/PointerAnalysis)

The graph of an LLVM program: nodes for globals with their initialisers, then for the instructions of `main` and
of every function called by name, a function at a time (`stack` holds those under construction), the edges between blocks
and the operands of formal parameters, variadic arguments, returns, threads and joins. In PointerGraphRun the analysis of
PointerAnalysis runs in rounds over all the nodes that its search reaches (`active`), and whenever it finds
that a pointer calls a function, a fork starts one or a join waits for one, the builder goes on. Then the program runs, with
several objects from one allocation, variadic arguments, initialised globals, recursion and threads. Rounds abstract from the order of the
worklist, which PointerAnalysis has. The search for the successors of a block without nodes shares one set of blocks it has found among all branches of
its recursion, as in `Structure.cpp:57` (`NextBlocks`, `AddSuccessors`). The run stops at a store through a pointer of which the analysis knows nothing,
since it drops such stores.

### PointsToSets, SimplePointsToSet and SparseBitvector (PointsToSets/, ADT/Bitvector.h)

Six representations, chosen by `kind`, with every operation that changes or asks: one set is `this`, the other
`other`, so that unions and exchanges have both. `ids` is the static vector in which PointerIdPointsToSet numbers the
pointers it has met, questions included. SimplePointsToSet is the abstract specification, a set of pairs; all representations but
SeparateOffsets implement it. In the run the offsets are 62 and 248, the last
that SmallOffsets and its aligned variant keep in the vector, 252, which both keep outside, and the unknown one.

### ControlDependence (lib/ControlDependence, PostDominanceFrontiers.h, SCD.cpp)

All analyses of one procedure's graph, `job` chooses one. Searches by counters (`Pop`) are
shared by NTSCD, AllMaxPath and gamma, as their code is the same three times. The counters
are `unsigned short` and wrap. Nodes are taken from every listing of a set, which includes
the order of the code. DOD and DODNTSCD are operators on the result of AllMaxPath, DODRanganath (in
ControlDependenceAnalysis, as it recurs) is one on the graph; the
closure takes any edge that qualifies where the code takes the first one it finds.
`exact` is a history variable: it is FALSE once a search has coloured a node too many.
The two frontier computations run on graphs in which every node reaches an exit,
since LLVM's post-dominator trees of other graphs differ between the versions supported.

### ControlDependenceAnalysis, LegacyNTSCD and SystemDependenceGraph (lib/llvm/ControlDependence, lib/llvm/SystemDependenceGraph)

ControlDependenceAnalysis is the object that clients ask: by the function or on demand, for instructions or blocks, with any
option. `infos`, `hasCD`, `instrCD` and `blockCD` are the members of `LLVMInterprocCD`, which finds the calls that may not return by a
recursion over the calls and hands them on to what follows. SystemDependenceGraph is such a client: `BuildNodes` creates the graphs of the functions and gives
up at calls through pointers, `ProcessDG` adds the edges of one function with the noret nodes; then a run of the program
tells who did not return. LegacyNTSCD is what the dependence graph of Cape uses: graphs with blocks split behind calls (`NodesOf`),
an edge to the exit for loops that have none, from a node that depends on the order in which Tarjan's algorithm meets the nodes
(`order`), the search by counters, and the edges between instructions that come of it.

### IntervalMap and ByteMap (DisjunctiveIntervalMap.h)

The map in which memory SSA keeps the definitions and the overwritten bytes of an object: `mapping` is the set of
entries, an iterator is the entry it points to. `Call`, `AddFirst` (into a map without entries), `Split` and the turns of the loop of `_add`
(`FillGap`, `FillEntry`, `FillRest`) are steps of their own, `AddAll` is one step. The queries `le`, `gather` and `uncovered` are operators;
the loops in them are given by the entries they visit. ByteMap is the abstract specification: a set of values for each byte,
written in one step. `QueriesExact` is about `le`, `gather`, `uncovered` and the whole write that memory SSA makes of them; `DefinitionsMap::get` is `Get` of
MemorySSA, a `gather`; the overlap queries are not modelled (section 5). Under the refinement mapping the bytes that a running operation has still to write count as
written, so that the call is ByteMap's `Write`, its last step is `End`, and the steps
between them are stutters. The last byte stands for the unknown offset. The result that tells whether the map has changed is left out, as memory SSA does not use it.

### ReadWriteGraph, MemorySSA and DataDependence (lib/llvm/ReadWriteGraph, lib/MemorySSA)

ReadWriteGraph builds the graph of reads and writes: `defs`, `over` and `uses` of every instruction, including library functions and undefined ones,
and blocks split around calls. MemorySSA is the search for definitions on demand: operators that take the state of the transformation, a record, and
return the new one with what they found, since the code is a recursion with side effects that nothing
interrupts. The state holds the definitions per block as interval maps, the PHI nodes made so far, the summaries of procedures (inputs, outputs, modref). DataDependence
asks questions one after the other (`Query`, `ComputeAll`), then runs the program. `CalledOnce` names the programs in which no procedure that may write
memory is called from two places (a call of itself behind which it returns aside): a summary answers only one of two calls in full (section 5). The pointers that an instruction may
use are part of the program. In the run heap memory keeps one object of each site, and another may be accessed in its place, so that
definitions that only may overwrite are told from those that must.

### DependenceGraph (LLVMDependenceGraph.cpp, LLVMNode.cpp, LLVMDGParameters.h, DefUse.cpp)

The dependence graph that Cape walks over. `Current` is the function under construction; `HandleInstruction` and `FinishFunction` step through its blocks,
and a call of a function without a graph begins one (`BuildSubgraph`, then `ConnectSubgraph`), as the recursion in the code does. The actions add formal and actual parameters,
globals and heap memory that become parameters of all functions on the way (`addSubgraphGlobalParameters`), forks, noreturn nodes, then use edges and the edges
between parameters. Calls of functions without a result, variadic functions, and the edges that are added from the results
of the data and control dependence analyses are left out. Direct calls are asked only whether the function has a body, calls
through a pointer also whether the function fits the call.

### ThreadRegions and ThreadRun (lib/llvm/ThreadRegions, lib/llvm/ForkJoin, LLVMDependenceGraph.cpp)

ThreadRegions builds the graph of the whole program with the edges of forks and joins, matches locks with unlocks, cuts the graph
into regions, finds critical sections and adds the interference and fork-join dependences. What the pointer analysis says is given by the program.
The edges between regions, which are only printed, are left out; MayHappenInParallel returns all regions, as in the code.
ThreadRun runs up to three threads, one instruction at a time. `WellFormed` says what LLVM makes sure of (blocks are not empty, an instruction is in one place,
an entry block has no predecessors, a return ends its block) and what the pointer analysis does (a join knows the functions of its forks).
The three properties speak of what a thread can observe at an instruction; `event.last` is what it has executed before.
A region runs whole: a thread executes an instruction with others of its region in front of it only if it comes from the region; the
founder itself has none in front, although the way around a loop may lead back to it. `SectionsFound` is about the sections without branches in
which the unlock is not passed before, as for another mutex: there the search, which erases the unlock, ends too.

### ValueRelations and ValueRelationsRun (include/dg/llvm/ValueRelations)

A location is the state before an instruction: `eq`, `reads` and `rel` are its equality map, its reads map and its relations. The analysis first collects the edges between
locations (`CollectEdge`: instructions, branches, switches, joins), then sweeps over them until nothing changes (`NextSweep`), then hands relations between actual
arguments to callees. ValueRelationsRun runs the program on small integers. PHI nodes and debugging intrinsics are left out, casts
copy their operand, and the limit on sweeps is 0 (none), its default. The predicates `FixedOnce`, `CalledOnce`, `ValuesOnce` and `OffsetsOnce` name the programs for which the analysis is not right, see section 5.

### FlowGraph

Dominators, post-dominators and control dependence in the sense of Ferrante, Ottenstein and
Warren, by their definitions. It stands for LLVM's analyses, which are external.



## 3. The runs

| Run | Instance | Shows |
|---|---|---|
| `runtime_good` | three buffers of recursive functions: in a function with several returns, in one with a single return, and outside of the entry block; sizes and addresses across cache lines; two live activations, three registry entries; nesting up to three and beyond, one retry, five attempts, one heap block | live buffers are registered, and preloaded in full; with one return the registry is exact; the counters of `printCycles` balance; the bound on retries is exact; `startTransaction` ends |
| `walk_walks` | the dependence graphs of eleven small programs, the edges of a kind in any order | the walk is complete and exact up to the matching of calls with returns; what pass 0 marks is handled; it implements GraphWalk; the passes end |
| `place_good` | eleven programs: nested and sequential branches, loops, callees, accesses at secret addresses, two returns; branches and accesses visited in any order | every secret-dependent access runs in a transaction that has preloaded what it touches; transactions are well nested |
| `place_unprotected` | two secret branches in sequence | (refuted) the same protection |
| `pta_good` | all lines and loops of three instructions on two objects, with and without field sensitivity, zeroed memory and a limit of iterations; calls, callbacks, a joined thread | the analysis is sound against the running program, forgets nothing, and ends where nothing more is to be found, unless it gives up |
| `pointer_graph_good` | 1057 programs: 759 pairs of instructions, 36 initialisers, 36 branches and loops with blocks that have no nodes, 107 with calls (recursion and functions that never return among them), 4 variadic ones, 43 calls through pointers, 72 with threads; field sensitivity 2, objects of up to two cells, run depth 4, two objects of each site, at most 40 nodes | the graph passes the validator, has the control flow of the program and no other, and the results cover every run |
| `sets_good` | two sets, four pointers (a,62), (a,252), (a,unknown), (b,248), six representations, every sequence of operations | the representations implement a plain set of pairs and answer questions by what they hold |
| `cd_good` | procedures of four nodes that begin with a branch, at most two successors each; analysis requests on programs of `main`, `f`, `g` (line, diamond, loop, endless loop, two entries, stop), standard and NTSCD, two requests, depth 3; the system dependence graph built in any order of the functions; component graphs in two orders of their nodes, in both modes | the searches, NTSCD2, Ranganath's fixpoint, DOD and DODRanganath, the closure and the frontiers against their definitions; answers do not depend on what was asked before and cover the calls that end the program; the system dependence graph links them; the legacy analysis against the graph it is run on; all end |
| `dd_good` | 690 programs on objects of two bytes: diamonds, loops, calls, chains of calls, recursion, locals, two calls, calls through pointers, undefined functions, heap, copies; call depth 3; any order of questions. The interval map: six bytes, two values, calls without limit | where `CalledOnce` holds (of all but one of the programs), reads find the writes that reach them in every run, and no earlier question hides a write from a later one; the first answer names no write that is always overwritten; the interval map is a map from bytes to values, and `le`, `gather`, `uncovered` and the whole write are exact |
| `dd_hidden` | the program that is left, `Calls`: two calls of a procedure that writes a global, a read behind each | (refuted) no earlier question hides a write from a later one |
| `graph_good` | 1544 programs of `main`, `f`, `g`: direct calls and calls through pointers, recursion, threads, globals, heap, functions that end the program. Beside them 88 programs of up to three threads on two objects of two bytes, call depth 2, with forks, joins and locks, all interleavings | every value that flows between functions has a path in the graph; what follows a call that may not return depends on it. Regions run as a whole, from their front on; every write of another thread that a read may see has an edge; so have the ends of threads and joins, and locks and unlocks |
| `values_good` | about 6 300 programs in two orders of the pointers: a store and three free instructions, diamonds, nested comparisons, switches, loops, a call; integers −2..2, inputs −1..1; about 1 590 sets of up to three relations between three values | what the analysis says holds in every run; loads are paired with what was stored; `isLt` is exact on consistent relations; the sweeps end |

Why the bounds are enough. A stale registry entry needs two activations and a return without
pop, a wrong pop a third entry: `MaxCalls` 2 and `MaxStack` 3 have both, and aborts may undo
each. `MaxNest` 3 has an inner transaction with an outer and a nested one. The walk matches one call with one
return, so two callers and one recursion show every confusion that one slot can cause. Three
instructions make a store, a load through the stored pointer and one more access, in
a loop one that feeds itself; where graphs are built, every pair of instructions meets every order of building
(the operand before its user, or after). The borders of the offsets that a representation keeps in bits are 62/63 and 248/252, and the four pointers lie
on both sides of each. In four nodes there are loops with two exits, irreducible loops, loops
without exit and a predicate with a cycle of two nodes behind it, the smallest with a decisive
order; all four-node graphs that a branch from the entry reaches (2.8 million states) were checked once with the same result.
Two bytes tell a strong from a partial overwrite and a known from an unknown offset; in the program `Calls` one procedure is
summarised for two calls in sequence (which is where the summary fails, `dd_hidden`; in `TwoCalls` the procedure only reads, in `Recursive` it returns behind its call of itself), in chains of three a summary is built while another is under construction. Three functions are the
least in which a callee, shared by two callers, is reached in two ways, or in which recursion goes around one that is not recursive.
Three threads are the least in which a thread runs beside one that its creator does not know. Six bytes hold three entries with gaps
between and around them, so an interval may lie in an entry, span several or share either border; the number of calls has no bound. Inputs of
three values make every comparison come out both ways, and five integers leave room for the sums and products of the programs.

Fairness. The tool is sequential, so a step that is enabled is taken: weak fairness of `Next` (in
CapeWalk of the same). In CapeRuntime fairness is that of the steps inside
`startTransaction` only, that is, the thread is scheduled; nothing is assumed of aborts, so
termination is due to the bound on retries. In PointerRun and ValueRelationsRun fairness is that of the analysis, whose
loop goes on by itself, not of the program, whose steps are the user's choice.

Deadlock is not checked where the modelled process ends: the tool is done, the program
returns, a thread waits for a lock that its program never gives back, or `startTransaction` calls `exit`.


## 4. What is proved

For every value of the constants that the named assumptions allow.

**CapeRuntimeProofs.** `TypeCorrect`, `AttemptsAccounted`, `RetryBound`,
`LiveBuffersRegistered`, `PreloadingCovers`. The invariants are not inductive alone because
an abort installs `saved`: the strengthening says that the saved state satisfies them as well,
with the counters as they were at the outermost `_xbegin`. That live buffers are covered needs that
the registry of a function holds its live buffers in the order of the calls, so that a pop removes the last activation's
entry or one above it. Preloading rests on a lemma about lines: the loop from the line of the first
byte to the line of the last one meets every line between. `RegistryExact` says of functions with one return that the
registry holds exactly the live activations' entries: every path out of them pops, so the pop always meets its own entry.

**CapeWalkProofs.** `TypeCorrect`, `Implements` (the step simulation for GraphWalk: Begin for the start of a
pass, a step or stutter for everything else) and `Complete`. The inductive invariant says which targets of the node
in hand are still to be processed, and that every other obligatory successor is visited. `WalksExact` adds for each visited node a context in
which it is realizable: if its function was entered by a call, the slot of the function holds a call that the walk came through, and
the only return edge that is followed leads there. That the only pass 0 follows every branch needs that a node is in the queue once and that nothing
but entry nodes is sliced before it is popped. `MarkedAreHandled`: marked accesses stay sliced until they are handled and lie in what depends on the
starting node; where every return is matched, pass 2 visits all of that, by the minimality of what is reachable.
`WalkAssumption` and `ProgramsAssumption` are the assumptions: finitely many nodes, well-formed graphs.

**FlowGraphProofs.** `ReachableExact`: what the search by rounds (`ReachableAvoiding`) finds is closed under the successors and is within every
closed set that holds the start. The rounds are a recursive function over Nat. That it exists, grows and no longer changes after as many rounds as there
are nodes is proved by induction, which is done in the form of a set: a set of numbers that
holds 0 and with each number the next one is Nat (`SetInduction`), because its complement would have a least member (`LeastMember`, from the well-foundedness of <
on Nat in the library). The library's own induction theorem takes an operator as a parameter, which these provers cannot instantiate.

**PointerAnalysisProofs.** `TypeCorrect`, `PointersKept` (no pointer is lost until the
analysis stops, by one monotonicity lemma per kind of node) and `EntersBodies` (calls and threads that are resolved
while the analysis runs are connected to functions with a body only). `ReportsPointers` and `RunSound` are about the program that runs:
where the analysis has settled, every pointer that any execution computes is covered by what is reported, whatever the number of threads, the depth
of calls and the size of objects. That it settles is the hypothesis, because it is not true of every program (`TwoStores`, section 5); `Terminates` checks it on
the instances. Null that comes from zeroed memory is left aside: a memcpy that makes memory zero is no change for the fixpoint. The
invariant (`RunInv`) says that a register holds nothing but what its node accounts for; that a byte holds what a writer stored which may have been executed
before the nodes where the threads are; that a thread with several frames is in the body of a callee of each call on its stack; and that all threads are at nodes
which the search of the analysis finds. The nodes that may follow another (`After`) are the least set closed under the edges, so a step of a thread stays in it, and a value
that a settled node may meet has been passed on. The invariant of the analysis adds that callees which are connected were found
in points-to sets, and conversely. The assumptions are `ProgramsAssumption`, `RunAssumption` (`NoValue` is no pointer) and `StructureAssumption`, which is what
`Structure.cpp:69-139`, `PointerGraph.cpp:545-587` and `Interprocedural.cpp:138-146` build.

**ControlDependenceProofs.** `TypeCorrect`; `SearchFindsAll`, `SearchFindsNoOther`, `ComputesNTSCD`, `ClosesExactly`, `ComputesStandard`, `ApIsCycle`,
`ComputesDOD` and, of what is computed together, `ComputesRelations`. The nodes that
inevitably reach T are defined as the smallest closed set that holds T, so no induction along paths is needed.
For the search by counters, let a node be popped when it is coloured and not on the stack. The invariant
bounds the counter of an uncoloured node by the number of its successors that are not popped, and keeps it above
0: with an empty stack the coloured nodes are closed, hence complete (`SearchFindsAll`). If no target returns, the bound is an equality,
no node is on the stack twice, and all successors of a coloured node are popped: who is released
is new, and inevitable (`SearchFindsNoOther`). For NTSCD2, every uncoloured predecessor of a coloured node is in one of the frontiers, and
after a round without progress none of them can be coloured. For Ranganath's fixpoint, symbols are sound in every
state, and where no node has anything to pass on, the nodes whose symbols m has too are closed. So the fixpoint version is exact on every graph,
whatever the order; the comment at `lib/ControlDependence/NTSCD.h:178`, which says of the class that it may over-approximate, is about the
version with the workbag.
Closures: when nothing can be added, the nodes that do not reach the set inevitably and at one node first are closed under the
successors, so those among them from which the set is reachable would meet it, which none of them does. Nothing that is added can be done without: a strongly closed set Y
without the added node p would be reached from p at one node y only, and from y the set so far is reached where it is from the
edge for which p was added. Both arguments rest on a few lemmas about what is met first (`ThetaGrows`, `ThetaThrough`). The hypothesis `exact` is
that of the search: no call of gamma has coloured a node too many.
Frontiers: d post-dominates a when a is not among the nodes from which an exit is reachable without d. Given a way out from everywhere,
this is an order in which the post-dominators of a node form a chain (`PostDominatesChain`, by the set that both dominate, which
nobody leaves), so the parent is determined (`ipdomAt`), and on the way up from a node to one of its post-dominators b lies a child of b (`ChildBelow`,
by the candidate with the fewest post-dominators). `UpExact` says that dg's test of the parent and LLVM's test of dominance
agree on the frontier of a child, whence the invariant that every node that is done with has its frontier.
Decisive order: Ap holds the nodes on all maximal paths from p. A way through it that may go on for ever, or leave it for good, has met all of them
(`WaysMeetAll`), so a set of nodes in which one can stay that leaves out two of them besides p is a contradiction. If two nodes come next after p, such sets show that
from every other node exactly one comes next, and no path ends (`NextFrom`, `OneWay`), and that following it goes round all of them (`WalkCycle`). This is
what `checkAp` (`DOD.h:257`) asserts (`ApIsCycle`). Whether a is met before b is decided at the first node of Ap that is met (`AheadAtFirst`) and is the same at a node and the next one unless that
is a or b (`AheadNext`); so it is so from the nodes from which a comes before b round the cycle (`WalkTurns`). What is left is about colours of numbers: the places
from which or up to which the red ones can be separated from the blue ones are the two arcs of `computeDOD` (`ArcsExact`). The hypotheses are `exact`, for the
searches of AllMaxPath, and `Binary`, at most two successors, which the code asserts (`DOD.h:200`, `DOD.h:431`) and all graphs of the run have: with three successors, a
pair of them at a time finds less than what all decide.
The assumptions are those of `GraphAssumption`: finitely many nodes, fewer than an unsigned short can count.

**CapePlaceProofs.** `StructuredProtected`, `StructuredWellNested` and `StructuredNoCrash`: in every structured program, in whatever order the tool visits branches and
accesses and along every path, sensitive accesses are protected, transactions are well nested, and the tool does not crash. The inductive invariant (`ToolInv`) has two halves. The run:
where calls are inserted at tops, at the ends of parts and at blocks of their own only, and a top with calls has a whole transaction (`CodeInv`), a thread is in
the transaction of a top exactly while it is in the part (`RunInv`): the part is entered from the top only and left to its end only, and a function
called in it is called nowhere else. If every access is preloaded for (`Coverage`), safety follows (`RunSafe`). The tool: slice ids tell what has been placed (`SliceInv`), because the code
takes them for that; branches on which others rely stay marked (`NodesInv`); each loop for which no branch is found is preloaded for or has its exits still to be visited (`LoopsInv`);
each access is covered or still to be visited (`AccessInv`). That the second pass finds the right branch rests on dominators: a top dominates its region, what dominates a block of
the region is in it or dominates the top (`RegionDom`), between two tops lies a block that is not marked, where the search stops, and a search from a callee
goes up to the callers, which ends because calls go up in rank. Only `PlaceAssumption`
(finitely many blocks and functions) and `ProgramsAssumption` are assumed besides: branches stay in their function, marked nodes are in marked blocks, there is no recursion.

**DataTypesProofs, the interval map.** `MapTypeCorrect`, `EntriesDisjoint` and `MapImplemented` (every step writes the bytes of its interval or nothing in ByteMap). The
invariant says that while the loop runs no entry reaches over the beginning of the rest or over the end of the interval; three lemmas
say what splitting, filling a gap and writing to an entry do to every byte. `QueriesCorrect`: `le` finds the first entry with a byte of the
interval, where there is one, since the last entry that begins early enough exists (a bounded set of numbers has a greatest member); `gather` visits the entries that meet the interval; the gaps of `uncovered` are the maximal intervals
without an entry that begin in the interval or before it; and the whole write of `Written` cuts what it meets. The assumptions are that there is more than one byte and that `None` is no operation.

**DataTypesProofs, the points-to sets.** `TypeCorrect`, `Implements` (of the plain set, for every representation but SeparateOffsets) and
`QuestionsAnswered`. A sparse bit vector is the set of the numbers its iterator visits: six lemmas give what setting, unsetting, a range
and a union do to that set, and that no word is empty makes the emptiness of the map that of the set. The invariant
says that the numbering is injective, that every bit in use is below the numbers given out, and that what lies outside the vector cannot be held by it.
A bit then decodes to a pointer whose bit it is, and a pointer that was numbered encodes to a bit that decodes to it,
so every operation on bits is the operation on the set; a later number changes no earlier one, so neither the other set nor
a question is disturbed. That SeparateOffsets is a singleton exactly when its product is one needs that targets and offsets
become empty together. The assumptions are that the unknown offset falls on the last bit of a word (`UNKNOWN % 64 = 63`)
and is at least 255, above every offset that a word can hold: the code's is the largest 64-bit number, and the run takes 2^31 - 1.

**ThreadRunProofs.** `RegionsWhole`, `InterferenceComplete`, `SynchronisationComplete` and `TypesRight`, for every well-formed program, any
number of threads, any depth of calls and size of objects. The proof has three parts. The graph: every edge is of one of five kinds (`EdgeKinds`), so a node within a region that is not
its founder has one predecessor, the place before it. The searches: the invariant of the regions says that a node
which founds none follows exactly one node of its region, and that what the search is through with is closed under the successors; that of the sections
that either the unlock is still to be met, and then all that is visited has its successors visited or ahead, or a set of visited nodes holds the lock and
carries on to the unlock. `Carries` says it of sets, so no induction along the ways is needed. The run: a thread
is where the control flow graph leads from what it has executed last (`Came`), its frames return to where their calls go on (`FramesFit`), a byte holds
a store that may have written it, and while only straight instructions have been executed since a lock, whatever carries on from the lock to what has not been
executed yet comes to the next instruction (`Leads`). The invariant `IndInv` joins the three; before the searches are over it says that nothing has run.
The assumptions are `ProgramsAssumption` (`WellFormed`), `NoneAssumption` (None is no instruction) and `TopIsNat`.

Model-checked only. All liveness. `Protected` and `WellNested` of programs that are not structured: they do not hold of every one (section 5), and
`Structured` is shown to be sufficient, not to be necessary. That the pointer analysis settles, and `RunCovered`: not true of every program either (`TwoStores`, section 5).
The other properties that compare an analysis with the running program (`Sound` of the data dependence and value relations analyses, `Exact`,
`FlowExact`, `Validates`, `FlowsPassed`, `NoReturnControls`, `Found`) and `InterprocExact`, `LegacyExact`:
their modules follow the recursion of the code with RECURSIVE operators, about which the provers cannot reason. So does `DODRanganath`,
whose depth first search `RanganathExact` compares with the definition by paths.


## 5. Where the code differs from what is written about it

Found by the run that is listed with a refuted property: a second secret branch after a first one is taken for part of its
transaction (`place_unprotected`); and the PHIs in a summary that a question behind one call has left hide definitions from a question behind another call (`dd_hidden`, see Data dependence).

Programs in `MCCapePlace!AlsoUnprotected`, each left without protection in its own way: AfterLoop (the exit block of a
loop counts as a block whose transaction is started), OneBlockLoop (a loop of one block is not recognised), Join (an end
is inserted after the start at a join that is reached around the branch), AfterPhi (the second preload goes before the start, since skipping PHI nodes
stops at the inserted call), TwoCallers (the first caller only is instrumented), CallInLoop (a loop whose accesses are all in a callee gets no
transaction), TwoReturns (a start without an end). In `MCCapeWalk`, LoopWithCopy: a memcpy in a loop that is left on the secret is never handled.
InnerLoop: a loop that is all that an endless loop around it contains is not control dependent on its own exit branch. Pass 0 enqueues its nodes all the same
(`Slicing.h:886-893`) and marks what depends on them; pass 1 handles the loop's own accesses, but passes 1 and 2 never come to an access elsewhere whose address
the loop reads.
SecretInCallee: a callee that is reached from the secret and from two callers, see Walk below.

Read while modelling, but not the subject of a run. The models do what the code does in each of these cases, or the
instances leave the case out, as the comments there say.

Run-time support
- `insertMallocSet` is commented out: sensitive heap data is never preloaded.
- An allocation whose size varies keeps the latest size only: earlier activations are preloaded in part.

Walk
- The parent slot of a function entry holds one call and survives the pass that wrote it (`NodesWalk.h:206`). A function reached without a call in
  pass 0 returns to all callers there, in passes 1 and 2 only to the one that wrote the slot last: accesses that depend on the other callers' results are marked and never handled (`llvm-dg-dump.cpp:246`).
- Allocation ids are 32 bits wide in the tool and 16 in the mark of a node; slice id 0 becomes 1 and is shared.
- `getSecretNodes` takes the first memcpy of main if there is no annotated global (`LLVMDependenceGraph.cpp:947`).

Pointer analysis
- Pointers of concurrent threads are missed, in spite of the comment in `PointerAnalysis.cpp`: `MCPointerRun!Threads` shows it, a thread that is not joined.
- So are pointers of a program with one thread. "But this information can never get to that node in runtime, since that node is unreachable from the point
  where the information is generated, so this is OK" (`PointerAnalysis.cpp:533-537`): two branches may store the same pointer, and only the first of the stores that is processed changes the
  memory. If that one is in a branch that does not return, what follows the other branch is not processed again (`MCPointerRun!TwoStores`), although the program can run that way.
- `PointerAnalysisOptions.h` says "maximally this number" of iterations; `run` performs one more.
- A join that is matched to a thread during the analysis gets a PHI and a store of the thread's value between the thread's returns and itself, but only the join counts as changed
  (`Threads.cpp:99-109`): the two are not processed unless a later iteration comes to a return of the thread.
- A join processed before its fork (load f, join, create f) meets the assertion "Did not build the subgraph for thread" (`Threads.cpp:96`).
- `memcpy`'s `setZeroInitialized` does not count as a change; a union keeps specific offsets beside an unknown one.
- A function pointer to a function that does not return and to an external one drops the nodes after the call from reprocessing.

Pointer graph builder
- A direct call through a bitcast is looked for by `getCalledFunction() == F` (`Interprocedural.cpp:55-72`, `148-170`): formals get no operands, the call-return no return site, and what follows is never processed.
- A recursive call in a function under construction is connected to the returns built so far (`Interprocedural.cpp:133-146`).
- The fallback of `checkMemSet` (`PointerGraph.cpp:462`) creates a GEP and a STORE that are in no block; a memset with another value than zero is ignored.
- `createArithmetic` tests operand 0 twice. `accumulateEVOffsets` adds the size of the allocation for arrays; `extractvalue` of a loaded aggregate dereferences the loaded pointer.
- `handleConstantGep` sets the offset of a nested GEP where it should add; a null member of an initialiser marks the whole global as zero; a global without initialiser holds nothing.
- A function with `...` only gets no variadic operands; the variadic PHI begins one formal too early; the memory behind `vastart` has size 0.
- `createUnknownCall` pairs a node with itself; stores through unknown and empty pointers are dropped; a GEP beyond the field sensitivity has an unknown offset.
- A thread's function that is called directly too has return sites at its RETURN, and the search does not follow the edges to the join. `addPHIOperands` meets null in unreachable blocks.

Points-to sets
- `SeparateOffsets::mustPointTo` says "or" where it means "and".
- OffsetsSet keeps a target whose last offset was removed, and its `isSingleton` counts targets. `CachingHashMap::clear` and `erase` leave the cache as it was.

Control dependence
- `DOD.h:17` speaks of nodes on all maximal paths. A target whose successors inevitably return to it counts down to 0 in its own search, is pushed again and
  decrements its predecessors twice, so that a predecessor with a second way out is coloured (`DOD.h:52`, and `NTSCD.h:47`, `ControlClosure.h:72`).
- `DODRanganath` inserts `n` in `revCD[n]` where it means `p` (`DOD.h:612`): every predicate with dependent nodes is listed among them (`RanganathExact`); the pairs come in both orders, so none is missing. DOD takes two successors only (`DOD.h:199`).
- `LLVMInterprocCD` and the legacy NTSCD get no pointer analysis (`ControlDependence.cpp:20,30`), so calls through pointers always return; endless loops are no points of no return, although `InterproceduralCD.h:28-31` counts them.
- `compute(F)` for an `F` that was computed takes up the whole module (`NTSCD.h:129-141`), where `ControlDependence.h:82-87` says "if not already computed".
- The legacy `buildFunctionRecursively` splits the calls of the entry function only (`GraphBuilder.cpp:151-160`; the comment at `legacy/NTSCD.cpp:133-139` says otherwise).
- Dependences of return and exit nodes are skipped (`LLVMDependenceGraph.cpp:1009`), so the interprocedural ones do not become edges. The edge to the exit from a loop without one starts at the first node of the loop that Tarjan's algorithm met.
- `StrongControlClosure::getDependencies` aborts, `compute(nullptr)` dereferences null.
- Blocks without node in the post-dominator tree get no immediate post-dominator, and the fallback adds control dependences on all successors.

Data dependence
- `MemorySSA.cpp:289-291`: "we must create a new phi for each subgraph inside the subgraph (these phis will be merged by the single 'phi'. Of course, we create them only when not already present".
  Where such a PHI is present because an earlier question came through another call, the loop over uncovered outputs (`MemorySSA.cpp:292`) has nothing to do, and the PHI of the second call is never linked (`getOutputs`, `MemorySSA.h:69`, has no caller): a read behind that call is reported to have no definition. `dd_hidden` shows it on f(); use(g); f(); use(g); `Sound` and `Exact` hold under the condition `CalledOnce`, which excludes it. The same happens in recursive functions.
- `createPhi` uses what `uncovered` returns, which may lie behind the interval: for entries 0-1 and 8-9 and the interval 0-3 it returns 2-7, while `DefinitionsMap.h:119` speaks of "intervals of bytes from 'ds'". So an earlier, wider PHI makes a later answer less exact: `Exact` is about the first question.
- The summaries of mutually recursive functions may be incomplete. `Calls.cpp:269,325` pass an end where a length is expected.
- A memcpy overwrites all the targets that its pointer may have, heap included; an unknown pointer is ignored in `mapPointers`; `Definitions::get` returns writes to unknown memory only if there is nothing else.
- `joinDefinitions` treats definitions that may overwrite as kills. A local passed by pointer to the same recursive function is no input.
- `_summarizeAnnotation` drops overwrites that not all undefined callees make; `callMayDefineTarget` ignores an undefined callee's write to unknown memory; an address that is only an argument of a call does not count as taken (`Instructions.cpp:56-77`).
- `overlaps` looks only at the first entry from the start of the interval on, `overlapsFull` likewise, and `intersection` never advances its iterator; memory SSA uses none of them outside of assertions.

Dependence graph and threads
- Parameters are incomplete under recursion (`LLVMDependenceGraph.cpp:250-253`), `updateActualParameters` skips calls through pointers and forks (`LLVMNode.cpp:148-160`), and the noreturn node of a function is not handed to the callers of its callers (`LLVMDependenceGraph.cpp:322`).
- Interference compares offsets for equality only (`LLVMDependenceGraph.cpp:1134`); forks through a pointer are not matched with joins (`GraphBuilder.cpp:270`); the search for critical sections follows the forks and erases unlocks, so that a section ends at an unlock which is passed before, for another mutex (`CriticalSectionsBuilder.cpp:93`); `matchLocksAndUnlocks` asks for the points-to set of the call, not of its argument (`GraphBuilder.cpp:298`); `computeCriticalSections` dereferences null for nodes that are not in the graph (`LLVMDependenceGraph.cpp:1094-1097`).
- `MayHappenInParallel` returns all regions; memcpy and its like get no interference edges; `Node::successorsNumber` is the number of predecessors (`Node.cpp:101`).
- `BBlock::removeSuccessorsTarget` does not erase the block from the target's predecessors; `removePredecessors` and `hasSelfLoop` compare edges with label 0; `isolate` does not clear dominators. `LLVMSlicer` uses label 255 for an exit and refuses a branch with 255 successors.

System dependence graph
- An operand that is a constant other than an integer or a function makes `addUseDependencies` abort ("Do not have operand node"), a call through a pointer makes `buildCallNode` abort. Actual parameters are created and not connected.

Value relations
- The case of `>` in `addTransitiveLe` adds c > b where c < b follows (`Relations.h:306`), after which the assertion at `Relations.h:34` may fail on consistent relations. `getOperationWithConst` returns null first (`ValueRelationsAnalysis.h:42-60`), so sums and products with constants are never related.
- A store through a GEP of an allocation kills what is read from its base only, so reads through GEPs stay when they are stale, and two stores through one GEP make `run` change for ever, as its limit is 0.
- `passCallSiteRelations` unites all call sites: f(1); f(2) makes 1 equal to 2. A function that is passed as an argument counts as called there. `run` returns false at its fixpoint, so one interprocedural pass is made of the three allowed.
- `getReadsFromAlloca` asks whether the equals of `v` contain `v`; unsigned comparisons are taken for signed ones, zero extension for equality; what is fixed before a loop counts as fixed in it; `areEqual(v1, v2)` looks at locations whose values are not computed yet; `<=` with `>=` does not give equality.


## 6. What is not modelled

The manifest lists every component with what is left out of it. The reasons:

- Flow-sensitive pointer analyses (`PointerAnalysisFS.h`, `PointerAnalysisFSInv.h`). Cape uses the flow-insensitive one. A store there overwrites the memory of every
  target that its pointer *may* have and every instance of the object, so that it is sound only where pointers have one target and functions do not recur; the variant with invalidation clears whole objects
  at `free`, whatever the offset. A property would have to exclude all programs for which the analyses exist.
- dg's slicer. `Slicer::mark` (`Slicing.h:1193`) passes no pointer analysis and returns slice id 0, on which `llvm-slicer`'s assertion fails; `slice` removes nodes by another id than `markSlice` gave them. There is no working behaviour to model.
- Ranganath's algorithm with the workbag: no caller in the tool.
- FREE and INVALIDATE nodes, nodes for the stack and lifetime intrinsics: they carry no pointers in the flow-insensitive analysis.
- In the dependence graph the edges that are copied from the data and control dependence analyses (both are modelled), functions without a result among the callees, variadic functions; in the SDG the same copies.
- The call graph and strongly connected components: a relation that builders fill, and Tarjan's algorithm. Where components matter (LegacyNTSCD, PointerGraphRun) they are defined.
- Output, command lines, build files, tests, sample programs other than `common.h`, and headers that nothing includes.
- LLVM (dominators, loop information, types, data layout) and the hardware's transactional memory are external, and given by their contracts.


## 7. What could follow

1. A theorem about the searches of MemorySSA needs them as functions over a well-founded measure (blocks not yet visited), as the provers cannot use RECURSIVE operators.
2. Edges at both ends, removal and isolation of nodes and blocks, should the slicer be repaired.
3. The flow-sensitive pointer analysis with a strong update for single targets only, as a second job of PointerGraphRun.
4. PHI nodes in the value relations.
