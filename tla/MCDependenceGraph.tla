------------------------- MODULE MCDependenceGraph -------------------------
(***************************************************************************)
(* The edges of the dependence graph: those along which values flow        *)
(* between functions, in the graphs of FlowPrograms, and those between     *)
(* threads, in programs with up to three of them.                          *)
(***************************************************************************)
EXTENDS ThreadRun

VARIABLES part,   \* "flows" or "threads"
          flowProgram, functions, flowGraph, step, visited    \* of DependenceGraph

X(off) == {[obj |-> "x", off |-> off]}
Y(off) == {[obj |-> "y", off |-> off]}
Anything == {[obj |-> "unknown", off |-> Top]}

Load(pts, size) == [op |-> "load", pts |-> pts, size |-> size]
Store(pts, size) == [op |-> "store", pts |-> pts, size |-> size]
Br == [op |-> "other"]
Ret == [op |-> "ret"]
CallOf(direct, funs) == [op |-> "call", direct |-> direct, funs |-> funs]
Create(direct, start) == CallOf(direct, {"pthread_create"}) @@ [start |-> start]
Join(direct, forks, joins) == CallOf(direct, {"pthread_join"}) @@ [forks |-> forks, joins |-> joins]
Lock(direct, m) == CallOf(direct, {"pthread_mutex_lock"}) @@ [mutex |-> m]
Unlock(direct, m) == CallOf(direct, {"pthread_mutex_unlock"}) @@ [mutex |-> m]
Quit == CallOf(TRUE, {"pthread_exit"})

\* Blocks are <<function, code, successors>>, the code is instructions; they are numbered
\* in the order of the blocks, and a function begins with its first block.
Before(blocks, b) ==
    LET n[k \in 0 .. Len(blocks)] == IF k = 0 THEN 0 ELSE n[k - 1] + Len(blocks[k][2])
    IN  n[b - 1]
All(blocks) ==
    LET c[k \in 0 .. Len(blocks)] == IF k = 0 THEN <<>> ELSE c[k - 1] \o blocks[k][2]
    IN  c[Len(blocks)]
Program(blocks) ==
    [inst |-> All(blocks),
     code |-> [b \in DOMAIN blocks |-> [k \in DOMAIN blocks[b][2] |-> Before(blocks, b) + k]],
     succ |-> [b \in DOMAIN blocks |-> blocks[b][3]],
     fun |-> [b \in DOMAIN blocks |-> blocks[b][1]],
     entry |-> [f \in {blocks[b][1] : b \in DOMAIN blocks} |->
                   CHOOSE b \in DOMAIN blocks : blocks[b][1] = f
                      /\ \A c \in DOMAIN blocks : blocks[c][1] = f => b <= c]]

\* A thread that reads what main writes, and the other way round; joined, or not.
Simple ==
    {Program(<< <<"main", <<Store(X(0), 1), Create(d, {"f"}), Load(p, s), Store(X(1), 1),
                            Join(e, {2}, {"f"}), Load(Y(0), 2), Ret>>, {}>>,
                <<"f", <<Load(X(0), 2), Store(q, 1), Ret>>, {}>> >>) :
        d \in BOOLEAN, e \in BOOLEAN, p \in {Y(0), Y(Top), Anything}, q \in {Y(0), X(0) \cup Y(Top), Anything}, s \in {1, 2}}
Detached ==
    {Program(<< <<"main", <<Create(TRUE, {"f", "h"}), Load(Y(0), 1), Ret>>, {}>>,
                <<"f", <<Store(Y(0), 1), Ret>>, {}>>, <<"h", <<Store(Y(1), 1), Quit>>, {}>> >>)}

\* Branches and loops around forks, and threads that start threads.
Shapes ==
    {Program(<< <<"main", <<Store(X(0), 1), Br>>, {2, 3}>>,
                <<"main", <<Create(TRUE, {"f"}), Br>>, IF loop THEN {2, 3} ELSE {3}>>,
                <<"main", <<Load(Y(0), 1), Br>>, {4, 5}>>,
                <<"main", <<Join(TRUE, {3}, {"f"}), Load(Y(0), 1), Ret>>, {}>>,
                <<"main", <<Load(Y(1), 1), Ret>>, {}>>,
                <<"f", <<Store(Y(0), 1), Br>>, {7, 8}>>,
                <<"f", <<Load(X(0), 1), Quit, Load(X(0), 1)>>, IF loop THEN {8} ELSE {}>>,
                <<"f", <<Store(Y(1), 1), Ret>>, {}>> >>) : loop \in BOOLEAN}
Nested ==
    {Program(<< <<"main", <<Create(TRUE, {"f"}), Load(X(0), 1), Join(TRUE, {1}, {"f"}), Load(Y(0), 1), Ret>>, {}>>,
                <<"f", <<Create(d, {"h"}), Store(X(0), 1), Join(d, {6}, {"h"}), Ret>>, {}>>,
                <<"h", <<Load(X(0), 1), Store(Y(0), 1), Ret>>, {}>> >>) : d \in BOOLEAN}

\* Calls: of one procedure from two places and two threads, recursive, through pointers to
\* one, two or no functions, to functions that end the thread, and of other functions.
Calls ==
    {Program(<< <<"main", <<Create(TRUE, {"f"}), CallOf(d, {"g"}), Load(Y(0), 1), CallOf(FALSE, c), Load(X(0), 1), Ret>>, {}>>,
                <<"f", <<Store(Y(0), 1), CallOf(TRUE, {"g"}), Load(X(0), 1), Ret>>, {}>>,
                <<"g", <<Br>>, {4, 5}>>,
                <<"g", <<Store(X(0), 1), CallOf(TRUE, {"g"}), Store(Y(0), 1), Ret>>, {}>>,
                <<"g", <<Load(Y(0), 1), Ret>>, {}>>,
                <<"h", <<Store(Y(0), 1), Ret>>, {}>> >>) :
        d \in BOOLEAN, c \in {{"g", "h"}, {"h"}, {}, {"extern"}, {"h", "pthread_exit"}, {"pthread_exit"}}}

\* Critical sections: in sequence, nested, with a call, with branches and loops.
Locked(d, m, code) == <<Lock(d, m)>> \o code \o <<Unlock(d, m)>>
Sections ==
    {Program(<< <<"main", <<Create(TRUE, {"f"})>> \o Locked(TRUE, {"m"}, c1)
                            \o Locked(TRUE, {"n"}, <<Load(Y(0), 1)>>) \o <<Ret>>, {}>>,
                <<"f", Locked(d, m, c2) \o <<Ret>>, {}>>,
                <<"g", <<Store(X(0), 1), Ret>>, {}>> >>) :
        d \in BOOLEAN, m \in {{"m"}, {"m", "n"}},
        c1 \in {<<Store(X(0), 1)>>, Locked(TRUE, {"n"}, <<Load(X(0), 1)>>) \o <<Store(X(0), 1)>>},
        c2 \in {<<Load(X(0), 1), Store(Y(0), 1)>>, <<CallOf(TRUE, {"g"}), Load(Y(0), 1)>>}}
Branching ==
    {Program(<< <<"main", <<Create(TRUE, {"f"}), Lock(TRUE, {"m"}), Br>>, {2, 3}>>,
                <<"main", <<Store(X(0), 1), Br>>, {4}>>,
                <<"main", <<Load(Y(0), 1), Br>>, IF loop THEN {3, 4} ELSE {4}>>,
                <<"main", <<Unlock(TRUE, {"m"}), Load(X(0), 1), Ret>>, {}>>,
                <<"f", Locked(TRUE, {"m"}, <<Load(X(0), 1)>>) \o <<Store(Y(0), 1), Ret>>, {}>> >>) :
        loop \in BOOLEAN}

Good == Simple \cup Detached \cup Shapes \cup Nested \cup Calls \cup Sections \cup Branching

-----------------------------------------------------------------------------
LOCAL Flow == INSTANCE FlowPrograms

DG == INSTANCE DependenceGraph
        WITH Programs <- Flow!FlowProgramSet, Globals <- Flow!FlowGlobals, program <- flowProgram,
             stack <- functions, graph <- flowGraph, phase <- step

flowVars == <<flowProgram, functions, flowGraph, step, visited>>
threadVars == <<vars, run>>

MCInit ==
    /\ RunInit
    /\ \/ /\ part = "flows" /\ DG!Init
          /\ program \in Detached
       \/ /\ part = "threads"
          /\ flowProgram = <<>> /\ functions = <<>> /\ flowGraph = <<>>
          /\ step = "none" /\ visited = {}

MCNext ==
    \/ part = "flows" /\ DG!Next /\ UNCHANGED <<part, threadVars>>
    \/ part = "threads" /\ (Build \/ RunStep) /\ UNCHANGED <<part, flowVars>>

MCSpec == MCInit /\ [][MCNext]_<<part, flowVars, threadVars>>

\* DependenceGraph.tla states them.
FlowsPassed == part = "flows" => DG!FlowsPassed
NoReturnControls == part = "flows" => DG!NoReturnControls
=============================================================================
