-------------------------- MODULE MCDataDependence --------------------------
(***************************************************************************)
(* Programs whose data dependences are searched, and the interval maps in  *)
(* which the search keeps definitions on their own.  In the programs       *)
(* objects have two bytes, and offset Top is not known.  In the map Top     *)
(* is the last byte.                                                       *)
(***************************************************************************)
EXTENDS IntervalMap, SequencesExt

CONSTANTS v1, v2, UNKNOWN_MEMORY, MaxDepth
VARIABLES part, rwg, ssa, prog, answers, stage, frames, last

Values == {v1, v2}

P(obj) == {[obj |-> obj, off |-> 0]}
At(obj, off) == {[obj |-> obj, off |-> off]}
Somewhere(obj) == {[obj |-> obj, off |-> Top]}

Alloca == [op |-> "alloca", size |-> 2]
Global == [op |-> "global", size |-> 2]
Malloc == [op |-> "malloc", size |-> 2]
Ret == [op |-> "ret"]
Store(pts, size) == [op |-> "store", pts |-> pts, size |-> size, val |-> 0]
Load(pts, size) == [op |-> "load", pts |-> pts, size |-> size]
CallOf(funs, ext) == [op |-> "call", funs |-> funs, ext |-> ext]
Extern(pts) == [op |-> "extern", args |-> pts]
Nop == [op |-> "function"]

Whole(inst, code, succ, fun, entry, undef, mem) ==
    [inst |-> inst, code |-> code, succ |-> succ, fun |-> fun, entry |-> entry,
     undef |-> undef, mem |-> mem]

Main == [f \in {"main"} |-> 1]

\* One procedure: a local variable and a global, three writes in a diamond or a loop and
\* one or two reads.
Writes1 == {Store(P(1), 2), Store(At(1, 1), 1), Store(P(1) \cup P(2), 2), Store(Somewhere(1), 1), Nop}
Code(inst, s) == SelectSeq(s, LAMBDA i : inst[i] # Nop)
Intra(succ) ==
    {LET inst == <<Alloca, Global, w[1], w[2], w[3], Load(P(1), 2), Load(At(1, 0), 1), Ret>>
     IN  Whole(inst, <<Code(inst, <<1, 3>>), Code(inst, <<4>>), Code(inst, <<5>>), <<6, 7, 8>> >>,
           succ, <<"main", "main", "main", "main">>, Main, {}, {}) : w \in [1 .. 3 -> Writes1]}
Diamond == << {2, 3}, {4}, {4}, {} >>
Loop == << {2}, {3}, {2, 4}, {} >>

(***************************************************************************)
(* A procedure is called once, in a row or in a loop, calls another one or *)
(* itself.  x is 1, a local variable of main, and g is 2; 3 writes in main *)
(* and 9 in the procedure, where 8 reads g.                                *)
(***************************************************************************)
MainF == "main" :> 1 @@ "f" :> 4
Insts(w, v, callee) ==
    <<Alloca, Global, w, CallOf(<<"f">>, <<>>), Load(P(2), 2), Load(P(1), 2), Ret,
      Load(P(2), 2), v, Ret, callee, Ret>>
Writes2 == {Store(P(2), 2), Store(At(2, 1), 1), Store(P(1) \cup P(2), 2), Store(P(1), 2), Nop}
InMain(inst, loop) ==
    IF loop THEN <<Code(inst, <<1, 3>>), <<4>>, <<5, 6, 7>> >>
    ELSE <<Code(inst, <<1, 3, 4>>), <<>>, <<5, 6, 7>> >>
Inter ==
    {LET inst == Insts(w, v, Nop) IN
     Whole(inst, InMain(inst, loop) \o <<<<8>>, Code(inst, <<9>>), <<10>>>>,
           <<{2}, IF loop THEN {2, 3} ELSE {3}, {}, {5, 6}, {6}, {}>>,
           <<"main", "main", "main", "f", "f", "f">>, MainF, {}, {}) :
        w \in Writes2, v \in Writes2, loop \in BOOLEAN}
Chain ==
    {LET inst == Insts(w, v, CallOf(<<"h">>, <<>>)) IN
     Whole(inst, InMain(inst, FALSE) \o <<<<8, 11>>, <<10>>, Code(inst, <<9, 12>>)>>,
           <<{2}, {3}, {}, {5}, {}, {}>>,
           <<"main", "main", "main", "f", "f", "h">>, MainF @@ "h" :> 6, {}, {}) :
        w \in Writes2, v \in Writes2}
Recursive ==
    {LET inst == Insts(w, v, CallOf(<<"f">>, <<>>)) IN
     Whole(inst, InMain(inst, FALSE) \o <<Code(inst, <<8, 9>>), <<11>>, <<10>>>>,
           <<{2}, {3}, {}, {5, 6}, {6}, {}>>,
           <<"main", "main", "main", "f", "f", "f">>, MainF, {}, {}) :
        w \in Writes2, v \in Writes2}
\* The procedure has a local variable, 13, and reads it after it may have called itself.
Locals ==
    {LET inst == Insts(w, Store(P(13), 2), CallOf(<<"f">>, <<>>))
                 \o <<Alloca, Load(At(13, off), 1)>> IN
     Whole(inst, InMain(inst, FALSE) \o <<<<13, 9>>, <<11>>, <<14, 10>>>>,
           <<{2}, {3}, {}, {5, 6}, {6}, {}>>,
           <<"main", "main", "main", "f", "f", "f">>, MainF, {}, {}) :
        w \in Writes2, off \in 0 .. 1}
\* Two calls whose callee only reads.
TwoCalls ==
    {LET inst == Insts(w, Load(P(1), 2), CallOf(<<"f">>, <<>>)) \o <<v>> IN
     Whole(inst, <<Code(inst, <<1, 3, 4, 13, 11, 7>>), <<>>, <<>>, <<8, 9, 10>>>>,
           <<{}, {}, {}, {}>>, <<"main", "main", "main", "f">>, MainF, {}, {}) :
        w \in Writes2, v \in Writes2}
\* A call through a pointer to the procedure or to a function with a model.
Model(pts) == [op |-> "model", operands |-> {[pts |-> pts, defs |-> {[from |-> 0, to |-> 2]}, uses |-> {}]}]
Pointer ==
    {LET inst == [Insts(w, v, Model(t)) EXCEPT ![4] = CallOf(<<"f">>, <<11>>)] IN
     Whole(inst, InMain(inst, loop) \o <<<<8>>, Code(inst, <<9>>), <<10>>>>,
           <<{2}, IF loop THEN {2, 3} ELSE {3}, {}, {5, 6}, {6}, {}>>,
           <<"main", "main", "main", "f", "f", "f">>, MainF, {}, {}) :
        w \in Writes2, v \in Writes2, t \in {P(2), P(1) \cup P(2)}, loop \in BOOLEAN}
\* Calls of undefined functions that may read or write anything or what they are given, in
\* main or in the procedure; the address of x may be stored to g.
Unknown == {{"READ_ANY"}, {"WRITE_ANY"}, {"READ_ANY", "WRITE_ANY"}, {"READ_ARGS", "WRITE_ARGS"}}
Escape == [Store(P(2), 2) EXCEPT !.val = 1]
External ==
    {LET inst == <<Alloca, Global, w, Extern(P(1)), v, Load(P(2), 2), Load(P(1), 2), Ret>>
     IN  Whole(inst, <<Code(inst, <<1, 3>>), <<4>>, Code(inst, <<5>>), <<6, 7, 8>> >>,
           <<{2, 3}, IF loop THEN {2, 4} ELSE {4}, {4}, {}>>,
           <<"main", "main", "main", "main">>, Main, u, {}) :
        w \in Writes2 \cup {Escape}, v \in {Store(P(1), 2), Store(At(2, 1), 1), Nop},
        loop \in BOOLEAN, u \in Unknown}
ExternalIn ==
    {LET inst == Insts(w, v, Extern(P(2)))
     IN  Whole(inst, InMain(inst, FALSE) \o <<Code(inst, <<8, 11>>), Code(inst, <<9>>), <<10>>>>,
           <<{2}, {3}, {}, {5, 6}, {6}, {}>>,
           <<"main", "main", "main", "f", "f", "f">>, MainF, u, {}) :
        w \in Writes2 \cup {Escape}, v \in {Store(At(2, 1), 1), Nop}, u \in Unknown}
\* Heap memory 1, which may be moved to 5 in a loop.
Realloc(pts) == [op |-> "realloc", size |-> 2, pts |-> pts]
Heaps ==
    {LET inst == <<Malloc, Global, Store(P(1), 2), Store(p, 1), Realloc(P(1)), Store(P(5), 1),
                   Load(P(1) \cup P(5), 2), Load(P(2), 1), Ret>>
     IN  Whole(inst, <<<<2>>, <<1, 3>>, <<4>>, <<5, 6, 7, 8, 9>> >>,
           <<{2}, {3, 4}, IF loop THEN {2, 4} ELSE {4}, {}>>,
           <<"main", "main", "main", "main">>, Main, {}, {}) :
        p \in {P(1), P(1) \cup P(2), Somewhere(1)}, loop \in BOOLEAN}
\* Memory that is copied or a list of arguments, and questions about memory at some place.
MemCpy(obj) == [op |-> "memcpy", to |-> <<[obj |-> obj, off |-> 0]>>, len |-> 2, src |-> 0]
Copies ==
    {LET inst == <<Alloca, Global, Store(P(1), 2), MemCpy(to), [op |-> "vastart", size |-> 2],
                   Load(P(1), 2), Load(P(2), 2), Load(P(5), 1), Ret>>
     IN  Whole(inst, <<<<1, 3, 5>>, <<4>>, <<>>, <<6, 7, 8, 9>> >>,
           <<{2, 3}, {4}, {4}, {}>>,
           <<"main", "main", "main", "main">>, Main, {}, mem) :
        to \in 1 .. 2,
        mem \in {{}, {[node |-> 9, ds |-> {[obj |-> 2, lo |-> 1, hi |-> 1]}]},
                 {[node |-> 4, ds |-> {[obj |-> 1, lo |-> 0, hi |-> 1]}]}}}
\* Two calls of a procedure that writes g, which is read after each of them: what CalledOnce
\* rules out.
Calls ==
    {LET inst == Insts(Nop, Store(P(2), 2), CallOf(<<"f">>, <<>>)) \o <<Load(P(2), 2)>> IN
     Whole(inst, <<<<1, 4, 5, 11, 13, 7>>, <<>>, <<>>, <<9, 10>>>>,
           <<{}, {}, {}, {}>>, <<"main", "main", "main", "f">>, MainF, {}, {})}
MCPrograms ==
        Intra(Diamond) \cup Intra(Loop) \cup Inter \cup Chain \cup Recursive \cup Locals \cup TwoCalls
        \cup Pointer \cup External \cup ExternalIn \cup Heaps \cup Copies \cup Calls

-----------------------------------------------------------------------------
DD == INSTANCE DataDependence WITH Programs <- MCPrograms

dd == <<rwg, ssa, prog, answers, stage, frames, last>>

\* The map is used alone, or a program is asked about and then run.
MCInit ==
    /\ MapInit
    /\ \/ part = "program" /\ DD!Init
       \/ /\ part = "map"
          /\ rwg = <<>> /\ ssa = <<>> /\ prog = <<>> /\ answers = <<>>
          /\ stage = "none" /\ frames = <<>> /\ last = <<>>

MCNext ==
    \/ part = "map" /\ MapNext /\ UNCHANGED <<part, dd>>
    \/ part = "program" /\ DD!Next /\ UNCHANGED <<part, mapVars>>

MCSpec == MCInit /\ [][MCNext]_<<part, dd, mapVars>>

\* DataDependence.tla states them.
Sound == part = "program" => DD!Sound
Exact == part = "program" => DD!Exact

\* The phis of the outputs of a procedure "will be merged by the single 'phi'" of each call
\* (MemorySSA.cpp:290, findDefinitionsInSubgraph): whatever was asked before, a question is
\* answered as in a graph that was never searched.  Not so for a second call, see CalledOnce.
NothingHidden == part = "program" => DD!NothingHidden
=============================================================================
