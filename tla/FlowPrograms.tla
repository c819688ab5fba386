---------------------------- MODULE FlowPrograms ----------------------------
(***************************************************************************)
(* Programs for DependenceGraph, of a main function and two others:        *)
(* straight ones, whose functions have one or two instructions of many     *)
(* kinds, and some with blocks.                                            *)
(***************************************************************************)
EXTENDS Sequences, TLC

FlowGlobals == {"G", "H"}

Plain == [callee |-> "", pts |-> {}, runs |-> {}, from |-> {}, args |-> <<>>]

I(i, op, args) == [Plain EXCEPT !.args = args] @@ [name |-> i, op |-> op]
Use(i, v) == I(i, "use", <<v>>)
Mem(i, v) == I(i, "memory", <<v>>)
Ret(i, v) == I(i, "ret", <<v>>)
Stop(i) == I(i, "unreachable", <<>>)
Call(i, f, v) == [I(i, "call", <<v>>) EXCEPT !.callee = f]
PCall(i, v, S, rs) == [I(i, "pcall", <<v, v, v, v>>) EXCEPT !.callee = "x", !.pts = S, !.runs = rs]
Fork(i, S, v) == [I(i, "call", <<"0", "0", "x", v>>) EXCEPT !.callee = "pthread_create", !.runs = S]
Phi(i, v, S) == [I(i, "phi", v) EXCEPT !.from = S]

Args == [f \in {"main", "f", "g"} |-> IF f = "main" THEN <<>> ELSE IF f = "f" THEN <<"p">> ELSE <<"q">>]

FirstInMain ==
    {Mem("m1", "G"), Call("m1", "f", "x"), Call("m1", "g", "G"), PCall("m1", "x", {"f", "g"}, {}),
     PCall("m1", "x", {"pthread_create"}, {"f"}), Fork("m1", {"f", "g"}, "x"), Call("m1", "malloc", "0")}
SecondInMain == {Call("m2", "f", "m1"), Call("m2", "g", "x"), Mem("m2", "H")}
FirstInF ==
    {Mem("f1", "G"), Use("f1", "p"), Call("f1", "g", "p"), Call("f1", "f", "p"), Fork("f1", {"g"}, "p"),
     Call("f1", "malloc", "p")}
SecondInF == {Mem("f2", "G"), Use("f2", "f1"), Call("f2", "g", "f1")}
InG == {<<Mem("g1", "H"), Ret("g2", "g1")>>, <<Call("g1", "malloc", "q"), Ret("g2", "q")>>,
        <<Call("g1", "exit", "q"), Stop("g2")>>, <<Call("g1", "f", "q"), Ret("g2", "g1")>>}

Straight ==
    {[args |-> Args,
      blocks |-> [main |-> <<<<I("x", "use", <<>>), a, b, Ret("m3", "m2")>>>>,
                  f |-> <<<<c, d, Ret("f3", "f1")>>>>, g |-> <<e>>],
      succ |-> [f \in {"main", "f", "g"} |-> <<{}>>]] :
        a \in FirstInMain, b \in SecondInMain, c \in FirstInF, d \in SecondInF, e \in InG}

\* A diamond or a loop in the main function around calls of f, which may end
\* the program in one of its blocks.
Branching ==
    {[args |-> Args,
      blocks |-> [main |-> <<<<I("x", "use", <<>>)>>, <<Call("m1", a, "x"), Use("m2", "m1")>>,
                             <<b>>, <<Phi("m4", <<"m1", "m3">>, {2, 3}), Ret("m5", "m4")>>>>,
                  f |-> <<<<c>>, <<Call("f2", "g", "p"), Stop("f3")>>, <<Ret("f4", "f1")>>>>,
                  g |-> <<<<d, Ret("g2", "q")>>>>],
      succ |-> [main |-> <<{2}, {3, 4}, {s}, {}>>, f |-> <<{2, 3}, {}, {}>>, g |-> <<{}>>]] :
        a \in {"f", "g"}, b \in {Call("m3", "f", "m2"), Call("m3", "g", "m1")}, s \in {2, 4},
        c \in {Mem("f1", "G"), Call("f1", "f", "p")}, d \in {Use("g1", "q"), Mem("g1", "H")}}

FlowProgramSet == Straight \cup Branching
=============================================================================
