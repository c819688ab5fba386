----------------------------- MODULE MCCapePlace -----------------------------
(* The control flow graphs of small C programs that depend on a secret s.   *)
EXTENDS CapePlace, TLC

Blocks == 1 .. 7
Funcs == {"main", "f"}

Complete(f, default) == [b \in Blocks |-> IF b \in DOMAIN f THEN f[b] ELSE default]

\* The blocks of main are those before first, the blocks of f are the others.  All
\* accesses are marked, those of addDep for their address, and the branches.
Prog(edges, first, callee, access, branches, addDep) ==
    [func |-> [b \in Blocks |-> IF b < first THEN "main" ELSE "f"],
     entry |-> [f \in Funcs |-> IF f = "main" \/ first = 8 THEN 1 ELSE first],
     main |-> "main",
     succ |-> Complete(edges, {}),
     callee |-> Complete(callee, {}),
     access |-> Complete(access, <<>>),
     phi |-> {},
     blocks |-> DOMAIN access \cup DOMAIN callee \cup branches,
     nodes |-> {n \in Node : IF n[2] = 0 THEN n[1] \in branches
                             ELSE n[1] \in DOMAIN access /\ n[2] \in DOMAIN access[n[1]]},
     addDep |-> {n \in Node : n[1] \in addDep /\ n[2] \in DOMAIN access[n[1]]}]

\* if (s) { t[0]; if (s > 1) u[0]; }
NestedIfs ==
    Prog(1 :> {2, 4} @@ 2 :> {3, 4} @@ 3 :> {4} @@ 4 :> {}, 8, <<>>,
         2 :> <<{"t"}>> @@ 3 :> <<{"u"}>>, {1, 2}, {})

\* t[s];
Indexed == Prog(1 :> {2} @@ 2 :> {3}, 8, <<>>, 2 :> <<{"t"}>>, {}, {2})

\* for (i = 0; i < s; i++) { t[i]; if (u[i]) t[0]; }
SecretLoop ==
    Prog(1 :> {2} @@ 2 :> {3, 6} @@ 3 :> {4, 5} @@ 4 :> {5} @@ 5 :> {2} @@ 6 :> {},
         8, <<>>, 3 :> <<{"t", "u"}>> @@ 4 :> <<{"t"}>>, {2, 3}, {})

\* for (i = 0; i < 9; i++) { if (s > i) t[0]; else u[0]; }
IfInLoop ==
    Prog(1 :> {2} @@ 2 :> {3, 7} @@ 3 :> {4, 5} @@ 4 :> {6} @@ 5 :> {6} @@ 6 :> {2},
         8, <<>>, 4 :> <<{"t"}>> @@ 5 :> <<{"u"}>>, {3}, {})

\* void f(int i) { if (i) t[0]; else u[0]; }   main: if (s) f(s);
Callee ==
    Prog(1 :> {2, 3} @@ 2 :> {3} @@ 4 :> {5, 6} @@ 5 :> {7} @@ 6 :> {7},
         4, 2 :> {"f"}, 5 :> <<{"t"}>> @@ 6 :> <<{"u"}>>, {1, 4}, {})

\* if (s) t[0]; for (...) ; if (s > 1) u[0];
Separated ==
    Prog(1 :> {2, 3} @@ 2 :> {3} @@ 3 :> {3, 4} @@ 4 :> {5, 6} @@ 5 :> {6}, 8, <<>>,
         2 :> <<{"t"}>> @@ 5 :> <<{"u"}>>, {1, 4}, {})

\* while (...) { if (s) break; t[0]; } with two returns after it
NoLoopEnd ==
    Prog(1 :> {2} @@ 2 :> {3, 4} @@ 3 :> {2, 5}, 8, <<>>, 3 :> <<{"t"}>>, {2}, {})

\* while (i < s) { t[i]; if (u[i] < s) break; }
TwoExits ==
    Prog(1 :> {2} @@ 2 :> {3, 4} @@ 3 :> {2, 4} @@ 4 :> {}, 8, <<>>,
         3 :> <<{"t"}, {"u"}>>, {2, 3}, {})

\* void f() { for (i = 0; i < s; i++) t[i]; }   main: if (s) f();
LoopInCallee ==
    Prog(1 :> {2, 3} @@ 2 :> {3} @@ 4 :> {5} @@ 5 :> {6, 7} @@ 6 :> {5},
         4, 2 :> {"f"}, 6 :> <<{"t"}>>, {1, 5}, {})

\* for (i = 0; i < s; i++) { t[i]; f(); }   f: u[0];
LoopWithCall ==
    Prog(1 :> {2} @@ 2 :> {3, 5} @@ 3 :> {4} @@ 4 :> {2}, 6, 4 :> {"f"},
         3 :> <<{"t"}>> @@ 6 :> <<{"u"}>>, {2}, {})

\* t[s]; u[s]; if (s) t[0];
IndexedThenIf ==
    Prog(1 :> {2} @@ 2 :> {3, 4} @@ 3 :> {4}, 8, <<>>,
         1 :> <<{"t"}, {"u"}>> @@ 3 :> <<{"t"}>>, {2}, {1})

GoodPrograms ==
    {NestedIfs, Indexed, SecretLoop, IfInLoop, Callee, Separated, NoLoopEnd, TwoExits,
     LoopInCallee, LoopWithCall, IndexedThenIf}

\* if (s) t[0]; if (s > 1) u[0];
Sequential ==
    Prog(1 :> {2, 3} @@ 2 :> {3} @@ 3 :> {4, 5} @@ 4 :> {5}, 8, <<>>,
         2 :> <<{"t"}>> @@ 4 :> <<{"u"}>>, {1, 3}, {})

\* for (i = 0; i < s; i++) t[i];  if (s) u[0];
AfterLoop ==
    Prog(1 :> {2} @@ 2 :> {3, 4} @@ 3 :> {2} @@ 4 :> {5, 6} @@ 5 :> {6}, 8, <<>>,
         3 :> <<{"t"}>> @@ 5 :> <<{"u"}>>, {2, 4}, {})

\* if (s) { t[0]; return 1; } return 0;
TwoReturns ==
    Prog(1 :> {2, 3}, 8, <<>>, 2 :> <<{"t"}>>, {1}, {})

\* for (i = 0; i < s; i++) f();         f: t[0];
CallInLoop ==
    Prog(1 :> {2} @@ 2 :> {3, 4} @@ 3 :> {2}, 5, 3 :> {"f"}, 5 :> <<{"t"}>>, {2}, {})

\* do t[i]; while (++i < s);
OneBlockLoop ==
    Prog(1 :> {2} @@ 2 :> {2, 3}, 8, <<>>, 2 :> <<{"t"}>>, {2}, {})

\* if (c) if (s) t[0];  u[s];
Join ==
    Prog(1 :> {2, 4} @@ 2 :> {3, 4} @@ 3 :> {4}, 8, <<>>,
         3 :> <<{"t"}>> @@ 4 :> <<{"u"}>>, {2}, {4})

\* x = c ? 1 : 0; t[s]; u[s];
AfterPhi ==
    [Prog(1 :> {2, 3} @@ 2 :> {3}, 8, <<>>, 3 :> <<{"t"}, {"u"}>>, {}, {3})
     EXCEPT !.phi = {3}]

\* if (s) f(); f();                     f: t[s];
TwoCallers ==
    [Prog(1 :> {2, 3} @@ 2 :> {3} @@ 4 :> {}, 4, 2 :> {"f"} @@ 3 :> {"f"},
          4 :> <<{"t"}>>, {1}, {4})
     EXCEPT !.blocks = {1, 2, 4}]
UnprotectedPrograms == {Sequential}

\* Each of these is left without protection too, in a way of its own: see README.md.
AlsoUnprotected ==
    {AfterLoop, OneBlockLoop, Join, AfterPhi, TwoCallers, CallInLoop, TwoReturns}
=============================================================================
