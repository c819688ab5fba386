----------------------------- MODULE MCCapeWalk -----------------------------
(* The dependence graphs of small C programs, with secret s and tables t, u. *)
EXTENDS CapeWalk, TLC

Nodes == 1 .. 12

\* The nodes f[1], f[2], ... of the entries, kinds etc. are given as functions on
\* part of Nodes; a node of which nothing is said is an instruction without edges.
Complete(f, default) == [n \in Nodes |-> IF n \in DOMAIN f THEN f[n] ELSE default]

Pairs(n, S) == {n} \X S

Graph(kind, entry, cd, dd, use, bbcd, loop, atSecret) ==
    [kind |-> Complete(kind, "inst"), entry |-> Complete(entry, None),
     edge |-> [k \in EdgeKind |-> CASE k = "cd" -> cd [] k = "dd" -> dd
                                    [] k = "use" -> use [] OTHER -> {}],
     bbcd |-> Complete(bbcd, {}), loop |-> Complete(loop, {}),
     atSecret |-> atSecret, ofSecret |-> {}, starts |-> {1}]

\* int f(int i) { return t[i]; }
\* main: if (s) u[f(s)] = 0;            1 is s, 2 its load, 3 the branch,
\*                                      4 the call, 5 the store, 6 main,
\*                                      7 f, 8 its load, 9 its return
OneCall ==
    Graph(2 :> "load" @@ 3 :> "br" @@ 4 :> "call" @@ 5 :> "store" @@ 6 :> "entry"
            @@ 7 :> "entry" @@ 8 :> "load" @@ 9 :> "ret",
          [n \in 2 .. 9 |-> IF n < 7 THEN 6 ELSE 7],
          Pairs(6, 2 .. 5) \cup Pairs(4, {7}) \cup Pairs(7, {8, 9}),
          {<<9, 4>>},
          {<<1, 2>>, <<2, 3>>, <<2, 4>>, <<4, 5>>, <<7, 4>>, <<8, 9>>},
          3 :> {4, 5}, <<>>, {2})

\* main: if (s) u[f(s)] = 0; else ...   10 and 11: t[f(0)] = 0, executed
\*       t[f(0)] = 0;                   whatever the secret is
SecondCall ==
    [OneCall EXCEPT
        !.kind[10] = "call", !.kind[11] = "store",
        !.entry[10] = 6, !.entry[11] = 6,
        !.edge["cd"] = @ \cup Pairs(6, {10, 11}) \cup {<<10, 7>>},
        !.edge["dd"] = @ \cup {<<9, 10>>},
        !.edge["use"] = @ \cup {<<7, 10>>, <<10, 11>>}]

\* int f() { return s; }
\* main: t[f()] = 0; u[f()] = 0;        2 is the load of s in f, 3 its return,
\*                                      4 f, 5 main, 6 and 8 the calls,
\*                                      7 and 9 the stores
SecretInCallee ==
    Graph(2 :> "load" @@ 3 :> "ret" @@ 4 :> "entry" @@ 5 :> "entry"
            @@ 6 :> "call" @@ 7 :> "store" @@ 8 :> "call" @@ 9 :> "store",
          [n \in 2 .. 9 |-> IF n < 5 THEN 4 ELSE 5],
          Pairs(4, {2, 3}) \cup Pairs(5, 6 .. 9) \cup {<<6, 4>>, <<8, 4>>},
          {<<3, 6>>, <<3, 8>>},
          {<<1, 2>>, <<2, 3>>, <<4, 6>>, <<4, 8>>, <<6, 7>>, <<8, 9>>},
          <<>>, <<>>, {2})

\* main: x = s;                         2 the load of s, 3 the store to x;
\*       while (i < x)                  4 the load of x, 5 the exit branch;
\*         { if (t[i]) u[i] = 0; }      6 the load of t[i], 7 the inner branch,
\*       u[x] = 0;                      8 the store to u; 9 the last store
Loop ==
    Graph(2 :> "load" @@ 3 :> "store" @@ 4 :> "load" @@ 5 :> "br" @@ 6 :> "load"
            @@ 7 :> "br" @@ 8 :> "store" @@ 9 :> "store" @@ 10 :> "entry",
          [n \in 2 .. 10 |-> 10],
          Pairs(10, 2 .. 9),
          {<<3, 4>>},
          {<<1, 2>>, <<2, 3>>, <<4, 5>>, <<4, 9>>, <<6, 7>>},
          4 :> (4 .. 7) @@ 5 :> (4 .. 7) @@ 6 :> {8} @@ 7 :> {8},
          5 :> (4 .. 8), {2})

\* The same with memcpy(u, t, i) in the place of u[i] = 0.
LoopWithCopy ==
    [Loop EXCEPT !.kind[8] = "memcpy"]

\* The inner branch guards a loop of its own: for (;; j++) if (t[j] > x) break.
\* Both branches may leave their loops.
Nested ==
    [Loop EXCEPT !.edge["use"] = @ \cup {<<4, 7>>},
                 !.bbcd[6] = 6 .. 8, !.bbcd[7] = 6 .. 8,
                 !.loop[7] = 6 .. 8]

\* for (;;) while (i < x) { v = t[i]; if (v) { u[v] = 0; return; } }
\* 4 the load of x, 5 its branch, 6 the load of t[i], 7 the inner branch, 8 the store.  What
\* is in the inner loop is executed in any case, hence is not controlled by 5.
InnerLoop ==
    Graph(2 :> "load" @@ 3 :> "store" @@ 4 :> "load" @@ 5 :> "br" @@ 6 :> "load"
            @@ 7 :> "br" @@ 8 :> "store" @@ 9 :> "entry",
          [n \in 2 .. 9 |-> 9],
          Pairs(9, 2 .. 8),
          {<<3, 4>>},
          {<<1, 2>>, <<2, 3>>, <<4, 5>>, <<6, 7>>, <<6, 8>>},
          4 :> {4, 5} @@ 5 :> {4, 5} @@ 6 :> (4 .. 7) @@ 7 :> (4 .. 7),
          5 :> (4 .. 7) @@ 7 :> (4 .. 7), {2})

\* int f(int i) { return i ? t[f(i - 1)] : 0; } with f(s) called by main: 10 is
\* the inner call, 11 the branch.
Recursive ==
    [OneCall EXCEPT
        !.kind[10] = "call", !.kind[11] = "br",
        !.entry[10] = 7, !.entry[11] = 7,
        !.edge["cd"] = @ \cup {<<7, 10>>, <<7, 11>>, <<10, 7>>},
        !.edge["dd"] = @ \cup {<<9, 10>>},
        !.edge["use"] = @ \cup {<<7, 10>>, <<10, 8>>},
        !.bbcd[11] = {8, 10}]

\* Two calls of klee_assume as starting nodes, in one loop.
TwoStarts ==
    [Loop EXCEPT !.starts = {1, 6}]

\* main: p = &s; x = s; followed by t[x] = 0 in another thread: 2 is the store of
\* the address, 3 the load of s, 4 the store to x, 5 main, 6 the thread's load of
\* x, 7 its store, 8 its function.
Threads ==
    [Graph(2 :> "store" @@ 3 :> "load" @@ 4 :> "store" @@ 5 :> "entry"
             @@ 6 :> "load" @@ 7 :> "store" @@ 8 :> "entry",
           [n \in 2 .. 8 |-> IF n < 6 THEN 5 ELSE 8],
           Pairs(5, 2 .. 4) \cup Pairs(8, {6, 7}), {},
           {<<1, 2>>, <<1, 3>>, <<3, 4>>, <<6, 7>>}, <<>>, <<>>, {3})
     EXCEPT !.edge["id"] = {<<4, 6>>}, !.ofSecret = {2}]

\* main: x = s; if (c) t[0] = 0;        2 is the load of s, 3 the store to x, 4 the
\*                                      branch in the same block, 5 the store to t
Unrelated ==
    Graph(2 :> "load" @@ 3 :> "store" @@ 4 :> "br" @@ 5 :> "store" @@ 6 :> "entry",
          [n \in 2 .. 6 |-> 6], Pairs(6, 2 .. 5), {}, {<<1, 2>>, <<2, 3>>},
          [n \in 2 .. 4 |-> {5}], <<>>, {2})

AllPrograms ==
    {OneCall, Loop, Nested, Threads, Unrelated, TwoStarts, SecondCall, SecretInCallee,
     LoopWithCopy, InnerLoop, Recursive}
CalleePrograms == {SecretInCallee}

\* Nodes in memory in the order of their numbers, and the other way round.
LinearOrders == {{x \in Nodes \X Nodes : x[1] < x[2]}, {x \in Nodes \X Nodes : x[1] > x[2]}}
AnyOrder == {{}}
=============================================================================
