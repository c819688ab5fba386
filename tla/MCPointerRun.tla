---- MODULE MCPointerRun ----
(***************************************************************************)
(* Programs to be analysed and then run.  Nodes are numbers; 2 and 3 are   *)
(* memory of size 2 and 1, later ones are numbered as each program needs.  *)
(***************************************************************************)
EXTENDS PointerRun

None == [x \in Node |-> <<>>]
Nothing == [x \in Node |-> {}]

\* A program of the given nodes, edges and attributes and nothing else; nodes maps
\* numbers to <<type, operands, arg>>.
Program(nodes, succ, func, call, options) ==
    [type |-> [x \in Node |-> IF x \in DOMAIN nodes THEN nodes[x][1] ELSE "NOOP"],
     operands |-> [x \in Node |-> IF x \in DOMAIN nodes THEN nodes[x][2] ELSE <<>>],
     arg |-> [x \in Node |-> IF x \in DOMAIN nodes THEN nodes[x][3] ELSE 0],
     succ |-> [x \in Node |-> IF x \in DOMAIN succ THEN succ[x] ELSE {}],
     size |-> [x \in Node |-> IF x = 2 THEN 2 ELSE IF x \in DOMAIN nodes /\ nodes[x][1] = "ALLOC"
                                THEN 1 ELSE 0],
     zero |-> options.zero,
     globals |-> options.globals,
     root |-> 1,
     entry |-> [f \in Node |-> IF f \in DOMAIN func THEN func[f].entry ELSE Unknown],
     formals |-> [f \in Node |-> IF f \in DOMAIN func THEN func[f].formals ELSE <<>>],
     rets |-> [f \in Node |-> IF f \in DOMAIN func THEN func[f].rets ELSE {}],
     calls |-> [c \in Node |-> IF c \in DOMAIN call THEN call[c].callee ELSE {}],
     actuals |-> [c \in Node |-> IF c \in DOMAIN call THEN call[c].actuals ELSE <<>>],
     callReturn |-> [c \in Node |-> IF c \in DOMAIN call THEN call[c].ret ELSE c],
     fieldSensitivity |-> options.fields,
     maxIterations |-> options.limit]

NoFunctions == [f \in {} |-> 0]
Plain == [zero |-> {}, globals |-> <<>>, fields |-> 2, limit |-> 0]

(***************************************************************************)
(* All straight lines and loops of three nodes, the last of one of the     *)
(* given types: a first one, or a PHI of an object and the second node, a  *)
(* store, load or GEP, and one more access.                                *)
(***************************************************************************)
Instructions(v, types) ==
    {i \in {<<"STORE", <<x, y>>, 0>> : x, y \in v}
       \cup {<<"LOAD", <<x>>, 0>> : x \in v}
       \cup {<<"GEP", <<x>>, 1>> : x \in v}
       \cup {<<"MEMCPY", <<x, y>>, l>> : x, y \in v, l \in {1, UnknownOffset}} :
     i[1] \in types /\ (i[1] = "MEMCPY" => i[2][1] < i[2][2])}

Values(nodes) == {x \in DOMAIN nodes : nodes[x][1] \in {"ALLOC", "LOAD", "GEP", "PHI"}}

Extended(nodes, x, i) == [y \in DOMAIN nodes \cup {x} |-> IF y = x THEN i ELSE nodes[y]]

Lines(types, backs, options) ==
    LET start == 1 :> <<"ENTRY", <<>>, 0>> @@ 2 :> <<"ALLOC", <<>>, 0>>
                 @@ 3 :> <<"ALLOC", <<>>, 0>>
        straight == {Extended(start, 4, i) : i \in {<<"STORE", <<2, 3>>, 0>>,
                        <<"STORE", <<3, 2>>, 0>>, <<"GEP", <<2>>, 1>>, <<"GEP", <<3>>, 1>>}}
        loop == {Extended(start, 4, <<"PHI", <<x, 5>>, 0>>) : x \in {2, 3}}
        second == UNION {{Extended(g, 5, i) : i \in Instructions(Values(g),
                      IF g \in loop THEN {"LOAD", "GEP"} ELSE {"STORE", "LOAD", "GEP"})} :
                         g \in straight \cup loop}
        third == UNION {{Extended(g, 6, i) : i \in Instructions(Values(g), types)} : g \in second}
    IN  {Program(g, 1 :> {4} @@ 4 :> {5} @@ 5 :> {6} @@ 6 :> back, NoFunctions, NoFunctions, options) :
            g \in third, back \in backs}

(***************************************************************************)
(* Programs with calls.  F, 8, is a function with one argument, 10.        *)
(***************************************************************************)
E == <<"ENTRY", <<>>, 0>>
Alloc == <<"ALLOC", <<>>, 0>>
Function == <<"FUNCTION", <<>>, 0>>
Return(x) == <<"RETURN", <<x>>, 0>>
Store(x, y) == <<"STORE", <<x, y>>, 0>>
Load(x) == <<"LOAD", <<x>>, 0>>
Phi == <<"PHI", <<>>, 0>>

F == [entry |-> 9, formals |-> <<10>>, rets |-> {12}]
Call(f, args, ret) == [callee |-> f, actuals |-> args, ret |-> ret]

\* Two calls of a function that stores its argument and returns what was stored before.
TwoCalls ==
    Program(1 :> E @@ 2 :> Alloc @@ 3 :> Alloc @@ 4 :> <<"CALL", <<>>, 0>>
            @@ 5 :> <<"CALL_RETURN", <<>>, 0>> @@ 6 :> <<"CALL", <<>>, 0>>
            @@ 7 :> <<"CALL_RETURN", <<>>, 0>> @@ 8 :> Function @@ 9 :> E @@ 10 :> Phi
            @@ 11 :> Load(3) @@ 12 :> Return(11) @@ 13 :> Store(10, 3),
            1 :> {4} @@ 5 :> {6} @@ 9 :> {10} @@ 10 :> {11} @@ 11 :> {13} @@ 13 :> {12},
            8 :> F,
            4 :> Call({8}, <<2>>, 5) @@ 6 :> Call({8}, <<3>>, 7),
            [Plain EXCEPT !.zero = {3}, !.globals = <<2, 3>>])

\* A loop that calls a function in the global variable 3, initially F, which makes it
\* another one, 13, that stores its argument in 2
\* if it has an entry.
Callbacks(entry) ==
    Program(2 :> Alloc @@ 3 :> Alloc @@ 1 :> E @@ 4 :> Store(8, 3) @@ 5 :> Load(3)
            @@ 6 :> <<"CALL_FUNCPTR", <<5>>, 0>> @@ 7 :> <<"CALL_RETURN", <<>>, 0>>
            @@ 8 :> Function @@ 9 :> E @@ 10 :> Phi @@ 11 :> Store(13, 3) @@ 12 :> Return(10)
            @@ 13 :> Function @@ 14 :> E @@ 15 :> Phi @@ 16 :> Store(15, 2),
            1 :> {5} @@ 5 :> {6} @@ 6 :> {7} @@ 7 :> {5} @@ 9 :> {10} @@ 10 :> {11} @@ 11 :> {12}
            @@ 14 :> {15} @@ 15 :> {16},
            8 :> F @@ 13 :> [entry |-> entry, formals |-> <<15>>, rets |-> {}],
            6 :> Call({}, <<3>>, 7),
            [Plain EXCEPT !.globals = <<2, 3, 4>>])

\* A thread that F runs stores in 3 while another thread waits for it and then loads;
\* "wait" is the node that it executes in between.
Thread3(wait, body, back) ==
    Program(1 :> E @@ 2 :> Alloc @@ 3 :> Alloc @@ 4 :> Store(2, 3) @@ 5 :> <<"CALL", <<>>, 0>>
            @@ 6 :> <<"FORK", <<8, 2>>, 0>> @@ 7 :> wait @@ 8 :> Function @@ 9 :> E @@ 10 :> Phi
            @@ 11 :> body[1] @@ 12 :> Return(10) @@ 13 :> body[2] @@ 14 :> Load(3)
            @@ 15 :> body[3] @@ 16 :> Alloc,
            1 :> {4} @@ 4 :> {5} @@ 5 :> {6, 7} @@ 7 :> {14} @@ 9 :> {10} @@ 10 :> {11}
            @@ 11 :> {13} @@ 13 :> {15} @@ 15 :> back,
            8 :> F, 6 :> Call({8}, <<3>>, 5),
            [Plain EXCEPT !.globals = <<2, 16>>, !.zero = {2, 16}])

Joined == Thread3(<<"JOIN", <<2>>, 0>>, <<Load(10), Store(10, 3), Store(3, 2)>>, {12})

\* The same without a JOIN, and 2 holds a pointer to itself initially, which the thread
\* copies to 3 and then overwrites, again and again.
Concurrent ==
    [Thread3(Store(2, 2), <<Load(2), Store(11, 10), Store(16, 2)>>, {11, 12})
        EXCEPT !.succ[5] = {6, 14}, !.globals = <<2, 16, 7>>]

Threads == {Concurrent}

\* 13 loads from 3, which a global store made point to 4, after the call of F.  Of the two
\* branches of F both store 2 in 3, and one of them, 10, does not return: it may be the one
\* whose store changes something, then 13 is not processed again.
TwoStores ==
    Program(1 :> E @@ 2 :> Alloc @@ 3 :> Alloc @@ 4 :> Alloc @@ 5 :> Store(4, 3)
            @@ 6 :> <<"CALL_FUNCPTR", <<8>>, 0>> @@ 7 :> <<"CALL_RETURN", <<>>, 0>>
            @@ 8 :> Function @@ 9 :> E @@ 10 :> Store(2, 3) @@ 11 :> <<"NOOP", <<>>, 0>>
            @@ 12 :> Store(2, 3) @@ 13 :> Load(3) @@ 14 :> <<"RETURN", <<>>, 0>>,
            1 :> {6} @@ 6 :> {7} @@ 7 :> {13} @@ 9 :> {10, 11} @@ 11 :> {12} @@ 12 :> {14},
            8 :> [entry |-> 9, formals |-> <<>>, rets |-> {14}], 6 :> Call({}, <<>>, 7),
            [Plain EXCEPT !.globals = <<2, 3, 4, 5>>])

Missed == {TwoStores}

Good ==
    {TwoCalls, Callbacks(14), Callbacks(Unknown), Joined}
    \cup Lines({"STORE", "MEMCPY"}, {{}, {4}}, Plain)
    \cup Lines({"LOAD"}, {{4}}, [Plain EXCEPT !.limit = 1])
    \cup Lines({"LOAD"}, {{}}, [Plain EXCEPT !.fields = 1])
    \cup Lines({"MEMCPY"}, {{}, {4}}, [Plain EXCEPT !.zero = {3}])
================================================================================
