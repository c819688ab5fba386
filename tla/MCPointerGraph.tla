---------------------------- MODULE MCPointerGraph ----------------------------
(***************************************************************************)
(* Programs of main and a function "f", "g" or "h".  The instruction k of  *)
(* block b has the id 10 * b + k, and 100 more for each function.          *)
(***************************************************************************)
EXTENDS PointerGraphRun

I(op, args) == [op |-> op, args |-> args, n |-> 0, fn |-> ""]
N(op, args, n) == [I(op, args) EXCEPT !.n = n]
Call(f, args) == [I("call", args) EXCEPT !.fn = f]
V(id) == <<"val", id>>
A(f, k) == <<"arg", f, k>>
Fun(f) == <<"fun", f>>
G(k) == <<"global", k>>
NullV == <<"null">>
Undef == <<"undef">>
IntV(k) == <<"int", k>>
Br == I("br", <<>>)
Ret(v) == I("ret", <<v>>)

Names == <<"main", "f", "g", "h">>
Code(blocks, base) ==
    [b \in DOMAIN blocks |-> [k \in DOMAIN blocks[b] |->
        [id |-> base + 10 * b + k, op |-> blocks[b][k].op, args |-> blocks[b][k].args,
         n |-> blocks[b][k].n, fn |-> blocks[b][k].fn]]]

\* A function of the given arguments, blocks and edges.
F(args, vararg, blocks, succ) == [args |-> args, vararg |-> vararg, blocks |-> blocks, succ |-> succ]
Line(args, block) == F(args, FALSE, <<block>>, <<{}>>)
Declared(args) == F(args, FALSE, <<>>, <<>>)

Program(globals, size, funs) ==
    [globals |-> globals, size |-> size,
     funs |-> [f \in {Names[k] : k \in DOMAIN funs} |->
        LET k == CHOOSE j \in DOMAIN funs : Names[j] = f IN
        [args |-> funs[k].args, vararg |-> funs[k].vararg,
         code |-> Code(funs[k].blocks, 100 * (k - 1)), succ |-> funs[k].succ]]]

\* Two globals: a pointer to the second one and one past its start, and a null pointer.
Globals == <<<<"aggregate", << <<0, G(2)>>, <<1, <<"gep", G(2), 1>>>> >>>>, NullV>>
Simple2(funs) == Program(Globals, <<2, 2>>, funs)

(***************************************************************************)
(* Two instructions after one another, whose result is then read.          *)
(***************************************************************************)
First ==
    {N("gep", <<V(11)>>, n) : n \in {0, 1, UnknownOffset}}
    \cup {I("cast", <<V(11)>>), I("select", <<V(11), V(12)>>), I("ptrtoint", <<V(12)>>),
          I("add", <<V(11), IntV(1)>>), I("add", <<IntV(1), V(11)>>), I("sub", <<V(11), IntV(0)>>),
          I("load", <<V(11)>>), I("load", <<G(1)>>), I("load", <<<<"gep", G(1), 1>>>>),
          I("cast", <<<<"gep", <<"cast", G(1)>>, 1>>>>), I("bits", <<V(11)>>),
          I("inttoptr", <<IntV(4)>>), I("inttoptr", <<V(11)>>), N("malloc", <<>>, 2), N("calloc", <<>>, 2),
          N("realloc", <<V(11)>>, 2), N("insertelement", <<Undef, V(12)>>, 1), I("asm", <<>>),
          I("extern", <<>>), I("icmp", <<V(11), V(12)>>)}

Second ==
    {I("store", <<V(12), V(14)>>), I("store", <<V(14), V(12)>>), I("store", <<V(14), V(11)>>),
     N("memcpy", <<V(14), G(1)>>, 2), N("memcpy", <<G(1), V(11)>>, UnknownOffset),
     N("memcpy", <<V(14), V(11)>>, 1), N("extractelement", <<V(14)>>, 1),
     N("insertelement", <<V(14), V(11)>>, 0), I("memset", <<V(11), IntV(0)>>),
     I("store", <<V(14), G(2)>>), N("gep", <<V(14)>>, 1)}

Ops ==
    {Simple2(<<Line(0, <<N("alloca", <<>>, 2), N("alloca", <<>>, 1), I("store", <<V(12), V(11)>>),
                         x, y, I("load", <<z>>), I("load", <<V(16)>>), Ret(IntV(0))>>)>>) :
        x \in First, y \in Second, z \in {V(11), V(12), V(14)}}

(***************************************************************************)
(* Initialisers of globals, and constant expressions.                      *)
(***************************************************************************)
Scalar == {<<"none">>, NullV, Undef, G(1), G(2), Fun("f"), <<"gep", G(2), 1>>,
           <<"cast", <<"gep", <<"cast", G(2)>>, 1>>>>, <<"add", <<"cast", G(1)>>, 1>>,
           <<"bits", G(1)>>, IntV(7)}

Initialised ==
    {Program(<<init, NullV>>, <<2, 2>>,
             <<Line(0, <<I("load", <<<<"gep", G(1), k>>>>), I("store", <<V(11), G(2)>>),
                         I("load", <<G(2)>>), I("load", <<V(13)>>), Ret(IntV(0))>>),
               Line(0, <<Ret(NullV)>>)>>) :
        k \in {0, 1},
        init \in Scalar
            \cup {<<"aggregate", << <<0, x>>, <<1, y>> >>>> : x \in {G(2), NullV}, y \in {G(1), Fun("f"), NullV}}
            \cup {<<"aggregate", << <<1, <<"aggregate", << <<0, G(2)>> >> >> >> >> >>}}

(***************************************************************************)
(* Branches and loops, with blocks that need no node.                      *)
(***************************************************************************)
Phi(x, y, from) == N("phi", <<x, y>>, from)

\* 1 branches to 2 and 3, which meet in 4; block 3 may be empty.
Diamond(two, three, four) ==
    F(0, FALSE, << <<N("alloca", <<>>, 2), N("alloca", <<>>, 1), I("store", <<V(12), V(11)>>), Br>>,
                   two, three, four >>, <<{2, 3}, {4}, {4}, {}>>)

\* 2 is a loop with the body 3, that may be empty; 4 follows.
Loop(two, three, four) ==
    F(0, FALSE, << <<N("alloca", <<>>, 2), N("alloca", <<>>, 1), I("store", <<V(12), V(11)>>), Br>>,
                   two, three, four >>, <<{2}, {3, 4}, {2}, {}>>)

Arm == {<<Br>>, <<N("gep", <<V(11)>>, 1), Br>>, <<I("load", <<V(11)>>), I("store", <<G(1), V(11)>>), Br>>,
        <<I("icmp", <<V(11), V(12)>>), N("alloca", <<>>, 1), Br>>}
After == <<I("load", <<V(11)>>), I("load", <<V(41)>>), Ret(IntV(0))>>

Branching ==
    {Simple2(<<Diamond(x, y, After)>>) : x, y \in Arm}
    \cup {Simple2(<<Diamond(x, <<Br>>, <<Phi(V(21), V(12), <<2, 3>>), I("load", <<V(41)>>), Ret(V(42))>>)>>) :
            x \in {a \in Arm : a[1].op \in {"gep", "load"}}}
    \cup {Simple2(<<Loop(<<x, Br>>, y, After)>>) :
            x \in {Phi(V(11), V(12), <<1, 3>>), Phi(V(11), V(21), <<1, 3>>)}, y \in Arm}
    \cup {Simple2(<<Loop(<<Phi(V(11), V(31), <<1, 3>>), I("load", <<V(21)>>), Br>>, <<x, y, Br>>, After)>>) :
            x \in {N("gep", <<V(21)>>, 1), N("gep", <<V(11)>>, 1), I("cast", <<V(22)>>), N("malloc", <<>>, 1)},
            y \in {I("store", <<V(31), V(11)>>), I("store", <<V(12), V(21)>>)}}
    \cup {Simple2(<<Loop(<<Br>>, <<Br>>, After)>>), Simple2(<<Loop(<<Br>>, <<Br>>, <<I("unreachable", <<>>)>>)>>)}

(***************************************************************************)
(* Calls.                                                                  *)
(***************************************************************************)
\* main with two locals, 11 and 12, executes x, y and z and uses the results of y and z.
Main(x, y, z) ==
    Line(0, <<N("alloca", <<>>, 2), N("alloca", <<>>, 1), x, y, z,
              I("load", <<V(14)>>), I("load", <<V(15)>>), I("load", <<G(2)>>), Ret(IntV(0))>>)

\* Functions of one and two arguments.
Identity(f) == Line(1, <<Ret(A(f, 1))>>)
Stores(f) == Line(2, <<I("store", <<A(f, 1), A(f, 2)>>), I("load", <<A(f, 2)>>), Ret(A(f, 1))>>)
Forever == F(1, FALSE, << <<Br>>, <<Br>> >>, <<{2}, {2}>>)
NoReturn(f) == Line(1, <<I("store", <<A(f, 1), G(2)>>), I("unreachable", <<>>)>>)

\* f calls itself in one branch, and returns what it got in the other.
Recursive ==
    F(1, FALSE, << <<N("alloca", <<>>, 1), I("store", <<A("f", 1), V(111)>>), Br>>, <<Ret(A("f", 1))>>,
                   <<Call("f", <<V(111)>>), Ret(V(131))>> >>, <<{2, 3}, {}, {}>>)

\* An aggregate that is returned.
Pair == Line(1, <<N("alloca", <<>>, 2), I("store", <<A("f", 1), V(111)>>), N("load", <<V(111)>>, 2),
                  I("retagg", <<V(113)>>)>>)

Calls ==
    {Simple2(<<Main(I("store", <<V(12), G(2)>>), Call("f", <<x>>), Call("f", <<y>>)), f>>) :
        x, y \in {V(11), V(12), G(1), NullV, <<"gep", G(1), 1>>},
        f \in {Identity("f"), NoReturn("f"), Forever, Recursive}}
    \cup {Simple2(<<Main(I("store", <<V(12), G(2)>>), Call("f", <<V(12), V(11)>>), Call("f", <<V(14), x>>)), Stores("f")>>) :
            x \in {V(12), G(1), G(2)}}
    \cup {Simple2(<<Main(Call("f", <<x>>), N("extract", <<V(13)>>, 0), N("extract", <<V(13)>>, 1)), Pair>>) :
            x \in {V(12), G(1)}}
    \cup {Simple2(<<Main(Call("f", <<V(12)>>), Call("f", <<V(11)>>), Call("g", <<V(14)>>)),
                    Line(1, <<Call("g", <<A("f", 1)>>), Ret(V(111))>>), g>>) :
            g \in {Identity("g"), NoReturn("g")}}

\* Variable arguments: f loads the second of them.
Variadic ==
    F(1, TRUE, << <<N("alloca", <<>>, 2), I("vastart", <<V(111)>>), I("load", <<V(111)>>),
                    N("gep", <<V(113)>>, 1), I("load", <<V(114)>>), Ret(V(115))>> >>, <<{}>>)
VariadicCalls ==
    {Simple2(<<Main(Call("f", <<G(1), V(11), x>>), Call("f", <<V(12), V(11), y>>), I("cast", <<V(13)>>)), Variadic>>) :
        x, y \in {V(12), G(2)}}

(***************************************************************************)
(* Calls through pointers, to f, g and h.                                  *)
(***************************************************************************)
Pointers ==
    {Simple2(<<Main(I("store", <<x, V(11)>>), I("load", <<V(11)>>), I("pcall", <<V(14), V(12)>>)),
               Identity("f"), Identity("g")>>) :
        x \in {Fun("f"), Fun("g"), <<"cast", Fun("g")>>}}
    \cup {Simple2(<<Line(0, <<N("alloca", <<>>, 2), N("alloca", <<>>, 1), I("store", <<Fun("f"), G(2)>>),
                              I("store", <<x, <<"gep", G(2), 1>>>>), I("load", <<<<"gep", G(2), k>>>>),
                              I("pcall", <<V(15), V(11)>>), I("load", <<V(16)>>), I("load", <<G(2)>>), Ret(IntV(0))>>),
                    f, g>>) :
            x \in {Fun("f"), Fun("g")}, k \in {0, 1},
            f \in {Identity("f"), NoReturn("f")},
            g \in {Identity("g"), Stores("g"), Declared(1), Line(0, <<Ret(G(1))>>)}}
    \* The function calls back through a pointer, and itself again.
    \cup {Simple2(<<Line(0, <<N("alloca", <<>>, 2), I("store", <<Fun("g"), G(2)>>),
                              I("pcall", <<Fun("f"), x>>), I("load", <<G(2)>>), I("pcall", <<V(14), V(11)>>),
                              I("load", <<V(15)>>), Ret(IntV(0))>>),
                    f, g>>) :
            x \in {V(11), G(1)},
            f \in {Line(1, <<I("load", <<G(2)>>), I("store", <<Fun("f"), G(2)>>),
                               I("pcall", <<V(111), A("f", 1)>>), Ret(V(113))>>),
                    Line(1, <<Call("g", <<A("f", 1)>>), Ret(V(111))>>)},
            g \in {Identity("g"), NoReturn("g")}}

(***************************************************************************)
(* Threads: main creates one that runs f, and waits for it or not.         *)
(***************************************************************************)
\* 11 is the handle, 12 gets the result.
Creates(fn, arg, rest) ==
    Line(0, <<N("alloca", <<>>, 1), N("alloca", <<>>, 1), fn,
              I("create", <<V(11), NullV, IF fn.op = "icmp" THEN Fun("f") ELSE V(13), arg>>)>> \o rest)

JoinOf(to) == <<I("load", <<V(11)>>), I("join", <<V(15), to>>), I("load", <<V(12)>>), I("load", <<V(17)>>), Ret(IntV(0))>>

ThreadBodies ==
    {Identity("f"), Line(1, <<I("store", <<A("f", 1), G(2)>>), Ret(G(1))>>),
     Line(1, <<Call("g", <<A("f", 1)>>), Ret(NullV)>>), Line(1, <<I("exit", <<A("f", 1)>>), I("unreachable", <<>>)>>)}

Threads ==
    {Simple2(<<Creates(fn, arg, rest), body,
               Line(1, <<I("store", <<A("g", 1), G(2)>>), Ret(NullV)>>)>>) :
        fn \in {I("icmp", <<V(11), V(12)>>), I("cast", <<Fun("f")>>),
                I("select", <<Fun("f"), Fun("g")>>)},
        arg \in {V(12), G(1)},
        rest \in {JoinOf(NullV), JoinOf(V(12)),
                  <<I("load", <<G(2)>>), I("load", <<V(15)>>), I("load", <<V(12)>>), Ret(IntV(0))>>},
        body \in ThreadBodies}

MCPrograms == Ops \cup Initialised \cup Branching \cup Calls \cup VariadicCalls \cup Pointers \cup Threads
================================================================================
