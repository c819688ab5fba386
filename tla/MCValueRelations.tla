--------------------------- MODULE MCValueRelations ---------------------------
(***************************************************************************)
(* Small programs: a block of any three instructions, branches, loops,     *)
(* switches and calls; and locations with up to three relations between    *)
(* three values.                                                           *)
(* Numbers 1 and 2 are the constants 0 and 1, number 3 is an argument of   *)
(* main, 4 and 5 are allocas of main and 6 is one for a pointer.           *)
(***************************************************************************)
EXTENDS ValueRelationsRun

I(op, arg) == [op |-> op, arg |-> arg, n |-> 0]
N(op, arg, n) == [op |-> op, arg |-> arg, n |-> n]
Const(n) == N("const", <<>>, n)
Formal == I("arg", <<>>)
NewAlloca == I("alloca", <<>>)
Extern(args) == N("call", args, 0)
Ret == I("ret", <<>>)
Jump == I("jump", <<>>)

RECURSIVE Flatten(_)
Flatten(s) == IF s = <<>> THEN <<>> ELSE Head(s) \o Flatten(Tail(s))

\* The instructions of the blocks have the numbers after those of the head.
Program(head, blocks, succ, fun, entry, formal) ==
    LET before[b \in 0 .. Len(blocks)] == IF b = 0 THEN Len(head) ELSE before[b - 1] + Len(blocks[b])
    IN  [inst |-> head \o Flatten(blocks),
         blocks |-> [b \in DOMAIN blocks |-> [k \in DOMAIN blocks[b] |-> before[b - 1] + k]],
         succ |-> succ, fun |-> fun, entry |-> entry, formal |-> formal]

Values == <<Const(0), Const(1), Formal>>
Main(blocks, succ) == Program(Values, blocks, succ, [b \in DOMAIN blocks |-> 1], <<1>>, <<<<3>>>>)
Locals == <<NewAlloca, NewAlloca, NewAlloca>>

\* What the instruction before is, if it has the number i and may be an operand.
PointerLoad(x) == x.op = "load" /\ x.arg[1] = 6
IsInt(x) == (x.op = "load" /\ x.arg[1] # 6) \/ x.op \in {"call", "add"}

Plain == {I("store", <<1, 4>>), I("store", <<3, 4>>), I("load", <<4>>), I("store", <<2, 5>>), I("load", <<5>>)}
Addresses == {I("store", <<4, 6>>), I("load", <<6>>), I("cast", <<4>>), N("gep", <<4>>, 0), N("gep", <<4>>, 1)}
Others == {I("add", <<3, 2>>), Extern(<<>>), Extern(<<4>>)}

\* The last address among instructions s, the first of which has the number i.
Through(s, i) ==
    LET found == {k \in DOMAIN s : s[k].op = "gep" \/ (s[k].op = "cast" /\ s[k].arg = <<4>>) \/ PointerLoad(s[k])}
    IN  IF found = {} THEN {}
        ELSE LET k == CHOOSE x \in found : \A y \in found : y <= x
             IN  {I("store", <<2, i + k - 1>>), I("load", <<i + k - 1>>)}

LastInt(s, i) ==
    LET found == {k \in DOMAIN s : IsInt(s[k])}
    IN  IF found = {} THEN {}
        ELSE LET k == CHOOSE x \in found : \A y \in found : y <= x IN {I("store", <<i + k - 1, 4>>)}

After(s, i) == Plain \cup Addresses \cup Others \cup Through(s, i) \cup LastInt(s, i)
Sequences3(s, i) ==
    UNION {UNION {{s \o <<x, y, z>> : z \in After(s \o <<x, y>>, i)} :
                                      y \in After(s \o <<x>>, i)} : x \in After(s, i)}

Straight ==
    {Main(<<Locals \o s \o <<I("load", <<4>>), Ret>> >>, <<<<>>>>) :
        s \in Sequences3(<<I("store", <<3, 4>>)>>, 7) \cup
              {x \in Sequences3(<<I("store", <<3, 4>>), I("store", <<4, 6>>)>>, 7) :
                    \E k \in DOMAIN x : PointerLoad(x[k])}}

\* Two arms and a join: 7 compares, and the blocks begin with 9, 11 and so on.
Ops == (Plain \ {I("load", <<5>>)}) \cup {I("mul", <<3, 3>>), Extern(<<>>)}
Diamond ==
    {Main(<<Locals \o <<N("icmp", <<3, 1>>, "slt"), first, I("br", <<7>>)>>,
            <<left, Jump>>, <<right, Jump>>, <<join, I("load", <<4>>), I("load", <<4>>), Ret>> >>,
          << <<2, 3>>, <<4>>, <<4>>, <<>> >>) :
        first \in Ops, left \in Ops, right \in Ops, join \in Ops}

\* Nested comparisons of two values, the second branch behind either side of the first.
Predicates == {"eq", "ne", "sle", "sge", "sgt", "slt"}
Nested ==
    {Main(<< <<Extern(<<>>), N("icmp", <<3, 4>>, p), I("br", <<5>>)>>,
             <<N("icmp", <<x, 1>>, q), I("br", <<7>>)>>, <<Ret>>, <<I("cast", <<3>>), Ret>> >>,
          <<IF side THEN <<2, 3>> ELSE <<3, 2>>, <<3, 4>>, <<>>, <<>> >>) :
        p \in Predicates, q \in Predicates, x \in {3, 4}, side \in BOOLEAN}

\* Switches over two cases and the default.
Switches ==
    {Main(<< <<NewAlloca, I("store", <<2, 4>>), op, I("switch", <<v, 1, 2>>)>>,
             <<I("load", <<4>>), Ret>>, <<I("cast", <<3>>), Ret>>, <<Jump>> >>,
          <<to, <<>>, <<>>, <<2>> >>) :
        v \in {3, 6}, op \in {Extern(<<>>), I("load", <<4>>), I("cast", <<3>>)},
        to \in {<<2, 3, 4>>, <<2, 2, 3>>, <<4, 3, 2>>, <<3, 2, 2>>}}

\* A loop behind the entry block, entered at once or on a condition.
LoopOps == {I("store", <<1, 4>>), I("store", <<3, 4>>), I("load", <<4>>), I("load", <<5>>),
            I("sub", <<3, 2>>), Extern(<<>>)}
Loops ==
    {Main(<< <<NewAlloca, NewAlloca, I("store", <<1, 4>>), I("store", <<3, 5>>)>> \o
                (IF once THEN <<Jump>> ELSE <<I("br", <<3>>)>>),
             <<head, Extern(<<>>), N("icmp", <<10, 1>>, "eq"), I("br", <<11>>)>>,
             <<a, b, I("load", <<4>>), Jump>>,
             <<last, I("load", <<5>>), Ret>> >>,
          <<IF once THEN <<2>> ELSE <<2, 4>>, <<3, 4>>, <<2>>, <<>> >>) :
        once \in BOOLEAN, head \in LoopOps, a \in LoopOps, b \in LoopOps,
        last \in {I("load", <<4>>), I("load", <<5>>)}}

\* main calls f with a value or the address of an alloca; f has argument 4.
CallOps == {I("store", <<1, 4>>), I("load", <<4>>), I("cast", <<4>>), Extern(<<4>>), Extern(<<>>),
            I("store", <<2, 4>>)}
Calls ==
    {Program(Append(Values, Formal),
        << <<NewAlloca, NewAlloca, I("store", <<2, 5>>), I("store", <<3, 6>>), op,
             N("call", <<x>>, 2), I("load", <<5>>), I("load", <<6>>), Ret>>,
           <<a, b, c, Ret>> >>,
        << <<>>, <<>> >>, <<1, 2>>, <<1, 2>>, << <<3>>, <<4>> >>) :
        op \in {I("load", <<5>>), I("load", <<6>>), I("cast", <<5>>), I("cast", <<3>>)},
        x \in {1, 3, 5, 9}, a \in CallOps, b \in CallOps, c \in {I("load", <<4>>), I("cast", <<4>>)}}

MCPrograms == {P \in Straight \cup Diamond \cup Nested \cup Switches \cup Loops \cup Calls : InScope(P)}

\* Consistent locations of up to three relations, one of them between the values 1 and 2,
\* and at most one class.  Nothing is less than the lower side of a "less or equal": the
\* closure goes wrong there.
Comparisons == {r \in {"EQ", "LT", "LE", "GT", "GE"} \X Triple \X Triple : r[2] # r[3]}
RelationSets ==
    {{r, s, t} : r \in {x \in Comparisons : x[2] = 1 /\ x[3] = 2}, s \in Comparisons, t \in Comparisons}

Implied(L, a, b) == \A f \in Models(L) : f[a] < f[b]
Queried(L) ==
    /\ Models(L) # {}
    /\ \A r \in L.rel \cup {Reverse(x) : x \in L.rel} :
          r[1] = "LE" => \A c \in Triple : ~ Implied(L, c, r[2])

NoLocation == [eq |-> {}, reads |-> [q \in {} |-> NoValue], rel |-> {}]
Closings ==
    {L \in {[NoLocation EXCEPT !.rel = R, !.eq = E] : R \in RelationSets, E \in {{}, {{2, 3}}}} : Queried(L)}

Start0 ==
    /\ pc = 0
    /\ stack = <<>>
    /\ value = [v \in DOMAIN prog.inst |-> Undef]
    /\ memory = [a \in Allocas(prog) |-> [c \in 0 .. 1 |-> Undef]]

AQuery ==
    /\ prog = Main(<< <<Ret>> >>, << <<>> >>)
    /\ order = "up"
    /\ fixed = initializeFixed(prog)
    /\ locs = [i \in Instructions(prog) |-> Empty]
    /\ phase = "query"
    /\ position = 0
    /\ changed = FALSE
    /\ passed = FALSE
    /\ closing \in Closings

MCInit == ((AnalysisInit /\ closing = NoLocation) \/ AQuery) /\ Start0

Analyse == AnalysisNext /\ UNCHANGED runVars
MCNext == Analyse \/ Start \/ Step

\* Every step of the analysis changes its phase or position; nothing holds it up.
StepOfAnalysis ==
    /\ phase \in {"run", "pass"}
    /\ phase' \in {"run", "pass", "done"}
    /\ position' \in 0 .. Len(prog.blocks)

MCSpec == MCInit /\ [][MCNext]_vars /\ WF_<<phase, position>>(StepOfAnalysis)

=============================================================================
