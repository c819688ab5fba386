------------------------- MODULE MCControlDependence --------------------------
(* Small instances for TLC.  The analyses of one procedure, the questions a *)
(* client asks about a program of three functions, and the legacy analysis  *)
(* of such a program take turns: what says which one is at work.            *)
EXTENDS ControlDependence, LegacyNTSCD, SystemDependenceGraph

AtMostTwo == {g \in [Node -> {T \in SUBSET Node : Cardinality(T) <= 2}] : Reachable(g, {1}) = Node}

\* Those of four nodes begin with a branch; whether it is to 2 and 3, 2 and 4 or 3 and
\* 4 makes no difference.
Branching == {g \in AtMostTwo : g[1] = {2, 3}}

Pairs == {T \in SUBSET Node : Cardinality(T) = 2}

-----------------------------------------------------------------------------
Other == [op |-> "other", to |-> {}, ptr |-> FALSE]
Direct(f) == [op |-> "call", to |-> {f}, ptr |-> FALSE]
Pointer(fs) == [op |-> "call", to |-> fs, ptr |-> TRUE]
Create(f) == [op |-> "create", to |-> {f}, ptr |-> FALSE]
Join(f) == [op |-> "join", to |-> {f}, ptr |-> FALSE]

\* Graphs of functions: one block, a diamond, a loop, a loop without a way out, one with
\* two entries, and a branch to a block that ends the program.
Line == <<{}>>
Diamond == <<{2, 3}, {4}, {4}, {}>>
Loop == <<{2}, {2, 3}, {}>>
ForEver == <<{2, 3}, {2}, {}>>
TwoEntries == <<{2, 3}, {3}, {2}>>
Stop == <<{2, 3}, {}, {}>>

\* The instructions x of block b, all others are empty.
Function(g, b, x, ends) ==
    [succ |-> g, code |-> [i \in DOMAIN g |-> IF i = b THEN x ELSE <<>>], stops |-> ends]

Callers(x) ==
    {Function(Line, 1, x, {}), Function(Diamond, 1, x, {}), Function(Diamond, 2, x, {}),
     Function(Loop, 2, x, {}), Function(TwoEntries, 2, x, {})}
Leaves ==
    {Function(Line, 1, <<>>, {}), Function(Line, 1, <<>>, {1}), Function(Stop, 1, <<>>, {2}),
     Function(ForEver, 1, <<>>, {})}

MainCode == {<<Direct("f"), Direct("g")>>, <<Direct("g"), Other, Direct("f")>>,
             <<Pointer({"f", "g"})>>, <<Direct("lib"), Direct("f")>>, <<Create("f"), Join("f")>>}
FCode == {<<Direct("g")>>, <<Direct("f"), Direct("g")>>, <<Pointer({"g"})>>, <<Direct("main")>>}

MCPrograms ==
    {[main |-> m, f |-> f, g |-> g] :
        m \in UNION {Callers(x) : x \in MainCode},
        f \in UNION {{Function(Line, 1, x, {}), Function(Loop, 2, x, {})} : x \in FCode},
        g \in Leaves \cup {Function(Line, 1, <<Direct("f")>>, {})}}

\* The former ask for many functions, the latter for many graphs.
ForQuestions(p) ==
    p.main.succ \in {Line, Loop} \/ (p.main.succ = Diamond /\ p.f.succ = Line)
ForLegacy(p) == p.f.succ = Line /\ p.f.code[1] = <<Direct("g")>> /\ p.g \in Leaves

VARIABLE what
mcVars == <<vars, anaVars, sdgVars, legacyVars, what>>

ProcedureIdle ==
    /\ succ = <<>> /\ job = "NTSCD" /\ phase = "done" /\ left = {} /\ seed = {} /\ X = {}
    /\ targets = {} /\ colored = {} /\ counter = <<>> /\ stack = <<>>
    /\ frontier = {} /\ next = {} /\ progress = FALSE /\ S = <<>> /\ cd = <<>> /\ onPaths = <<>>
    /\ exact = FALSE
AnalysisIdle ==
    /\ program = <<>> /\ algorithm = "NTSCD" /\ computed = {} /\ infos = <<>> /\ hasCD = {}
    /\ instrCD = <<>> /\ blockCD = <<>> /\ asked = <<>> /\ answer = {} /\ requests = 0 /\ frames = <<>>

InitOfAll ==
  /\ SDGInit
  /\ \/ what = "procedure" /\ Init /\ AnalysisIdle /\ LegacyIdle
     \/ what = "questions" /\ ProcedureIdle /\ AnalysisInit /\ LegacyIdle /\ ForQuestions(program)
     \/ what = "legacy" /\ ProcedureIdle /\ AnalysisInit /\ LegacyInit /\ ForLegacy(program)
        /\ algorithm = "NTSCD"

NextOfAll ==
    \/ what = "procedure" /\ Next /\ UNCHANGED <<anaVars, sdgVars, legacyVars, what>>
    \/ what = "questions" /\ SDGNext /\ UNCHANGED <<vars, legacyVars, what>>
    \/ what = "legacy" /\ LegacyNext /\ UNCHANGED <<vars, anaVars, sdgVars, what>>

SpecOfAll == InitOfAll /\ [][NextOfAll]_mcVars /\ WF_vars(Next)

-----------------------------------------------------------------------------
(* Properties.                                                               *)

\* With two successors of each predicate, DODRanganath finds the pairs whose order is
\* decided where DOD goes wrong as well, and both its relations agree.
RanganathExact ==
    what = "procedure" /\ job = "NTSCD" /\ phase = "done" =>
        LET found == DODRanganath(succ)
        IN  \A p \in Predicates :
              /\ {m \in Node : p \in found.CD[m]} = DODOn(p)
              /\ found.revCD[p] = DODOn(p) \cup {n \in {p} : DODOn(p) # {}}
===========================================================================
