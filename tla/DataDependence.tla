--------------------------- MODULE DataDependence ---------------------------
(***************************************************************************)
(* Data dependences of a program: first definitions are asked for, in any  *)
(* order, then the program runs, and whatever wrote a byte last when it is *)
(* read has to be among the definitions that were reported.                *)
(*                                                                         *)
(* A query is [node, ds]: for what the node uses, if ds is empty, or for   *)
(* the memory in ds before the node.  The run keeps one instance of every  *)
(* object: of a local variable the one of the latest call, of heap memory  *)
(* any one, so that another may be accessed instead.                       *)
(***************************************************************************)
EXTENDS MemorySSA

CONSTANTS
    Programs,     \* with mem, a set of queries for memory before a node
    MaxDepth      \* bound on the calls that are active in a run

VARIABLES
    prog,     \* the program
    answers,  \* answers[q]: the definitions that a query returned
    stage,    \* "query", "all" after computeAllDefinitions, or "run"
    frames,   \* the active calls, the latest first: [block, next, saved]
    last      \* last[c]: the node that wrote byte c last, 0 if none did

vars == <<rwg, ssa, prog, answers, stage, frames, last>>

Instr(i) == prog.inst[i]
Memory == {i \in Node(prog) : Op(prog, i) \in {"alloca", "global", "malloc", "realloc", "vastart"}}
Bytes(o) == {<<o, b>> : b \in 0 .. (IF Instr(o).size = 0 THEN 2 ELSE Instr(o).size) - 1}
Cell == UNION {Bytes(o) : o \in Memory}
Heap == {o \in Memory : Op(prog, o) \in {"malloc", "realloc"}}

-----------------------------------------------------------------------------
(* What an instruction may really do                                       *)

\* The bytes that an access of len bytes (of any number, if 0) through pointer q touches.
Span(q, len) ==
    LET bytes == {c[2] : c \in Bytes(q.obj)}
        starts == IF q.off = Top THEN bytes ELSE {q.off}
        lens   == IF len = 0 THEN {b + 1 : b \in bytes} ELSE {len}
    IN  {S \in {{<<q.obj, b>> : b \in x .. x + n - 1} : x \in starts, n \in lens} : S \subseteq Cell}

\* A write may as well go to another instance of heap memory.
Hit(q, len) == Span(q, len) \cup {S \in {{}} : q.obj \in Heap}
Hits(pts, len) == UNION {Hit(q, len) : q \in Objects(pts, prog)}

\* What an undefined function does as a whole: it gets to the memory whose address was stored
\* or is an argument.
Outside(i, any, args) ==
    IF any \in prog.undef
    THEN {Bytes(o) : o \in {o \in Memory : rwg.escapes[o] \/ \E q \in Instr(i).args : q.obj = o}}
    ELSE IF args \in prog.undef THEN {Bytes(q.obj) : q \in Objects(Instr(i).args, prog)}
    ELSE {}

\* The sets of bytes that instruction i may write, each in one execution.
Effects(i) ==
    CASE Op(prog, i) = "store" -> Hits(Instr(i).pts, Instr(i).size)
      [] Op(prog, i) = "memcpy" -> Hits(ToSet(Instr(i).to), Instr(i).len)
      [] Op(prog, i) = "model" ->
           LET Writes(a) == UNION {Hits({[q EXCEPT !.off = Plus(@, r.from)] : q \in a.pts},
                                        r.to - r.from) : r \in a.defs}
               all == UNION {Writes(a) : a \in Instr(i).operands}
           IN  {UNION Range(w) : w \in {w \in [Instr(i).operands -> all \cup {{}}] :
                    \A a \in DOMAIN w : w[a] \in Writes(a) \/ (a.defs = {} /\ w[a] = {})}}
      [] Op(prog, i) = "extern" -> Outside(i, "WRITE_ANY", "WRITE_ARGS") \cup {{}}
      [] Op(prog, i) \in {"realloc", "vastart"} -> {Bytes(i), {}}
      [] OTHER -> {{}}

\* The bytes that instruction i may read.
Reads(i) ==
    CASE Op(prog, i) = "load" -> UNION UNION {Span(q, Instr(i).size) : q \in Objects(Instr(i).pts, prog)}
      [] Op(prog, i) = "realloc" -> UNION UNION {Span(q, 0) : q \in Objects(Instr(i).pts, prog)}
      [] Op(prog, i) = "model" ->
           UNION UNION UNION {UNION {{Span([q EXCEPT !.off = Plus(@, r.from)], r.to - r.from) :
               q \in a.pts} : r \in a.uses} : a \in Instr(i).operands}
      [] Op(prog, i) = "extern" -> UNION Outside(i, "READ_ANY", "READ_ARGS")
      [] OTHER -> {}

-----------------------------------------------------------------------------
(* Queries                                                                 *)

Queries ==
    {[node |-> n, ds |-> {}] : n \in {n \in Node(prog) :
        rwg.ann[n].uses # {} /\ BlockOf(initialize(rwg), n) # {}}}
    \cup prog.mem

Asked(s, q) ==
    IF q.ds = {} THEN s ELSE withMU(s, q.node, CHOOSE ds \in q.ds : TRUE)
Answer(s, q) ==
    getDefinitions(Asked(s, q), IF q.ds = {} THEN q.node ELSE Newest(Asked(s, q)))

Query(q) ==
    /\ stage \in {"query", "all"} /\ q \notin DOMAIN answers
    /\ \E found \in {Answer(ssa, q)} :
          /\ ssa' = found.s
          /\ answers' = [x \in DOMAIN answers \cup {q} |-> IF x = q THEN found.r ELSE answers[x]]
    /\ UNCHANGED <<rwg, prog, stage, frames, last>>

\* All definitions are searched before the first question.
ComputeAll ==
    /\ stage = "query" /\ answers = [q \in {} |-> {}]
    /\ ssa' = computeAllDefinitions(ssa)
    /\ stage' = "all"
    /\ UNCHANGED <<rwg, prog, answers, frames, last>>

-----------------------------------------------------------------------------
(* Running the program                                                     *)

Frame(f) == [block |-> prog.entry[f], next |-> 1,
             saved |-> [c \in {c \in Cell : Op(prog, c[1]) = "alloca" /\
                                  \E b \in DOMAIN prog.code : /\ prog.fun[b] = f
                                                              /\ c[1] \in ToSet(prog.code[b])}
                        |-> last[c]]]

Start ==
    /\ stage \in {"query", "all"} /\ DOMAIN answers = Queries
    /\ stage' = "run"
    /\ frames' = <<Frame("main")>>
    /\ UNCHANGED <<rwg, ssa, prog, answers, last>>

Running == stage = "run" /\ frames # <<>>
Now == Head(frames)
AtEnd == Now.next > Len(prog.code[Now.block])
Current == prog.code[Now.block][Now.next]
Advanced == <<[Now EXCEPT !.next = @ + 1]>> \o Tail(frames)

GoOn ==
    /\ Running /\ AtEnd
    /\ \E b \in prog.succ[Now.block] :
          frames' = <<[Now EXCEPT !.block = b, !.next = 1]>> \o Tail(frames)
    /\ UNCHANGED <<rwg, ssa, prog, answers, stage, last>>

Wrote(bytes, n) == last' = [c \in Cell |-> IF c \in bytes THEN n ELSE last[c]]

Execute ==
    /\ Running /\ ~ AtEnd /\ Op(prog, Current) \notin {"call", "ret", "alloca", "malloc"}
    /\ \E bytes \in Effects(Current) : Wrote(bytes, Current)
    /\ frames' = Advanced
    /\ UNCHANGED <<rwg, ssa, prog, answers, stage>>

\* Memory without contents, for a new instance of the heap object if the run turns to it.
Allocate ==
    /\ Running /\ ~ AtEnd /\ Op(prog, Current) \in {"alloca", "malloc"}
    /\ \/ Wrote(Bytes(Current), 0)
       \/ Op(prog, Current) = "malloc" /\ UNCHANGED last
    /\ frames' = Advanced
    /\ UNCHANGED <<rwg, ssa, prog, answers, stage>>

Call ==
    /\ Running /\ ~ AtEnd /\ Op(prog, Current) = "call" /\ Len(frames) < MaxDepth
    /\ \/ /\ \E f \in ToSet(Instr(Current).funs) : frames' = <<Frame(f)>> \o Advanced
          /\ UNCHANGED last
       \/ /\ \E e \in ToSet(Instr(Current).ext) : \E bytes \in Effects(e) :
                Wrote(bytes, IF Instr(Current).funs = <<>> THEN Current ELSE e)
          /\ frames' = Advanced
    /\ UNCHANGED <<rwg, ssa, prog, answers, stage>>

Return ==
    /\ Running /\ ~ AtEnd /\ Op(prog, Current) = "ret"
    /\ last' = [c \in Cell |-> IF c \in DOMAIN Now.saved THEN Now.saved[c] ELSE last[c]]
    /\ frames' = Tail(frames)
    /\ UNCHANGED <<rwg, ssa, prog, answers, stage>>

Init ==
    /\ prog \in Programs
    /\ rwg = build(prog)
    /\ ssa = initialize(rwg)
    /\ answers = [q \in {} |-> {}]
    /\ stage = "query"
    /\ frames = <<>>
    /\ last = [c \in Cell |-> 0]

Next ==
    \/ \E q \in Queries : Query(q)
    \/ ComputeAll \/ Start
    \/ GoOn \/ Execute \/ Allocate \/ Call \/ Return

Spec == Init /\ [][Next]_vars

-----------------------------------------------------------------------------

TypeOK ==
    /\ ssa.made \in Seq([type : {"PHI", "INARG", "OUTARG", "CALLIN", "CALLOUT", "MU"},
                         ds : [obj : Object, lo : 0 .. Top, hi : 0 .. Top]])
    /\ DOMAIN ssa.defuse \subseteq 1 .. Newest(ssa)
    /\ \A n \in DOMAIN ssa.defuse : ssa.defuse[n] \subseteq 1 .. Newest(ssa)
    /\ DOMAIN answers \subseteq Queries
    /\ \A q \in DOMAIN answers : answers[q] \subseteq Node(prog)
    /\ stage \in {"query", "all", "run"}
    /\ last \in [Cell -> {0} \cup Node(prog)]

CallsIn(f) == {C \in DOMAIN rwg.callees : \E B \in DOMAIN rwg.call : rwg.call[B] = C /\ rwg.subg[B] = f}

\* The procedures that run when those in S are called.
RECURSIVE RunBy(_)
RunBy(S) ==
    LET all == S \cup UNION {ToSet(rwg.callees[C].funs) : C \in UNION {CallsIn(f) : f \in S}}
    IN  IF all = S THEN S ELSE RunBy(all)

\* Procedure f, or one that runs when it is called, may write memory that its callers see.
MayWrite(f) ==
    \E g \in RunBy({f}) :
        LET inside == UNION {ToSet(rwg.nodes[B]) : B \in {B \in DOMAIN rwg.nodes : rwg.subg[B] = g}}
            called == UNION {ToSet(rwg.callees[C].ext) : C \in CallsIn(g)}
        IN  \E n \in inside \cup called : \E ds \in Sites(ssa, n) : canBeOutput(ssa, ds.obj, g)

\* Procedure f calls itself in node C and returns right behind it.
ReturnsBehind(f, C) ==
    \A B \in BlockOf(ssa, C) :
        /\ rwg.subg[B] = f
        /\ \A R \in {R \in DOMAIN rwg.preds : B \in ToSet(rwg.preds[R])} :
              R \in ToSet(rwg.returns[f]) /\ Len(rwg.nodes[R]) = 1

\* No procedure that may write is called from two places, a call of itself that it returns
\* behind left aside.  The summary of a procedure keeps the PHIs for its outputs, and only the
\* call for which they were made is linked to them: the PHI behind any other call stays
\* without these definitions, because getUncoveredOutputs finds nothing left to do for it
\* (findDefinitionsInSubgraph).
CalledOnce ==
    \A f \in DOMAIN prog.entry : MayWrite(f) =>
        Cardinality({C \in ToSet(rwg.callers[f]) : ~ ReturnsBehind(f, C)}) <= 1

\* MemorySSATransformation::getDefinitions reports for each byte that the program reads the
\* node that wrote it last, whatever was asked before, if no procedure that may write is
\* called from two places.
Sound ==
    CalledOnce /\ Running /\ ~ AtEnd => \A q \in {q \in DOMAIN answers : q.node = Current} :
        LET read == IF q.ds # {} THEN {c \in Cell : \E ds \in q.ds :
                                          c[1] = ds.obj /\ ds.lo <= c[2] /\ c[2] <= ds.hi}
                    ELSE IF Op(prog, Current) = "call"
                    THEN UNION {Reads(e) : e \in ToSet(Instr(Current).ext)}
                    ELSE Reads(Current)
        IN  \A c \in read : last[c] # 0 => last[c] \in answers[q]

\* Places are <<B, k>>, behind the first k nodes of block B.  What may have written byte b of
\* object o before some places: back along the blocks, out of procedures to all their
\* callers and into those that are called.
Writers(n, o, b) ==
    LET In(ds) == ds.obj \in {o, UNKNOWN_MEMORY} /\ ds.lo <= b /\ b <= ds.hi
    IN  IF \E ds \in rwg.ann[n].over \cup rwg.ann[n].defs : In(ds) \/ ds.obj = UNKNOWN_MEMORY
        THEN {n} ELSE {}
Kills(n, o, b) == \E ds \in rwg.ann[n].over : ds.obj = o /\ ds.lo <= b /\ b <= ds.hi

PlaceBefore(n) == {p \in UNION {{<<B, k - 1>> : k \in DOMAIN rwg.nodes[B]} : B \in DOMAIN rwg.nodes} :
                      rwg.nodes[p[1]][p[2] + 1] = n}
EndOf(Bs) == {<<B, Len(rwg.nodes[B])>> : B \in Bs}

Back(p, o, b) ==
    LET B == p[1]
        n == rwg.nodes[B][p[2]]
    IN  IF p[2] = 0
        THEN IF rwg.preds[B] # <<>> THEN EndOf(ToSet(rwg.preds[B]))
             ELSE UNION {PlaceBefore(c) : c \in ToSet(rwg.callers[rwg.subg[B]])}
        ELSE IF rwg.call[B] = n
        THEN UNION {EndOf(ToSet(rwg.returns[f])) : f \in ToSet(rwg.callees[n].funs)}
             \cup {q \in {<<B, 0>>} : \E e \in ToSet(rwg.callees[n].ext) : ~ Kills(e, o, b)}
        ELSE {q \in {<<B, p[2] - 1>>} : ~ Kills(n, o, b)}
Found(p, o, b) ==
    IF p[2] = 0 THEN {}
    ELSE LET n == rwg.nodes[p[1]][p[2]] IN
         IF rwg.call[p[1]] = n
         THEN UNION {Writers(e, o, b) : e \in ToSet(rwg.callees[n].ext)}
         ELSE Writers(n, o, b)

RECURSIVE Reaching(_, _, _, _)
Reaching(places, seen, o, b) ==
    IF places = {} THEN {}
    ELSE UNION {Found(p, o, b) : p \in places}
         \cup Reaching((UNION {Back(p, o, b) : p \in places}) \ (seen \cup places),
                       seen \cup places, o, b)

\* The PHIs and summaries that earlier questions leave behind do not hide a definition from a
\* later one: it is answered with all that it finds in a graph that was never searched
\* (getDefinitions, computeAllDefinitions).
NothingHidden ==
    stage # "run" => \A q \in DOMAIN answers : Answer(initialize(rwg), q).r \subseteq answers[q]

\* If no procedure that may write is called from two places, nothing is hidden from a later
\* question.  And the first question is not answered with a definition that is overwritten on
\* each way to the use.  (Later answers may be less exact, as a PHI stands for several bytes.)
Exact ==
    /\ CalledOnce => NothingHidden
    /\ stage = "query" /\ Cardinality(DOMAIN answers) = 1 => \A q \in DOMAIN answers :
           LET sites == IF q.ds = {} THEN rwg.ann[q.node].uses ELSE q.ds
               any   == \E ds \in sites : ds.obj = UNKNOWN_MEMORY
           IN  answers[q] \subseteq
                   UNION {UNION {Reaching(PlaceBefore(q.node), {}, o, b) :
                                   b \in {b \in 0 .. Top : any \/ \E ds \in sites :
                                            ds.obj = o /\ ds.lo <= b /\ b <= ds.hi}} : o \in Node(prog)}
=============================================================================
