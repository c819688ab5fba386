--------------------------- MODULE ReadWriteGraph ---------------------------
(***************************************************************************)
(* The read-write graph that lib/llvm/ReadWriteGraph builds of a program   *)
(* whose pointers are analysed: a node for every instruction that touches  *)
(* memory, annotated with the bytes that it may write (defs), surely       *)
(* overwrites (over) and reads (uses), in basic blocks that are split      *)
(* around calls.                                                           *)
(*                                                                         *)
(* A program is a record: inst, its instructions and globals; code, the    *)
(* blocks as sequences of them; succ, the next blocks of a block; fun, the *)
(* procedure of a block; entry, the first block of a procedure; undef,     *)
(* what calls of undefined functions are assumed to do.  A pointer is      *)
(* [obj, off], and Top is an offset that is not known.  An instruction     *)
(* stands for its node; the node of a function that is called through a    *)
(* pointer and has no body is in no block.                                 *)
(***************************************************************************)
EXTENDS Intervals, SequencesExt

CONSTANT UNKNOWN_MEMORY

\* The bytes that a DefSite names.
Site(obj, off, len) ==
    [obj |-> obj, lo |-> IF off = Top THEN 0 ELSE off,
     hi |-> IF off = Top \/ len = Top THEN Top ELSE off + len - 1]

Plus(a, b) == IF a = Top \/ b = Top \/ a + b > Top THEN Top ELSE a + b
Size(n) == IF n = 0 THEN Top ELSE n

Node(p) == DOMAIN p.inst
Op(p, i) == p.inst[i].op
Objects(pts, p) == {q \in pts : Op(p, q.obj) # "function"}

\* The address of a local variable is stored or copied from.
hasAddressTaken(p, i) ==
    /\ Op(p, i) = "alloca"
    /\ \E u \in Node(p) : \/ Op(p, u) = "store" /\ p.inst[u].val = i
                          \/ Op(p, u) = "memcpy" /\ p.inst[u].src = i

isDynAlloc(p, i) ==
    \/ Op(p, i) \in {"malloc", "realloc"}
    \/ Op(p, i) = "call" /\ \E e \in ToSet(p.inst[i].ext) : Op(p, e) \in {"malloc", "realloc"}
canEscape(p, i) == isDynAlloc(p, i) \/ Op(p, i) = "global" \/ hasAddressTaken(p, i)

-----------------------------------------------------------------------------
(* What the nodes do                                                       *)

\* Pointers to unknown memory are dropped.
mapPointers(p, pts, size) ==
    {Site(q.obj, q.off, IF q.off = Top THEN Top ELSE size) : q \in Objects(pts, p)}

\* Fault: a store through a pointer to one of several objects overwrites each of them.
StrongStore_AnyTarget(p, sites) ==
    \A s \in sites : Op(p, s.obj) \in {"alloca", "vastart", "global"} /\ s.hi # Top

\* A store overwrites the only thing that it may write, if that is no heap memory.
StrongStore(p, sites) ==
    /\ Cardinality(sites) = 1
    /\ \A s \in sites : Op(p, s.obj) \in {"alloca", "vastart", "global"} /\ s.hi # Top
StoreSites(p, i) == mapPointers(p, p.inst[i].pts, Size(p.inst[i].size))

\* memcpy, memmove and memset: the end of the written bytes is handed on as their number, and
\* a length is given up for all targets after one whose offset is not known.
IntrinsicSites(p, i) ==
    LET to     == p.inst[i].to
        len(k) == IF \E j \in 1 .. k : to[j].off = Top /\ Op(p, to[j].obj) # "function"
                  THEN Top ELSE p.inst[i].len
    IN  {Site(to[k].obj, to[k].off, Plus(to[k].off, len(k))) :
            k \in {k \in DOMAIN to : Op(p, to[k].obj) # "function"}}

\* A function with a model: its operands with the ranges they define or use, here too
\* a first byte and, as a length, an end.
ModelSites(p, i, ranges) ==
    UNION {UNION {{Site(q.obj, Plus(q.off, r.from), Plus(q.off, r.to)) : r \in a[ranges]} :
                     q \in Objects(a.pts, p)} : a \in p.inst[i].operands}
StrongModelSites(p, i) ==
    UNION {UNION {{Site(q.obj, Plus(q.off, r.from), Plus(q.off, r.to)) :
                      r \in {r \in a.defs : Plus(q.off, r.from) # Top /\ Plus(q.off, r.to) # Top}} :
                     q \in {q \in Objects(a.pts, p) : /\ Cardinality(a.pts) = 1 /\ q.off # Top
                                                      /\ Op(p, q.obj) \in {"alloca", "global"}}} :
              a \in p.inst[i].operands}

\* What a call of an undefined function may read or write: anything or all that its arguments
\* point to.
Undefined(p, i, any, args) ==
    IF any \in p.undef THEN {Site(UNKNOWN_MEMORY, Top, Top)}
    ELSE IF args \in p.undef THEN {Site(q.obj, Top, Top) : q \in Objects(p.inst[i].args, p)}
    ELSE {}

NodeOverwrites(p, i) ==
    CASE Op(p, i) = "alloca" ->
           IF hasAddressTaken(p, i) THEN {} ELSE {Site(i, 0, Size(p.inst[i].size))}
      [] Op(p, i) = "store" -> IF StrongStore(p, StoreSites(p, i)) THEN StoreSites(p, i) ELSE {}
      [] Op(p, i) = "memcpy" -> {s \in IntrinsicSites(p, i) : s.hi # Top}
      [] Op(p, i) = "model" -> StrongModelSites(p, i)
      [] OTHER -> {}

NodeDefines(p, i) ==
    CASE Op(p, i) = "store" -> StoreSites(p, i) \ NodeOverwrites(p, i)
      [] Op(p, i) = "memcpy" -> {s \in IntrinsicSites(p, i) : s.hi = Top}
      [] Op(p, i) = "vastart" -> {Site(i, 0, Top)}
      [] Op(p, i) = "realloc" -> {Site(i, 0, Size(p.inst[i].size))}
      [] Op(p, i) = "model" ->
           ModelSites(p, i, "defs") \ StrongModelSites(p, i)
      [] Op(p, i) = "extern" -> Undefined(p, i, "WRITE_ANY", "WRITE_ARGS")
      [] OTHER -> {}

NodeUses(p, i) ==
    CASE Op(p, i) \in {"load", "realloc"} -> mapPointers(p, p.inst[i].pts, Size(p.inst[i].size))
      [] Op(p, i) = "model" -> ModelSites(p, i, "uses")
      [] Op(p, i) = "extern" -> Undefined(p, i, "READ_ANY", "READ_ARGS")
      [] OTHER -> {}

\* The bytes that all of the sets of sites have in common, in runs.
Common(p, sets) ==
    UNION {{[obj |-> o, lo |-> r.lo, hi |-> r.hi] :
               r \in Runs({b \in 0 .. Top : \A S \in sets : \E s \in S :
                               s.obj = o /\ s.lo <= b /\ b <= s.hi})} : o \in Node(p)}

\* A call that may lead to several functions sums up those without a body: it overwrites
\* what all of them do.
_summarizeAnnotation(p, i) ==
    LET ext == ToSet(p.inst[i].ext) IN
    IF ext = {} \/ Cardinality(ext) + Len(p.inst[i].funs) < 2
    THEN [defs |-> {}, over |-> {}, uses |-> {}]
    ELSE [defs |-> UNION {NodeDefines(p, e) : e \in ext},
          over |-> IF Cardinality(ext) = 1 THEN UNION {NodeOverwrites(p, e) : e \in ext}
                   ELSE Common(p, {NodeOverwrites(p, e) : e \in ext}),
          uses |-> UNION {NodeUses(p, e) : e \in ext}]

Annotations(p, i) ==
    IF Op(p, i) = "call" THEN _summarizeAnnotation(p, i)
    ELSE [defs |-> NodeDefines(p, i), over |-> NodeOverwrites(p, i), uses |-> NodeUses(p, i)]

-----------------------------------------------------------------------------
(* Blocks                                                                  *)

\* A block in pieces, each call of procedures a piece of its own.
Pieces(p, b) ==
    LET nodes == p.code[b]
        Alone(piece) == Op(p, piece[1]) = "call"
        Add(pieces, i) ==
            IF pieces = <<>> \/ Op(p, i) = "call" \/ Alone(Last(pieces))
            THEN Append(pieces, <<i>>)
            ELSE [pieces EXCEPT ![Len(pieces)] = Append(@, i)]
        all == FoldLeft(Add, <<>>, nodes)
    IN  IF all = <<>> THEN << <<>> >> ELSE all

\* The blocks of the graph, in order: <<b, k>> is the k-th piece of block b.
BlockSeq(p) == FlattenSeq([b \in DOMAIN p.code |-> [k \in DOMAIN Pieces(p, b) |-> <<b, k>>]])
Blocks(p) == ToSet(BlockSeq(p))
Ends(p, B) == [j \in DOMAIN B |-> <<B[j], Len(Pieces(p, B[j]))>>]
Predecessors(p, b) == SetToSortSeq({a \in DOMAIN p.code : b \in p.succ[a]}, <)

callsDefined(p, i) == Op(p, i) = "call" /\ p.inst[i].funs # <<>>

\* Building the graph and splitting its blocks on calls.
build(p) ==
    [ann     |-> [i \in Node(p) |-> Annotations(p, i)],
     escapes |-> [i \in Node(p) |-> canEscape(p, i)],
     blocks  |-> BlockSeq(p),
     nodes   |-> [B \in Blocks(p) |-> Pieces(p, B[1])[B[2]]],
     preds   |-> [B \in Blocks(p) |-> IF B[2] > 1 THEN << <<B[1], B[2] - 1>> >>
                                      ELSE Ends(p, Predecessors(p, B[1]))],
     subg    |-> [B \in Blocks(p) |-> p.fun[B[1]]],
     \* the blocks in which a procedure returns
     returns |-> [f \in DOMAIN p.entry |->
                    SelectSeq(BlockSeq(p), LAMBDA B :
                        /\ p.fun[B[1]] = f /\ p.succ[B[1]] = {} /\ B[2] = Len(Pieces(p, B[1]))
                        /\ LET last == Pieces(p, B[1])[B[2]]
                           IN  last # <<>> /\ Op(p, Last(last)) = "ret")],
     \* calls of a procedure; what each call may lead to
     callers |-> [f \in DOMAIN p.entry |->
                    SetToSortSeq({i \in Node(p) : /\ Op(p, i) = "call"
                                                  /\ f \in ToSet(p.inst[i].funs)}, <)],
     callees |-> [i \in {i \in Node(p) : Op(p, i) = "call"} |->
                    [funs |-> p.inst[i].funs, ext |-> p.inst[i].ext]],
     call    |-> [B \in Blocks(p) |->
                    LET nodes == Pieces(p, B[1])[B[2]]
                    IN  IF Len(nodes) = 1 /\ callsDefined(p, nodes[1]) THEN nodes[1] ELSE 0]]
=============================================================================
