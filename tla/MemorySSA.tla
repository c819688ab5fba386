----------------------------- MODULE MemorySSA -----------------------------
(***************************************************************************)
(* The search for the definitions that reach a use of memory               *)
(* (lib/MemorySSA).  Blocks and procedures are looked at when a search     *)
(* gets to them; where several definitions meet, at a join of blocks, at   *)
(* the entry of a procedure or behind a call, the search leaves a PHI      *)
(* node that later searches find in place of what it stands for.           *)
(*                                                                         *)
(* The state of the transformation is the record ssa:                      *)
(*   nodes[B]    the nodes of block B, with the PHIs that were put there   *)
(*   made        the PHI and MU nodes; node N + k is the k-th of them      *)
(*   defuse[n]   what node n was found to depend on, for searched nodes    *)
(*   D[B]        the definitions known of block B                          *)
(*   inputs[f], outputs[f]  the summary of procedure f                     *)
(*   maydef[f], modref[f]   what f may write; whether that was computed    *)
(*   input[c]    the PHI for unknown memory at call c, or 0                *)
(* A map of definitions gives each object the entries of an interval map.  *)
(* The operators that search return the new state, `s', and what they      *)
(* found, `r'.                                                             *)
(***************************************************************************)
EXTENDS ReadWriteGraph

VARIABLES rwg, ssa

N == Len(rwg.ann)
Object == 1 .. N \cup {UNKNOWN_MEMORY}
NoDefs == [o \in Object |-> {}]
NoDefinitions == [done |-> FALSE, defs |-> NoDefs, kills |-> NoDefs, unknown |-> {}]

\* The state after the graph was built.
initialize(g) ==
    LET objects == DOMAIN g.ann \cup {UNKNOWN_MEMORY}
        none == [o \in objects |-> {}]
    IN  [nodes |-> g.nodes, made |-> <<>>, defuse |-> [n \in {} |-> {}],
         D |-> [B \in DOMAIN g.nodes |->
                  [done |-> FALSE, defs |-> none, kills |-> none, unknown |-> {}]],
         inputs |-> [f \in DOMAIN g.callers |-> none],
         outputs |-> [f \in DOMAIN g.callers |-> none],
         maydef |-> [f \in DOMAIN g.callers |-> none],
         modref |-> [f \in DOMAIN g.callers |-> FALSE],
         input |-> [c \in DOMAIN g.callees |-> 0]]

\* After a search that follows on one which found r.
Joined(r, next) == [next EXCEPT !.r = r \cup @]

-----------------------------------------------------------------------------
(* Nodes                                                                   *)

Created(s, n) == s.made[n - N]
isPhi(s, n) == n > N /\ Created(s, n).type # "MU"
Overwrites(s, n) ==
    IF n <= N THEN rwg.ann[n].over ELSE IF isPhi(s, n) THEN {Created(s, n).ds} ELSE {}
Defines(s, n) == IF n <= N THEN rwg.ann[n].defs ELSE {}
Uses(s, n) == IF n <= N THEN rwg.ann[n].uses ELSE IF isPhi(s, n) THEN {} ELSE {Created(s, n).ds}
BlockOf(s, n) == {B \in DOMAIN s.nodes : n \in ToSet(s.nodes[B])}

\* A new node, not in any block yet; its number is the last one in the new state.
create(s, ds, type) ==
    [s EXCEPT !.made = Append(@, [type |-> type, ds |-> ds])]
Newest(s) == N + Len(s.made)

addDefUse(s, n, defs) ==
    [s EXCEPT !.defuse = [x \in DOMAIN @ \cup {n} |->
                            (IF x \in DOMAIN @ THEN @[x] ELSE {})
                            \cup (IF x = n THEN defs ELSE {})]]

insertBefore(s, B, n, where) ==
    LET k == CHOOSE k \in DOMAIN s.nodes[B] : s.nodes[B][k] = where
    IN  [s EXCEPT !.nodes[B] = InsertAt(@, k, n)]

-----------------------------------------------------------------------------
(* Maps of definitions                                                     *)

Put(M, ds, vals) == [M EXCEPT ![ds.obj] = Written(@, ds.lo, ds.hi, vals, FALSE)]
PutAll(M, E) ==
    LET put[o \in Object, done \in SUBSET UNION Range(E)] ==
            IF done = {} THEN M[o]
            ELSE LET e == CHOOSE e \in done : TRUE
                 IN  Written(put[o, done \ {e}], e.start, e.end, e.vals, FALSE)
    IN  [o \in Object |-> put[o, E[o]]]

\* Node n is entered for some sites.
PutSites(M, sites, n, strong) ==
    LET put[done \in SUBSET sites] ==
            IF done = {} THEN M
            ELSE LET ds == CHOOSE ds \in done : TRUE
                 IN  [put[done \ {ds}] EXCEPT ![ds.obj] = Written(@, ds.lo, ds.hi, {n}, strong)]
    IN  put[sites]
Values(M) == UNION {UNION {e.vals : e \in M[o]} : o \in Object}
definesTarget(M, o) == M[o] # {}
Get(M, ds) == IF M[ds.obj] = {} THEN {} ELSE gather(M[ds.obj], ds.lo, ds.hi)

\* The sites in ds that the map has no definitions of, from left to right.
SiteSeq(obj, gaps) ==
    [k \in 1 .. Cardinality(gaps) |->
        LET g == CHOOSE g \in gaps : Cardinality({h \in gaps : h.lo < g.lo}) = k - 1
        IN  [obj |-> obj, lo |-> g.lo, hi |-> g.hi]]
undefinedIntervals(M, ds) == SiteSeq(ds.obj, uncovered(M[ds.obj], ds.lo, ds.hi))

\* Definitions::get
OrElse(found, other) == IF found = {} THEN other ELSE found
Known(D, ds) == OrElse(Get(D.defs, ds), D.unknown)

\* Fault: what a node overwrites is only added to what was known.
update_Weak(s, D, n, defnode) ==
    LET sites == {ds \in Defines(s, n) \cup Overwrites(s, n) : ds.obj # UNKNOWN_MEMORY}
        any == Defines(s, n) \ sites # {}
        all == [o \in Object |-> {[e EXCEPT !.vals = @ \cup {defnode}] : e \in D.defs[o]}]
    IN  [done |-> D.done,
         unknown |-> IF any THEN D.unknown \cup {defnode} ELSE D.unknown,
         defs |-> PutSites(IF any THEN all ELSE D.defs, sites, defnode, FALSE),
         kills |-> PutSites(D.kills, Overwrites(s, n), defnode, FALSE)]

\* The definitions after node n, by which n is entered as defnode.
update(s, D, n, defnode) ==
    LET weak   == {ds \in Defines(s, n) : ds.obj # UNKNOWN_MEMORY}
        any    == weak # Defines(s, n)
        addAll == [o \in Object |-> {[e EXCEPT !.vals = @ \cup {defnode}] : e \in D.defs[o]}]
        added  == PutSites(IF any THEN addAll ELSE D.defs, weak, defnode, FALSE)
    IN  [done |-> D.done,
         unknown |-> IF any THEN D.unknown \cup {defnode} ELSE D.unknown,
         defs |-> PutSites(added, Overwrites(s, n), defnode, TRUE),
         kills |-> PutSites(D.kills, Overwrites(s, n), defnode, FALSE)]

\* Local value numbering of a sequence of nodes.
performLvn(s, nodes) ==
    LET after[k \in 0 .. Len(nodes)] ==
            IF k = 0 THEN NoDefinitions ELSE update(s, after[k - 1], nodes[k], nodes[k])
    IN  after[Len(nodes)]

\* The nodes of a block in front of node n, and the definitions in them.
InFront(s, n) ==
    LET B == CHOOSE B \in BlockOf(s, n) : TRUE
    IN  SubSeq(s.nodes[B], 1, (CHOOSE k \in DOMAIN s.nodes[B] : s.nodes[B][k] = n) - 1)
findDefinitionsInBlock(s, n) == performLvn(s, InFront(s, n))

\* The same of the nodes, not the memory, that can escape.
findEscapingDefinitionsInBlock(s, n) ==
    performLvn(s, SelectSeq(InFront(s, n), LAMBDA x : x <= N /\ rwg.escapes[x]))

-----------------------------------------------------------------------------
(* What a procedure may write                                              *)

\* A definition of object o may be seen by callers of f, and one before f by f.
canBeOutput(s, o, f) ==
    o = UNKNOWN_MEMORY \/ rwg.escapes[o] \/ \A B \in BlockOf(s, o) : rwg.subg[B] # f
canBeInput(s, o, f) ==
    o # UNKNOWN_MEMORY /\ (rwg.escapes[o] \/ \E B \in BlockOf(s, o) : rwg.subg[B] # f)

mayDefine(s, f, o) == definesTarget(s.maydef[f], o)
mayDefineOrUnknown(s, f, o) == mayDefine(s, f, o) \/ mayDefine(s, f, UNKNOWN_MEMORY)

BlocksOf(f) == SelectSeq(rwg.blocks, LAMBDA B : rwg.subg[B] = f)

AddMayDef(s, f, sites, n) ==
    [s EXCEPT !.maydef[f] = PutSites(@, sites, n, FALSE)]

\* Nothing is known yet of a procedure that is called recursively.
RECURSIVE computeModRef(_, _), AddCallees(_, _, _), AddBlocks(_, _, _)
Sites(s, n) == Defines(s, n) \cup Overwrites(s, n)
AddNodes(s, f, nodes) ==
    LET Seen(n) == {ds \in Sites(s, n) : canBeOutput(s, ds.obj, f)}
        after[k \in 0 .. Len(nodes)] ==
            IF k = 0 THEN s ELSE AddMayDef(after[k - 1], f, Seen(nodes[k]), nodes[k])
    IN  after[Len(nodes)]
AddMayDefOf(s, f, g) == [s EXCEPT !.maydef[f] = PutAll(@, s.maydef[g])]
AddCallees(s, f, funs) ==
    IF funs = <<>> THEN s
    ELSE AddCallees(AddMayDefOf(computeModRef(s, Head(funs)), f, Head(funs)), f, Tail(funs))
AddBlock(s, f, B) ==
    LET C == rwg.call[B] IN
    IF C = 0 THEN AddNodes(s, f, s.nodes[B])
    ELSE AddMayDef(AddCallees(s, f, rwg.callees[C].funs), f,
                   UNION {Sites(s, e) : e \in ToSet(rwg.callees[C].ext)}, C)
AddBlocks(s, f, Bs) ==
    IF Bs = <<>> THEN s ELSE AddBlocks(AddBlock(s, f, Head(Bs)), f, Tail(Bs))
computeModRef(s, f) ==
    IF s.modref[f] THEN s ELSE AddBlocks([s EXCEPT !.modref[f] = TRUE], f, BlocksOf(f))

\* Whether call C may write object o; procedures are looked at until one may.
RECURSIVE MayDefineIn(_, _, _)
AskFor(s, f, o) == [s |-> s, r |-> mayDefineOrUnknown(s, f, o)]
MayDefineIn(acc, funs, o) ==
    IF acc.r \/ funs = <<>> THEN acc
    ELSE MayDefineIn(AskFor(computeModRef(acc.s, Head(funs)), Head(funs), o), Tail(funs), o)
callMayDefineTarget(s, C, o) ==
    LET ext == \E e \in ToSet(rwg.callees[C].ext) : \E ds \in Sites(s, e) : ds.obj = o
    IN  [MayDefineIn([s |-> s, r |-> FALSE], rwg.callees[C].funs, o) EXCEPT !.r = @ \/ ext]

-----------------------------------------------------------------------------
(* Searching the definitions of known memory                               *)

\* A PHI for bytes of which block B has no definition becomes the one it has.
createPhi(s, B, ds, type) ==
    LET new == create(s, ds, type)
        n   == Newest(new)
        gaps == undefinedIntervals(s.D[B].kills, ds)
        Register(D, gap) ==
            [D EXCEPT !.defs = Put(@, gap, {n} \cup D.unknown), !.kills = Put(@, gap, {n})]
        after[k \in 0 .. Len(gaps)] ==
            IF k = 0 THEN s.D[B] ELSE Register(after[k - 1], gaps[k])
    IN  [new EXCEPT !.D[B] = after[Len(gaps)]]

\* The searches that lead to each other.  A state s, or the pair acc of a state and what was
\* found so far, is passed on from one to the next.
RECURSIVE fillDefinitionsFromCall(_, _, _), FillGaps(_, _, _), FromCallees(_, _, _, _, _, _),
          OutputGaps(_, _, _, _, _, _), FromCallers(_, _, _, _), FindInBlocks(_, _, _),
          FindInGaps(_, _, _), findDefinitionsInPredecessors(_, _, _)

FindInGaps(acc, B, gaps) ==
    IF gaps = <<>> THEN acc
    ELSE FindInGaps(Joined(acc.r, findDefinitionsInPredecessors(acc.s, B, Head(gaps))),
                    B, Tail(gaps))
Nothing(s) == [s |-> s, r |-> {}]
addUncoveredFromPredecessors(s, B, D, ds) ==
    FindInGaps(Nothing(s), B, undefinedIntervals(D.kills, ds))

\* The definitions of ds among D, and in front of block B those of the bytes that D does not
\* overwrite.
FindBehind(s, B, D, ds) ==
    [addUncoveredFromPredecessors(s, B, D, ds) EXCEPT !.r = @ \cup Known(D, ds)]

\* All definitions in a block without a call.
Searched(s, B) == [s EXCEPT !.D[B] = [performLvn(s, s.nodes[B]) EXCEPT !.done = TRUE]]

\* Fault: the block of a call counts as searched when it was searched for one definition.
getBBlockDefinitions_Once(s, B, ds) ==
    IF s.D[B].done THEN s
    ELSE IF rwg.call[B] = 0 THEN Searched(s, B)
    ELSE [fillDefinitionsFromCall(s, B, ds) EXCEPT !.D[B].done = TRUE]

\* The block of a call gets the definitions that are asked for, another one all at once.
getBBlockDefinitions(s, B, ds) ==
    IF s.D[B].done THEN s
    ELSE IF rwg.call[B] = 0 THEN Searched(s, B)
    ELSE fillDefinitionsFromCall(s, B, ds)

\* findDefinitions of a block.
InSearched(s, B, ds) == FindBehind(s, B, s.D[B], ds)
FindInBlock(s, B, ds) == InSearched(getBBlockDefinitions(s, B, ds), B, ds)

\* findDefinitions of a node.
FindAt(s, n, ds) ==
    FindBehind(s, CHOOSE B \in BlockOf(s, n) : TRUE, findDefinitionsInBlock(s, n), ds)

\* findDefinitions of some blocks.
FindInBlocks(acc, Bs, ds) ==
    IF Bs = <<>> THEN acc
    ELSE FindInBlocks(Joined(acc.r, FindInBlock(acc.s, Head(Bs), ds)), Tail(Bs), ds)

\* A node gets the definitions that were found.
Linked(n, found) == addDefUse(found.s, n, found.r)

\* A new PHI for an output of procedure f, linked to the one of a call.
OutputPhi(s, phi, f, gap) ==
    LET new == create(s, gap, "OUTARG")
        n   == Newest(new)
    IN  addDefUse([new EXCEPT !.outputs[f] = Put(@, gap, {n})], phi, {n})

\* The PHI of call C gets what procedure f defines of the bytes that no PHI for an output of
\* f stands for yet, or what reaches the call if f cannot define them.
OutputGap(s, phi, C, ds, f, gap) ==
    LET out     == OutputPhi(s, phi, f, gap)
        unknown == UNION {e.vals : e \in s.maydef[f][UNKNOWN_MEMORY]}
    IN  IF mayDefine(s, f, ds.obj)
        THEN Linked(Newest(out), FindInBlocks(Nothing(out), rwg.returns[f], ds))
        ELSE Linked(phi, FindAt(IF unknown = {} THEN s
                                ELSE addDefUse(out, Newest(out), unknown), C, gap))
OutputGaps(s, phi, C, ds, f, gaps) ==
    IF gaps = <<>> THEN s
    ELSE OutputGaps(OutputGap(s, phi, C, ds, f, Head(gaps)), phi, C, ds, f, Tail(gaps))
InSummary(s, phi, C, ds, f) ==
    OutputGaps(s, phi, C, ds, f, undefinedIntervals(s.outputs[f], ds))
findDefinitionsInSubgraph(s, phi, C, ds, f) == InSummary(computeModRef(s, f), phi, C, ds, f)

addDefinitionsFromCalledValue(s, phi, B, ds, e) ==
    Linked(phi, FindBehind(s, B, update(s, NoDefinitions, e, e), ds))

\* The bytes that the block of call C has no definition of get a PHI behind the call.
FromCallees(s, phi, B, ds, funs, ext) ==
    IF funs # <<>>
    THEN FromCallees(findDefinitionsInSubgraph(s, phi, rwg.call[B], ds, Head(funs)),
                     phi, B, ds, Tail(funs), ext)
    ELSE IF ext # <<>>
    THEN FromCallees(addDefinitionsFromCalledValue(s, phi, B, ds, Head(ext)),
                     phi, B, ds, funs, Tail(ext))
    ELSE s
PhiBehind(s, B, ds, callees) ==
    FromCallees([s EXCEPT !.nodes[B] = Append(@, Newest(s))], Newest(s), B, ds,
                callees.funs, callees.ext)
FillGaps(s, B, gaps) ==
    IF gaps = <<>> THEN s
    ELSE FillGaps(PhiBehind(createPhi(s, B, Head(gaps), "CALLOUT"), B, Head(gaps),
                            rwg.callees[rwg.call[B]]), B, Tail(gaps))
FillIf(may, B, ds) ==
    IF may.r THEN FillGaps(may.s, B, undefinedIntervals(may.s.D[B].kills, ds)) ELSE may.s
fillDefinitionsFromCall(s, B, ds) ==
    FillIf(callMayDefineTarget(s, rwg.call[B], ds.obj), B, ds)

findPhiDefinitions(s, phi, B, ds) ==
    Linked(phi, FindInBlocks(Nothing(s), rwg.preds[B], ds))

\* Every call of procedure f gets a PHI for what its callee finds before the call.
FromCaller(s, phi, C, ds) ==
    LET new == create(s, ds, "CALLIN")
        n   == Newest(new)
        B   == CHOOSE B \in BlockOf(s, C) : TRUE
    IN  Linked(n, FindAt(addDefUse(insertBefore(new, B, n, C), phi, {n}), n, ds))
FromCallers(s, phi, callers, ds) ==
    IF callers = <<>> THEN s
    ELSE FromCallers(FromCaller(s, phi, Head(callers), ds), phi, Tail(callers), ds)
findDefinitionsFromCalledFun(s, phi, f, ds) == FromCallers(s, phi, rwg.callers[f], ds)

\* The PHI that was just made stands in front of block B, or of its procedure.
AtJoin(s, B, ds) ==
    findPhiDefinitions([s EXCEPT !.nodes[B] = <<Newest(s)>> \o @], Newest(s), B, ds)
AtEntry(s, f, ds) ==
    findDefinitionsFromCalledFun([s EXCEPT !.inputs[f] = Put(@, ds, {Newest(s)})],
                                 Newest(s), f, ds)

findDefinitionsInMultiplePredecessors(s, B, ds) ==
    LET join == rwg.preds[B] # <<>>
        WithPhi(t) == [s |-> IF join THEN AtJoin(t, B, ds) ELSE AtEntry(t, rwg.subg[B], ds),
                       r |-> {Newest(t)}]
    IN  IF ~ join /\ ~ canBeInput(s, ds.obj, rwg.subg[B]) THEN [s |-> s, r |-> {}]
        ELSE WithPhi(createPhi(getBBlockDefinitions(s, B, ds), B, ds,
                               IF join THEN "PHI" ELSE "INARG"))

findDefinitionsInPredecessors(s, B, ds) ==
    IF Len(rwg.preds[B]) = 1 THEN FindInBlock(s, rwg.preds[B][1], ds)
    ELSE findDefinitionsInMultiplePredecessors(s, B, ds)

-----------------------------------------------------------------------------
(* Searching all definitions, for a read of unknown memory                 *)

\* The block of a call gets its definitions of all that the called functions may define.
RECURSIVE FillSites(_, _, _), FillAll(_, _, _), FillAllExt(_, _, _)
FillSites(s, B, sites) ==
    LET ds == CHOOSE ds \in sites : TRUE
    IN  IF sites = {} THEN s
        ELSE FillSites(fillDefinitionsFromCall(s, B, ds), B, sites \ {ds})
MaySites(s, f) ==
    UNION {{[obj |-> o, lo |-> e.start, hi |-> e.end] : e \in s.maydef[f][o]} :
              o \in Object \ {UNKNOWN_MEMORY}}
FillUnknown(s, B, f) ==
    FillSites([s EXCEPT !.D[B].unknown = @ \cup UNION {e.vals : e \in s.maydef[f][UNKNOWN_MEMORY]}],
              B, MaySites(s, f))
FillAll(s, B, funs) ==
    IF funs = <<>> THEN s
    ELSE FillAll(FillUnknown(computeModRef(s, Head(funs)), B, Head(funs)), B, Tail(funs))
FillAllExt(s, B, ext) ==
    IF ext = <<>> THEN s ELSE FillAllExt(FillSites(s, B, Sites(s, Head(ext))), B, Tail(ext))
fillAllDefinitionsFromCall(s, B) ==
    [FillAllExt(FillAll(s, B, rwg.callees[rwg.call[B]].funs), B, rwg.callees[rwg.call[B]].ext)
        EXCEPT !.D[B].done = TRUE]

getAllBBlockDefinitions(s, B) ==
    IF s.D[B].done THEN s
    ELSE IF rwg.call[B] = 0 THEN Searched(s, B)
    ELSE fillAllDefinitionsFromCall(s, B)

\* Definitions `from', as far as `to' does not define their bytes: weakly is enough.
joinDefinitions(from, to, escaping) ==
    LET Target(o, M) ==
            IF definesTarget(M, o)
            THEN FoldLeft(LAMBDA K, e :
                              FoldLeft(LAMBDA L, gap : Put(L, gap, e.vals), K,
                                  undefinedIntervals(K, [obj |-> o, lo |-> e.start, hi |-> e.end])),
                          M, SetToSortSeq(from.defs[o], LAMBDA d, e : d.start < e.start))
            ELSE [M EXCEPT ![o] = from.defs[o]]
        objects == {o \in Object : escaping => o # UNKNOWN_MEMORY /\ rwg.escapes[o]}
    IN  [to EXCEPT !.defs = FoldSet(Target, @, objects), !.unknown = @ \cup from.unknown]

\* What was found on one of several paths.
AddPath(acc, path) ==
    [s |-> path.s, seen |-> path.seen,
     defs |-> [acc.defs EXCEPT !.defs = PutAll(@, path.defs.defs),
                               !.unknown = @ \cup path.defs.unknown]]

\* Going back from block B with the definitions that were found on the way: on from the block
\* in front, or on one path after the other, where blocks join.  A block is not visited twice,
\* be it on another path.
RECURSIVE CollectFromBlock(_, _, _, _, _), CollectFromBlocks(_, _, _, _)
CollectFromBlocks(acc, from, Bs, escaping) ==
    IF Bs = <<>> THEN acc
    ELSE CollectFromBlocks(
             AddPath(acc, CollectFromBlock(acc.s, from, Head(Bs), acc.seen, escaping)),
             from, Tail(Bs), escaping)
CollectOnPaths(s, defs, from, B, seen, escaping) ==
    CollectFromBlocks([s |-> s, defs |-> defs, seen |-> seen], from, rwg.preds[B], escaping)
OnlyDefs(defs) == [NoDefinitions EXCEPT !.defs = defs]
CollectBehind(s, found, B, seen, escaping) ==
    LET one == Len(rwg.preds[B]) = 1 IN
    CollectOnPaths(s, IF one THEN NoDefinitions ELSE found,
                   IF one THEN found ELSE OnlyDefs(found.defs), B, seen, escaping)
Passed(s, defs, B, seen, escaping) ==
    CollectBehind(s, joinDefinitions(s.D[B], defs, escaping), B, seen \cup {B}, escaping)
CollectFromBlock(s, defs, B, seen, escaping) ==
    IF B \in seen THEN [s |-> s, defs |-> defs, seen |-> seen]
    ELSE Passed(getAllBBlockDefinitions(s, B), defs, B, seen, escaping)

RECURSIVE collectAllDefinitions(_, _, _), UnknownAtCallers(_, _, _)

\* The PHI for unknown memory of procedure f and those of its calls, made on the first search.
UnknownMemory == [obj |-> UNKNOWN_MEMORY, lo |-> 0, hi |-> Top]
AllNodes(all) == [s |-> all.s, r |-> Values(all.r.defs) \cup all.r.unknown]
UnknownAtCall(s, phi, C) ==
    LET new == create(s, UnknownMemory, "CALLIN")
        n   == Newest(new)
    IN  IF s.input[C] # 0 THEN addDefUse(s, phi, {s.input[C]})
        ELSE Linked(n, AllNodes(collectAllDefinitions(
                         addDefUse([new EXCEPT !.input[C] = n], phi, {n}), C, TRUE)))
UnknownAtCallers(s, phi, callers) ==
    IF callers = <<>> THEN s
    ELSE UnknownAtCallers(UnknownAtCall(s, phi, Head(callers)), phi, Tail(callers))
collectAllDefinitionsInCallers(s, defs, f) ==
    LET old  == Get(s.inputs[f], UnknownMemory)
        new  == create(s, UnknownMemory, "INARG")
        made == IF old # {} THEN s
                ELSE [new EXCEPT !.inputs[f] = Put(@, UnknownMemory, {Newest(new)})]
        phi  == IF old # {} THEN CHOOSE n \in old : TRUE ELSE Newest(new)
    IN  IF rwg.callers[f] = <<>> THEN [s |-> s, r |-> defs]
        ELSE [s |-> UnknownAtCallers(made, phi, rwg.callers[f]),
              r |-> [defs EXCEPT !.unknown = @ \cup {phi}]]

\* All definitions that reach node n, those in its callers included.
CollectInProcedure(s, B, D, escaping) ==
    CollectOnPaths(s, NoDefinitions,
                   IF Len(rwg.preds[B]) = 1 THEN NoDefinitions ELSE OnlyDefs(D.kills),
                   B, {}, escaping)
InCallersToo(intra, B, D) ==
    [collectAllDefinitionsInCallers(intra.s, intra.defs, rwg.subg[B])
        EXCEPT !.r = joinDefinitions(@, D, FALSE)]
CollectBefore(s, B, D, escaping) ==
    InCallersToo(CollectInProcedure(s, B, D, escaping), B, D)
collectAllDefinitions(s, n, escaping) ==
    CollectBefore(s, CHOOSE B \in BlockOf(s, n) : TRUE,
                  IF escaping THEN findEscapingDefinitionsInBlock(s, n)
                  ELSE findDefinitionsInBlock(s, n), escaping)

findAllDefinitions(s, n) == AllNodes(collectAllDefinitions(s, n, FALSE))

-----------------------------------------------------------------------------
(* Queries                                                                 *)

usesUnknown(s, n) == \E ds \in Uses(s, n) : ds.obj = UNKNOWN_MEMORY

RECURSIVE FindEach(_, _, _, _)
FindEach(acc, B, D, uses) ==
    IF uses = <<>> THEN acc
    ELSE FindEach(Joined(acc.r, FindBehind(acc.s, B, D, Head(uses))), B, D, Tail(uses))
findDefinitions(s, n) ==
    IF usesUnknown(s, n) THEN findAllDefinitions(s, n)
    ELSE IF BlockOf(s, n) = {} THEN Nothing(s)
    ELSE FindEach(Nothing(s), CHOOSE B \in BlockOf(s, n) : TRUE, findDefinitionsInBlock(s, n),
                  SetToSeq(Uses(s, n)))

\* Fault: the definitions that a PHI stands for may be PHIs.
gatherNonPhisDefs_OneStep(s, nodes, phis) ==
    {n \in nodes : ~ isPhi(s, n)}
    \cup UNION {s.defuse[n] : n \in {n \in nodes : isPhi(s, n) /\ n \in DOMAIN s.defuse}}

\* Nodes with what PHIs among them stand for in place of these.
RECURSIVE gatherNonPhisDefs(_, _, _)
gatherNonPhisDefs(s, nodes, phis) ==
    LET new == {n \in nodes : isPhi(s, n)} \ phis
        defuse(n) == IF n \in DOMAIN s.defuse THEN s.defuse[n] ELSE {}
    IN  {n \in nodes : ~ isPhi(s, n)}
        \cup IF new = {} THEN {}
             ELSE gatherNonPhisDefs(s, UNION {defuse(n) : n \in new}, phis \cup new)

\* The definitions of what node n uses; they are searched once.
Search(s, n) == IF n \in DOMAIN s.defuse THEN s ELSE Linked(n, findDefinitions(s, n))
Answered(s, n) == [s |-> s, r |-> gatherNonPhisDefs(s, s.defuse[n], {})]
getDefinitions(s, n) == Answered(Search(s, n), n)

\* The same of some memory at a node, by a MU node put in front of that.
withMU(s, where, ds) ==
    LET new == create(s, ds, "MU")
    IN  insertBefore(new, CHOOSE B \in BlockOf(s, where) : TRUE, Newest(new), where)

\* All uses of the program, block by block.
RECURSIVE ComputeNodes(_, _), ComputeBlocks(_, _)
ComputeNodes(s, nodes) ==
    IF nodes = <<>> THEN s
    ELSE ComputeNodes(IF Uses(s, Head(nodes)) = {} THEN s ELSE Search(s, Head(nodes)), Tail(nodes))
ComputeBlocks(s, Bs) ==
    IF Bs = <<>> THEN s ELSE ComputeBlocks(ComputeNodes(s, s.nodes[Head(Bs)]), Tail(Bs))
computeAllDefinitions(s) == ComputeBlocks(s, rwg.blocks)
=============================================================================
