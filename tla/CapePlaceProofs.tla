--------------------------- MODULE CapePlaceProofs ---------------------------
(***************************************************************************)
(* In a structured program (CapePlace) whatever the tool places protects   *)
(* the run: proofs for CapePlace, for every program, in whatever order the *)
(* tool visits branches and accesses.                                      *)
(*                                                                         *)
(* The argument has two halves.  A placement that satisfies CodeInv, and   *)
(* preloads for every access (Coverage), makes every run safe: the run is  *)
(* in the transaction of a top exactly while it is in the top's part       *)
(* (RunInv), since the part is entered from the top only and left to its   *)
(* end only.  And the tool keeps CodeInv and comes to Coverage: the        *)
(* branch that it finds for an access is the top of the part that the      *)
(* access is in (PlInv, LoopsInv, AccessInv).                              *)
(***************************************************************************)
EXTENDS CapePlace, FlowGraphProofs, SequenceTheorems

-----------------------------------------------------------------------------
(* The program.                                                              *)

\* What is said of the program does not change.
LEMMA SameProgram ==
    ASSUME program' = program
    PROVE  /\ Structured' <=> Structured
           /\ UNCHANGED <<Tops, Parts, Ends, BlockTops, Touched, LoopTops, Branches, Accesses,
                          MarkedBranches, AnyBranches, SecretLoops, OuterLoops, LastingBranches>>
           /\ \A a : Region(a)' = Region(a) /\ Part(a)' = Part(a) /\ EndOf(a)' = EndOf(a)
                     /\ LoopOf(a)' = LoopOf(a) /\ Callees(Region(a))' = Callees(Region(a))
           /\ \A b : NearestLoops(b)' = NearestLoops(b)
           /\ \A b, L : IsExit(b, L)' <=> IsExit(b, L)
<1>1. succ' = succ
  BY DEF succ
<1>2. \A b : IsBr(b)' <=> IsBr(b)
  BY <1>1 DEF IsBr
<1>3. \A b : idom(b)' = idom(b) /\ ipostdom(b)' = ipostdom(b)
  BY <1>1 DEF idom, ipostdom
<1>4. \A b : RevCD(b)' = RevCD(b)
  BY <1>1 DEF RevCD
<1>5. \A h, l : LoopBlocks(h, l)' = LoopBlocks(h, l)
  BY <1>1 DEF LoopBlocks
<1>6. \A a, b : StrictlyDominates(a, b)' <=> StrictlyDominates(a, b)
  BY <1>1 DEF StrictlyDominates
<1>7. \A h : BackEdges(h)' = BackEdges(h)
  BY <1>1, <1>6 DEF BackEdges
<1>8. ASSUME NEW b  PROVE NearestLoops(b)' = NearestLoops(b)
  <2> DEFINE heads == {h \in Block : (h = b \/ StrictlyDominates(h, b)) /\ BackEdges(h) # {}}
             nearest == {h \in heads : \A g \in heads : g = h \/ StrictlyDominates(g, h)}
             of(h) == {<<h, LoopBlocks(h, a)>> : a \in BackEdges(h)}
  <2>1. heads' = heads
    BY <1>6, <1>7
  <2> HIDE DEF heads
  <2>2. nearest' = nearest
    BY <1>6, <2>1
  <2>3. \A h : of(h)' = of(h)
    BY <1>5, <1>7
  <2> HIDE DEF nearest, of
  <2>4. NearestLoops(b) = UNION {of(h) : h \in nearest}
    BY DEF NearestLoops, nearest, heads, of
  <2>5. NearestLoops(b)' = UNION {of(h)' : h \in nearest'}
    BY DEF NearestLoops, nearest, heads, of
  <2> QED
    BY <2>2, <2>3, <2>4, <2>5
<1>9. \A b, L : IsExit(b, L)' <=> IsExit(b, L)
  BY <1>1 DEF IsExit
<1>10. ASSUME NEW B  PROVE Callees(B)' = Callees(B)
  BY DEF Callees
<1>11. ASSUME NEW b, NEW L  PROVE LoopEnd(b, L)' = LoopEnd(b, L)
  BY <1>1 DEF LoopEnd
<1>12. Branches' = Branches /\ Accesses' = Accesses
  BY <1>2 DEF Branches, Accesses
<1>13. MarkedBranches' = MarkedBranches
  BY <1>12 DEF MarkedBranches
<1>14. SecretLoops' = SecretLoops
  <2> DEFINE of(b) == {loop \in NearestLoops(b) : IsExit(b, loop[2])}
  <2>1. \A b : of(b)' = of(b)
    BY <1>8, <1>9
  <2> HIDE DEF of
  <2>2. SecretLoops = UNION {of(b) : b \in MarkedBranches}
    BY DEF SecretLoops, of
  <2>3. SecretLoops' = UNION {of(b)' : b \in MarkedBranches'}
    BY DEF SecretLoops, of
  <2> QED
    BY <1>13, <2>1, <2>2, <2>3
<1>15. LastingBranches' = LastingBranches
  BY <1>13, <1>14 DEF LastingBranches
<1>16. \A a, e : RegionTo(a, e)' = RegionTo(a, e)
  BY <1>1 DEF RegionTo
<1>17. \A a, e : PartTo(a, e)' = PartTo(a, e)
  <2>1. ASSUME NEW a, NEW e  PROVE Callees(RegionTo(a, e))' = Callees(RegionTo(a, e))
    BY <1>16 DEF Callees
  <2> QED
    BY <1>16, <2>1 DEF PartTo
<1>18. OuterLoops' = OuterLoops
  BY <1>3, <1>14, <1>15, <1>17 DEF OuterLoops
<1>19. LoopTops' = LoopTops
  BY <1>3, <1>18 DEF LoopTops
<1>20. \A a : LoopOf(a)' = LoopOf(a)
  BY <1>3, <1>18 DEF LoopOf
<1>21. \A a : EndOf(a)' = EndOf(a)
  <2>1. ASSUME NEW a  PROVE LoopEnd(a, LoopOf(a)[2])' = LoopEnd(a, LoopOf(a)[2])
    BY <1>1, <1>20 DEF LoopEnd
  <2> QED
    BY <1>3, <1>19, <2>1 DEF EndOf
<1>22. \A a : Region(a)' = Region(a) /\ Part(a)' = Part(a)
  <2>1. \A a : RegionTo(a, EndOf(a))' = RegionTo(a, EndOf(a))
    BY <1>1, <1>21 DEF RegionTo
  <2>2. ASSUME NEW a  PROVE Callees(RegionTo(a, EndOf(a)))' = Callees(RegionTo(a, EndOf(a)))
    BY <2>1 DEF Callees
  <2>3. \A a : PartTo(a, EndOf(a))' = PartTo(a, EndOf(a))
    BY <2>1, <2>2 DEF PartTo
  <2> QED
    BY <2>1, <2>3 DEF Region, Part
<1>23. AnyBranches' = AnyBranches
  BY <1>13, <1>19 DEF AnyBranches
<1>24. Tops' = Tops
  BY <1>15, <1>19, <1>22 DEF Tops
<1>25. Parts' = Parts /\ Ends' = Ends
  BY <1>21, <1>22, <1>24 DEF Parts, Ends
<1>26. BlockTops' = BlockTops
  BY <1>12, <1>25 DEF BlockTops
<1>27. Touched' = Touched
  BY <1>19, <1>21, <1>24, <1>25, <1>26 DEF Touched
<1>28. \A f : NotCalled(f)' <=> NotCalled(f)
  BY <1>27 DEF NotCalled
<1>29. \A a : Callees(Region(a))' = Callees(Region(a))
  BY <1>22 DEF Callees
<1>30. \A a : SingleEntry(a)' <=> SingleEntry(a)
  BY <1>1, <1>21, <1>22, <1>28, <1>29 DEF SingleEntry
<1>31. \A a : Apart(a)' <=> Apart(a)
  BY <1>6, <1>22, <1>23, <1>24, <1>27 DEF Apart
<1>32. \A a : Marked(a)' <=> Marked(a)
  BY <1>4, <1>6, <1>13, <1>22, <1>23 DEF Marked
<1>33. ASSUME NEW a  PROVE OwnLoop(a)' <=> OwnLoop(a)
  BY <1>3, <1>4, <1>6, <1>8, <1>13, <1>18, <1>20, <1>22, <1>23 DEF OwnLoop
<1>34. \A a, b : Found(a, b)' <=> Found(a, b)
  BY <1>4, <1>15, <1>19, <1>20, <1>22 DEF Found
<1>35. SecretControlled' = SecretControlled
  BY <1>1, <1>12 DEF SecretControlled
<1>36. \A b : Quiet(b)' <=> Quiet(b)
  BY <1>4, <1>23, <1>25, <1>28, <1>35 DEF Quiet
<1>37. Structured' <=> Structured
  BY <1>12, <1>13, <1>14, <1>18, <1>19, <1>22, <1>24, <1>25, <1>26, <1>30, <1>31, <1>32, <1>33, <1>34, <1>36
     DEF Structured
<1> QED
  BY <1>8, <1>9, <1>12, <1>13, <1>14, <1>15, <1>18, <1>19, <1>20, <1>21, <1>22, <1>23, <1>24, <1>25, <1>26,
     <1>27, <1>29, <1>37

-----------------------------------------------------------------------------
(* What inserted calls do.                                                   *)

\* States of the transaction machinery.
Machine == [depth : Nat, loaded : SUBSET Buffer, ready : SUBSET Func]

\* A call of an operation leaves a state of the transaction machinery.
LEMMA ExecuteType ==
    ASSUME NEW m \in Machine, NEW o \in Ops
    PROVE  Execute(m, o) \in Machine
<1>1. m.depth \in Nat /\ m.loaded \in SUBSET Buffer /\ m.ready \in SUBSET Func
  BY DEF Machine
<1>2. CASE o.op = "start"
  <2>1. Execute(m, o) = [m EXCEPT !.depth = @ + 1]
    BY <1>2 DEF Execute
  <2> QED
    BY <1>1, <2>1 DEF Machine
<1>3. CASE o.op = "end"
  <2>1. Execute(m, o) = IF m.depth > 1 THEN [m EXCEPT !.depth = @ - 1]
                        ELSE [depth |-> 0, loaded |-> {}, ready |-> {}]
    BY <1>3 DEF Execute
  <2> QED
    BY <1>1, <2>1 DEF Machine
<1>4. CASE o.op = "data"
  <2>1. Execute(m, o) = IF m.depth = 0 THEN m ELSE [m EXCEPT !.loaded = @ \cup o.of]
    BY <1>4 DEF Execute
  <2>2. o.of \in SUBSET Buffer
    BY <1>4 DEF Ops
  <2> QED
    BY <1>1, <2>1, <2>2 DEF Machine
<1>5. CASE o.op = "code"
  <2>1. Execute(m, o) = IF m.depth = 0 THEN m ELSE [m EXCEPT !.ready = @ \cup o.of]
    BY <1>5 DEF Execute
  <2>2. o.of \in SUBSET Func
    BY <1>5 DEF Ops
  <2> QED
    BY <1>1, <2>1, <2>2 DEF Machine
<1> QED
  BY <1>2, <1>3, <1>4, <1>5 DEF Ops

\* The states between the calls.
IsExecution(m, m0, s) ==
    /\ m \in [0 .. Len(s) -> Machine] /\ m[0] = m0
    /\ \A i \in 1 .. Len(s) : m[i] = Execute(m[i - 1], s[i])

\* The states between the calls at a place exist, and Executed is the last of them.
LEMMA ExecutionExists ==
    ASSUME NEW m0 \in Machine, NEW s \in Seq(Ops)
    PROVE  \E m : IsExecution(m, m0, s) /\ Executed(m0, s) = m[Len(s)]
<1> DEFINE X == Nat \X Machine
           F == [x \in X |-> <<x[1] + 1, IF x[1] < Len(s) THEN Execute(x[2], s[x[1] + 1]) ELSE x[2]>>]
           Rec(g) == [i \in 0 .. Len(s) |-> IF i = 0 THEN m0 ELSE Execute(g[i - 1], s[i])]
           r == CHOOSE g : g = Rec(g)
<1>1. ASSUME NEW x \in X  PROVE F[x] \in X
  <2>1. x[1] \in Nat /\ x[2] \in Machine
    OBVIOUS
  <2>2. CASE x[1] < Len(s)
    <3>1. s[x[1] + 1] \in Ops
      BY <2>1, <2>2
    <3>2. Execute(x[2], s[x[1] + 1]) \in Machine
      BY <2>1, <3>1, ExecuteType
    <3> QED
      BY <2>1, <2>2, <3>2
  <2>3. CASE ~(x[1] < Len(s))
    BY <2>1, <2>3
  <2> QED
    BY <2>2, <2>3
<1>2. F \in [X -> X] /\ <<0, m0>> \in X
  BY <1>1
<1>3. PICK g : g \in [Nat -> X] /\ g[0] = <<0, m0>> /\ \A n \in Nat : g[n + 1] = F[g[n]]
  <2> HIDE DEF F, X
  <2>1. \E g : IsIteration(g, X, F, <<0, m0>>)
    BY <1>2, Iterates
  <2> QED
    BY <2>1 DEF IsIteration
<1> DEFINE A == {n \in Nat : g[n][1] = n}
<1>4. A = Nat
  <2>1. 0 \in A
    BY <1>3
  <2>2. ASSUME NEW n \in A  PROVE n + 1 \in A
    <3>1. g[n] \in X /\ g[n + 1] = F[g[n]] /\ g[n][1] = n
      BY <1>3
    <3>2. F[g[n]][1] = g[n][1] + 1
      BY <3>1
    <3> QED
      BY <3>1, <3>2
  <2> HIDE DEF A
  <2>3. A \in SUBSET Nat
    BY DEF A
  <2> QED
    BY <2>1, <2>2, <2>3, SetInduction
<1> DEFINE m == [i \in 0 .. Len(s) |-> g[i][2]]
<1>5. ASSUME NEW i \in 1 .. Len(s)  PROVE m[i] = Execute(m[i - 1], s[i])
  <2>1. i - 1 \in Nat /\ (i - 1) + 1 = i /\ i - 1 < Len(s) /\ i - 1 \in 0 .. Len(s) /\ i \in 0 .. Len(s)
    OBVIOUS
  <2>2. g[i - 1][1] = i - 1 /\ g[i - 1] \in X /\ g[i] = F[g[i - 1]]
    BY <1>3, <1>4, <2>1
  <2>3. g[i][2] = Execute(g[i - 1][2], s[i])
    BY <2>1, <2>2
  <2> QED
    BY <2>1, <2>3
<1>6. m \in [0 .. Len(s) -> Machine] /\ m[0] = m0
  BY <1>3
<1>7. m = Rec(m)
  <2>1. ASSUME NEW i \in 0 .. Len(s)  PROVE m[i] = Rec(m)[i]
    <3>1. CASE i = 0
      BY <1>6, <3>1
    <3>2. CASE i # 0
      <4>1. i \in 1 .. Len(s)
        BY <3>2
      <4>2. Rec(m)[i] = Execute(m[i - 1], s[i])
        BY <3>2
      <4> QED
        BY <1>5, <4>1, <4>2
    <3> QED
      BY <3>1, <3>2
  <2> QED
    BY <2>1
<1>8. r = Rec(r)
  BY <1>7
<1>9. Executed(m0, s) = r[Len(s)]
  BY DEF Executed
<1> HIDE DEF r, m
<1> DEFINE B == {i \in Nat : i <= Len(s) => r[i] = m[i]}
<1>10. B = Nat
  <2>1. 0 \in B
    BY <1>6, <1>8
  <2>2. ASSUME NEW i \in B  PROVE i + 1 \in B
    <3>1. CASE i + 1 <= Len(s)
      <4>1. i + 1 \in 1 .. Len(s) /\ (i + 1) - 1 = i /\ i <= Len(s) /\ i + 1 # 0
        BY <3>1
      <4>2. r[i + 1] = Execute(r[i], s[i + 1])
        BY <1>8, <4>1
      <4>3. m[i + 1] = Execute(m[i], s[i + 1])
        BY <1>5, <4>1
      <4> QED
        BY <4>1, <4>2, <4>3
    <3> QED
      BY <3>1
  <2> HIDE DEF B
  <2>3. B \in SUBSET Nat
    BY DEF B
  <2> QED
    BY <2>1, <2>2, <2>3, SetInduction
<1>11. r[Len(s)] = m[Len(s)]
  BY <1>10
<1> QED
  BY <1>5, <1>6, <1>9, <1>11 DEF IsExecution

\* A transaction is opened, and what follows preloads.
Opens(s) == Len(s) >= 1 /\ s[1] = Start /\ \A i \in 2 .. Len(s) : s[i].op \in {"data", "code"}

\* The buffers and the functions that calls preload.
DataIn(s) == UNION {s[i].of : i \in {j \in DOMAIN s : s[j].op = "data"}}
CodeIn(s) == UNION {s[i].of : i \in {j \in DOMAIN s : s[j].op = "code"}}

\* After any number of ends the program is not in a transaction.
LEMMA ExecutedEnds ==
    ASSUME NEW m0 \in Machine, m0.depth <= 1, NEW s \in Seq(Ops), s # <<>>,
           \A i \in DOMAIN s : s[i] = End
    PROVE  Executed(m0, s).depth = 0
<1>1. PICK m : IsExecution(m, m0, s) /\ Executed(m0, s) = m[Len(s)]
  BY ExecutionExists
<1> DEFINE A == {n \in Nat : n + 1 <= Len(s) => m[n + 1].depth = 0}
<1>2. ASSUME NEW i \in 1 .. Len(s), m[i - 1].depth <= 1  PROVE m[i].depth = 0
  <2>1. m[i] = Execute(m[i - 1], s[i]) /\ s[i].op = "end"
    BY <1>1 DEF IsExecution, End
  <2>2. m[i] = IF m[i - 1].depth > 1 THEN [m[i - 1] EXCEPT !.depth = @ - 1]
               ELSE [depth |-> 0, loaded |-> {}, ready |-> {}]
    BY <2>1 DEF Execute
  <2>3. i - 1 \in 0 .. Len(s)
    OBVIOUS
  <2>4. m[i - 1].depth \in Nat
    BY <1>1, <2>3 DEF IsExecution, Machine
  <2> QED
    BY <1>2, <2>2, <2>4
<1>3. 0 \in A
  <2>1. ASSUME 1 <= Len(s)  PROVE m[1].depth = 0
    <3>1. 1 \in 1 .. Len(s) /\ m[1 - 1] = m0
      BY <1>1, <2>1 DEF IsExecution
    <3> QED
      BY <1>2, <3>1
  <2> QED
    BY <2>1
<1>4. ASSUME NEW n \in A  PROVE n + 1 \in A
  <2>1. ASSUME (n + 1) + 1 <= Len(s)  PROVE m[(n + 1) + 1].depth = 0
    <3>1. (n + 1) + 1 \in 1 .. Len(s) /\ ((n + 1) + 1) - 1 = n + 1 /\ m[n + 1].depth = 0
      BY <2>1
    <3> QED
      BY <1>2, <3>1
  <2> QED
    BY <2>1
<1>5. A = Nat
  <2> HIDE DEF A
  <2>1. A \in SUBSET Nat
    BY DEF A
  <2> QED
    BY <1>3, <1>4, <2>1, SetInduction
<1>6. Len(s) - 1 \in Nat /\ (Len(s) - 1) + 1 = Len(s)
  OBVIOUS
<1>7. Len(s) - 1 \in A
  BY <1>5, <1>6
<1>8. m[Len(s)].depth = 0
  BY <1>6, <1>7
<1> QED
  BY <1>1, <1>8

\* After a start the program is in a transaction that has preloaded what follows.
LEMMA ExecutedOpens ==
    ASSUME NEW m0 \in Machine, m0.depth = 0, NEW s \in Seq(Ops), Opens(s)
    PROVE  /\ Executed(m0, s).depth = 1
           /\ DataIn(s) \subseteq Executed(m0, s).loaded
           /\ CodeIn(s) \subseteq Executed(m0, s).ready
<1>1. PICK m : IsExecution(m, m0, s) /\ Executed(m0, s) = m[Len(s)]
  BY ExecutionExists
<1> DEFINE Has(i) == /\ m[i].depth = 1
                     /\ \A j \in 1 .. i : /\ s[j].op = "data" => s[j].of \subseteq m[i].loaded
                                          /\ s[j].op = "code" => s[j].of \subseteq m[i].ready
           A == {n \in Nat : n + 1 <= Len(s) => Has(n + 1)}
<1>2. Has(1)
  <2>1. 1 \in 1 .. Len(s) /\ 1 - 1 = 0 /\ s[1] = Start /\ s[1].op = "start"
    BY DEF Opens, Start
  <2>2. m[1] = Execute(m0, s[1])
    BY <1>1, <2>1 DEF IsExecution
  <2>3. m[1] = [m0 EXCEPT !.depth = @ + 1]
    BY <2>1, <2>2 DEF Execute
  <2>4. m[1].depth = 1
    BY <2>3 DEF Machine
  <2> QED
    BY <2>1, <2>4
<1>3. ASSUME NEW n \in A  PROVE n + 1 \in A
  <2> DEFINE i == n + 1
  <2>1. ASSUME i + 1 <= Len(s)  PROVE Has(i + 1)
    <3>1. i + 1 \in 1 .. Len(s) /\ i + 1 \in 2 .. Len(s) /\ (i + 1) - 1 = i /\ i \in 0 .. Len(s) /\ i \in Nat
      BY <2>1
    <3>2. Has(i)
      BY <2>1
    <3>3. m[i + 1] = Execute(m[i], s[i + 1]) /\ s[i + 1].op \in {"data", "code"} /\ m[i] \in Machine
      BY <1>1, <3>1 DEF IsExecution, Opens
    <3>4. s[i + 1] \in Ops
      BY <3>1
    <3> HIDE DEF i
    <3>5. m[i].depth = 1 /\ m[i].loaded \subseteq Buffer /\ m[i].ready \subseteq Func
      BY <3>2, <3>3 DEF Machine
    <3>6. CASE s[i + 1].op = "data"
      <4>1. m[i + 1] = [m[i] EXCEPT !.loaded = @ \cup s[i + 1].of]
        BY <3>3, <3>5, <3>6 DEF Execute
      <4>2. /\ m[i + 1].depth = 1 /\ m[i + 1].loaded = m[i].loaded \cup s[i + 1].of
            /\ m[i + 1].ready = m[i].ready
        BY <3>3, <3>5, <4>1 DEF Machine
      <4> QED
        BY <3>1, <3>2, <3>6, <4>2
    <3>7. CASE s[i + 1].op = "code"
      <4>1. m[i + 1] = [m[i] EXCEPT !.ready = @ \cup s[i + 1].of]
        BY <3>3, <3>5, <3>7 DEF Execute
      <4>2. /\ m[i + 1].depth = 1 /\ m[i + 1].ready = m[i].ready \cup s[i + 1].of
            /\ m[i + 1].loaded = m[i].loaded
        BY <3>3, <3>5, <4>1 DEF Machine
      <4> QED
        BY <3>1, <3>2, <3>7, <4>2
    <3> QED
      BY <3>3, <3>6, <3>7
  <2> QED
    BY <2>1
<1>4. 0 \in A
  BY <1>2
<1>5. A = Nat
  <2> HIDE DEF A
  <2>1. A \in SUBSET Nat
    BY DEF A
  <2> QED
    BY <1>3, <1>4, <2>1, SetInduction
<1>6. Len(s) - 1 \in Nat /\ (Len(s) - 1) + 1 = Len(s)
  BY DEF Opens
<1>7. Has(Len(s))
  <2>1. Len(s) - 1 \in A
    BY <1>5, <1>6
  <2>2. Has((Len(s) - 1) + 1)
    BY <1>6, <2>1
  <2> QED
    BY <1>6, <2>2
<1>8. DOMAIN s = 1 .. Len(s)
  OBVIOUS
<1> HIDE DEF A
<1>9. DataIn(s) \subseteq m[Len(s)].loaded
  BY <1>7, <1>8, Zenon DEF DataIn
<1>10. CodeIn(s) \subseteq m[Len(s)].ready
  BY <1>7, <1>8, Zenon DEF CodeIn
<1> QED
  BY <1>1, <1>7, <1>9, <1>10

\* Where nothing is inserted nothing happens.
LEMMA ExecutedNothing ==
    ASSUME NEW m0 \in Machine
    PROVE  Executed(m0, <<>>) = m0
<1>1. <<>> \in Seq(Ops) /\ Len(<<>>) = 0
  OBVIOUS
<1>2. PICK m : IsExecution(m, m0, <<>>) /\ Executed(m0, <<>>) = m[Len(<<>>)]
  BY <1>1, ExecutionExists
<1> QED
  BY <1>1, <1>2 DEF IsExecution

-----------------------------------------------------------------------------
(* Dominators.                                                               *)

\* The blocks that are reached by a way around e.
LEMMA AvoidingOne ==
    ASSUME NEW g, IsGraph(g), NEW S \in SUBSET DOMAIN g, NEW e
    PROVE  /\ ReachableAvoiding(g, S, {e}) \subseteq DOMAIN g
           /\ ReachableAvoiding(g, S, {e}) \cap {e} = {}
           /\ S \ {e} \subseteq ReachableAvoiding(g, S, {e})
           /\ \A b \in ReachableAvoiding(g, S, {e}) : g[b] \ {e} \subseteq ReachableAvoiding(g, S, {e})
           /\ \A C : S \ {e} \subseteq C /\ (\A b \in ReachableAvoiding(g, S, {e}) \cap C : g[b] \ {e} \subseteq C)
                       => ReachableAvoiding(g, S, {e}) \subseteq C
<1> DEFINE Avoid == {e}
           Q == ReachableAvoiding(g, S, Avoid)
<1>1. /\ Q \subseteq DOMAIN g /\ Q \cap Avoid = {} /\ S \ Avoid \subseteq Q
      /\ \A b \in Q : g[b] \ Avoid \subseteq Q
      /\ \A C : S \ Avoid \subseteq C /\ (\A b \in Q \cap C : g[b] \ Avoid \subseteq C) => Q \subseteq C
  <2> HIDE DEF Avoid
  <2> QED
    BY ReachableExact, Zenon
<1> QED
  BY <1>1

-----------------------------------------------------------------------------
(* The graphs of the program.                                                *)

\* The parts of a program have their types, and its control flow and the reverse of it are graphs.
LEMMA ProgramFacts ==
    ASSUME program \in Programs
    PROVE  /\ succ \in [Block -> SUBSET Block] /\ DOMAIN succ = Block /\ IsGraph(succ)
           /\ Reversed(succ) \in [Block -> SUBSET Block] /\ IsGraph(Reversed(succ))
           /\ program.func \in [Block -> Func] /\ program.entry \in [Func -> Block]
           /\ program.main \in Func
           /\ program.callee \in [Block -> SUBSET Func] /\ program.blocks \subseteq Block
           /\ program.access \in [Block -> Seq(SUBSET Buffer)]
           /\ program.nodes \subseteq Node /\ program.addDep \subseteq Node
<1>1. program \in ProgramType
  BY ProgramsAssumption
<1>2. succ \in [Block -> SUBSET Block] /\ DOMAIN succ = Block
  BY <1>1 DEF succ, ProgramType
<1>3. IsFiniteSet(Block)
  BY PlaceAssumption
<1>4. Reversed(succ) \in [Block -> SUBSET Block]
  BY <1>2 DEF Reversed, Pred
<1> QED
  BY <1>1, <1>2, <1>3, <1>4 DEF IsGraph, ProgramType

\* Branches stay in their function, calls go to the entry of the callee and up in rank, and
\* marked nodes are in marked blocks.
LEMMA FuncFacts ==
    ASSUME program \in Programs
    PROVE  /\ \A b \in Block : \A c \in succ[b] : program.func[c] = program.func[b]
           /\ \A b \in Block : \A f \in program.callee[b] : program.func[program.entry[f]] = f
           /\ program.func[program.entry[program.main]] = program.main
           /\ \A n \in program.nodes : n[1] \in program.blocks
           /\ \A n \in program.nodes : n[2] # 0 => n[2] \in DOMAIN program.access[n[1]]
           /\ \E rank \in [Func -> 1 .. Cardinality(Func)] :
                 \A b \in Block : \A f \in program.callee[b] : rank[f] > rank[program.func[b]]
<1>1. program.callee \in [Block -> SUBSET Func]
  BY ProgramFacts
<1>2. \A f \in {program.main} \cup UNION Range(program.callee) : program.func[program.entry[f]] = f
  BY ProgramsAssumption
<1>3. \A b \in Block : program.callee[b] \subseteq UNION Range(program.callee)
  BY <1>1 DEF Range
<1> QED
  BY <1>2, <1>3, ProgramsAssumption DEF succ

\* The blocks between a and e.
LEMMA RegionFacts ==
    ASSUME program \in Programs, NEW a \in Block, NEW e, a # e
    PROVE  LET R == RegionTo(a, e) IN
           /\ R \subseteq Block /\ a \notin R /\ e \notin R
           /\ \A b \in R \cup {a} : succ[b] \subseteq R \cup {a, e}
           /\ \A C : a \in C /\ (\A b \in (R \cup {a}) \cap C : succ[b] \ {e} \subseteq C) => R \subseteq C
<1> DEFINE Q == ReachableAvoiding(succ, {a}, {e})
           R == RegionTo(a, e)
<1>1. IsGraph(succ) /\ {a} \in SUBSET DOMAIN succ /\ DOMAIN succ = Block
  BY ProgramFacts
<1>2. /\ Q \subseteq Block /\ Q \cap {e} = {} /\ {a} \ {e} \subseteq Q
      /\ \A b \in Q : succ[b] \ {e} \subseteq Q
      /\ \A C : {a} \ {e} \subseteq C /\ (\A b \in Q \cap C : succ[b] \ {e} \subseteq C) => Q \subseteq C
  BY <1>1, AvoidingOne
<1> HIDE DEF Q
<1>3. R = Q \ {a}
  BY DEF RegionTo, Q
<1>4. a \in Q /\ Q = R \cup {a}
  BY <1>2, <1>3
<1> HIDE DEF R
<1>5. R \subseteq Block /\ a \notin R /\ e \notin R
  BY <1>2, <1>3
<1>6. \A b \in R \cup {a} : succ[b] \subseteq R \cup {a, e}
  BY <1>2, <1>4
<1>7. \A C : a \in C /\ (\A b \in (R \cup {a}) \cap C : succ[b] \ {e} \subseteq C) => R \subseteq C
  BY <1>2, <1>4
<1> QED
  BY <1>5, <1>6, <1>7, Zenon DEF R

\* What leads to a strict postdominator of a leads to an exit by no other way.
LEMMA NoExitBefore ==
    ASSUME program \in Programs, NEW a \in Block, NEW e \in StrictPostDominators(succ, a)
    PROVE  /\ e \in Block /\ e # a
           /\ \A b \in RegionTo(a, e) \cup {a} : IsBr(b)
<1> DEFINE V == ReachableAvoiding(Reversed(succ), Exits(succ), {e})
<1>1. IsGraph(Reversed(succ)) /\ DOMAIN Reversed(succ) = Block /\ DOMAIN succ = Block
  BY ProgramFacts
<1>2. e \in Block \ {a} /\ a \notin V
  BY <1>1 DEF StrictPostDominators, StrictDominators
<1>3. Exits(succ) \in SUBSET DOMAIN Reversed(succ)
  BY <1>1 DEF Exits
<1>4. /\ Exits(succ) \ {e} \subseteq V
      /\ \A b \in V : Reversed(succ)[b] \ {e} \subseteq V
  <2> DEFINE G == Reversed(succ)
             X == Exits(succ)
  <2>1. IsGraph(G) /\ X \in SUBSET DOMAIN G
    BY <1>1, <1>3
  <2> HIDE DEF G, X
  <2>2. /\ X \ {e} \subseteq ReachableAvoiding(G, X, {e})
        /\ \A b \in ReachableAvoiding(G, X, {e}) : G[b] \ {e} \subseteq ReachableAvoiding(G, X, {e})
    BY <2>1, AvoidingOne, Zenon
  <2> QED
    BY <2>2 DEF G, X
<1> HIDE DEF V
<1> DEFINE C == Block \ V
           R == RegionTo(a, e)
<1>5. ASSUME NEW b \in (R \cup {a}) \cap C  PROVE succ[b] \ {e} \subseteq C
  <2>1. ASSUME NEW c \in succ[b] \ {e}, c \in V  PROVE FALSE
    <3>1. b \in Block /\ b # e
      BY <1>2, RegionFacts
    <3>2. c \in Block
      BY <3>1, ProgramFacts
    <3>3. b \in Reversed(succ)[c]
      BY <1>1, <2>1, <3>1, <3>2 DEF Reversed, Pred
    <3>4. b \in V
      BY <1>4, <2>1, <3>1, <3>3
    <3> QED
      BY <1>5, <3>4
  <2>2. succ[b] \subseteq Block
    BY <1>5, ProgramFacts
  <2> QED
    BY <2>1, <2>2
<1>6. R \subseteq C /\ R \subseteq Block /\ e \notin R
  <2> HIDE DEF C, R
  <2>1. a \in C
    BY <1>2 DEF C
  <2>2. /\ R \subseteq Block /\ e \notin R
        /\ a \in C /\ (\A b \in (R \cup {a}) \cap C : succ[b] \ {e} \subseteq C) => R \subseteq C
    BY <1>2, RegionFacts, Zenon DEF R
  <2> QED
    BY <1>5, <2>1, <2>2
<1>7. ASSUME NEW b \in R \cup {a}  PROVE IsBr(b)
  <2>1. b \in Block /\ b # e /\ b \notin V
    BY <1>2, <1>6
  <2>2. b \notin Exits(succ)
    BY <1>4, <2>1
  <2> QED
    BY <1>1, <2>1, <2>2 DEF Exits, IsBr
<1> QED
  BY <1>2, <1>7

\* The end of a transaction is a postdominator of its start.
LEMMA EndFacts ==
    ASSUME program \in Programs, NEW a \in Block, EndOf(a) # NoBlock
    PROVE  EndOf(a) \in StrictPostDominators(succ, a)
<1>1. DOMAIN succ = Block
  BY ProgramFacts
<1>2. CASE a \in LoopTops
  <2> DEFINE L == LoopOf(a)[2]
             out == {c \in StrictPostDominators(succ, a) : c \notin L}
             doms == [c \in Block |-> IF c = a THEN out ELSE StrictPostDominators(succ, c) \cap out]
             near == {d \in doms[a] : doms[a] = {d} \cup doms[d]}
  <2>1. EndOf(a) = Nearest(doms, a, NoBlock)
    BY <1>2 DEF EndOf, LoopEnd
  <2>2. doms[a] = out
    OBVIOUS
  <2> HIDE DEF doms
  <2>3. EndOf(a) = IF near = {} THEN NoBlock ELSE CHOOSE d \in near : TRUE
    BY <2>1 DEF Nearest
  <2>4. EndOf(a) \in near
    BY <2>3
  <2> QED
    BY <2>2, <2>4
<1>3. CASE a \notin LoopTops
  <2> DEFINE doms == [b \in DOMAIN succ |-> StrictPostDominators(succ, b)]
             near == {d \in doms[a] : doms[a] = {d} \cup doms[d]}
  <2>1. EndOf(a) = Nearest(doms, a, NoBlock)
    BY <1>3 DEF EndOf, ipostdom, IPostDom
  <2>2. doms[a] = StrictPostDominators(succ, a)
    BY <1>1
  <2> HIDE DEF doms
  <2>3. EndOf(a) = IF near = {} THEN NoBlock ELSE CHOOSE d \in near : TRUE
    BY <2>1 DEF Nearest
  <2>4. EndOf(a) \in near
    BY <2>3
  <2> QED
    BY <2>2, <2>4
<1> QED
  BY <1>2, <1>3

\* The functions that are called from the blocks B.
LEMMA CalleesFacts ==
    ASSUME program \in Programs, NEW B \in SUBSET Block
    PROVE  /\ Callees(B) \subseteq Func
           /\ \A b \in B : program.callee[b] \subseteq Callees(B)
           /\ \A b \in Block : program.func[b] \in Callees(B) => program.callee[b] \subseteq Callees(B)
           /\ \A f \in Callees(B) : \E b \in Block :
                 (b \in B \/ program.func[b] \in Callees(B)) /\ f \in program.callee[b]
<1> DEFINE g == [f \in Func |-> UNION {program.callee[b] : b \in {c \in Block : program.func[c] = f}}]
           S == UNION {program.callee[b] : b \in B}
           Q == Reachable(g, S)
<1>1. program.callee \in [Block -> SUBSET Func] /\ program.func \in [Block -> Func] /\ IsFiniteSet(Func)
  BY ProgramFacts, PlaceAssumption
<1>2. IsGraph(g) /\ DOMAIN g = Func
  BY <1>1 DEF IsGraph
<1>3. S \in SUBSET DOMAIN g
  BY <1>1
<1>4. Callees(B) = Q
  BY DEF Callees
<1>5. \A b \in B : program.callee[b] \subseteq S
  OBVIOUS
<1>6. \A b \in Block : program.callee[b] \subseteq g[program.func[b]]
  BY <1>1
<1>7. \A f \in S : \E b \in B : f \in program.callee[b]
  OBVIOUS
<1>8. \A f \in Func : \A h \in g[f] : \E b \in Block : program.func[b] = f /\ h \in program.callee[b]
  BY <1>1
<1> HIDE DEF g, S
<1>9. /\ Q \subseteq Func /\ S \subseteq Q /\ \A f \in Q : g[f] \subseteq Q
      /\ \A C : S \subseteq C /\ (\A f \in Q \cap C : g[f] \subseteq C) => Q \subseteq C
  BY <1>2, <1>3, ReachableLeast, Zenon
<1> HIDE DEF Q
<1>10. ASSUME NEW f \in Q
       PROVE  \E b \in Block : (b \in B \/ program.func[b] \in Q) /\ f \in program.callee[b]
  <2> DEFINE C == {h \in Q : \E b \in Block : (b \in B \/ program.func[b] \in Q) /\ h \in program.callee[b]}
  <2>1. S \subseteq C
    BY <1>7, <1>9
  <2>2. ASSUME NEW h \in Q \cap C  PROVE g[h] \subseteq C
    BY <1>8, <1>9
  <2>3. Q \subseteq C
    <3> HIDE DEF C
    <3> QED
      BY <1>9, <2>1, <2>2
  <2> QED
    BY <2>3
<1> QED
  BY <1>4, <1>5, <1>6, <1>9, <1>10

\* The blocks that are reached from s by a way around e.
LEMMA AvoidingFrom ==
    ASSUME NEW g, IsGraph(g), NEW s, {s} \in SUBSET DOMAIN g, NEW e
    PROVE  /\ {s} \ {e} \subseteq ReachableAvoiding(g, {s}, {e})
           /\ \A b \in ReachableAvoiding(g, {s}, {e}) : g[b] \ {e} \subseteq ReachableAvoiding(g, {s}, {e})
           /\ \A C : {s} \ {e} \subseteq C /\ (\A b \in ReachableAvoiding(g, {s}, {e}) \cap C : g[b] \ {e} \subseteq C)
                       => ReachableAvoiding(g, {s}, {e}) \subseteq C
<1> DEFINE S == {s}
<1>1. S \in SUBSET DOMAIN g
  OBVIOUS
<1> HIDE DEF S
<1>2. /\ S \ {e} \subseteq ReachableAvoiding(g, S, {e})
      /\ \A b \in ReachableAvoiding(g, S, {e}) : g[b] \ {e} \subseteq ReachableAvoiding(g, S, {e})
      /\ \A C : S \ {e} \subseteq C /\ (\A b \in ReachableAvoiding(g, S, {e}) \cap C : g[b] \ {e} \subseteq C)
                       => ReachableAvoiding(g, S, {e}) \subseteq C
  BY <1>1, AvoidingOne, Zenon
<1> QED
  BY <1>2 DEF S

\* A strict dominator of a block that is reached is reached.
LEMMA DomReach ==
    ASSUME NEW g, IsGraph(g), NEW s \in DOMAIN g, NEW d \in Reachable(g, {s}),
           NEW c \in StrictDominators(g, {s}, d)
    PROVE  c \in Reachable(g, {s})
<1> DEFINE Q == ReachableAvoiding(g, {s}, {c})
<1>1. {s} \in SUBSET DOMAIN g /\ d \notin Q
  BY DEF StrictDominators
<1>2. /\ Reachable(g, {s}) \subseteq DOMAIN g /\ {s} \subseteq Reachable(g, {s})
      /\ \A b \in Reachable(g, {s}) : g[b] \subseteq Reachable(g, {s})
      /\ \A C : {s} \subseteq C /\ (\A b \in Reachable(g, {s}) \cap C : g[b] \subseteq C)
                  => Reachable(g, {s}) \subseteq C
  BY <1>1, ReachableLeast, Zenon
<1>3. /\ {s} \ {c} \subseteq Q /\ \A b \in Q : g[b] \ {c} \subseteq Q
  BY <1>1, AvoidingFrom
<1> HIDE DEF Q
<1>4. ASSUME c \notin Reachable(g, {s})  PROVE FALSE
  <2>1. {s} \subseteq Q
    BY <1>2, <1>3, <1>4
  <2>2. \A b \in Reachable(g, {s}) \cap Q : g[b] \subseteq Q
    BY <1>2, <1>3, <1>4
  <2>3. Reachable(g, {s}) \subseteq Q
    BY <1>2, <2>1, <2>2
  <2> QED
    BY <1>1, <2>3
<1> QED
  BY <1>4

\* No two blocks that are reached dominate each other.
LEMMA DomAntisym ==
    ASSUME NEW g, IsGraph(g), NEW s \in DOMAIN g, NEW a \in Reachable(g, {s}),
           NEW c \in StrictDominators(g, {s}, a), a \in StrictDominators(g, {s}, c)
    PROVE  FALSE
<1> DEFINE Qa == ReachableAvoiding(g, {s}, {a})
           Qc == ReachableAvoiding(g, {s}, {c})
<1>1. {s} \in SUBSET DOMAIN g /\ a \notin Qc /\ c \notin Qa /\ a # c
  BY DEF StrictDominators
<1>2. /\ Reachable(g, {s}) \subseteq DOMAIN g /\ {s} \subseteq Reachable(g, {s})
      /\ \A b \in Reachable(g, {s}) : g[b] \subseteq Reachable(g, {s})
      /\ \A C : {s} \subseteq C /\ (\A b \in Reachable(g, {s}) \cap C : g[b] \subseteq C)
                  => Reachable(g, {s}) \subseteq C
  BY <1>1, ReachableLeast, Zenon
<1>3. {s} \ {c} \subseteq Qc /\ \A b \in Qc : g[b] \ {c} \subseteq Qc
  BY <1>1, AvoidingFrom
<1>4. {s} \ {a} \subseteq Qa /\ \A b \in Qa : g[b] \ {a} \subseteq Qa
  BY <1>1, AvoidingFrom
<1> HIDE DEF Qa, Qc
<1>5. {s} \subseteq Qa \cap Qc
  BY <1>1, <1>3, <1>4
<1>6. ASSUME NEW b \in Qa \cap Qc  PROVE g[b] \subseteq Qa \cap Qc
  BY <1>1, <1>3, <1>4
<1>7. Reachable(g, {s}) \subseteq Qa \cap Qc
  BY <1>2, <1>5, <1>6
<1> QED
  BY <1>1, <1>7

\* Strict dominance is transitive among the blocks that are reached.
LEMMA DomTransitive ==
    ASSUME NEW g, IsGraph(g), NEW s \in DOMAIN g, NEW d, NEW a \in StrictDominators(g, {s}, d),
           NEW c \in StrictDominators(g, {s}, a), a \in Reachable(g, {s})
    PROVE  c \in StrictDominators(g, {s}, d)
<1> DEFINE Qa == ReachableAvoiding(g, {s}, {a})
           Qc == ReachableAvoiding(g, {s}, {c})
<1>1. {s} \in SUBSET DOMAIN g /\ a \notin Qc /\ d \notin Qa /\ a # c /\ c \in DOMAIN g /\ a # d
  BY DEF StrictDominators
<1>2. /\ {s} \ {c} \subseteq Qc /\ \A b \in Qc : g[b] \ {c} \subseteq Qc
      /\ \A C : {s} \ {c} \subseteq C /\ (\A b \in Qc \cap C : g[b] \ {c} \subseteq C) => Qc \subseteq C
  BY <1>1, AvoidingFrom
<1>3. {s} \ {a} \subseteq Qa /\ \A b \in Qa : g[b] \ {a} \subseteq Qa
  BY <1>1, AvoidingFrom
<1>4. c # d
  <2>1. ASSUME c = d  PROVE FALSE
    BY <2>1, DomAntisym
  <2> QED
    BY <2>1
<1> HIDE DEF Qa
<1>5. {s} \ {c} \subseteq Qa
  <2> HIDE DEF Qc
  <2> QED
    BY <1>1, <1>2, <1>3
<1>6. \A b \in Qc \cap Qa : g[b] \ {c} \subseteq Qa
  <2> HIDE DEF Qc
  <2> QED
    BY <1>1, <1>2, <1>3
<1>7. Qc \subseteq Qa
  <2> HIDE DEF Qc
  <2> QED
    BY <1>2, <1>5, <1>6
<1>8. d \notin Qc
  BY <1>1, <1>7
<1> QED
  BY <1>1, <1>4, <1>8 DEF StrictDominators

\* The immediate dominator of a block dominates it.
LEMMA IdomFacts ==
    ASSUME program \in Programs, NEW h \in Block, idom(h) # NoBlock
    PROVE  idom(h) \in StrictDominators(succ, {program.entry[program.func[h]]}, h)
<1> DEFINE s == {program.entry[program.func[h]]}
           doms == [b \in DOMAIN succ |-> StrictDominators(succ, s, b)]
           near == {d \in doms[h] : doms[h] = {d} \cup doms[d]}
<1>1. h \in DOMAIN succ
  BY ProgramFacts
<1>2. idom(h) = Nearest(doms, h, NoBlock)
  BY DEF idom, IDom
<1>3. doms[h] = StrictDominators(succ, s, h)
  BY <1>1
<1> HIDE DEF doms
<1>4. idom(h) = IF near = {} THEN NoBlock ELSE CHOOSE d \in near : TRUE
  BY <1>2 DEF Nearest
<1>5. idom(h) \in near
  BY <1>4
<1> QED
  BY <1>3, <1>5

\* The loops that are found for a branch.
LEMMA LoopFacts ==
    ASSUME program \in Programs, NEW b, NEW loop \in NearestLoops(b)
    PROVE  loop[1] \in Block /\ loop[1] \in loop[2] /\ loop = <<loop[1], loop[2]>>
<1>1. PICK h \in Block : \E l \in BackEdges(h) : loop = <<h, LoopBlocks(h, l)>>
  BY DEF NearestLoops
<1>2. \A l : h \in LoopBlocks(h, l)
  BY DEF LoopBlocks
<1> QED
  BY <1>1, <1>2

\* A secret loop holds its first block, and a marked branch leaves it.
LEMMA LoopTopFacts ==
    ASSUME program \in Programs, NEW loop \in SecretLoops
    PROVE  /\ loop[1] \in Block /\ loop[1] \in loop[2] /\ loop = <<loop[1], loop[2]>>
           /\ \E b \in MarkedBranches : loop \in NearestLoops(b) /\ IsExit(b, loop[2])
<1>1. PICK b \in MarkedBranches : loop \in NearestLoops(b) /\ IsExit(b, loop[2])
  BY DEF SecretLoops
<1> QED
  BY <1>1, LoopFacts

\* The branches and loop tops that get a transaction are blocks.
LEMMA LoopTopsType ==
    ASSUME program \in Programs, Structured
    PROVE  LoopTops \subseteq Block /\ Tops \subseteq Block /\ MarkedBranches \subseteq Block
<1>1. MarkedBranches \subseteq Block /\ LastingBranches \subseteq MarkedBranches
  BY DEF MarkedBranches, LastingBranches
<1>2. ASSUME NEW a \in LoopTops  PROVE a \in Block
  <2>1. PICK loop \in OuterLoops : a = idom(loop[1])
    BY DEF LoopTops
  <2>2. loop[1] \in Block
    BY <2>1, LoopTopFacts DEF OuterLoops
  <2>3. a # NoBlock
    BY DEF Structured
  <2>4. a \in StrictDominators(succ, {program.entry[program.func[loop[1]]]}, loop[1])
    BY <2>1, <2>2, <2>3, IdomFacts
  <2> QED
    BY <2>4, ProgramFacts DEF StrictDominators
<1> QED
  BY <1>1, <1>2 DEF Tops

\* The region of a, and the functions that are called in it.
LEMMA TopFacts ==
    ASSUME program \in Programs, Structured, NEW a \in Tops
    PROVE  /\ a \in Block /\ EndOf(a) \in Block /\ EndOf(a) # a /\ EndOf(a) # NoBlock
           /\ a \notin Parts /\ EndOf(a) \notin Tops \cup Parts \cup BlockTops
           /\ Region(a) \subseteq Block /\ Part(a) \subseteq Block /\ Part(a) \subseteq Parts
           /\ a \notin Region(a) /\ EndOf(a) \notin Region(a) /\ a \notin Part(a)
           /\ \A b \in Region(a) \cup {a} : IsBr(b) /\ succ[b] \subseteq Region(a) \cup {EndOf(a)}
           /\ \A b \in Region(a) : program.func[b] = program.func[a]
           /\ \A b \in Block : b \in Part(a) <=> b \in Region(a) \/ program.func[b] \in Callees(Region(a))
<1> DEFINE e == EndOf(a)
<1>1. a \in Block
  BY LoopTopsType
<1>2. SingleEntry(a) /\ e # NoBlock
  BY DEF Structured, SingleEntry
<1>3. e \in StrictPostDominators(succ, a)
  BY <1>1, <1>2, EndFacts
<1>4. e \in Block /\ e # a /\ \A b \in Region(a) \cup {a} : IsBr(b)
  BY <1>1, <1>3, NoExitBefore DEF Region
<1>5. e \notin Tops \cup Parts \cup BlockTops
  BY DEF Structured, Ends
<1>6. a \notin Parts
  BY DEF Tops, Parts
<1>7. /\ Region(a) \subseteq Block /\ a \notin Region(a) /\ e \notin Region(a)
      /\ \A b \in Region(a) \cup {a} : succ[b] \subseteq Region(a) \cup {a, e}
      /\ \A C : a \in C /\ (\A b \in (Region(a) \cup {a}) \cap C : succ[b] \ {e} \subseteq C) => Region(a) \subseteq C
  <2> HIDE DEF e
  <2>1. e \in Block /\ a # e
    BY <1>4
  <2>2. Region(a) = RegionTo(a, e)
    BY DEF Region, e
  <2> QED
    BY <1>1, <2>1, <2>2, RegionFacts
<1>8. \A b \in Region(a) \cup {a} : a \notin succ[b]
  <2>1. DOMAIN succ = Block
    BY ProgramFacts
  <2>2. Pred(succ, a) \cap (Region(a) \cup {a}) = {}
    BY <1>2 DEF SingleEntry
  <2> QED
    BY <1>1, <1>7, <2>1, <2>2 DEF Pred
<1>9. \A b \in Region(a) : program.func[b] = program.func[a]
  <2> DEFINE C == {b \in Block : program.func[b] = program.func[a]}
  <2>1. \A b \in C : succ[b] \subseteq C
    BY FuncFacts, ProgramFacts
  <2>2. a \in C
    BY <1>1
  <2>3. Region(a) \subseteq C
    <3> HIDE DEF C
    <3> QED
      BY <1>7, <2>1, <2>2
  <2> QED
    BY <2>3
<1>10. Part(a) \subseteq Parts /\ \A b \in Block : b \in Part(a) <=> b \in Region(a) \/ program.func[b] \in Callees(Region(a))
  BY DEF Part, PartTo, Region, Parts
<1>11. Part(a) \subseteq Block
  BY <1>7 DEF Part, PartTo, Region
<1> HIDE DEF e
<1>12. \A b \in Region(a) \cup {a} : IsBr(b) /\ succ[b] \subseteq Region(a) \cup {e}
  BY <1>4, <1>7, <1>8
<1> QED
  BY <1>1, <1>2, <1>4, <1>5, <1>6, <1>7, <1>9, <1>10, <1>11, <1>12 DEF e

\* The part of a is entered from a, and by calls from itself.
LEMMA PartFacts ==
    ASSUME program \in Programs, Structured, NEW a \in Tops
    PROVE  /\ \A b \in Part(a) : program.callee[b] \subseteq Callees(Region(a))
           /\ \A b \in Block : program.callee[b] \cap Callees(Region(a)) # {} => b \in Part(a)
           /\ program.main \notin Callees(Region(a)) /\ Callees(Region(a)) \subseteq Func
           /\ \A b \in Block : \A c \in succ[b] : c \in Part(a) => b \in Part(a) \cup {a}
           /\ program.entry[program.func[a]] \notin Region(a)
           /\ \A b \in Part(a) : IsBr(b) \/ program.func[b] \in Callees(Region(a))
           /\ \A b \in Part(a) : succ[b] \subseteq Part(a) \cup {EndOf(a)}
<1>1. SingleEntry(a)
  BY DEF Structured
<1>2. Region(a) \in SUBSET Block
  BY TopFacts
<1>3. /\ Callees(Region(a)) \subseteq Func
      /\ \A b \in Region(a) : program.callee[b] \subseteq Callees(Region(a))
      /\ \A b \in Block : program.func[b] \in Callees(Region(a)) => program.callee[b] \subseteq Callees(Region(a))
  BY <1>2, CalleesFacts
<1>4. \A b \in Part(a) : program.callee[b] \subseteq Callees(Region(a))
  BY <1>3, TopFacts
<1>5. ASSUME NEW b \in Block, NEW c \in succ[b], c \in Part(a)  PROVE b \in Part(a) \cup {a}
  <2>1. c \in Block /\ program.func[c] = program.func[b]
    BY <1>5, FuncFacts, ProgramFacts
  <2>2. CASE c \in Region(a)
    <3>1. b \in Pred(succ, c)
      BY <1>5, ProgramFacts DEF Pred
    <3>2. b \in Region(a) \cup {a}
      BY <1>1, <2>2, <3>1 DEF SingleEntry
    <3> QED
      BY <3>2, TopFacts
  <2>3. CASE program.func[c] \in Callees(Region(a))
    BY <2>1, <2>3, TopFacts
  <2> QED
    BY <1>5, <2>1, <2>2, <2>3, TopFacts
<1>6. ASSUME NEW b \in Part(a)  PROVE succ[b] \subseteq Part(a) \cup {EndOf(a)}
  <2>1. b \in Block /\ \A c \in succ[b] : c \in Block /\ program.func[c] = program.func[b]
    BY FuncFacts, ProgramFacts, TopFacts
  <2>2. CASE b \in Region(a)
    <3>1. succ[b] \subseteq Region(a) \cup {EndOf(a)}
      BY <2>2, TopFacts
    <3> QED
      BY <2>1, <3>1, TopFacts
  <2>3. CASE program.func[b] \in Callees(Region(a))
    BY <2>1, <2>3, TopFacts
  <2> QED
    BY <2>1, <2>2, <2>3, TopFacts
<1>7. \A b \in Part(a) : IsBr(b) \/ program.func[b] \in Callees(Region(a))
  BY TopFacts
<1> QED
  BY <1>1, <1>3, <1>4, <1>5, <1>6, <1>7 DEF SingleEntry

-----------------------------------------------------------------------------
(* The run of a program with calls inserted as follows.                      *)

\* The transaction of a is opened at its end, preloads its code, and is ended after its region.
Placed(c, a) ==
    /\ Opens(c["last"][a]) /\ {program.func[a]} \cup Callees(Region(a)) \subseteq CodeIn(c["last"][a])
    /\ c["first"][EndOf(a)] # <<>>

\* Calls are inserted at tops, at the ends of parts and in blocks of their own only, and
\* each top that has calls has a transaction.
CodeInv(c) ==
    /\ \A b \in Block \ (Tops \cup BlockTops) : c["last"][b] = <<>>
    /\ \A b \in Block \ (Ends \cup BlockTops) : c["first"][b] = <<>>
    /\ \A b \in Ends : \A i \in DOMAIN c["first"][b] : c["first"][b][i] = End
    /\ \A a \in Tops : c["last"][a] # <<>> => Placed(c, a)
    /\ \A b \in BlockTops :
          \/ c["first"][b] = <<>> /\ c["last"][b] = <<>>
          \/ Opens(c["first"][b]) /\ c["last"][b] = <<End>>

\* Types of the run.
Types ==
    /\ program \in Programs
    /\ code \in [Place -> [Block -> Seq(Ops)]]
    /\ at \in Block \X {"first", "item", "last", "done"} /\ stack \in Seq(Block)
    /\ depth \in Nat /\ loaded \in SUBSET Buffer /\ ready \in SUBSET Func

\* The calls that are active.
PathInv ==
    /\ IF stack = <<>> THEN program.func[at[1]] = program.main
       ELSE /\ program.func[at[1]] \in program.callee[stack[1]]
            /\ program.func[stack[Len(stack)]] = program.main
    /\ \A i \in 1 .. Len(stack) - 1 : program.func[stack[i]] \in program.callee[stack[i + 1]]

\* Where the run is in a transaction.
PartInv ==
    \A a \in Tops : at[1] \in Part(a) =>
       IF code["last"][a] = <<>> THEN depth = 0
       ELSE depth = 1 /\ DataIn(code["last"][a]) \subseteq loaded /\ CodeIn(code["last"][a]) \subseteq ready

\* Outside of the parts it is in none, but for the ends of parts, where the transaction of
\* the part ends, and for blocks that have their own.
OutsideInv ==
    /\ at[1] \notin Parts /\ at[2] = "first" =>
          \/ depth = 0
          \/ depth = 1 /\ \E a \in Tops : at[1] = EndOf(a) /\ code["last"][a] # <<>>
    /\ at[1] \notin Parts \cup BlockTops /\ at[2] # "first" => depth = 0
    /\ at[1] \in BlockTops /\ at[2] \in {"item", "last"} =>
          IF code["first"][at[1]] = <<>> THEN depth = 0
          ELSE depth = 1 /\ DataIn(code["first"][at[1]]) \subseteq loaded
    /\ at[2] = "done" => depth = 0

RunInv == Types /\ PathInv /\ PartInv /\ OutsideInv

-----------------------------------------------------------------------------
\* What the calls at one place of a block do: none changes nothing, ends leave the
\* transaction, and a start enters one that has preloaded what follows.
LEMMA CallsFacts ==
    ASSUME Types, NEW k \in Place, NEW b \in Block, Calls(k, b)
    PROVE  /\ depth' \in Nat /\ loaded' \in SUBSET Buffer /\ ready' \in SUBSET Func
           /\ code[k][b] = <<>> => depth' = depth /\ loaded' = loaded /\ ready' = ready
           /\ depth <= 1 /\ code[k][b] # <<>> /\ (\A i \in DOMAIN code[k][b] : code[k][b][i] = End) => depth' = 0
           /\ depth = 0 /\ Opens(code[k][b]) =>
                 depth' = 1 /\ DataIn(code[k][b]) \subseteq loaded' /\ CodeIn(code[k][b]) \subseteq ready'
<1> DEFINE m0 == [depth |-> depth, loaded |-> loaded, ready |-> ready]
           s == code[k][b]
           m1 == Executed(m0, s)
<1>1. m0 \in Machine /\ s \in Seq(Ops)
  BY DEF Types, Machine
<1>2. depth' = m1.depth /\ loaded' = m1.loaded /\ ready' = m1.ready
  BY DEF Calls
<1>3. m0.depth = depth /\ m0.loaded = loaded /\ m0.ready = ready
  OBVIOUS
<1>4. m1 \in Machine
  <2> HIDE DEF m0, s
  <2>1. PICK m : IsExecution(m, m0, s) /\ Executed(m0, s) = m[Len(s)]
    BY <1>1, ExecutionExists
  <2>2. Len(s) \in 0 .. Len(s)
    BY <1>1
  <2> QED
    BY <2>1, <2>2 DEF IsExecution
<1> HIDE DEF m0, s
<1>5. s = <<>> => m1 = m0
  BY <1>1, ExecutedNothing
<1>6. depth <= 1 /\ s # <<>> /\ (\A i \in DOMAIN s : s[i] = End) => m1.depth = 0
  BY <1>1, <1>3, ExecutedEnds
<1>7. depth = 0 /\ Opens(s) => m1.depth = 1 /\ DataIn(s) \subseteq m1.loaded /\ CodeIn(s) \subseteq m1.ready
  BY <1>1, <1>3, ExecutedOpens
<1> HIDE DEF m1
<1>8. depth' \in Nat /\ loaded' \in SUBSET Buffer /\ ready' \in SUBSET Func
  BY <1>2, <1>4 DEF Machine
<1> QED
  BY <1>2, <1>3, <1>5, <1>6, <1>7, <1>8 DEF s

\* Parts do not overlap.
LEMMA PartsApart ==
    ASSUME Structured, NEW a \in Tops, NEW b \in Tops, NEW c, c \in Part(a), c \in Part(b)
    PROVE  a = b
  BY DEF Structured, Apart

\* A block where the run is may also be the start of a transaction, but not in a part.
LEMMA PlaceFacts ==
    ASSUME Structured
    PROVE  /\ Tops \cap Parts = {} /\ BlockTops \cap Parts = {} /\ BlockTops \cap Tops = {}
           /\ Ends \cap Parts = {} /\ Ends \cap Tops = {} /\ Ends \cap BlockTops = {}
           /\ \A b \in Parts : \E a \in Tops : b \in Part(a)
           /\ \A a \in Tops : Part(a) \subseteq Parts /\ EndOf(a) \in Ends
           /\ \A b \in Ends : \E a \in Tops : b = EndOf(a)
<1>1. BlockTops \cap Tops = {} /\ Ends \cap (Tops \cup Parts \cup BlockTops) = {}
  BY DEF Structured
<1>2. BlockTops \cap Parts = {}
  BY DEF BlockTops
<1>3. Tops \cap Parts = {}
  BY DEF Tops, Parts
<1> QED
  BY <1>1, <1>2, <1>3 DEF Parts, Ends

\* The step leaves the program and the inserted calls alone.
LEMMA RunInvAfter ==
    ASSUME program' = program, code' = code,
           Types', PathInv',
           \A a \in Tops : at'[1] \in Part(a) =>
              IF code["last"][a] = <<>> THEN depth' = 0
              ELSE /\ depth' = 1 /\ DataIn(code["last"][a]) \subseteq loaded'
                   /\ CodeIn(code["last"][a]) \subseteq ready',
           at'[1] \notin Parts /\ at'[2] = "first" =>
              \/ depth' = 0
              \/ depth' = 1 /\ \E a \in Tops : at'[1] = EndOf(a) /\ code["last"][a] # <<>>,
           at'[1] \notin Parts \cup BlockTops /\ at'[2] # "first" => depth' = 0,
           at'[1] \in BlockTops /\ at'[2] \in {"item", "last"} =>
              IF code["first"][at'[1]] = <<>> THEN depth' = 0
              ELSE depth' = 1 /\ DataIn(code["first"][at'[1]]) \subseteq loaded',
           at'[2] = "done" => depth' = 0
    PROVE  RunInv'
<1>1. Tops' = Tops /\ Parts' = Parts /\ BlockTops' = BlockTops
      /\ \A a : Part(a)' = Part(a) /\ EndOf(a)' = EndOf(a)
  BY SameProgram
<1>2. PartInv'
  BY <1>1 DEF PartInv
<1>3. OutsideInv'
  BY <1>1 DEF OutsideInv
<1> QED
  BY <1>2, <1>3 DEF RunInv

\* Coming to a block, at its first calls.
LEMMA EnterBlockRun ==
    ASSUME Structured, CodeInv(code), RunInv, EnterBlock
    PROVE  RunInv'
<1> DEFINE b == at[1]
<1>1. /\ Types /\ b \in Block /\ at[2] = "first" /\ Calls("first", b)
      /\ at' = <<b, "item">> /\ program' = program /\ code' = code /\ stack' = stack
  BY DEF EnterBlock, RunInv, Types, tool
<1>2. "first" \in Place
  BY DEF Place
<1>3. /\ depth' \in Nat /\ loaded' \in SUBSET Buffer /\ ready' \in SUBSET Func
      /\ code["first"][b] = <<>> => depth' = depth /\ loaded' = loaded /\ ready' = ready
      /\ depth <= 1 /\ code["first"][b] # <<>> /\ (\A i \in DOMAIN code["first"][b] : code["first"][b][i] = End)
           => depth' = 0
      /\ depth = 0 /\ Opens(code["first"][b]) => depth' = 1 /\ DataIn(code["first"][b]) \subseteq loaded'
  BY <1>1, <1>2, CallsFacts
<1>4. at'[1] = b /\ at'[2] = "item"
  BY <1>1
<1>5. Types'
  BY <1>1, <1>3 DEF Types
<1>6. PathInv'
  BY <1>1, <1>4 DEF PathInv, RunInv
<1>7. CASE b \in Parts
  <2>1. code["first"][b] = <<>> /\ b \notin BlockTops
    BY <1>1, <1>7, PlaceFacts DEF CodeInv
  <2>2. depth' = depth /\ loaded' = loaded /\ ready' = ready
    BY <1>3, <2>1
  <2>3. \A a \in Tops : b \in Part(a) =>
           IF code["last"][a] = <<>> THEN depth' = 0
           ELSE depth' = 1 /\ DataIn(code["last"][a]) \subseteq loaded' /\ CodeIn(code["last"][a]) \subseteq ready'
    BY <2>2 DEF RunInv, PartInv
  <2> HIDE DEF b
  <2> QED
    BY <1>1, <1>4, <1>5, <1>6, <1>7, <2>1, <2>3, RunInvAfter
<1>8. CASE b \notin Parts
  <2>1. \A a \in Tops : b \notin Part(a)
    BY <1>8, PlaceFacts
  <2>2. depth = 0 \/ (depth = 1 /\ \E a \in Tops : b = EndOf(a) /\ code["last"][a] # <<>>)
    BY <1>1, <1>8 DEF RunInv, OutsideInv
  <2>3. CASE b \in BlockTops
    <3>1. depth = 0
      BY <2>2, <2>3, PlaceFacts
    <3>2. code["first"][b] = <<>> \/ Opens(code["first"][b])
      BY <2>3 DEF CodeInv
    <3>3. IF code["first"][b] = <<>> THEN depth' = 0
          ELSE depth' = 1 /\ DataIn(code["first"][b]) \subseteq loaded'
      BY <1>3, <3>1, <3>2
    <3> QED
      BY <1>1, <1>4, <1>5, <1>6, <2>1, <2>3, <3>3, RunInvAfter
  <2>4. CASE b \in Ends
    <3>1. depth = 1 => code["first"][b] # <<>>
      BY <2>2 DEF CodeInv, Placed
    <3>2. \A i \in DOMAIN code["first"][b] : code["first"][b][i] = End
      BY <2>4 DEF CodeInv
    <3>3. depth' = 0
      BY <1>3, <2>2, <3>1, <3>2
    <3>4. b \notin BlockTops
      BY <2>4, PlaceFacts
    <3> QED
      BY <1>1, <1>4, <1>5, <1>6, <2>1, <3>3, <3>4, RunInvAfter
  <2>5. CASE b \notin Ends \cup BlockTops
    <3>1. code["first"][b] = <<>>
      BY <1>1, <2>5 DEF CodeInv
    <3>2. depth = 0
      BY <2>2, <2>5, PlaceFacts
    <3> QED
      BY <1>1, <1>3, <1>4, <1>5, <1>6, <2>1, <2>5, <3>1, <3>2, RunInvAfter
  <2> QED
    BY <2>3, <2>4, <2>5
<1> QED
  BY <1>7, <1>8

\* An access or a call site of the block is passed.
LEMMA ItemRun ==
    ASSUME Structured, CodeInv(code), RunInv, Item
    PROVE  RunInv'
<1> DEFINE b == at[1]
<1>1. /\ Types /\ b \in Block /\ at[2] = "item" /\ depth' = depth /\ loaded' = loaded /\ ready' = ready
      /\ at' = <<b, "last">> /\ program' = program /\ code' = code /\ stack' = stack
  BY DEF Item, RunInv, Types, tool
<1>2. at'[1] = b /\ at'[2] = "last"
  BY <1>1
<1>3. Types' /\ PathInv'
  BY <1>1, <1>2 DEF Types, PathInv, RunInv
<1> QED
  BY <1>1, <1>2, <1>3, RunInvAfter DEF RunInv, PartInv, OutsideInv

\* A function is called: its blocks are in the same parts as the caller or in none.
LEMMA CallRun ==
    ASSUME Structured, CodeInv(code), RunInv, Call
    PROVE  RunInv'
<1> DEFINE b == at[1]
<1>1. PICK f \in program.callee[b] : at' = <<program.entry[f], "first">>
  BY DEF Call
<1>2. /\ Types /\ b \in Block /\ at[2] = "item" /\ depth' = depth /\ loaded' = loaded /\ ready' = ready
      /\ program' = program /\ code' = code /\ stack' = <<b>> \o stack /\ stack \in Seq(Block)
  BY DEF Call, RunInv, Types, tool
<1> DEFINE c == program.entry[f]
<1>3. program \in Programs
  BY <1>2 DEF Types
<1>4. f \in Func /\ c \in Block /\ program.func[c] = f
  BY <1>1, <1>2, <1>3, ProgramFacts, FuncFacts
<1>5. at'[1] = c /\ at'[2] = "first"
  BY <1>1
<1>6. Types'
  <2>1. stack' \in Seq(Block)
    BY <1>2
  <2> QED
    BY <1>1, <1>2, <1>4, <2>1 DEF Types
<1>7. PathInv'
  <2>1. /\ Len(stack') = Len(stack) + 1 /\ stack'[1] = b /\ Len(stack) \in Nat
        /\ \A i \in 1 .. Len(stack) : stack'[i + 1] = stack[i]
    BY <1>2
  <2>2. stack' # <<>>
    BY <2>1
  <2>3. program.func[at'[1]] \in program.callee[stack'[1]]
    BY <1>1, <1>4, <1>5, <2>1
  <2>4. program.func[stack'[Len(stack')]] = program.main
    <3>1. CASE stack = <<>>
      BY <2>1, <3>1 DEF PathInv, RunInv
    <3>2. CASE stack # <<>>
      <4>1. Len(stack) \in 1 .. Len(stack)
        BY <1>2, <3>2
      <4>2. stack'[Len(stack')] = stack[Len(stack)]
        BY <2>1, <4>1
      <4> QED
        BY <3>2, <4>2 DEF PathInv, RunInv
    <3> QED
      BY <3>1, <3>2
  <2>5. ASSUME NEW i \in 1 .. Len(stack') - 1
        PROVE  program.func[stack'[i]] \in program.callee[stack'[i + 1]]
    <3>1. i \in 1 .. Len(stack) /\ stack'[i + 1] = stack[i]
      BY <2>1, <2>5
    <3>2. CASE i = 1
      <4>1. stack # <<>>
        BY <3>1
      <4>2. program.func[b] \in program.callee[stack[1]]
        BY <4>1 DEF PathInv, RunInv
      <4> QED
        BY <2>1, <3>1, <3>2, <4>2
    <3>3. CASE i # 1
      <4>1. i - 1 \in 1 .. Len(stack) - 1 /\ i - 1 \in 1 .. Len(stack) /\ (i - 1) + 1 = i
        BY <2>1, <3>1, <3>3
      <4>2. stack'[i] = stack[i - 1]
        BY <2>1, <4>1
      <4>3. program.func[stack[i - 1]] \in program.callee[stack[(i - 1) + 1]]
        BY <4>1 DEF PathInv, RunInv
      <4> QED
        BY <3>1, <4>1, <4>2, <4>3
    <3> QED
      BY <3>2, <3>3
  <2> QED
    BY <1>2, <2>2, <2>3, <2>4, <2>5 DEF PathInv
<1> HIDE DEF c
<1>8. CASE b \in Parts
  <2>1. PICK a \in Tops : b \in Part(a)
    BY <1>8, PlaceFacts
  <2>2. f \in Callees(Region(a))
    BY <1>1, <1>3, <2>1, PartFacts
  <2>3. c \in Part(a) /\ c \in Parts
    BY <1>3, <1>4, <2>2, TopFacts
  <2>4. \A x \in Tops : c \in Part(x) => x = a
    BY <2>3, PartsApart
  <2>5. c \notin BlockTops
    BY <2>3, PlaceFacts
  <2> QED
    BY <1>2, <1>5, <1>6, <1>7, <2>1, <2>3, <2>4, <2>5, RunInvAfter DEF RunInv, PartInv
<1>9. CASE b \notin Parts
  <2>1. b \notin BlockTops
    BY <1>1, <1>9 DEF Structured
  <2>2. depth = 0
    BY <1>2, <1>9, <2>1 DEF RunInv, OutsideInv
  <2>3. ASSUME NEW a \in Tops  PROVE c \notin Part(a)
    <3>1. b \notin Part(a)
      BY <1>9, PlaceFacts
    <3>2. f \notin Callees(Region(a))
      BY <1>1, <1>2, <1>3, <3>1, PartFacts
    <3>3. ASSUME c \in Region(a)  PROVE FALSE
      <4>1. program.func[a] = f
        BY <1>3, <1>4, <3>3, TopFacts
      <4> QED
        BY <1>3, <3>3, <4>1, PartFacts DEF c
    <3> QED
      BY <1>3, <1>4, <3>2, <3>3, TopFacts
  <2> QED
    BY <1>2, <1>5, <1>6, <1>7, <2>2, <2>3, RunInvAfter
<1> QED
  BY <1>8, <1>9

\* After the calls at the end of a block outside of all parts but those that start a
\* transaction the program is in none.
LEMMA LastCalls ==
    ASSUME Structured, CodeInv(code), RunInv, at[2] = "last", Calls("last", at[1])
    PROVE  /\ depth' \in Nat /\ loaded' \in SUBSET Buffer /\ ready' \in SUBSET Func
           /\ at[1] \in Parts => depth' = depth /\ loaded' = loaded /\ ready' = ready
           /\ at[1] \notin Parts \cup Tops => depth' = 0
           /\ at[1] \in Tops => IF code["last"][at[1]] = <<>> THEN depth' = 0
                                ELSE /\ depth' = 1 /\ DataIn(code["last"][at[1]]) \subseteq loaded'
                                     /\ CodeIn(code["last"][at[1]]) \subseteq ready'
<1> DEFINE b == at[1]
           s == code["last"][b]
<1>1. Types /\ b \in Block /\ "last" \in Place
  BY DEF RunInv, Types, Place
<1>2. /\ depth' \in Nat /\ loaded' \in SUBSET Buffer /\ ready' \in SUBSET Func
      /\ s = <<>> => depth' = depth /\ loaded' = loaded /\ ready' = ready
      /\ depth <= 1 /\ s # <<>> /\ (\A i \in DOMAIN s : s[i] = End) => depth' = 0
      /\ depth = 0 /\ Opens(s) =>
            depth' = 1 /\ DataIn(s) \subseteq loaded' /\ CodeIn(s) \subseteq ready'
  BY <1>1, CallsFacts
<1>3. b \notin Parts \cup BlockTops => depth = 0
  BY DEF RunInv, OutsideInv
<1>4. b \in BlockTops => \/ s = <<>> /\ depth = 0
                         \/ s = <<End>> /\ depth <= 1
  BY DEF RunInv, OutsideInv, CodeInv
<1>5. <<End>> # <<>> /\ \A i \in DOMAIN <<End>> : <<End>>[i] = End
  OBVIOUS
<1>6. b \notin Tops \cup BlockTops => s = <<>>
  BY <1>1 DEF CodeInv
<1>7. b \in Tops => s = <<>> \/ Opens(s)
  BY DEF CodeInv, Placed
<1> HIDE DEF s, b
<1>8. b \in Parts => b \notin Tops \cup BlockTops
  BY PlaceFacts
<1>9. b \in Tops => b \notin Parts \cup BlockTops
  BY PlaceFacts
<1>10. b \in Parts => depth' = depth /\ loaded' = loaded /\ ready' = ready
  BY <1>2, <1>6, <1>8
<1>11. b \notin Parts \cup Tops => depth' = 0
  BY <1>2, <1>3, <1>4, <1>5, <1>6
<1>12. b \in Tops => IF s = <<>> THEN depth' = 0
                     ELSE depth' = 1 /\ DataIn(s) \subseteq loaded' /\ CodeIn(s) \subseteq ready'
  BY <1>2, <1>3, <1>7, <1>9
<1> QED
  BY <1>2, <1>10, <1>11, <1>12 DEF s, b

\* Control leaves a block for a successor, through the calls at its end.
LEMMA BranchRun ==
    ASSUME Structured, CodeInv(code), RunInv, Branch
    PROVE  RunInv'
<1> DEFINE b == at[1]
<1>1. PICK c \in succ[b] : at' = <<c, "first">>
  BY DEF Branch
<1>2. /\ Types /\ b \in Block /\ at[2] = "last" /\ Calls("last", at[1])
      /\ program' = program /\ code' = code /\ stack' = stack
  BY DEF Branch, RunInv, Types, tool
<1>3. program \in Programs
  BY <1>2 DEF Types
<1>4. c \in Block /\ program.func[c] = program.func[b]
  BY <1>1, <1>2, <1>3, ProgramFacts, FuncFacts
<1>5. at'[1] = c /\ at'[2] = "first"
  BY <1>1
<1>6. /\ depth' \in Nat /\ loaded' \in SUBSET Buffer /\ ready' \in SUBSET Func
      /\ b \in Parts => depth' = depth /\ loaded' = loaded /\ ready' = ready
      /\ b \notin Parts \cup Tops => depth' = 0
      /\ b \in Tops => IF code["last"][b] = <<>> THEN depth' = 0
                       ELSE /\ depth' = 1 /\ DataIn(code["last"][b]) \subseteq loaded'
                            /\ CodeIn(code["last"][b]) \subseteq ready'
  BY <1>2, LastCalls
<1>7. Types'
  BY <1>1, <1>2, <1>4, <1>6 DEF Types
<1>8. PathInv'
  BY <1>2, <1>4, <1>5 DEF PathInv, RunInv
<1>9. \A a \in Tops : c \in Part(a) => b \in Part(a) \cup {a}
  BY <1>1, <1>2, <1>3, PartFacts
<1>10. \A a \in Tops : b \in Part(a) =>
          IF code["last"][a] = <<>> THEN depth = 0
          ELSE depth = 1 /\ DataIn(code["last"][a]) \subseteq loaded /\ CodeIn(code["last"][a]) \subseteq ready
  BY DEF RunInv, PartInv
<1>11. \A a \in Tops : c \in Part(a) =>
          IF code["last"][a] = <<>> THEN depth' = 0
          ELSE depth' = 1 /\ DataIn(code["last"][a]) \subseteq loaded' /\ CodeIn(code["last"][a]) \subseteq ready'
  <2> HIDE DEF b
  <2>1. SUFFICES ASSUME NEW a \in Tops, c \in Part(a)
                 PROVE  IF code["last"][a] = <<>> THEN depth' = 0
                        ELSE /\ depth' = 1 /\ DataIn(code["last"][a]) \subseteq loaded'
                             /\ CodeIn(code["last"][a]) \subseteq ready'
    OBVIOUS
  <2>2. CASE b \in Part(a)
    BY <1>6, <1>10, <2>2, PlaceFacts
  <2>3. CASE b = a
    BY <1>6, <2>3
  <2> QED
    BY <1>9, <2>1, <2>2, <2>3
<1>12. c \notin Parts => depth' = 0 \/ (depth' = 1 /\ \E a \in Tops : c = EndOf(a) /\ code["last"][a] # <<>>)
  <2> HIDE DEF b
  <2>1. SUFFICES ASSUME c \notin Parts
                 PROVE  depth' = 0 \/ (depth' = 1 /\ \E a \in Tops : c = EndOf(a) /\ code["last"][a] # <<>>)
    OBVIOUS
  <2>2. ASSUME NEW a \in Tops, b \in Part(a) \cup {a}  PROVE c = EndOf(a)
    <3>1. succ[b] \subseteq Part(a) \cup {EndOf(a)}
      <4>1. CASE b = a
        BY <1>3, <4>1, TopFacts
      <4>2. CASE b \in Part(a)
        BY <1>3, <4>2, PartFacts
      <4> QED
        BY <2>2, <4>1, <4>2
    <3> QED
      BY <1>1, <2>1, <3>1, PlaceFacts
  <2>3. CASE b \in Parts
    <3>1. PICK a \in Tops : b \in Part(a)
      BY <2>3, PlaceFacts
    <3>2. c = EndOf(a)
      BY <2>2, <3>1
    <3> QED
      BY <1>6, <1>10, <2>3, <3>1, <3>2
  <2>4. CASE b \in Tops
    <3>1. c = EndOf(b)
      BY <2>2, <2>4
    <3> QED
      BY <1>6, <2>4, <3>1
  <2>5. CASE b \notin Parts \cup Tops
    BY <1>6, <2>5
  <2> QED
    BY <2>3, <2>4, <2>5
<1> HIDE DEF b
<1> QED
  BY <1>2, <1>5, <1>7, <1>8, <1>11, <1>12, RunInvAfter

\* A function returns to the block that called it.
LEMMA ReturnRun ==
    ASSUME Structured, CodeInv(code), RunInv, Return
    PROVE  RunInv'
<1> DEFINE b == at[1]
<1>1. /\ Types /\ b \in Block /\ at[2] = "last" /\ Calls("last", at[1]) /\ ~IsBr(b)
      /\ program' = program /\ code' = code /\ stack \in Seq(Block)
  BY DEF Return, RunInv, Types, tool
<1>2. program \in Programs
  BY <1>1 DEF Types
<1>3. /\ depth' \in Nat /\ loaded' \in SUBSET Buffer /\ ready' \in SUBSET Func
      /\ b \in Parts => depth' = depth /\ loaded' = loaded /\ ready' = ready
      /\ b \notin Parts \cup Tops => depth' = 0
  BY <1>1, LastCalls
<1>4. b \notin Tops
  BY <1>1, <1>2, TopFacts
<1>5. \A a \in Tops : b \in Part(a) => program.func[b] \in Callees(Region(a))
  BY <1>1, <1>2, PartFacts
<1>6. CASE stack = <<>>
  <2>1. at' = <<b, "done">> /\ stack' = stack
    BY <1>6 DEF Return
  <2>2. program.func[b] = program.main
    BY <1>6 DEF RunInv, PathInv
  <2>3. \A a \in Tops : b \notin Part(a)
    BY <1>2, <1>5, <2>2, PartFacts
  <2>4. b \notin Parts
    BY <2>3, PlaceFacts
  <2>5. depth' = 0
    BY <1>3, <1>4, <2>4
  <2>6. at'[1] = b /\ at'[2] = "done"
    BY <2>1
  <2>7. Types' /\ PathInv'
    BY <1>1, <1>3, <2>1, <2>6 DEF Types, PathInv, RunInv
  <2> HIDE DEF b
  <2> QED
    BY <1>1, <2>3, <2>5, <2>6, <2>7, RunInvAfter
<1>7. CASE stack # <<>>
  <2> DEFINE c == stack[1]
  <2>1. at' = <<c, "last">> /\ stack' = Tail(stack)
    BY <1>7 DEF Return
  <2>2. c \in Block /\ program.func[b] \in program.callee[c]
    BY <1>1, <1>7 DEF RunInv, PathInv
  <2>3. at'[1] = c /\ at'[2] = "last"
    BY <2>1
  <2>4. Types'
    <3>1. stack' \in Seq(Block)
      BY <1>1, <1>7, <2>1
    <3> QED
      BY <1>1, <1>3, <2>1, <2>2, <3>1 DEF Types
  <2>5. PathInv'
    <3>1. /\ Len(stack) \in Nat /\ Len(stack) >= 1 /\ Len(stack') = Len(stack) - 1
          /\ \A i \in 1 .. Len(stack) - 1 : stack'[i] = stack[i + 1]
      BY <1>1, <1>7, <2>1
    <3>2. /\ program.func[stack[Len(stack)]] = program.main
          /\ \A i \in 1 .. Len(stack) - 1 : program.func[stack[i]] \in program.callee[stack[i + 1]]
      BY <1>7 DEF RunInv, PathInv
    <3>3. CASE Len(stack) = 1
      <4>1. stack' = <<>>
        BY <1>1, <1>7, <2>1, <3>3
      <4>2. program.func[at'[1]] = program.main
        BY <2>3, <3>2, <3>3
      <4> QED
        BY <1>1, <3>1, <3>3, <4>1, <4>2 DEF PathInv
    <3>4. CASE Len(stack) # 1
      <4>1. /\ 1 \in 1 .. Len(stack) - 1 /\ stack' # <<>> /\ Len(stack') \in 1 .. Len(stack) - 1
            /\ Len(stack') + 1 = Len(stack)
        BY <3>1, <3>4
      <4>2. program.func[at'[1]] \in program.callee[stack'[1]]
        BY <2>3, <3>1, <3>2, <4>1
      <4>3. program.func[stack'[Len(stack')]] = program.main
        BY <3>1, <3>2, <4>1
      <4>4. ASSUME NEW i \in 1 .. Len(stack') - 1
            PROVE  program.func[stack'[i]] \in program.callee[stack'[i + 1]]
        <5>1. i \in 1 .. Len(stack) - 1 /\ i + 1 \in 1 .. Len(stack) - 1
          BY <3>1
        <5> QED
          BY <3>1, <3>2, <5>1
      <4> QED
        BY <1>1, <4>1, <4>2, <4>3, <4>4 DEF PathInv
    <3> QED
      BY <3>3, <3>4
  <2> HIDE DEF c, b
  <2>6. \A a \in Tops : c \in Part(a) => b \in Part(a)
    BY <1>1, <1>2, <2>2, PartFacts, TopFacts
  <2>7. \A a \in Tops : b \in Part(a) => c \in Part(a)
    BY <1>2, <1>5, <2>2, PartFacts
  <2>8. c \notin BlockTops
    BY <2>2 DEF Structured
  <2>9. CASE b \in Parts
    <3>1. \A a \in Tops : b \in Part(a) =>
            IF code["last"][a] = <<>> THEN depth' = 0
            ELSE depth' = 1 /\ DataIn(code["last"][a]) \subseteq loaded' /\ CodeIn(code["last"][a]) \subseteq ready'
      BY <1>3, <2>9 DEF RunInv, PartInv, b
    <3>2. c \in Parts
      BY <2>7, <2>9, PlaceFacts
    <3> QED
      BY <1>1, <2>3, <2>4, <2>5, <2>6, <2>8, <3>1, <3>2, RunInvAfter
  <2>10. CASE b \notin Parts
    <3>1. \A a \in Tops : c \notin Part(a)
      BY <2>6, <2>10, PlaceFacts
    <3>2. depth' = 0
      BY <1>3, <1>4, <2>10
    <3> QED
      BY <1>1, <2>3, <2>4, <2>5, <2>8, <3>1, <3>2, RunInvAfter
  <2> QED
    BY <2>9, <2>10
<1> QED
  BY <1>6, <1>7

-----------------------------------------------------------------------------
\* What is inserted is enough for every access.
Coverage(c) ==
    \A n \in Accesses : program.access[n[1]][n[2]] # {} =>
       /\ \A a \in Tops : n[1] \in Part(a) =>
             c["last"][a] # <<>> /\ program.access[n[1]][n[2]] \subseteq DataIn(c["last"][a])
       /\ n \in program.addDep /\ n[1] \notin Parts =>
             c["first"][n[1]] # <<>> /\ program.access[n[1]][n[2]] \subseteq DataIn(c["first"][n[1]])

\* Whatever is covered is protected: Protected and WellNested follow from the invariants.
LEMMA RunSafe ==
    ASSUME Structured, RunInv, CodeInv(code), phase = "run" => Coverage(code)
    PROVE  Protected /\ WellNested
<1>1. WellNested
  <2>1. at[1] \in Block /\ at[2] \in {"first", "item", "last", "done"}
    BY DEF RunInv, Types
  <2>2. at[1] \in Parts => depth <= 1
    BY PlaceFacts DEF RunInv, PartInv
  <2>3. at[1] \in BlockTops => at[1] \notin Parts
    BY PlaceFacts
  <2>4. at[1] \notin Parts => depth <= 1
    BY <2>1, <2>3 DEF RunInv, OutsideInv
  <2> QED
    BY <2>2, <2>4 DEF WellNested, RunInv, OutsideInv
<1>2. ASSUME NEW n \in Made
      PROVE  /\ depth > 0 /\ program.access[n[1]][n[2]] \subseteq loaded
             /\ n[1] \in SecretControlled => program.func[n[1]] \in ready
  <2>1. /\ phase = "run" /\ at[2] = "item" /\ n \in SensitiveAccess /\ n[1] = at[1]
        /\ program.access[n[1]][n[2]] # {}
    BY DEF Made
  <2>2. n \in Accesses /\ (n \in program.addDep \/ n[1] \in SecretControlled)
    BY <2>1 DEF SensitiveAccess
  <2>3. program \in Programs /\ at[1] \in Block
    BY DEF RunInv, Types
  <2>4. /\ \A a \in Tops : n[1] \in Part(a) =>
              code["last"][a] # <<>> /\ program.access[n[1]][n[2]] \subseteq DataIn(code["last"][a])
        /\ n \in program.addDep /\ n[1] \notin Parts =>
              code["first"][n[1]] # <<>> /\ program.access[n[1]][n[2]] \subseteq DataIn(code["first"][n[1]])
    BY <2>1, <2>2 DEF Coverage
  <2>5. CASE n[1] \in Parts
    <3>1. PICK a \in Tops : n[1] \in Part(a)
      BY <2>5, PlaceFacts
    <3>2. depth = 1 /\ DataIn(code["last"][a]) \subseteq loaded /\ CodeIn(code["last"][a]) \subseteq ready
      BY <2>1, <2>4, <3>1 DEF RunInv, PartInv
    <3>3. program.func[n[1]] \in {program.func[a]} \cup Callees(Region(a))
      BY <2>1, <2>3, <3>1, TopFacts
    <3>4. {program.func[a]} \cup Callees(Region(a)) \subseteq CodeIn(code["last"][a])
      BY <2>4, <3>1 DEF CodeInv, Placed
    <3> QED
      BY <2>4, <3>1, <3>2, <3>3, <3>4
  <2>6. CASE n[1] \notin Parts
    <3>1. Quiet(n[1])
      BY <2>2, <2>6, PlaceFacts DEF Structured, Found
    <3>2. n[1] \notin SecretControlled /\ n \in program.addDep
      BY <2>2, <3>1 DEF Quiet
    <3>3. n[1] \in BlockTops
      BY <2>2, <2>6, <3>2 DEF BlockTops
    <3>4. depth = 1 /\ DataIn(code["first"][at[1]]) \subseteq loaded
      BY <2>1, <2>4, <2>6, <3>2, <3>3 DEF RunInv, OutsideInv
    <3> QED
      BY <2>1, <2>4, <2>6, <3>2, <3>4
  <2> QED
    BY <2>5, <2>6
<1> QED
  BY <1>1, <1>2 DEF Protected

-----------------------------------------------------------------------------
(* The search for the highest branch.                                        *)

\* The branches that are found from the callers of the function of b.
Up(h, b) == UNION {h[c] : c \in CallersOf(program.func[b])}

\* The recursion ends, since calls go up in rank.
LEMMA HighestFacts ==
    ASSUME program \in Programs, NEW pl, NEW b \in Block
    PROVE  LET h == Highest(pl) IN
           /\ pl.slice[b] = "none" => h[b] = {}
           /\ pl.slice[b] # "none" /\ Up(h, b) # {} => h[b] = Up(h, b)
           /\ pl.slice[b] # "none" /\ Up(h, b) = {} => h[b] = TopBranch(pl, b)
<1> DEFINE X == [Block -> SUBSET Block]
           Rec(g) == [d \in Block |->
                        LET up == UNION {g[c] : c \in CallersOf(program.func[d])} IN
                        CASE pl.slice[d] = "none" -> {}
                          [] pl.slice[d] # "none" /\ up # {} -> up
                          [] OTHER -> TopBranch(pl, d)]
           h == CHOOSE g : g = Rec(g)
<1>1. Highest(pl) = h
  BY DEF Highest
<1>2. ASSUME NEW g, NEW d \in Block
      PROVE  /\ pl.slice[d] = "none" => Rec(g)[d] = {}
             /\ pl.slice[d] # "none" /\ Up(g, d) # {} => Rec(g)[d] = Up(g, d)
             /\ pl.slice[d] # "none" /\ Up(g, d) = {} => Rec(g)[d] = TopBranch(pl, d)
  <2> DEFINE up == UNION {g[c] : c \in CallersOf(program.func[d])}
  <2>1. Rec(g)[d] = CASE pl.slice[d] = "none" -> {}
                      [] pl.slice[d] # "none" /\ up # {} -> up
                      [] OTHER -> TopBranch(pl, d)
    OBVIOUS
  <2>2. Up(g, d) = up
    BY DEF Up
  <2> HIDE DEF Rec, up
  <2> QED
    BY <2>1, <2>2
<1>3. ASSUME NEW g  PROVE DOMAIN Rec(g) = Block /\ Rec(g) = [d \in Block |-> Rec(g)[d]]
  OBVIOUS
<1> HIDE DEF Rec
<1>4. ASSUME NEW g \in X  PROVE Rec(g) \in X
  <2>1. ASSUME NEW d \in Block  PROVE Rec(g)[d] \in SUBSET Block
    <3>1. Up(g, d) \in SUBSET Block
      BY DEF Up, CallersOf
    <3>2. TopBranch(pl, d) \in SUBSET Block
      BY DEF TopBranch
    <3> QED
      BY <1>2, <3>1, <3>2
  <2> QED
    BY <1>3, <2>1
<1>5. PICK rank \in [Func -> 1 .. Cardinality(Func)] :
         \A d \in Block : \A f \in program.callee[d] : rank[f] > rank[program.func[d]]
  BY FuncFacts
<1>6. program.func \in [Block -> Func] /\ Cardinality(Func) \in Nat
  BY ProgramFacts, PlaceAssumption, FS_CardinalityType
<1> DEFINE zero == [d \in Block |-> {}]
           F == [g \in X |-> Rec(g)]
<1>7. zero \in X /\ F \in [X -> X]
  BY <1>4
<1>8. PICK g : g \in [Nat -> X] /\ g[0] = zero /\ \A n \in Nat : g[n + 1] = Rec(g[n])
  <2> HIDE DEF X, zero, F
  <2>1. \E g : IsIteration(g, X, F, zero)
    BY <1>7, Iterates
  <2>2. PICK g : g \in [Nat -> X] /\ g[0] = zero /\ \A n \in Nat : g[n + 1] = F[g[n]]
    BY <2>1 DEF IsIteration
  <2>3. \A n \in Nat : F[g[n]] = Rec(g[n])
    BY <2>2 DEF F
  <2> QED
    BY <2>2, <2>3
<1> DEFINE Same(n) == \A d \in Block : rank[program.func[d]] <= n => g[n + 1][d] = g[n][d]
           A == {n \in Nat : Same(n)}
<1>9. A = Nat
  <2>1. 0 \in A
    <3>1. ASSUME NEW d \in Block  PROVE ~(rank[program.func[d]] <= 0)
      <4>1. rank[program.func[d]] \in 1 .. Cardinality(Func)
        BY <1>5, <1>6
      <4> QED
        BY <1>6, <4>1
    <3> QED
      BY <3>1
  <2>2. ASSUME NEW n \in A  PROVE n + 1 \in A
    <3>1. ASSUME NEW d \in Block, rank[program.func[d]] <= n + 1
          PROVE  g[(n + 1) + 1][d] = g[n + 1][d]
      <4>1. ASSUME NEW c \in CallersOf(program.func[d])  PROVE g[n + 1][c] = g[n][c]
        <5>1. c \in Block /\ program.func[d] \in program.callee[c]
          BY DEF CallersOf
        <5>2. /\ rank[program.func[d]] > rank[program.func[c]]
              /\ rank[program.func[d]] \in Nat /\ rank[program.func[c]] \in Nat
          BY <1>5, <1>6, <5>1
        <5>3. rank[program.func[c]] <= n
          BY <3>1, <5>2
        <5> QED
          BY <2>2, <5>1, <5>3
      <4>2. Up(g[n + 1], d) = Up(g[n], d)
        BY <4>1 DEF Up
      <4>3. g[(n + 1) + 1] = Rec(g[n + 1]) /\ g[n + 1] = Rec(g[n])
        BY <1>8
      <4>4. Rec(g[n + 1])[d] = Rec(g[n])[d]
        <5>1. CASE pl.slice[d] = "none"
          BY <1>2, <5>1
        <5>2. CASE pl.slice[d] # "none" /\ Up(g[n], d) # {}
          BY <1>2, <4>2, <5>2
        <5>3. CASE pl.slice[d] # "none" /\ Up(g[n], d) = {}
          BY <1>2, <4>2, <5>3
        <5> QED
          BY <5>1, <5>2, <5>3
      <4> QED
        BY <4>3, <4>4
    <3> QED
      BY <3>1
  <2> HIDE DEF A
  <2>3. A \in SUBSET Nat
    BY DEF A
  <2> QED
    BY <2>1, <2>2, <2>3, SetInduction
<1> DEFINE N == Cardinality(Func)
<1>10. g[N] = Rec(g[N])
  <2>1. N \in A
    BY <1>6, <1>9
  <2>2. ASSUME NEW d \in Block  PROVE g[N + 1][d] = g[N][d]
    <3>1. rank[program.func[d]] \in 1 .. N
      BY <1>5, <1>6
    <3>2. rank[program.func[d]] <= N
      BY <1>6, <3>1
    <3> QED
      BY <2>1, <3>2
  <2>3. N \in Nat /\ N + 1 \in Nat
    BY <1>6
  <2> HIDE DEF N, A
  <2>4. g[N] \in X /\ g[N + 1] \in X
    BY <1>8, <2>3
  <2>5. g[N + 1] = g[N]
    BY <2>2, <2>4
  <2> QED
    BY <1>8, <2>3, <2>5
<1>11. h = Rec(h)
  BY <1>10
<1> HIDE DEF h
<1>12. /\ pl.slice[b] = "none" => h[b] = {}
       /\ pl.slice[b] # "none" /\ Up(h, b) # {} => h[b] = Up(h, b)
       /\ pl.slice[b] # "none" /\ Up(h, b) = {} => h[b] = TopBranch(pl, b)
  BY <1>2, <1>11
<1> QED
  BY <1>1, <1>12

\* What is reached from s is in the function of s.
LEMMA ReachFunc ==
    ASSUME program \in Programs, NEW s \in Block, NEW d \in Reachable(succ, {s})
    PROVE  d \in Block /\ program.func[d] = program.func[s]
<1> DEFINE C == {b \in Block : program.func[b] = program.func[s]}
           S == {s}
<1>1. IsGraph(succ) /\ DOMAIN succ = Block /\ S \in SUBSET DOMAIN succ
  BY ProgramFacts
<1>2. S \subseteq C /\ \A b \in C : succ[b] \subseteq C
  BY FuncFacts, ProgramFacts
<1> HIDE DEF S, C
<1>3. \A T : S \subseteq T /\ (\A b \in Reachable(succ, S) \cap T : succ[b] \subseteq T)
                => Reachable(succ, S) \subseteq T
  BY <1>1, ReachableLeast, Zenon
<1>4. Reachable(succ, S) \subseteq C
  BY <1>2, <1>3
<1> QED
  BY <1>4 DEF S, C

\* What dominates a or a block of its region is in the same function.
LEMMA TopDom ==
    ASSUME program \in Programs, Structured, NEW a \in Tops
    PROVE  LET s == program.entry[program.func[a]] IN
           /\ s \in DOMAIN succ /\ IsGraph(succ) /\ a \in Reachable(succ, {s})
           /\ program.func[s] = program.func[a]
           /\ \A c \in Reachable(succ, {s}) : c \in Block /\ program.func[c] = program.func[a]
           /\ \A d \in Region(a) : program.func[d] = program.func[a] /\ a \in StrictDominators(succ, {s}, d)
           /\ \A d \in Region(a) : d \in Reachable(succ, {s})
<1> DEFINE s == program.entry[program.func[a]]
           S == {s}
<1>1. a \in Block /\ s \in Block /\ a \in Reachable(succ, S) /\ s \notin Region(a)
  <2>1. a \in Block
    BY TopFacts
  <2> QED
    BY <2>1, ProgramFacts DEF Structured, SingleEntry
<1>2. IsGraph(succ) /\ DOMAIN succ = Block /\ S \in SUBSET DOMAIN succ
  BY <1>1, ProgramFacts
<1>3. program.func[s] = program.func[a]
  BY <1>1, ReachFunc
<1>4. \A c \in Reachable(succ, S) : c \in Block /\ program.func[c] = program.func[s]
  BY <1>1, ReachFunc
<1>5. \A d \in Region(a) : program.func[d] = program.func[a] /\ d \in Block /\ d # a
  BY TopFacts
<1>6. a \notin Region(a)
  BY TopFacts
<1>7. ASSUME NEW d \in Region(a)  PROVE a \in StrictDominators(succ, S, d)
  <2> DEFINE Q == ReachableAvoiding(succ, S, {a})
             C == Block \ Region(a)
  <2>1. /\ Q \subseteq Block /\ Q \cap {a} = {}
        /\ S \ {a} \subseteq Q
        /\ \A b \in Q : succ[b] \ {a} \subseteq Q
        /\ \A T : S \ {a} \subseteq T /\ (\A b \in Q \cap T : succ[b] \ {a} \subseteq T) => Q \subseteq T
    <3> HIDE DEF S
    <3>1. ReachableAvoiding(succ, S, {a}) \subseteq DOMAIN succ
      BY <1>2, AvoidingOne, Zenon
    <3>2. /\ Q \cap {a} = {} /\ S \ {a} \subseteq Q
          /\ \A b \in Q : succ[b] \ {a} \subseteq Q
          /\ \A T : S \ {a} \subseteq T /\ (\A b \in Q \cap T : succ[b] \ {a} \subseteq T) => Q \subseteq T
      BY <1>2, AvoidingOne, Zenon
    <3> QED
      BY <1>2, <3>1, <3>2
  <2> HIDE DEF Q
  <2>2. S \ {a} \subseteq C
    BY <1>1
  <2>3. ASSUME NEW b \in Q \cap C  PROVE succ[b] \ {a} \subseteq C
    <3>1. b \in Block /\ b # a /\ b \notin Region(a)
      BY <2>1
    <3>2. ASSUME NEW c \in succ[b], c \in Region(a)  PROVE FALSE
      <4>1. b \in Pred(succ, c)
        BY <1>2, <3>1 DEF Pred
      <4>2. Pred(succ, c) \subseteq Region(a) \cup {a}
        BY <3>2 DEF Structured, SingleEntry
      <4> QED
        BY <3>1, <4>1, <4>2
    <3>3. succ[b] \subseteq Block
      BY <3>1, ProgramFacts
    <3> QED
      BY <3>2, <3>3
  <2> HIDE DEF C
  <2>4. Q \subseteq C
    BY <2>1, <2>2, <2>3
  <2>5. d \notin Q
    BY <2>4 DEF C
  <2> QED
    BY <1>1, <1>2, <1>5, <2>5 DEF StrictDominators, Q
<1>8. \A d \in Region(a) : d \in Reachable(succ, S)
  <2> DEFINE C == Reachable(succ, S)
  <2>1. \A b \in C : succ[b] \subseteq C
    <3> HIDE DEF S
    <3> QED
      BY <1>2, ReachableLeast, Zenon
  <2>2. a \in C
    BY <1>1
  <2> HIDE DEF C
  <2>3. EndOf(a) \in Block /\ a # EndOf(a) /\ Region(a) = RegionTo(a, EndOf(a))
    BY TopFacts DEF Region
  <2>4. Region(a) \subseteq C
    BY <1>1, <2>1, <2>2, <2>3, RegionFacts
  <2> QED
    BY <2>4 DEF C
<1> HIDE DEF s
<1> QED
  BY <1>1, <1>2, <1>3, <1>4, <1>5, <1>7, <1>8 DEF s

\* A top dominates its region, and what dominates a block of the region is in it or dominates the top.
LEMMA RegionDom ==
    ASSUME program \in Programs, Structured, NEW a \in Tops
    PROVE  /\ \A d \in Region(a) : StrictlyDominates(a, d)
           /\ \A d \in Region(a) : \A c : StrictlyDominates(c, d) =>
                 c \in Region(a) \cup {a} \/ StrictlyDominates(c, a)
           /\ \A c : StrictlyDominates(c, a) => ~StrictlyDominates(a, c)
           /\ \A d \in Region(a) : \A c : StrictlyDominates(a, c) /\ StrictlyDominates(c, d) => c \in Region(a)
           /\ \A d \in Region(a) : \A c : StrictlyDominates(c, a) => StrictlyDominates(c, d)
           /\ ~StrictlyDominates(a, a)
<1> DEFINE s == program.entry[program.func[a]]
           S == {s}
<1>1. /\ s \in DOMAIN succ /\ IsGraph(succ) /\ a \in Reachable(succ, {s})
      /\ \A c \in Reachable(succ, {s}) : c \in Block /\ program.func[c] = program.func[a]
      /\ \A d \in Region(a) : program.func[d] = program.func[a] /\ a \in StrictDominators(succ, {s}, d)
      /\ \A d \in Region(a) : d \in Reachable(succ, {s})
  BY TopDom
<1>2. DOMAIN succ = Block /\ a \in Block /\ Region(a) \subseteq Block /\ EndOf(a) \in Block /\ EndOf(a) # a
      /\ \A b \in Region(a) \cup {a} : succ[b] \subseteq Region(a) \cup {EndOf(a)}
  BY ProgramFacts, TopFacts
<1>3. \A d \in Region(a) : \A c : StrictlyDominates(c, d) <=> c \in StrictDominators(succ, {s}, d)
  BY <1>1 DEF StrictlyDominates
<1>4. \A c : StrictlyDominates(c, a) <=> c \in StrictDominators(succ, {s}, a)
  BY DEF StrictlyDominates
<1>5. \A c : c \in StrictDominators(succ, {s}, a) => c \in Reachable(succ, {s})
  BY <1>1, DomReach
<1>6. \A d \in Region(a) : StrictlyDominates(a, d)
  BY <1>1, <1>3
<1>7. ASSUME NEW d \in Region(a), NEW c, StrictlyDominates(c, d), c \notin Region(a) \cup {a}
      PROVE  StrictlyDominates(c, a)
  <2> DEFINE Q == ReachableAvoiding(succ, S, {c})
  <2>1. c \in Block /\ d \notin Q
    BY <1>2, <1>3, <1>7 DEF StrictDominators
  <2>2. \A b \in Q : succ[b] \ {c} \subseteq Q
    <3> HIDE DEF s
    <3>1. {s} \in SUBSET DOMAIN succ /\ IsGraph(succ)
      BY <1>1
    <3> QED
      BY <3>1, AvoidingFrom
  <2> HIDE DEF Q
  <2>3. ASSUME a \in Q  PROVE FALSE
    <3>1. \A b \in (Region(a) \cup {a}) \cap Q : succ[b] \ {EndOf(a)} \subseteq Q
      BY <1>2, <1>7, <2>2
    <3>2. Region(a) = RegionTo(a, EndOf(a)) /\ program \in Programs
      BY DEF Region
    <3>3. \A C : a \in C /\ (\A b \in (Region(a) \cup {a}) \cap C : succ[b] \ {EndOf(a)} \subseteq C)
                   => Region(a) \subseteq C
      BY <1>2, <3>2, RegionFacts
    <3>4. Region(a) \subseteq Q
      BY <2>3, <3>1, <3>3, Zenon
    <3> QED
      BY <2>1, <3>4
  <2>4. c \in StrictDominators(succ, {s}, a)
    BY <1>2, <1>7, <2>1, <2>3 DEF StrictDominators, Q
  <2> QED
    BY <1>4, <2>4
<1>8. ASSUME NEW c, StrictlyDominates(c, a), StrictlyDominates(a, c)  PROVE FALSE
  <2>1. c \in StrictDominators(succ, {s}, a)
    BY <1>4, <1>8
  <2>2. program.func[c] = program.func[a]
    BY <1>1, <1>5, <2>1
  <2>3. a \in StrictDominators(succ, {s}, c)
    BY <1>8, <2>2 DEF StrictlyDominates
  <2> HIDE DEF s
  <2> QED
    BY <1>1, <2>1, <2>3, DomAntisym
<1>9. ~StrictlyDominates(a, a)
  BY DEF StrictlyDominates, StrictDominators
<1>10. ASSUME NEW d \in Region(a), NEW c, StrictlyDominates(a, c), StrictlyDominates(c, d)
       PROVE  c \in Region(a)
  BY <1>7, <1>8, <1>9, <1>10
<1>11. ASSUME NEW d \in Region(a), NEW c, StrictlyDominates(c, a)  PROVE StrictlyDominates(c, d)
  <2>1. c \in StrictDominators(succ, {s}, a) /\ a \in StrictDominators(succ, {s}, d)
    BY <1>1, <1>4, <1>11
  <2> HIDE DEF s
  <2>2. c \in StrictDominators(succ, {s}, d)
    BY <1>1, <2>1, DomTransitive
  <2> QED
    BY <1>3, <2>2
<1> QED
  BY <1>6, <1>7, <1>8, <1>9, <1>10, <1>11

-----------------------------------------------------------------------------
(* Insertion.                                                                *)

\* States of the tool.
PlSet == [slice : [Block -> SliceId], nodes : SUBSET Node, loops : SUBSET Block,
          code : [Place -> [Block -> Seq(Ops)]], phase : {"loops", "accesses", "run"}]

\* A preload that is appended keeps what was opened and preloaded.
LEMMA AppendFacts ==
    ASSUME NEW s \in Seq(Ops), NEW o \in Ops, o.op \in {"data", "code"}
    PROVE  /\ Opens(s) => Opens(s \o <<o>>)
           /\ DataIn(s) \subseteq DataIn(s \o <<o>>) /\ CodeIn(s) \subseteq CodeIn(s \o <<o>>)
           /\ o.op = "data" => o.of \subseteq DataIn(s \o <<o>>)
           /\ o.op = "code" => o.of \subseteq CodeIn(s \o <<o>>)
           /\ s \o <<o>> # <<>>
<1> DEFINE t == s \o <<o>>
<1>1. /\ t \in Seq(Ops) /\ Len(t) = Len(s) + 1 /\ t[Len(t)] = o /\ Len(s) \in Nat
      /\ \A i \in 1 .. Len(s) : t[i] = s[i]
      /\ DOMAIN t = 1 .. Len(t) /\ DOMAIN s = 1 .. Len(s)
  OBVIOUS
<1> HIDE DEF t
<1>2. Opens(s) => Opens(t)
  BY <1>1 DEF Opens
<1>3. \A i \in DOMAIN s : i \in DOMAIN t /\ t[i] = s[i]
  BY <1>1
<1>4. DataIn(s) \subseteq DataIn(t)
  BY <1>3, Zenon DEF DataIn
<1>5. CodeIn(s) \subseteq CodeIn(t)
  BY <1>3, Zenon DEF CodeIn
<1>6. Len(t) \in DOMAIN t /\ t # <<>>
  BY <1>1
<1>7. o.op = "data" => o.of \subseteq DataIn(t)
  BY <1>1, <1>6, Zenon DEF DataIn
<1>8. o.op = "code" => o.of \subseteq CodeIn(t)
  BY <1>1, <1>6, Zenon DEF CodeIn
<1> QED
  BY <1>2, <1>4, <1>5, <1>6, <1>7, <1>8 DEF t

\* The calls that the tool inserts are of the type of calls.
LEMMA OpsFacts ==
    /\ Start \in Ops /\ End \in Ops
    /\ \A B \in SUBSET Buffer : Data(B) \in Ops /\ Data(B).op = "data" /\ Data(B).of = B
    /\ \A F \in SUBSET Func : LET o == [op |-> "code", of |-> F] IN
          o \in Ops /\ o.op = "code" /\ o.of = F
  BY DEF Start, End, Data, Ops

\* An insertion changes the calls at one place of one block only.
LEMMA InsertFacts ==
    ASSUME NEW pl \in PlSet, NEW k \in Place, NEW b \in Block, NEW ops \in Seq(Ops)
    PROVE  LET q == Insert(pl, k, b, ops) IN
           /\ q \in PlSet /\ q.slice = pl.slice /\ q.nodes = pl.nodes /\ q.loops = pl.loops
           /\ q.phase = pl.phase
           /\ q.code[k][b] = IF k = "first" /\ b \in program.phi THEN ops \o pl.code[k][b]
                             ELSE pl.code[k][b] \o ops
           /\ \A l \in Place, c \in Block : l # k \/ c # b => q.code[l][c] = pl.code[l][c]
<1> DEFINE new == IF k = "first" /\ b \in program.phi THEN ops \o pl.code[k][b]
                  ELSE pl.code[k][b] \o ops
           q == Insert(pl, k, b, ops)
<1>1. pl.code \in [Place -> [Block -> Seq(Ops)]] /\ pl.code[k] \in [Block -> Seq(Ops)]
      /\ pl.code[k][b] \in Seq(Ops)
  BY DEF PlSet
<1>2. new \in Seq(Ops)
  BY <1>1
<1>3. q = [pl EXCEPT !.code[k][b] = new]
  BY DEF Insert
<1> HIDE DEF new
<1>4. q = [pl EXCEPT !.code = [pl.code EXCEPT ![k] = [pl.code[k] EXCEPT ![b] = new]]]
  BY <1>1, <1>3 DEF PlSet
<1> DEFINE fn == [pl.code[k] EXCEPT ![b] = new]
<1>5. fn \in [Block -> Seq(Ops)] /\ fn[b] = new /\ \A c \in Block : c # b => fn[c] = pl.code[k][c]
  BY <1>1, <1>2
<1> HIDE DEF fn
<1> DEFINE cd == [pl.code EXCEPT ![k] = fn]
<1>6. /\ cd \in [Place -> [Block -> Seq(Ops)]] /\ cd[k] = fn
      /\ \A l \in Place : l # k => cd[l] = pl.code[l]
  BY <1>1, <1>5
<1>7. q = [pl EXCEPT !.code = cd]
  BY <1>4 DEF fn
<1> HIDE DEF cd, q
<1>8. /\ q \in PlSet /\ q.slice = pl.slice /\ q.nodes = pl.nodes /\ q.loops = pl.loops
      /\ q.phase = pl.phase /\ q.code = cd
  BY <1>6, <1>7 DEF PlSet
<1>9. q.code[k][b] = new /\ \A l \in Place, c \in Block : l # k \/ c # b => q.code[l][c] = pl.code[l][c]
  BY <1>5, <1>6, <1>8
<1> QED
  BY <1>8, <1>9 DEF q, new

\* At the end of a block calls go after those inserted earlier.
LEMMA InsertLast ==
    ASSUME NEW pl \in PlSet, NEW b \in Block, NEW o \in Ops
    PROVE  LET q == Insert(pl, "last", b, <<o>>) IN
           /\ q \in PlSet /\ q.slice = pl.slice /\ q.nodes = pl.nodes /\ q.loops = pl.loops
           /\ q.phase = pl.phase
           /\ q.code["last"][b] = pl.code["last"][b] \o <<o>>
           /\ q.code["first"] = pl.code["first"]
           /\ \A c \in Block : c # b => q.code["last"][c] = pl.code["last"][c]
<1> DEFINE q == Insert(pl, "last", b, <<o>>)
<1>1. "last" \in Place /\ "first" \in Place /\ <<o>> \in Seq(Ops)
  BY DEF Place
<1> DEFINE ops == <<o>>
           k == "last"
<1>0. k \in Place /\ ops \in Seq(Ops)
  BY <1>1
<1>01. q = Insert(pl, k, b, ops)
  OBVIOUS
<1> HIDE DEF ops, k, q
<1>02. /\ q \in PlSet /\ q.slice = pl.slice /\ q.nodes = pl.nodes /\ q.loops = pl.loops
       /\ q.phase = pl.phase
       /\ q.code[k][b] = IF k = "first" /\ b \in program.phi THEN ops \o pl.code[k][b]
                         ELSE pl.code[k][b] \o ops
       /\ \A l \in Place, c \in Block : l # k \/ c # b => q.code[l][c] = pl.code[l][c]
  BY <1>0, <1>01, InsertFacts
<1>2. /\ q \in PlSet /\ q.slice = pl.slice /\ q.nodes = pl.nodes /\ q.loops = pl.loops
      /\ q.phase = pl.phase
      /\ q.code["last"][b] = pl.code["last"][b] \o <<o>>
      /\ \A l \in Place, c \in Block : l # "last" \/ c # b => q.code[l][c] = pl.code[l][c]
  BY <1>02 DEF ops, k
<1>3. q.code["first"] = pl.code["first"]
  <2>1. q.code["first"] \in [Block -> Seq(Ops)] /\ pl.code["first"] \in [Block -> Seq(Ops)]
    BY <1>1, <1>2 DEF PlSet
  <2>2. \A c \in Block : q.code["first"][c] = pl.code["first"][c]
    BY <1>1, <1>2
  <2> QED
    BY <2>1, <2>2
<1>4. \A c \in Block : c # b => q.code["last"][c] = pl.code["last"][c]
  BY <1>1, <1>2
<1> QED
  BY <1>2, <1>3, <1>4 DEF q

\* At the start, before or after.
LEMMA InsertEnd ==
    ASSUME NEW pl \in PlSet, NEW b \in Block, \A i \in DOMAIN pl.code["first"][b] : pl.code["first"][b][i] = End
    PROVE  LET q == Insert(pl, "first", b, <<End>>) IN
           /\ q \in PlSet /\ q.slice = pl.slice /\ q.nodes = pl.nodes /\ q.loops = pl.loops
           /\ q.phase = pl.phase
           /\ q.code["first"][b] # <<>> /\ \A i \in DOMAIN q.code["first"][b] : q.code["first"][b][i] = End
           /\ q.code["last"] = pl.code["last"]
           /\ \A c \in Block : c # b => q.code["first"][c] = pl.code["first"][c]
<1> DEFINE q == Insert(pl, "first", b, <<End>>)
           s == pl.code["first"][b]
           t == q.code["first"][b]
<1>1. "last" \in Place /\ "first" \in Place /\ <<End>> \in Seq(Ops)
  BY OpsFacts DEF Place
<1> DEFINE ops == <<End>>
           k == "first"
<1>0. k \in Place /\ ops \in Seq(Ops)
  BY <1>1
<1>01. q = Insert(pl, k, b, ops)
  OBVIOUS
<1> HIDE DEF ops, k, q
<1>02. /\ q \in PlSet /\ q.slice = pl.slice /\ q.nodes = pl.nodes /\ q.loops = pl.loops
       /\ q.phase = pl.phase
       /\ q.code[k][b] = IF k = "first" /\ b \in program.phi THEN ops \o pl.code[k][b]
                         ELSE pl.code[k][b] \o ops
       /\ \A l \in Place, c \in Block : l # k \/ c # b => q.code[l][c] = pl.code[l][c]
  BY <1>0, <1>01, InsertFacts
<1>2. /\ q \in PlSet /\ q.slice = pl.slice /\ q.nodes = pl.nodes /\ q.loops = pl.loops
      /\ q.phase = pl.phase
      /\ t = <<End>> \o s \/ t = s \o <<End>>
      /\ \A l \in Place, c \in Block : l # "first" \/ c # b => q.code[l][c] = pl.code[l][c]
  BY <1>02 DEF ops, k, s, t
<1>3. s \in Seq(Ops)
  BY <1>1 DEF PlSet
<1> HIDE DEF s
<1>4. t # <<>> /\ \A i \in DOMAIN t : t[i] = End
  <2> HIDE DEF t
  <2>1. \A i \in 1 .. Len(s) : s[i] = End
    BY <1>3 DEF s
  <2>2. Len(t) = Len(s) + 1 /\ DOMAIN t = 1 .. Len(t) /\ Len(s) \in Nat
    BY <1>2, <1>3
  <2>3. CASE t = <<End>> \o s
    <3>1. t[1] = End /\ \A i \in 1 .. Len(s) : t[i + 1] = s[i]
      BY <1>3, <2>3
    <3>2. ASSUME NEW i \in DOMAIN t  PROVE t[i] = End
      <4>1. CASE i = 1
        BY <3>1, <4>1
      <4>2. CASE i # 1
        <5>1. i - 1 \in 1 .. Len(s) /\ (i - 1) + 1 = i
          BY <2>2, <4>2
        <5>2. t[(i - 1) + 1] = s[i - 1]
          BY <3>1, <5>1
        <5> QED
          BY <2>1, <5>1, <5>2
      <4> QED
        BY <4>1, <4>2
    <3> QED
      BY <2>2, <3>2
  <2>4. CASE t = s \o <<End>>
    <3>1. t[Len(s) + 1] = End /\ \A i \in 1 .. Len(s) : t[i] = s[i]
      BY <1>3, <2>4
    <3>2. ASSUME NEW i \in DOMAIN t  PROVE t[i] = End
      <4>1. i = Len(s) + 1 \/ i \in 1 .. Len(s)
        BY <2>2
      <4> QED
        BY <2>1, <3>1, <4>1
    <3> QED
      BY <2>2, <3>2
  <2> QED
    BY <1>2, <2>3, <2>4
<1>5. q.code["last"] = pl.code["last"]
  <2>1. q.code["last"] \in [Block -> Seq(Ops)] /\ pl.code["last"] \in [Block -> Seq(Ops)]
    BY <1>1, <1>2 DEF PlSet
  <2>2. \A c \in Block : q.code["last"][c] = pl.code["last"][c]
    BY <1>1, <1>2
  <2> QED
    BY <2>1, <2>2
<1>6. \A c \in Block : c # b => q.code["first"][c] = pl.code["first"][c]
  BY <1>1, <1>2
<1> QED
  BY <1>2, <1>4, <1>5, <1>6 DEF q

\* The preload of the code of the region of a.
CodeOp(a) == [op |-> "code", of |-> {program.func[a]} \cup Callees(Region(a))]

\* preloadCode marks the region as preloaded and appends one preload of the code that it runs.
LEMMA PreloadFacts ==
    ASSUME program \in Programs, Structured, NEW a \in Tops, NEW pl \in PlSet,
           \A b \in Region(a) \cup {a} : pl.slice[b] # "preloaded"
    PROVE  LET q == preloadCode(pl, a, EndOf(a)) IN
           /\ q \in PlSet /\ q.nodes = pl.nodes /\ q.loops = pl.loops /\ q.phase = pl.phase
           /\ CodeOp(a) \in Ops
           /\ q.code["last"][a] = pl.code["last"][a] \o <<CodeOp(a)>>
           /\ q.code["first"] = pl.code["first"]
           /\ \A c \in Block : c # a => q.code["last"][c] = pl.code["last"][c]
           /\ \A b \in Block : q.slice[b] = IF b \in Region(a) \cup {a} THEN "preloaded" ELSE pl.slice[b]
<1> DEFINE new == {b \in Region(a) : pl.slice[b] # "preloaded"}
           ops == <<[op |-> "code", of |-> {program.func[a]} \cup Callees(new)]>>
           i == Insert(pl, "last", a, ops)
           q == [i EXCEPT !.slice = [b \in Block |-> IF b \in new \cup {a} THEN "preloaded" ELSE @[b]]]
<1>1. new = Region(a) /\ a \in Block /\ Region(a) \subseteq Block
  BY TopFacts
<1>2. preloadCode(pl, a, EndOf(a)) = q
  BY DEF preloadCode, Region, RegionTo
<1> HIDE DEF new
<1>3. ops = <<CodeOp(a)>>
  BY <1>1 DEF CodeOp
<1>4. CodeOp(a) \in Ops
  <2>1. {program.func[a]} \cup Callees(Region(a)) \in SUBSET Func
    <3>1. program.func[a] \in Func
      BY <1>1, ProgramFacts
    <3>2. Callees(Region(a)) \subseteq Func
      BY <1>1, CalleesFacts
    <3> QED
      BY <3>1, <3>2
  <2> DEFINE F == {program.func[a]} \cup Callees(Region(a))
  <2>2. CodeOp(a) = [op |-> "code", of |-> F]
    BY DEF CodeOp
  <2>3. F \in SUBSET Func
    BY <2>1
  <2> HIDE DEF F
  <2> QED
    BY <2>2, <2>3, OpsFacts
<1> HIDE DEF ops
<1>5. /\ i \in PlSet /\ i.slice = pl.slice /\ i.nodes = pl.nodes /\ i.loops = pl.loops
      /\ i.phase = pl.phase
      /\ i.code["last"][a] = pl.code["last"][a] \o <<CodeOp(a)>>
      /\ i.code["first"] = pl.code["first"]
      /\ \A c \in Block : c # a => i.code["last"][c] = pl.code["last"][c]
  BY <1>1, <1>3, <1>4, InsertLast
<1> HIDE DEF i
<1> DEFINE sl == [b \in Block |-> IF b \in new \cup {a} THEN "preloaded" ELSE i.slice[b]]
<1>6. sl \in [Block -> SliceId]
  BY <1>5 DEF PlSet, SliceId
<1>7. q = [i EXCEPT !.slice = sl]
  BY <1>5 DEF PlSet
<1>8. \A b \in Block : sl[b] = IF b \in Region(a) \cup {a} THEN "preloaded" ELSE pl.slice[b]
  BY <1>1, <1>5
<1> HIDE DEF sl, q
<1>9. /\ q \in PlSet /\ q.nodes = i.nodes /\ q.loops = i.loops /\ q.phase = i.phase
      /\ q.code = i.code /\ q.slice = sl
  BY <1>5, <1>6, <1>7 DEF PlSet
<1> QED
  BY <1>2, <1>4, <1>5, <1>8, <1>9

-----------------------------------------------------------------------------
\* The transaction of a has been started in pl2, and preloads B.
Starts(pl, pl2, a, B) ==
    /\ pl2 \in PlSet /\ pl2.phase = pl.phase
    /\ Placed(pl2.code, a) /\ B \subseteq DataIn(pl2.code["last"][a])
    /\ \A i \in DOMAIN pl2.code["first"][EndOf(a)] : pl2.code["first"][EndOf(a)][i] = End
    /\ \A b \in Block : /\ b # a => pl2.code["last"][b] = pl.code["last"][b]
                        /\ b # EndOf(a) => pl2.code["first"][b] = pl.code["first"][b]
                        /\ b \notin Region(a) \cup {a, EndOf(a)} => pl2.slice[b] = pl.slice[b]
    /\ \A b \in Region(a) \cup {a} : pl2.slice[b] = "preloaded"
    /\ pl2.slice[EndOf(a)] = IF a \in LoopTops THEN "placed" ELSE pl.slice[EndOf(a)]
    /\ IF a \in LoopTops THEN pl2.nodes = pl.nodes \cup {<<a, 0>>} /\ pl2.loops = pl.loops \cup {a}
       ELSE pl2.nodes = pl.nodes /\ pl2.loops = pl.loops

\* Calls of the transaction of a.
LEMMA StartOps ==
    ASSUME program \in Programs, Structured, NEW a \in Tops, NEW B \in SUBSET Buffer
    PROVE  LET s == ((<<Start>>) \o <<CodeOp(a)>>) \o <<Data(B)>> IN
           /\ Opens(s) /\ {program.func[a]} \cup Callees(Region(a)) \subseteq CodeIn(s)
           /\ B \subseteq DataIn(s)
<1> DEFINE s1 == <<Start>>
           s2 == s1 \o <<CodeOp(a)>>
           s3 == s2 \o <<Data(B)>>
<1>1. CodeOp(a) \in Ops /\ CodeOp(a).op = "code" /\ CodeOp(a).of = {program.func[a]} \cup Callees(Region(a))
  <2>1. {program.func[a]} \cup Callees(Region(a)) \in SUBSET Func
    <3>1. a \in Block /\ Region(a) \in SUBSET Block
      BY TopFacts
    <3> QED
      BY <3>1, ProgramFacts, CalleesFacts
  <2> QED
    BY <2>1, OpsFacts DEF CodeOp
<1>2. s1 \in Seq(Ops) /\ Opens(s1)
  BY OpsFacts DEF Opens
<1> HIDE DEF s1
<1>3. /\ Opens(s2) /\ CodeOp(a).of \subseteq CodeIn(s2) /\ s2 \in Seq(Ops)
  BY <1>1, <1>2, AppendFacts
<1> HIDE DEF s2
<1>4. Data(B) \in Ops /\ Data(B).op = "data" /\ Data(B).of = B
  BY OpsFacts
<1>5. Opens(s3) /\ CodeIn(s2) \subseteq CodeIn(s3) /\ Data(B).of \subseteq DataIn(s3)
  BY <1>3, <1>4, AppendFacts
<1> QED
  BY <1>1, <1>3, <1>4, <1>5 DEF s1, s2

\* For a branch without a transaction processHighestBr starts one that preloads.
LEMMA StartsBranch ==
    ASSUME program \in Programs, Structured, NEW a \in Tops \ LoopTops, NEW pl \in PlSet,
           NEW B \in SUBSET Buffer, B # {},
           pl.code["last"][a] = <<>>, pl.slice[a] \notin {"placed", "preloaded"},
           \A b \in Region(a) : pl.slice[b] # "preloaded",
           \A i \in DOMAIN pl.code["first"][EndOf(a)] : pl.code["first"][EndOf(a)][i] = End
    PROVE  Starts(pl, processHighestBr(pl, "last", a, B), a, B)
<1> DEFINE e == EndOf(a)
           p0 == [pl EXCEPT !.slice[a] = "placed"]
           p1 == Insert(p0, "last", a, <<Start>>)
           p2 == Insert(p1, "first", e, <<End>>)
           p3 == preloadCode(p2, a, e)
           o == Data(B)
           p4 == Insert(p3, "last", a, <<o>>)
           q == processHighestBr(pl, "last", a, B)
<1>1. /\ a \in Block /\ e \in Block /\ e # a /\ e # NoBlock /\ e \notin Region(a)
      /\ Region(a) \subseteq Block /\ a \notin Region(a)
  BY TopFacts
<1>2. e = ipostdom(a)
  BY DEF EndOf
<1>3. q = p4
  <2>1. q = Insert(endOfBranch(p1, a), "last", a, <<Data(B)>>)
    BY DEF processHighestBr
  <2>2. endOfBranch(p1, a) = preloadCode(Insert(p1, "first", ipostdom(a), <<End>>), a, ipostdom(a))
    BY <1>1, <1>2 DEF endOfBranch
  <2> HIDE DEF q, e, p1
  <2> QED
    BY <1>2, <2>1, <2>2
<1> HIDE DEF e, q, o
<1>4. /\ p0 \in PlSet /\ p0.nodes = pl.nodes /\ p0.loops = pl.loops /\ p0.phase = pl.phase
      /\ p0.code = pl.code /\ p0.slice[a] = "placed"
      /\ \A b \in Block : b # a => p0.slice[b] = pl.slice[b]
  BY <1>1 DEF PlSet, SliceId
<1> HIDE DEF p0
<1>5. Start \in Ops /\ o \in Ops
  BY OpsFacts DEF o
<1>6. /\ p1 \in PlSet /\ p1.slice = p0.slice /\ p1.nodes = p0.nodes /\ p1.loops = p0.loops
      /\ p1.phase = p0.phase
      /\ p1.code["last"][a] = p0.code["last"][a] \o <<Start>>
      /\ p1.code["first"] = p0.code["first"]
      /\ \A c \in Block : c # a => p1.code["last"][c] = p0.code["last"][c]
  BY <1>1, <1>4, <1>5, InsertLast
<1> HIDE DEF p1
<1>7. /\ p2 \in PlSet /\ p2.slice = p1.slice /\ p2.nodes = p1.nodes /\ p2.loops = p1.loops
      /\ p2.phase = p1.phase
      /\ p2.code["first"][e] # <<>> /\ \A i \in DOMAIN p2.code["first"][e] : p2.code["first"][e][i] = End
      /\ p2.code["last"] = p1.code["last"]
      /\ \A c \in Block : c # e => p2.code["first"][c] = p1.code["first"][c]
  <2>1. \A i \in DOMAIN p1.code["first"][e] : p1.code["first"][e][i] = End
    BY <1>4, <1>6 DEF e
  <2> QED
    BY <1>1, <1>6, <2>1, InsertEnd
<1> HIDE DEF p2
<1>8. /\ p3 \in PlSet /\ p3.nodes = p2.nodes /\ p3.loops = p2.loops /\ p3.phase = p2.phase
      /\ CodeOp(a) \in Ops
      /\ p3.code["last"][a] = p2.code["last"][a] \o <<CodeOp(a)>>
      /\ p3.code["first"] = p2.code["first"]
      /\ \A c \in Block : c # a => p3.code["last"][c] = p2.code["last"][c]
      /\ \A b \in Block : p3.slice[b] = IF b \in Region(a) \cup {a} THEN "preloaded" ELSE p2.slice[b]
  <2>1. \A b \in Region(a) \cup {a} : p2.slice[b] # "preloaded"
    BY <1>1, <1>4, <1>6, <1>7
  <2> QED
    BY <1>7, <2>1, PreloadFacts DEF e
<1> HIDE DEF p3
<1>9. /\ p4 \in PlSet /\ p4.slice = p3.slice /\ p4.nodes = p3.nodes /\ p4.loops = p3.loops
      /\ p4.phase = p3.phase
      /\ p4.code["last"][a] = p3.code["last"][a] \o <<o>>
      /\ p4.code["first"] = p3.code["first"]
      /\ \A c \in Block : c # a => p4.code["last"][c] = p3.code["last"][c]
  <2>1. a \in Block /\ p3 \in PlSet /\ o \in Ops
    BY <1>1, <1>5, <1>8
  <2> QED
    BY <2>1, InsertLast
<1> HIDE DEF p4
<1>10. p4.code["last"][a] = ((<<Start>>) \o <<CodeOp(a)>>) \o <<Data(B)>>
  <2>1. p1.code["last"][a] = <<Start>>
    <3>1. <<>> \o <<Start>> = <<Start>>
      BY <1>5
    <3> QED
      BY <1>4, <1>6, <3>1
  <2> QED
    BY <1>7, <1>8, <1>9, <2>1 DEF o
<1>11. Placed(p4.code, a) /\ B \subseteq DataIn(p4.code["last"][a])
  BY <1>7, <1>8, <1>9, <1>10, StartOps DEF Placed, e
<1>12. /\ p4.phase = pl.phase /\ p4.nodes = pl.nodes /\ p4.loops = pl.loops
       /\ \A i \in DOMAIN p4.code["first"][e] : p4.code["first"][e][i] = End
  BY <1>4, <1>6, <1>7, <1>8, <1>9
<1>13. \A b \in Block : /\ b # a => p4.code["last"][b] = pl.code["last"][b]
                        /\ b # e => p4.code["first"][b] = pl.code["first"][b]
                        /\ b \notin Region(a) \cup {a, e} => p4.slice[b] = pl.slice[b]
  BY <1>4, <1>6, <1>7, <1>8, <1>9
<1>14. /\ \A b \in Region(a) \cup {a} : p4.slice[b] = "preloaded"
       /\ p4.slice[e] = pl.slice[e]
  BY <1>1, <1>4, <1>6, <1>7, <1>8, <1>9
<1>15. Starts(pl, p4, a, B)
  BY <1>9, <1>11, <1>12, <1>13, <1>14, Zenon DEF Starts, e
<1> QED
  BY <1>3, <1>15 DEF q

\* For a loop without a transaction placeTransForLoop starts one that preloads.
LEMMA StartsLoop ==
    ASSUME program \in Programs, Structured, NEW a \in Tops \cap LoopTops, NEW pl \in PlSet,
           NEW loop, loop = LoopOf(a), idom(loop[1]) = a,
           NEW B \in SUBSET Buffer, B # {},
           pl.code["last"][a] = <<>>, a \notin pl.loops,
           \A b \in Region(a) \cup {a} : pl.slice[b] # "preloaded",
           \A i \in DOMAIN pl.code["first"][EndOf(a)] : pl.code["first"][EndOf(a)][i] = End,
           pl.slice[EndOf(a)] = "placed" => pl.code["first"][EndOf(a)] # <<>>
    PROVE  Starts(pl, placeTransForLoop(pl, loop[1], loop[2], B), a, B)
<1> DEFINE e == EndOf(a)
           p0 == Insert(pl, "last", a, <<Start>>)
           p1 == [p0 EXCEPT !.loops = @ \cup {a}, !.nodes = @ \cup {<<a, 0>>}]
           i1 == Insert(p1, "first", e, <<End>>)
           p2 == IF pl.slice[e] = "placed" THEN p1 ELSE [i1 EXCEPT !.slice[e] = "placed"]
           p3 == preloadCode(p2, a, e)
           o == Data(B)
           p4 == Insert(p3, "last", a, <<o>>)
           q == placeTransForLoop(pl, loop[1], loop[2], B)
<1>1. /\ a \in Block /\ e \in Block /\ e # a /\ e # NoBlock /\ e \notin Region(a)
      /\ Region(a) \subseteq Block /\ a \notin Region(a)
  BY TopFacts
<1>2. e = LoopEnd(a, loop[2])
  BY DEF EndOf
<1>3. q = p4
  <2> DEFINE s == idom(loop[1])
             f == LoopEnd(s, loop[2])
             started == [Insert(pl, "last", s, <<Start>>) EXCEPT
                            !.loops = @ \cup {s}, !.nodes = @ \cup {<<s, 0>>}]
             ended == IF pl.slice[f] = "placed" THEN started
                      ELSE [Insert(started, "first", f, <<End>>) EXCEPT !.slice[f] = "placed"]
  <2>1. s = a /\ f = e
    BY <1>2
  <2>2. q = CASE s \in pl.loops -> Insert(pl, "last", s, <<Data(B)>>)
              [] s \notin pl.loops /\ B = {} -> pl
              [] s \notin pl.loops /\ B # {} /\ f = NoBlock -> [pl EXCEPT !.phase = "crashed"]
              [] OTHER -> Insert(preloadCode(ended, s, f), "last", s, <<Data(B)>>)
    BY DEF placeTransForLoop
  <2>3. started = p1
    BY <2>1
  <2> HIDE DEF started
  <2>4. ended = p2
    BY <2>1, <2>3
  <2> HIDE DEF ended, s, f, q, e, p2
  <2>5. q = Insert(preloadCode(ended, s, f), "last", s, <<Data(B)>>)
    BY <1>1, <2>1, <2>2
  <2> QED
    BY <2>1, <2>4, <2>5
<1> HIDE DEF e, q, o
<1>4. Start \in Ops /\ o \in Ops
  BY OpsFacts DEF o
<1>5. /\ p0 \in PlSet /\ p0.slice = pl.slice /\ p0.nodes = pl.nodes /\ p0.loops = pl.loops
      /\ p0.phase = pl.phase
      /\ p0.code["last"][a] = pl.code["last"][a] \o <<Start>>
      /\ p0.code["first"] = pl.code["first"]
      /\ \A c \in Block : c # a => p0.code["last"][c] = pl.code["last"][c]
  BY <1>1, <1>4, InsertLast
<1> HIDE DEF p0
<1>6. /\ p1 \in PlSet /\ p1.slice = pl.slice /\ p1.code = p0.code /\ p1.phase = pl.phase
      /\ p1.nodes = pl.nodes \cup {<<a, 0>>} /\ p1.loops = pl.loops \cup {a}
  <2>1. <<a, 0>> \in Node
    BY <1>1 DEF Node
  <2>2. pl.nodes \cup {<<a, 0>>} \in SUBSET Node /\ pl.loops \cup {a} \in SUBSET Block
    BY <1>1, <2>1 DEF PlSet
  <2>3. p1 = [p0 EXCEPT !.loops = pl.loops \cup {a}, !.nodes = pl.nodes \cup {<<a, 0>>}]
    BY <1>5 DEF PlSet
  <2> HIDE DEF p1
  <2>4. /\ p1.slice = p0.slice /\ p1.code = p0.code /\ p1.phase = p0.phase
        /\ p1.nodes = pl.nodes \cup {<<a, 0>>} /\ p1.loops = pl.loops \cup {a}
    BY <1>5, <2>3 DEF PlSet
  <2>5. p1 \in PlSet
    BY <1>5, <2>2, <2>3 DEF PlSet
  <2> QED
    BY <1>5, <2>4, <2>5
<1> HIDE DEF p1
<1>7. /\ i1 \in PlSet /\ i1.slice = p1.slice /\ i1.nodes = p1.nodes /\ i1.loops = p1.loops
      /\ i1.phase = p1.phase
      /\ i1.code["first"][e] # <<>> /\ \A i \in DOMAIN i1.code["first"][e] : i1.code["first"][e][i] = End
      /\ i1.code["last"] = p1.code["last"]
      /\ \A c \in Block : c # e => i1.code["first"][c] = p1.code["first"][c]
  <2>1. \A i \in DOMAIN p1.code["first"][e] : p1.code["first"][e][i] = End
    BY <1>5, <1>6 DEF e
  <2> QED
    BY <1>1, <1>6, <2>1, InsertEnd
<1> HIDE DEF i1
<1>8. /\ p2 \in PlSet /\ p2.nodes = p1.nodes /\ p2.loops = p1.loops /\ p2.phase = p1.phase
      /\ p2.code["first"][e] # <<>> /\ \A i \in DOMAIN p2.code["first"][e] : p2.code["first"][e][i] = End
      /\ p2.code["last"] = p1.code["last"]
      /\ \A c \in Block : c # e => p2.code["first"][c] = p1.code["first"][c]
      /\ p2.slice[e] = "placed" /\ \A b \in Block : b # e => p2.slice[b] = pl.slice[b]
  <2>1. CASE pl.slice[e] = "placed"
    <3>1. p2 = p1
      BY <2>1
    <3>2. p1.code["first"][e] # <<>> /\ \A i \in DOMAIN p1.code["first"][e] : p1.code["first"][e][i] = End
      BY <1>5, <1>6, <2>1 DEF e
    <3> HIDE DEF p2
    <3> QED
      BY <1>6, <2>1, <3>1, <3>2
  <2>2. CASE pl.slice[e] # "placed"
    <3>1. p2 = [i1 EXCEPT !.slice[e] = "placed"]
      BY <2>2
    <3>2. /\ p2 \in PlSet /\ p2.nodes = i1.nodes /\ p2.loops = i1.loops /\ p2.phase = i1.phase
          /\ p2.code = i1.code /\ p2.slice[e] = "placed"
          /\ \A b \in Block : b # e => p2.slice[b] = i1.slice[b]
      BY <1>1, <1>7, <3>1 DEF PlSet, SliceId
    <3> HIDE DEF p2
    <3> QED
      BY <1>6, <1>7, <3>2
  <2> QED
    BY <2>1, <2>2
<1> HIDE DEF p2
<1>9. /\ p3 \in PlSet /\ p3.nodes = p2.nodes /\ p3.loops = p2.loops /\ p3.phase = p2.phase
      /\ CodeOp(a) \in Ops
      /\ p3.code["last"][a] = p2.code["last"][a] \o <<CodeOp(a)>>
      /\ p3.code["first"] = p2.code["first"]
      /\ \A c \in Block : c # a => p3.code["last"][c] = p2.code["last"][c]
      /\ \A b \in Block : p3.slice[b] = IF b \in Region(a) \cup {a} THEN "preloaded" ELSE p2.slice[b]
  <2>1. \A b \in Region(a) \cup {a} : p2.slice[b] # "preloaded"
    BY <1>1, <1>8
  <2>2. p2 \in PlSet /\ p3 = preloadCode(p2, a, EndOf(a))
    BY <1>8 DEF e
  <2> HIDE DEF p3
  <2> QED
    BY <2>1, <2>2, PreloadFacts
<1> HIDE DEF p3
<1>10. /\ p4 \in PlSet /\ p4.slice = p3.slice /\ p4.nodes = p3.nodes /\ p4.loops = p3.loops
       /\ p4.phase = p3.phase
       /\ p4.code["last"][a] = p3.code["last"][a] \o <<o>>
       /\ p4.code["first"] = p3.code["first"]
       /\ \A c \in Block : c # a => p4.code["last"][c] = p3.code["last"][c]
  <2>1. a \in Block /\ p3 \in PlSet /\ o \in Ops
    BY <1>1, <1>4, <1>9
  <2> QED
    BY <2>1, InsertLast
<1> HIDE DEF p4
<1>11. p4.code["last"][a] = ((<<Start>>) \o <<CodeOp(a)>>) \o <<Data(B)>>
  <2>1. p0.code["last"][a] = <<Start>>
    <3>1. <<>> \o <<Start>> = <<Start>>
      BY <1>4
    <3> QED
      BY <1>5, <3>1
  <2> QED
    BY <1>6, <1>8, <1>9, <1>10, <2>1 DEF o
<1>12. Placed(p4.code, a) /\ B \subseteq DataIn(p4.code["last"][a])
  BY <1>8, <1>9, <1>10, <1>11, StartOps DEF Placed, e
<1>13. /\ p4.phase = pl.phase /\ p4.nodes = pl.nodes \cup {<<a, 0>>} /\ p4.loops = pl.loops \cup {a}
       /\ \A i \in DOMAIN p4.code["first"][e] : p4.code["first"][e][i] = End
  BY <1>6, <1>8, <1>9, <1>10
<1>14. \A b \in Block : /\ b # a => p4.code["last"][b] = pl.code["last"][b]
                        /\ b # e => p4.code["first"][b] = pl.code["first"][b]
                        /\ b \notin Region(a) \cup {a, e} => p4.slice[b] = pl.slice[b]
  BY <1>5, <1>6, <1>8, <1>9, <1>10
<1>15. /\ \A b \in Region(a) \cup {a} : p4.slice[b] = "preloaded"
       /\ p4.slice[e] = "placed"
  BY <1>1, <1>8, <1>9, <1>10
<1>16. Starts(pl, p4, a, B)
  BY <1>10, <1>12, <1>13, <1>14, <1>15, Zenon DEF Starts, e
<1> QED
  BY <1>3, <1>16 DEF q

-----------------------------------------------------------------------------
(* What holds while the tool works.                                          *)

\* The slice ids of blocks tell what was placed: the tool takes them for the calls that are there.
SliceInv(pl) ==
    /\ \A b \in Block \ Touched : pl.slice[b] = "none"
    /\ \A b \in program.blocks : pl.slice[b] # "none"
    /\ \A a \in Tops :
          IF pl.code["last"][a] = <<>>
          THEN /\ pl.slice[a] \notin {"placed", "preloaded"} /\ a \notin pl.loops
               /\ \A b \in Region(a) : pl.slice[b] # "preloaded"
          ELSE pl.slice[a] = "preloaded" /\ (a \in LoopTops => a \in pl.loops)
    /\ \A b \in BlockTops : pl.slice[b] \in {"placed", "preloaded"} <=> pl.code["first"][b] # <<>>
    /\ \A a \in LoopTops : pl.slice[EndOf(a)] = "placed" => pl.code["first"][EndOf(a)] # <<>>

\* Branches that are marked throughout stay so, and tops of loops with a transaction are marked.
NodesInv(pl) ==
    /\ pl.loops \subseteq LoopTops
    /\ pl.nodes \subseteq program.nodes \cup {<<s, 0>> : s \in pl.loops}
    /\ \A b \in LastingBranches \cup pl.loops : <<b, 0>> \in pl.nodes

PlInv(pl) == pl \in PlSet /\ CodeInv(pl.code) /\ SliceInv(pl) /\ NodesInv(pl)

\* What has been inserted stays.
Grows(pl, q) ==
    /\ q.phase = pl.phase
    /\ pl.nodes \subseteq q.nodes /\ q.nodes \subseteq pl.nodes \cup {<<s, 0>> : s \in LoopTops}
    /\ \A a \in Tops : pl.code["last"][a] # <<>> =>
          q.code["last"][a] # <<>> /\ DataIn(pl.code["last"][a]) \subseteq DataIn(q.code["last"][a])
    /\ \A b \in BlockTops : pl.code["first"][b] # <<>> =>
          q.code["first"][b] # <<>> /\ DataIn(pl.code["first"][b]) \subseteq DataIn(q.code["first"][b])

\* The transaction of a preloads B.
Covers(q, a, B) == B # {} => q.code["last"][a] # <<>> /\ B \subseteq DataIn(q.code["last"][a])

\* The blocks that get a transaction of their own are blocks.
LEMMA BlockTopsType ==
    ASSUME program \in Programs
    PROVE  BlockTops \subseteq Block
<1>1. program.nodes \subseteq Node
  BY ProgramFacts
<1> QED
  BY <1>1 DEF BlockTops, Accesses, Node

\* One more preload of data in the transaction of a.
LEMMA DataStep ==
    ASSUME program \in Programs, Structured, NEW pl, PlInv(pl), NEW a \in Tops,
           pl.code["last"][a] # <<>>, NEW B \in SUBSET Buffer
    PROVE  LET q == Insert(pl, "last", a, <<Data(B)>>) IN PlInv(q) /\ Grows(pl, q) /\ Covers(q, a, B)
<1> DEFINE o == Data(B)
           q == Insert(pl, "last", a, <<o>>)
           s == pl.code["last"][a]
           t == q.code["last"][a]
<1>1. a \in Block /\ a \notin BlockTops
  BY TopFacts, PlaceFacts
<1>2. o \in Ops /\ o.op = "data" /\ o.of = B
  BY OpsFacts
<1>3. pl \in PlSet
  BY DEF PlInv
<1> HIDE DEF o
<1>4. /\ q \in PlSet /\ q.slice = pl.slice /\ q.nodes = pl.nodes /\ q.loops = pl.loops
      /\ q.phase = pl.phase
      /\ t = s \o <<o>>
      /\ q.code["first"] = pl.code["first"]
      /\ \A c \in Block : c # a => q.code["last"][c] = pl.code["last"][c]
  BY <1>1, <1>2, <1>3, InsertLast
<1> HIDE DEF q
<1>5. s \in Seq(Ops)
  BY <1>1, <1>3 DEF PlSet, Place
<1>6. /\ Opens(s) => Opens(t)
      /\ DataIn(s) \subseteq DataIn(t) /\ CodeIn(s) \subseteq CodeIn(t)
      /\ B \subseteq DataIn(t) /\ t # <<>>
  <2> HIDE DEF s, t
  <2> QED
    BY <1>2, <1>4, <1>5, AppendFacts
<1>7. CodeInv(pl.code) /\ SliceInv(pl) /\ NodesInv(pl)
  BY DEF PlInv
<1>8. CodeInv(q.code)
  <2>1. Placed(pl.code, a)
    BY <1>7 DEF CodeInv
  <2>2. Placed(q.code, a)
    BY <1>4, <1>6, <2>1 DEF Placed
  <2>3. \A c \in Tops : q.code["last"][c] # <<>> => Placed(q.code, c)
    <3>1. SUFFICES ASSUME NEW c \in Tops, c # a, q.code["last"][c] # <<>>  PROVE Placed(q.code, c)
      BY <2>2
    <3>2. c \in Block
      BY TopFacts
    <3>3. q.code["last"][c] = pl.code["last"][c]
      BY <1>4, <3>1, <3>2
    <3>4. Placed(pl.code, c)
      BY <1>7, <3>1, <3>3 DEF CodeInv
    <3> QED
      BY <1>4, <3>3, <3>4 DEF Placed
  <2>4. \A b \in Block \ (Tops \cup BlockTops) : q.code["last"][b] = <<>>
    BY <1>4, <1>7 DEF CodeInv
  <2>5. \A b \in BlockTops : b \in Block
    BY BlockTopsType
  <2>6. \A b \in BlockTops : q.code["last"][b] = pl.code["last"][b]
    BY <1>1, <1>4, <2>5
  <2> QED
    BY <1>4, <1>7, <2>3, <2>4, <2>6 DEF CodeInv
<1>9. SliceInv(q)
  <2>1. \A c \in Tops : q.code["last"][c] = <<>> <=> pl.code["last"][c] = <<>>
    <3>1. \A c \in Tops : c \in Block
      BY TopFacts
    <3> QED
      BY <1>4, <1>6, <3>1
  <2> QED
    BY <1>4, <1>7, <2>1 DEF SliceInv
<1>10. NodesInv(q)
  BY <1>4, <1>7 DEF NodesInv
<1>11. Grows(pl, q)
  <2>1. \A c \in Tops : c \in Block
    BY TopFacts
  <2> QED
    BY <1>4, <1>6, <2>1 DEF Grows
<1>12. PlInv(q) /\ Covers(q, a, B)
  BY <1>4, <1>6, <1>8, <1>9, <1>10 DEF PlInv, Covers
<1> QED
  BY <1>11, <1>12 DEF q, o

\* The start of a transaction.
LEMMA StartStep ==
    ASSUME program \in Programs, Structured, NEW pl, PlInv(pl), NEW a \in Tops,
           pl.code["last"][a] = <<>>, NEW B \in SUBSET Buffer, NEW q, Starts(pl, q, a, B)
    PROVE  PlInv(q) /\ Grows(pl, q) /\ Covers(q, a, B)
<1> DEFINE e == EndOf(a)
<1>1. /\ a \in Block /\ e \in Block /\ e # a /\ e \notin Region(a)
      /\ Region(a) \subseteq Block /\ a \notin Region(a)
  BY TopFacts
<1>2. \A b \in BlockTops : b \in Block
  BY BlockTopsType
<1>3. \A c \in Tops : c \in Block /\ EndOf(c) \in Block /\ Region(c) \subseteq Block /\ Region(c) \subseteq Part(c)
  BY TopFacts
<1>4. pl \in PlSet /\ CodeInv(pl.code) /\ SliceInv(pl) /\ NodesInv(pl)
  BY DEF PlInv
<1>5. /\ q \in PlSet /\ q.phase = pl.phase
      /\ Placed(q.code, a) /\ B \subseteq DataIn(q.code["last"][a])
      /\ \A i \in DOMAIN q.code["first"][e] : q.code["first"][e][i] = End
      /\ \A b \in Block : /\ b # a => q.code["last"][b] = pl.code["last"][b]
                          /\ b # e => q.code["first"][b] = pl.code["first"][b]
                          /\ b \notin Region(a) \cup {a, e} => q.slice[b] = pl.slice[b]
      /\ \A b \in Region(a) \cup {a} : q.slice[b] = "preloaded"
      /\ q.slice[e] = IF a \in LoopTops THEN "placed" ELSE pl.slice[e]
  BY DEF Starts
<1>6. IF a \in LoopTops THEN q.nodes = pl.nodes \cup {<<a, 0>>} /\ q.loops = pl.loops \cup {a}
      ELSE q.nodes = pl.nodes /\ q.loops = pl.loops
  BY DEF Starts
<1>7. q.code["last"][a] # <<>> /\ q.code["first"][e] # <<>>
  BY <1>5 DEF Placed, Opens
<1>8. e \in Ends /\ e \notin BlockTops /\ e \notin Tops /\ e \notin Parts /\ a \notin BlockTops
      /\ a \notin Parts /\ a \notin Ends /\ BlockTops \cap Parts = {} /\ BlockTops \cap Ends = {}
      /\ Region(a) \subseteq Parts /\ Tops \cap Parts = {} /\ Ends \cap Parts = {} /\ BlockTops \cap Tops = {}
      /\ \A c \in Tops : EndOf(c) \in Ends /\ Region(c) \subseteq Parts
  BY <1>3, PlaceFacts
<1>9. \A c \in Tops : c # a => Region(c) \cap Region(a) = {}
  BY <1>3, PartsApart
<1> HIDE DEF e
<1>10. CodeInv(q.code)
  <2>1. \A c \in Tops : q.code["last"][c] # <<>> => Placed(q.code, c)
    <3>1. SUFFICES ASSUME NEW c \in Tops, c # a, q.code["last"][c] # <<>>  PROVE Placed(q.code, c)
      BY <1>5
    <3>2. q.code["last"][c] = pl.code["last"][c]
      BY <1>3, <1>5, <3>1
    <3>3. Placed(pl.code, c)
      BY <1>4, <3>1, <3>2 DEF CodeInv
    <3>4. q.code["first"][EndOf(c)] # <<>>
      <4>1. CASE EndOf(c) = e
        BY <1>7, <4>1
      <4>2. CASE EndOf(c) # e
        BY <1>3, <1>5, <3>3, <4>2 DEF Placed
      <4> QED
        BY <4>1, <4>2
    <3> QED
      BY <3>2, <3>3, <3>4 DEF Placed
  <2>2. \A b \in Block \ (Tops \cup BlockTops) : q.code["last"][b] = <<>>
    BY <1>4, <1>5 DEF CodeInv
  <2>3. \A b \in Block \ (Ends \cup BlockTops) : q.code["first"][b] = <<>>
    BY <1>4, <1>5, <1>8 DEF CodeInv
  <2>4. \A b \in Ends : \A i \in DOMAIN q.code["first"][b] : q.code["first"][b][i] = End
    <3>1. \A b \in Ends : b \in Block
      BY <1>3, PlaceFacts
    <3> QED
      BY <1>4, <1>5, <3>1 DEF CodeInv
  <2>5. \A b \in BlockTops : q.code["last"][b] = pl.code["last"][b] /\ q.code["first"][b] = pl.code["first"][b]
    BY <1>2, <1>5, <1>8
  <2>6. \A b \in BlockTops : \/ q.code["first"][b] = <<>> /\ q.code["last"][b] = <<>>
                             \/ Opens(q.code["first"][b]) /\ q.code["last"][b] = <<End>>
    BY <1>4, <2>5 DEF CodeInv
  <2> QED
    BY <2>1, <2>2, <2>3, <2>4, <2>6 DEF CodeInv
<1>11. SliceInv(q)
  <2>1. \A b \in Block \ Touched : q.slice[b] = "none"
    <3>1. Region(a) \cup {a} \subseteq Touched /\ (a \in LoopTops => e \in Touched)
      BY <1>8 DEF Touched, e
    <3> QED
      BY <1>1, <1>4, <1>5, <3>1 DEF SliceInv
  <2>2. \A b \in program.blocks : q.slice[b] # "none"
    <3>1. program.blocks \subseteq Block
      BY ProgramFacts
    <3> QED
      BY <1>1, <1>4, <1>5, <3>1 DEF SliceInv
  <2>3. ASSUME NEW c \in Tops
        PROVE  IF q.code["last"][c] = <<>>
               THEN /\ q.slice[c] \notin {"placed", "preloaded"} /\ c \notin q.loops
                    /\ \A b \in Region(c) : q.slice[b] # "preloaded"
               ELSE q.slice[c] = "preloaded" /\ (c \in LoopTops => c \in q.loops)
    <3>1. CASE c = a
      BY <1>5, <1>6, <1>7, <3>1
    <3>2. CASE c # a
      <4>1. c \in Block /\ c \notin Region(a) \cup {a, e}
        BY <1>3, <1>8, <3>2
      <4>2. q.code["last"][c] = pl.code["last"][c] /\ q.slice[c] = pl.slice[c]
        BY <1>5, <4>1
      <4>3. \A b \in Region(c) : b \in Block /\ b \notin Region(a) \cup {a, e}
        BY <1>3, <1>8, <1>9, <3>2
      <4>4. \A b \in Region(c) : q.slice[b] = pl.slice[b]
        BY <1>5, <4>3
      <4>5. c \in q.loops <=> c \in pl.loops
        BY <1>6, <3>2
      <4> QED
        BY <1>4, <4>2, <4>4, <4>5 DEF SliceInv
    <3> QED
      BY <3>1, <3>2
  <2>4. \A b \in BlockTops : q.slice[b] \in {"placed", "preloaded"} <=> q.code["first"][b] # <<>>
    <3>1. \A b \in BlockTops : b \in Block /\ b \notin Region(a) \cup {a, e}
      BY <1>2, <1>8
    <3>2. \A b \in BlockTops : q.slice[b] = pl.slice[b] /\ q.code["first"][b] = pl.code["first"][b]
      BY <1>5, <3>1
    <3> QED
      BY <1>4, <3>2 DEF SliceInv
  <2>5. ASSUME NEW c \in LoopTops, q.slice[EndOf(c)] = "placed"  PROVE q.code["first"][EndOf(c)] # <<>>
    <3>1. c \in Tops
      BY DEF Structured
    <3>2. CASE EndOf(c) = e
      BY <1>7, <3>2
    <3>3. CASE EndOf(c) # e
      <4>1. EndOf(c) \in Block /\ EndOf(c) \notin Region(a) \cup {a, e}
        BY <1>3, <1>8, <3>1, <3>3
      <4>2. q.slice[EndOf(c)] = pl.slice[EndOf(c)] /\ q.code["first"][EndOf(c)] = pl.code["first"][EndOf(c)]
        BY <1>5, <4>1
      <4> QED
        BY <1>4, <2>5, <4>2 DEF SliceInv
    <3> QED
      BY <3>2, <3>3
  <2> QED
    BY <2>1, <2>2, <2>3, <2>4, <2>5 DEF SliceInv
<1>12. NodesInv(q)
  <2>1. CASE a \in LoopTops
    BY <1>4, <1>6, <2>1 DEF NodesInv
  <2>2. CASE a \notin LoopTops
    BY <1>4, <1>6, <2>2 DEF NodesInv
  <2> QED
    BY <2>1, <2>2
<1>13. Grows(pl, q)
  <2>1. \A c \in Tops : pl.code["last"][c] # <<>> =>
           q.code["last"][c] # <<>> /\ DataIn(pl.code["last"][c]) \subseteq DataIn(q.code["last"][c])
    BY <1>3, <1>5
  <2>2. \A b \in BlockTops : q.code["first"][b] = pl.code["first"][b]
    BY <1>2, <1>5, <1>8
  <2>3. pl.nodes \subseteq q.nodes /\ q.nodes \subseteq pl.nodes \cup {<<s, 0>> : s \in LoopTops}
    BY <1>6
  <2> QED
    BY <1>5, <2>1, <2>2, <2>3 DEF Grows
<1> QED
  BY <1>5, <1>7, <1>10, <1>11, <1>12, <1>13 DEF PlInv, Covers

\* At the start of a block, after those inserted earlier unless it has PHI nodes.
LEMMA InsertFirst ==
    ASSUME NEW pl \in PlSet, NEW b \in Block, NEW ops \in Seq(Ops)
    PROVE  LET q == Insert(pl, "first", b, ops) IN
           /\ q \in PlSet /\ q.slice = pl.slice /\ q.nodes = pl.nodes /\ q.loops = pl.loops
           /\ q.phase = pl.phase
           /\ b \notin program.phi => q.code["first"][b] = pl.code["first"][b] \o ops
           /\ q.code["last"] = pl.code["last"]
           /\ \A c \in Block : c # b => q.code["first"][c] = pl.code["first"][c]
<1> DEFINE q == Insert(pl, "first", b, ops)
           k == "first"
<1>0. k \in Place /\ ops \in Seq(Ops)
  BY DEF Place
<1>1. "last" \in Place /\ "first" \in Place
  BY DEF Place
<1>01. q = Insert(pl, k, b, ops)
  OBVIOUS
<1> HIDE DEF k, q
<1>2. /\ q \in PlSet /\ q.slice = pl.slice /\ q.nodes = pl.nodes /\ q.loops = pl.loops
      /\ q.phase = pl.phase
      /\ q.code[k][b] = IF k = "first" /\ b \in program.phi THEN ops \o pl.code[k][b]
                        ELSE pl.code[k][b] \o ops
      /\ \A l \in Place, c \in Block : l # k \/ c # b => q.code[l][c] = pl.code[l][c]
  BY <1>0, <1>01, InsertFacts
<1>3. /\ b \notin program.phi => q.code["first"][b] = pl.code["first"][b] \o ops
      /\ \A l \in Place, c \in Block : l # "first" \/ c # b => q.code[l][c] = pl.code[l][c]
  BY <1>2 DEF k
<1>4. q.code["last"] = pl.code["last"]
  <2>1. q.code["last"] \in [Block -> Seq(Ops)] /\ pl.code["last"] \in [Block -> Seq(Ops)]
    BY <1>1, <1>2 DEF PlSet
  <2>2. \A c \in Block : q.code["last"][c] = pl.code["last"][c]
    BY <1>1, <1>3
  <2> QED
    BY <2>1, <2>2
<1>5. \A c \in Block : c # b => q.code["first"][c] = pl.code["first"][c]
  BY <1>1, <1>3
<1> QED
  BY <1>2, <1>3, <1>4, <1>5 DEF q

\* Doing nothing keeps what has been inserted.
LEMMA GrowsSelf ==
    ASSUME NEW pl
    PROVE  Grows(pl, pl)
  BY DEF Grows

\* The transaction of branch a is started, or preloads more.
LEMMA PutBranch ==
    ASSUME program \in Programs, Structured, NEW pl, PlInv(pl), NEW a \in Tops,
           a \notin LoopTops \/ pl.code["last"][a] # <<>>, NEW B \in SUBSET Buffer
    PROVE  LET q == processHighestBr(pl, "last", a, B) IN PlInv(q) /\ Grows(pl, q) /\ Covers(q, a, B)
<1> DEFINE q == processHighestBr(pl, "last", a, B)
<1>0. SUFFICES PlInv(q) /\ Grows(pl, q) /\ Covers(q, a, B)
  OBVIOUS
<1>1. pl \in PlSet /\ CodeInv(pl.code) /\ SliceInv(pl)
  BY DEF PlInv
<1>2. CASE pl.slice[a] \in {"placed", "preloaded"}
  <2>1. pl.code["last"][a] # <<>>
    BY <1>1, <1>2 DEF SliceInv
  <2>2. q = Insert(pl, "last", a, <<Data(B)>>)
    BY <1>2 DEF processHighestBr
  <2> HIDE DEF q
  <2> QED
    BY <2>1, <2>2, DataStep
<1>3. CASE pl.slice[a] \notin {"placed", "preloaded"}
  <2>1. pl.code["last"][a] = <<>> /\ a \notin LoopTops /\ \A b \in Region(a) : pl.slice[b] # "preloaded"
    BY <1>1, <1>3 DEF SliceInv
  <2>2. CASE B = {}
    <3>1. q = pl
      BY <1>3, <2>2 DEF processHighestBr
    <3> HIDE DEF q
    <3> QED
      BY <2>2, <3>1, GrowsSelf DEF Covers
  <2>3. CASE B # {}
    <3>1. \A i \in DOMAIN pl.code["first"][EndOf(a)] : pl.code["first"][EndOf(a)][i] = End
      BY <1>1, PlaceFacts DEF CodeInv
    <3>2. Starts(pl, q, a, B)
      BY <1>1, <1>3, <2>1, <2>3, <3>1, StartsBranch
    <3> HIDE DEF q
    <3> QED
      BY <2>1, <3>2, StartStep
  <2> QED
    BY <2>2, <2>3
<1> QED
  BY <1>2, <1>3

\* The transaction of a loop for which no branch is found is started, or preloads more.
LEMMA PutLoop ==
    ASSUME program \in Programs, Structured, NEW pl, PlInv(pl), NEW loop \in OuterLoops,
           NEW a, a = idom(loop[1]), NEW B \in SUBSET Buffer
    PROVE  LET q == placeTransForLoop(pl, loop[1], loop[2], B) IN
           PlInv(q) /\ Grows(pl, q) /\ Covers(q, a, B)
<1> DEFINE q == placeTransForLoop(pl, loop[1], loop[2], B)
<1>0. SUFFICES PlInv(q) /\ Grows(pl, q) /\ Covers(q, a, B)
  OBVIOUS
<1>1. pl \in PlSet /\ CodeInv(pl.code) /\ SliceInv(pl) /\ NodesInv(pl)
  BY DEF PlInv
<1>2. a \in LoopTops /\ a \in Tops /\ OwnLoop(a)
  BY DEF LoopTops, Structured
<1>3. loop = LoopOf(a)
  BY <1>2 DEF OwnLoop
<1>4. CASE a \in pl.loops
  <2>1. pl.code["last"][a] # <<>>
    BY <1>1, <1>2, <1>4 DEF SliceInv
  <2>2. q = Insert(pl, "last", a, <<Data(B)>>)
    BY <1>4 DEF placeTransForLoop
  <2> HIDE DEF q
  <2> QED
    BY <1>2, <2>1, <2>2, DataStep
<1>5. CASE a \notin pl.loops
  <2>1. /\ pl.code["last"][a] = <<>> /\ \A b \in Region(a) : pl.slice[b] # "preloaded"
        /\ pl.slice[a] \notin {"placed", "preloaded"}
    BY <1>1, <1>2, <1>5 DEF SliceInv
  <2>2. CASE B = {}
    <3>1. q = pl
      BY <1>5, <2>2 DEF placeTransForLoop
    <3> HIDE DEF q
    <3> QED
      BY <2>2, <3>1, GrowsSelf DEF Covers
  <2>3. CASE B # {}
    <3>1. \A i \in DOMAIN pl.code["first"][EndOf(a)] : pl.code["first"][EndOf(a)][i] = End
      BY <1>1, <1>2, PlaceFacts DEF CodeInv
    <3>2. pl.slice[EndOf(a)] = "placed" => pl.code["first"][EndOf(a)] # <<>>
      BY <1>1, <1>2 DEF SliceInv
    <3>3. a \in Tops \cap LoopTops /\ \A b \in Region(a) \cup {a} : pl.slice[b] # "preloaded"
      BY <1>2, <2>1
    <3>4. Starts(pl, q, a, B)
      BY <1>1, <1>3, <1>5, <2>1, <2>3, <3>1, <3>2, <3>3, StartsLoop
    <3> HIDE DEF q
    <3> QED
      BY <1>2, <2>1, <3>4, StartStep
  <2> QED
    BY <2>2, <2>3
<1> QED
  BY <1>4, <1>5

\* A transaction of one block.
LEMMA BlockStep ==
    ASSUME program \in Programs, Structured, NEW pl, PlInv(pl), NEW b \in BlockTops, NEW q \in PlSet,
           q.phase = pl.phase, q.nodes = pl.nodes, q.loops = pl.loops,
           \A c \in Block : c # b => /\ q.code["first"][c] = pl.code["first"][c]
                                     /\ q.code["last"][c] = pl.code["last"][c] /\ q.slice[c] = pl.slice[c],
           Opens(q.code["first"][b]), q.code["last"][b] = <<End>>, q.slice[b] \in {"placed", "preloaded"},
           DataIn(pl.code["first"][b]) \subseteq DataIn(q.code["first"][b])
    PROVE  PlInv(q) /\ Grows(pl, q)
<1>1. pl \in PlSet /\ CodeInv(pl.code) /\ SliceInv(pl) /\ NodesInv(pl)
  BY DEF PlInv
<1>2. \A c \in Tops : c \in Block /\ EndOf(c) \in Block /\ Region(c) \subseteq Block /\ Region(c) \subseteq Part(c)
  BY TopFacts
<1>3. /\ b \in Block /\ b \notin Tops /\ b \notin Parts /\ b \notin Ends /\ BlockTops \subseteq Block
      /\ \A c \in Tops : EndOf(c) \in Ends /\ Part(c) \subseteq Parts
      /\ \A c \in Ends : c \in Block
  BY <1>2, PlaceFacts, BlockTopsType
<1>4. q.code["first"][b] # <<>>
  BY DEF Opens
<1>5. \A c \in Tops : /\ q.code["last"][c] = pl.code["last"][c] /\ q.slice[c] = pl.slice[c]
                      /\ q.code["first"][EndOf(c)] = pl.code["first"][EndOf(c)]
                      /\ q.slice[EndOf(c)] = pl.slice[EndOf(c)]
                      /\ \A d \in Region(c) : q.slice[d] = pl.slice[d]
  BY <1>2, <1>3
<1>6. CodeInv(q.code)
  <2>1. ASSUME NEW c \in Tops, q.code["last"][c] # <<>>  PROVE Placed(q.code, c)
    <3>1. Placed(pl.code, c)
      BY <1>1, <1>5, <2>1 DEF CodeInv
    <3> QED
      BY <1>5, <3>1 DEF Placed
  <2>2. \A c \in Block \ (Tops \cup BlockTops) : q.code["last"][c] = <<>>
    BY <1>1 DEF CodeInv
  <2>3. \A c \in Block \ (Ends \cup BlockTops) : q.code["first"][c] = <<>>
    BY <1>1 DEF CodeInv
  <2>4. \A c \in Ends : \A i \in DOMAIN q.code["first"][c] : q.code["first"][c][i] = End
    BY <1>1, <1>3 DEF CodeInv
  <2>5. \A c \in BlockTops : \/ q.code["first"][c] = <<>> /\ q.code["last"][c] = <<>>
                             \/ Opens(q.code["first"][c]) /\ q.code["last"][c] = <<End>>
    BY <1>1, <1>3 DEF CodeInv
  <2> QED
    BY <2>1, <2>2, <2>3, <2>4, <2>5 DEF CodeInv
<1>7. SliceInv(q)
  <2>1. b \in Touched
    BY DEF Touched
  <2>2. program.blocks \subseteq Block /\ LoopTops \subseteq Tops
    BY ProgramFacts DEF Structured
  <2>3. \A c \in Block \ Touched : q.slice[c] = "none"
    BY <1>1, <2>1 DEF SliceInv
  <2>4. \A c \in program.blocks : q.slice[c] # "none"
    BY <1>1, <2>2 DEF SliceInv
  <2>5. \A c \in BlockTops : q.slice[c] \in {"placed", "preloaded"} <=> q.code["first"][c] # <<>>
    BY <1>1, <1>3, <1>4 DEF SliceInv
  <2>6. \A c \in LoopTops : q.slice[EndOf(c)] = "placed" => q.code["first"][EndOf(c)] # <<>>
    BY <1>1, <1>5, <2>2 DEF SliceInv
  <2>7. \A c \in Tops :
          IF q.code["last"][c] = <<>>
          THEN /\ q.slice[c] \notin {"placed", "preloaded"} /\ c \notin q.loops
               /\ \A d \in Region(c) : q.slice[d] # "preloaded"
          ELSE q.slice[c] = "preloaded" /\ (c \in LoopTops => c \in q.loops)
    BY <1>1, <1>5 DEF SliceInv
  <2> QED
    BY <2>3, <2>4, <2>5, <2>6, <2>7 DEF SliceInv
<1>8. NodesInv(q)
  BY <1>1 DEF NodesInv
<1>9. Grows(pl, q)
  <2>1. \A c \in BlockTops : pl.code["first"][c] # <<>> =>
          q.code["first"][c] # <<>> /\ DataIn(pl.code["first"][c]) \subseteq DataIn(q.code["first"][c])
    BY <1>3, <1>4
  <2> QED
    BY <1>5, <2>1 DEF Grows
<1> QED
  BY <1>6, <1>7, <1>8, <1>9 DEF PlInv

\* A transaction of one block is made, or preloads more.
LEMMA PutBlock ==
    ASSUME program \in Programs, Structured, NEW pl, PlInv(pl), NEW b \in BlockTops, NEW B \in SUBSET Buffer
    PROVE  LET q == processHighestBr(pl, "first", b, B) IN
           /\ PlInv(q) /\ Grows(pl, q)
           /\ B # {} => q.code["first"][b] # <<>> /\ B \subseteq DataIn(q.code["first"][b])
<1> DEFINE q == processHighestBr(pl, "first", b, B)
           o == Data(B)
           s == pl.code["first"][b]
<1>0. SUFFICES /\ PlInv(q) /\ Grows(pl, q)
               /\ B # {} => q.code["first"][b] # <<>> /\ B \subseteq DataIn(q.code["first"][b])
  OBVIOUS
<1>1. pl \in PlSet /\ CodeInv(pl.code) /\ SliceInv(pl)
  BY DEF PlInv
<1>2. b \in Block /\ b \notin program.phi /\ b \notin Tops
  BY BlockTopsType DEF Structured
<1>3. o \in Ops /\ o.op = "data" /\ o.of = B /\ Start \in Ops /\ End \in Ops
  BY OpsFacts
<1>4. "first" \in Place /\ "last" \in Place /\ "first" # "last" /\ s \in Seq(Ops)
  BY <1>1, <1>2 DEF PlSet, Place
<1> HIDE DEF o
<1>5. CASE pl.slice[b] \in {"placed", "preloaded"}
  <2> DEFINE ops == <<o>>
             r == Insert(pl, "first", b, ops)
             t == r.code["first"][b]
  <2>1. q = r
    BY <1>5 DEF processHighestBr, o
  <2>2. ops \in Seq(Ops)
    BY <1>3
  <2> HIDE DEF ops, q
  <2>3. /\ r \in PlSet /\ r.slice = pl.slice /\ r.nodes = pl.nodes /\ r.loops = pl.loops
        /\ r.phase = pl.phase
        /\ r.code["first"][b] = pl.code["first"][b] \o ops
        /\ r.code["last"] = pl.code["last"]
        /\ \A c \in Block : c # b => r.code["first"][c] = pl.code["first"][c]
    BY <1>1, <1>2, <2>2, InsertFirst
  <2> HIDE DEF r, s
  <2>4. t = s \o <<o>>
    BY <1>2, <2>3 DEF ops, s
  <2>5. Opens(s) /\ pl.code["last"][b] = <<End>>
    BY <1>1, <1>5 DEF SliceInv, CodeInv, s
  <2>6. Opens(t) /\ DataIn(s) \subseteq DataIn(t) /\ B \subseteq DataIn(t) /\ t # <<>>
    BY <1>3, <1>4, <2>4, <2>5, AppendFacts
  <2>7. \A c \in Block : c # b => /\ r.code["first"][c] = pl.code["first"][c]
                                  /\ r.code["last"][c] = pl.code["last"][c] /\ r.slice[c] = pl.slice[c]
    BY <1>4, <2>3
  <2>8. r.code["last"][b] = <<End>>
    BY <1>2, <1>4, <2>3, <2>5
  <2>9. PlInv(r) /\ Grows(pl, r)
    BY <1>5, <2>3, <2>6, <2>7, <2>8, BlockStep DEF s
  <2> QED
    BY <2>1, <2>6, <2>9
<1>6. CASE pl.slice[b] \notin {"placed", "preloaded"} /\ B = {}
  <2>1. q = pl
    BY <1>6 DEF processHighestBr
  <2> HIDE DEF q
  <2> QED
    BY <1>6, <2>1, GrowsSelf
<1>7. CASE pl.slice[b] \notin {"placed", "preloaded"} /\ B # {}
  <2> DEFINE p0 == [pl EXCEPT !.slice[b] = "placed"]
             ops == <<Start, o>>
             p1 == Insert(p0, "first", b, ops)
             p2 == Insert(p1, "last", b, <<End>>)
             t == p2.code["first"][b]
  <2>1. q = p2
    BY <1>7 DEF processHighestBr, o
  <2>2. s = <<>> /\ pl.code["last"][b] = <<>>
    <3>1. s = <<>>
      BY <1>1, <1>7 DEF SliceInv
    <3>2. ~Opens(s)
      BY <3>1 DEF Opens
    <3> QED
      BY <1>1, <3>1, <3>2 DEF CodeInv
  <2>3. ops \in Seq(Ops)
    BY <1>3
  <2> HIDE DEF q, s
  <2>4. /\ p0 \in PlSet /\ p0.nodes = pl.nodes /\ p0.loops = pl.loops /\ p0.phase = pl.phase
        /\ p0.code = pl.code /\ p0.slice[b] = "placed"
        /\ \A c \in Block : c # b => p0.slice[c] = pl.slice[c]
    <3>1. pl.slice \in [Block -> SliceId]
      BY <1>1 DEF PlSet
    <3> DEFINE t0 == [pl.slice EXCEPT ![b] = "placed"]
    <3>2. "placed" \in SliceId
      BY DEF SliceId
    <3>3. t0 \in [Block -> SliceId] /\ t0[b] = "placed" /\ \A c \in Block : c # b => t0[c] = pl.slice[c]
      BY <1>2, <3>1, <3>2
    <3>4. p0 = [pl EXCEPT !.slice = t0]
      BY <1>1, <1>2 DEF PlSet
    <3> HIDE DEF t0, p0
    <3>5. /\ p0 \in PlSet /\ p0.slice = t0 /\ p0.nodes = pl.nodes /\ p0.loops = pl.loops
          /\ p0.phase = pl.phase /\ p0.code = pl.code
      BY <1>1, <3>3, <3>4 DEF PlSet
    <3> QED
      BY <3>3, <3>5
  <2> HIDE DEF p0, ops
  <2>5. /\ p1 \in PlSet /\ p1.slice = p0.slice /\ p1.nodes = p0.nodes /\ p1.loops = p0.loops
        /\ p1.phase = p0.phase
        /\ p1.code["first"][b] = p0.code["first"][b] \o ops
        /\ p1.code["last"] = p0.code["last"]
        /\ \A c \in Block : c # b => p1.code["first"][c] = p0.code["first"][c]
    BY <1>2, <2>3, <2>4, InsertFirst
  <2> HIDE DEF p1
  <2>6. /\ p2 \in PlSet /\ p2.slice = p1.slice /\ p2.nodes = p1.nodes /\ p2.loops = p1.loops
        /\ p2.phase = p1.phase
        /\ p2.code["last"][b] = p1.code["last"][b] \o <<End>>
        /\ p2.code["first"] = p1.code["first"]
        /\ \A c \in Block : c # b => p2.code["last"][c] = p1.code["last"][c]
    BY <1>2, <1>3, <2>5, InsertLast
  <2> HIDE DEF p2
  <2>7. t = s \o ops
    BY <1>2, <2>4, <2>5, <2>6 DEF s
  <2>8. Opens(t) /\ B \subseteq DataIn(t) /\ t # <<>>
    <3>1. s \o ops = (<<Start>>) \o <<o>> /\ <<Start>> \in Seq(Ops) /\ Opens(<<Start>>)
      BY <1>3, <2>2 DEF ops, Opens
    <3> HIDE DEF t
    <3>2. t = (<<Start>>) \o <<o>>
      BY <2>7, <3>1
    <3> DEFINE s1 == <<Start>>
    <3>3. s1 \in Seq(Ops) /\ Opens(s1) /\ t = s1 \o <<o>>
      BY <3>1, <3>2
    <3> HIDE DEF s1
    <3> QED
      BY <1>3, <3>3, AppendFacts
  <2>9. p2.code["last"][b] = <<End>>
    <3>1. <<>> \o <<End>> = <<End>>
      BY <1>3
    <3>2. p1.code["last"][b] = <<>>
      BY <1>2, <1>4, <2>2, <2>4, <2>5
    <3> QED
      BY <2>6, <3>1, <3>2
  <2>10. \A c \in Block : c # b => /\ p2.code["first"][c] = pl.code["first"][c]
                                   /\ p2.code["last"][c] = pl.code["last"][c] /\ p2.slice[c] = pl.slice[c]
    BY <1>4, <2>4, <2>5, <2>6
  <2>11. DataIn(<<>>) = {}
    BY DEF DataIn
  <2>12. /\ p2 \in PlSet /\ p2.phase = pl.phase /\ p2.nodes = pl.nodes /\ p2.loops = pl.loops
         /\ p2.slice[b] = "placed" /\ DataIn(pl.code["first"][b]) \subseteq DataIn(t)
    BY <2>2, <2>4, <2>5, <2>6, <2>11 DEF s
  <2>13. PlInv(p2) /\ Grows(pl, p2)
    BY <2>8, <2>9, <2>10, <2>12, BlockStep
  <2> QED
    BY <2>1, <2>8, <2>13
<1> QED
  BY <1>5, <1>6, <1>7

-----------------------------------------------------------------------------
(* The branches that are found.                                              *)

\* Branch a is marked, as long as the tool looks for it.
Active(pl, a) == a \in LoopTops => a \in pl.loops

\* Which branches count as marked: only tops of transactions, branches on the secret and loop tops.
LEMMA MarkedFacts ==
    ASSUME program \in Programs, Structured, NEW pl, PlInv(pl)
    PROVE  /\ \A b : MarkedBr(pl, b) => b \in AnyBranches /\ b \in Block
           /\ \A b \in LastingBranches : MarkedBr(pl, b)
           /\ \A a \in Tops : Active(pl, a) => MarkedBr(pl, a)
<1>1. SliceInv(pl) /\ NodesInv(pl)
  BY DEF PlInv
<1>2. LoopTops \subseteq Block /\ Tops \subseteq Block /\ MarkedBranches \subseteq Block /\ LoopTops \subseteq Tops
  BY LoopTopsType DEF Structured
<1>3. ASSUME NEW b, MarkedBr(pl, b)  PROVE b \in AnyBranches /\ b \in Block
  <2>1. <<b, 0>> \in pl.nodes /\ IsBr(b)
    BY <1>3 DEF MarkedBr
  <2>2. CASE <<b, 0>> \in program.nodes
    <3>1. <<b, 0>> \in Branches
      BY <2>1, <2>2 DEF Branches
    <3>2. b \in Block
      BY <2>2, ProgramFacts DEF Node
    <3> QED
      BY <3>1, <3>2 DEF MarkedBranches, AnyBranches
  <2>3. CASE <<b, 0>> \in {<<s, 0>> : s \in pl.loops}
    <3>1. b \in LoopTops
      BY <1>1, <2>3 DEF NodesInv
    <3> QED
      BY <1>2, <3>1 DEF AnyBranches
  <2> QED
    BY <1>1, <2>1, <2>2, <2>3 DEF NodesInv
<1>4. ASSUME NEW b \in LastingBranches  PROVE MarkedBr(pl, b)
  <2>1. <<b, 0>> \in pl.nodes
    BY <1>1 DEF NodesInv
  <2>2. <<b, 0>> \in Branches
    BY DEF LastingBranches, MarkedBranches
  <2>3. IsBr(b) /\ b \in program.blocks
    BY <2>2, FuncFacts DEF Branches
  <2> QED
    BY <1>1, <2>1, <2>3 DEF MarkedBr, SliceInv
<1>5. ASSUME NEW a \in Tops, Active(pl, a)  PROVE MarkedBr(pl, a)
  <2>1. CASE a \in LoopTops
    <3>1. a \in pl.loops
      BY <1>5, <2>1 DEF Active
    <3>2. <<a, 0>> \in pl.nodes /\ pl.slice[a] = "preloaded"
      BY <1>1, <2>1, <3>1 DEF NodesInv, SliceInv
    <3>3. IsBr(a)
      BY TopFacts
    <3> QED
      BY <3>2, <3>3 DEF MarkedBr
  <2>2. CASE a \notin LoopTops
    BY <1>4, <2>2 DEF Tops
  <2> QED
    BY <2>1, <2>2
<1> QED
  BY <1>3, <1>4, <1>5

\* No block that calls f is in the slice.
LEMMA NothingAbove ==
    ASSUME program \in Programs, Structured, NEW pl, PlInv(pl), NEW b \in Block, NotCalled(program.func[b])
    PROVE  Up(Highest(pl), b) = {}
<1>1. SliceInv(pl)
  BY DEF PlInv
<1>2. ASSUME NEW c \in CallersOf(program.func[b])  PROVE Highest(pl)[c] = {}
  <2>1. c \in Block \ Touched
    BY DEF CallersOf, NotCalled
  <2>2. pl.slice[c] = "none"
    BY <1>1, <2>1 DEF SliceInv
  <2> QED
    BY <2>1, <2>2, HighestFacts
<1> QED
  BY <1>2 DEF Up

\* No branch above that of a transaction is found.
LEMMA HighestTop ==
    ASSUME program \in Programs, Structured, NEW pl, PlInv(pl), NEW a \in Tops
    PROVE  Highest(pl)[a] = {}
<1>1. SliceInv(pl)
  BY DEF PlInv
<1>2. a \in Block /\ NotCalled(program.func[a]) /\ Apart(a)
  BY TopFacts DEF Structured, SingleEntry
<1>3. TopBranch(pl, a) = {}
  <2> DEFINE found == {d \in Block : StrictlyDominates(d, a) /\ MarkedBr(pl, d) /\
                         \A c \in Block : StrictlyDominates(d, c) /\ StrictlyDominates(c, a)
                                => pl.slice[c] # "none"}
  <2>1. ASSUME NEW d \in found  PROVE FALSE
    <3>1. d \in AnyBranches
      BY MarkedFacts
    <3>2. PICK c \in Block \ Touched : StrictlyDominates(d, c) /\ StrictlyDominates(c, a)
      BY <1>2, <3>1 DEF Apart
    <3> QED
      BY <1>1, <3>2 DEF SliceInv
  <2>2. TopBranch(pl, a) \subseteq found
    BY DEF TopBranch
  <2> QED
    BY <2>1, <2>2
<1>4. Up(Highest(pl), a) = {}
  BY <1>2, NothingAbove
<1> QED
  BY <1>2, <1>3, <1>4, HighestFacts

\* From the region of a branch that stays marked, that branch is found.
LEMMA HighestRegion ==
    ASSUME program \in Programs, Structured, NEW pl, PlInv(pl), NEW a \in Tops, Active(pl, a),
           NEW d \in Region(a), program.callee[d] # {} \/ d \in MarkedBranches
    PROVE  Highest(pl)[d] = {a}
<1>1. SliceInv(pl)
  BY DEF PlInv
<1>2. /\ NotCalled(program.func[a]) /\ Apart(a) /\ Marked(a)
      /\ Region(a) \subseteq Block /\ d \in Block /\ a \in Block /\ d \in Part(a)
      /\ program.func[d] = program.func[a] /\ program.blocks \subseteq Block
  BY TopFacts, ProgramFacts DEF Structured, SingleEntry
<1>3. d \in program.blocks /\ \A c \in Region(a) : StrictlyDominates(c, d) => c \in program.blocks
  BY <1>2 DEF Marked
<1>4. pl.slice[d] # "none"
  BY <1>1, <1>3 DEF SliceInv
<1>5. Up(Highest(pl), d) = {}
  BY <1>2, NothingAbove
<1> DEFINE found == {f \in Block : StrictlyDominates(f, d) /\ MarkedBr(pl, f) /\
                       \A c \in Block : StrictlyDominates(f, c) /\ StrictlyDominates(c, d)
                              => pl.slice[c] # "none"}
<1>6. a \in found
  <2>1. StrictlyDominates(a, d) /\ MarkedBr(pl, a)
    BY RegionDom, MarkedFacts
  <2>2. ASSUME NEW c \in Block, StrictlyDominates(a, c), StrictlyDominates(c, d)
        PROVE  pl.slice[c] # "none"
    <3>1. c \in Region(a)
      BY <2>2, RegionDom
    <3> QED
      BY <1>1, <1>3, <2>2, <3>1 DEF SliceInv
  <2> QED
    BY <1>2, <2>1, <2>2
<1>7. found \subseteq Region(a) \cup {a}
  <2>1. ASSUME NEW f \in found, StrictlyDominates(f, a)  PROVE FALSE
    <3>1. f \in AnyBranches
      BY MarkedFacts
    <3>2. PICK c \in Block \ Touched : StrictlyDominates(f, c) /\ StrictlyDominates(c, a)
      BY <1>2, <2>1, <3>1 DEF Apart
    <3>3. StrictlyDominates(c, d)
      BY <3>2, RegionDom
    <3> QED
      BY <1>1, <3>2, <3>3 DEF SliceInv
  <2> QED
    BY <2>1, RegionDom
<1>8. TopBranch(pl, d) = {f \in found : \A c \in found \ {f} : StrictlyDominates(f, c)}
  BY DEF TopBranch
<1> HIDE DEF found
<1>9. TopBranch(pl, d) = {a}
  <2>1. a \in TopBranch(pl, d)
    BY <1>6, <1>7, <1>8, RegionDom
  <2>2. ASSUME NEW f \in TopBranch(pl, d), f # a  PROVE FALSE
    <3>1. f \in Region(a) /\ StrictlyDominates(f, a)
      BY <1>6, <1>7, <1>8, <2>2
    <3> QED
      BY <3>1, RegionDom
  <2> QED
    BY <2>1, <2>2
<1> QED
  BY <1>2, <1>4, <1>5, <1>9, HighestFacts

\* From the part of a branch that stays marked, that branch is found, by way of the callers
\* where the block is in a function that is called.
LEMMA HighestPart ==
    ASSUME program \in Programs, Structured, NEW pl, PlInv(pl), NEW a \in Tops, Active(pl, a)
    PROVE  \A d \in Part(a) : program.callee[d] # {} \/ d \in MarkedBranches => Highest(pl)[d] = {a}
<1> DEFINE h == Highest(pl)
           Calling == {d \in Part(a) : program.callee[d] # {} \/ d \in MarkedBranches}
           Bad == {d \in Calling : h[d] # {a}}
<1>1. PICK rank \in [Func -> 1 .. Cardinality(Func)] :
         \A d \in Block : \A f \in program.callee[d] : rank[f] > rank[program.func[d]]
  BY FuncFacts
<1>2. program.func \in [Block -> Func] /\ Cardinality(Func) \in Nat
  BY ProgramFacts, PlaceAssumption, FS_CardinalityType
<1>3. Part(a) \subseteq Block /\ Region(a) \subseteq Block /\ Marked(a) /\ SliceInv(pl)
  BY TopFacts DEF Structured, PlInv
<1> DEFINE T == {rank[program.func[d]] : d \in Bad}
<1>4. T \in SUBSET Nat
  <2>1. ASSUME NEW d \in Bad  PROVE rank[program.func[d]] \in Nat
    <3>1. rank[program.func[d]] \in 1 .. Cardinality(Func)
      BY <1>1, <1>2, <1>3
    <3> QED
      BY <3>1
  <2> QED
    BY <2>1
<1>5. SUFFICES ASSUME Bad # {}  PROVE FALSE
  BY <1>3
<1> HIDE DEF Bad, T, h
<1>6. T # {}
  BY <1>5 DEF T
<1>7. PICK x \in T : \A y \in T : x <= y
  BY <1>4, <1>6, LeastMember
<1>8. PICK d \in Bad : x = rank[program.func[d]]
  BY <1>7 DEF T
<1>9. d \in Part(a) /\ d \in Block /\ (program.callee[d] # {} \/ d \in MarkedBranches) /\ h[d] # {a}
  BY <1>3, <1>8 DEF Bad
<1>10. d \notin Region(a)
  BY <1>9, HighestRegion DEF h
<1>11. program.func[d] \in Callees(Region(a))
  BY <1>9, <1>10, TopFacts
<1>12. d \in program.blocks /\ pl.slice[d] # "none"
  BY <1>3, <1>9 DEF Marked, SliceInv
<1>13. ASSUME NEW c \in Block, program.func[d] \in program.callee[c]
       PROVE  c \in CallersOf(program.func[d]) /\ h[c] = {a}
  <2>1. c \in CallersOf(program.func[d])
    BY <1>12, <1>13 DEF CallersOf
  <2>2. c \in Calling
    BY <1>11, <1>13, PartFacts
  <2>3. /\ rank[program.func[d]] > rank[program.func[c]]
        /\ rank[program.func[d]] \in Nat /\ rank[program.func[c]] \in Nat
    <3>1. rank[program.func[d]] \in 1 .. Cardinality(Func) /\ rank[program.func[c]] \in 1 .. Cardinality(Func)
      BY <1>1, <1>2, <1>9, <1>13
    <3> QED
      BY <1>1, <1>13, <3>1
  <2>4. rank[program.func[c]] \notin T
    BY <1>7, <1>8, <2>3
  <2>5. c \notin Bad
    BY <2>4 DEF T
  <2> QED
    BY <2>1, <2>2, <2>5 DEF Bad
<1>14. PICK c \in Block : program.func[d] \in program.callee[c]
  BY <1>3, <1>11, CalleesFacts
<1>15. Up(h, d) = {a}
  <2>1. \A b \in CallersOf(program.func[d]) : h[b] = {a}
    BY <1>13 DEF CallersOf
  <2>2. c \in CallersOf(program.func[d])
    BY <1>13, <1>14
  <2> QED
    BY <2>1, <2>2 DEF Up
<1>16. h[d] = Up(h, d)
  BY <1>9, <1>12, <1>15, HighestFacts DEF h
<1> QED
  BY <1>9, <1>15, <1>16

\* The blocks of a loop are in one function.
LEMMA LoopFunc ==
    ASSUME program \in Programs, NEW b, NEW loop \in NearestLoops(b)
    PROVE  \A c \in loop[2] : c \in Block /\ program.func[c] = program.func[loop[1]]
<1>1. PICK h \in Block : \E l \in BackEdges(h) : loop = <<h, LoopBlocks(h, l)>>
  BY DEF NearestLoops
<1>2. PICK l \in BackEdges(h) : loop = <<h, LoopBlocks(h, l)>>
  BY <1>1
<1> DEFINE g == Reversed(succ)
           C == {c \in Block : program.func[c] = program.func[h]}
           Q == ReachableAvoiding(g, {l}, {h})
<1>3. /\ succ \in [Block -> SUBSET Block] /\ DOMAIN succ = Block /\ IsGraph(g)
      /\ g \in [Block -> SUBSET Block]
  BY ProgramFacts
<1>4. l \in Block /\ h \in succ[l]
  BY <1>2, <1>3 DEF BackEdges, Pred
<1>5. \A c \in C : g[c] \subseteq C
  BY <1>3, FuncFacts DEF Reversed, Pred
<1>6. l \in C /\ {l} \in SUBSET DOMAIN g
  BY <1>3, <1>4, FuncFacts
<1> HIDE DEF g, C
<1>7. \A D : {l} \ {h} \subseteq D /\ (\A c \in Q \cap D : g[c] \ {h} \subseteq D) => Q \subseteq D
  BY <1>3, <1>6, AvoidingFrom
<1>8. Q \subseteq C
  BY <1>5, <1>6, <1>7
<1>9. h \in C
  BY <1>1 DEF C
<1> QED
  BY <1>1, <1>2, <1>8, <1>9 DEF LoopBlocks, g, C

\* For an access or a loop in the part of a branch, that branch is chosen.
LEMMA ChosenPart ==
    ASSUME program \in Programs, Structured, NEW pl, PlInv(pl), NEW a \in Tops, Active(pl, a),
           NEW b \in Part(a), b \in Region(a) => RevCD(b) \cap LastingBranches # {},
           NEW L, L \cap LastingBranches = {}, a \notin L,
           \E c \in program.blocks : program.func[c] = program.func[b],
           NEW addDep, NEW B
    PROVE  processBBlockRevCDs(pl, b, L, addDep, B) = {processHighestBr(pl, "last", a, B)}
<1> DEFINE h == Highest(pl)
           direct == {d \in RevCD(b) : MarkedBr(pl, d) /\ d \notin L}
           found == UNION {IF h[d] # {} THEN h[d] ELSE {d} : d \in direct}
           above == UNION {h[c] : c \in CallersOf(program.func[b])}
           P(d) == processHighestBr(pl, "last", d, B)
<1>1. Part(a) \subseteq Block /\ Region(a) \subseteq Block /\ Marked(a) /\ b \in Block
  BY TopFacts DEF Structured
<1>2. ASSUME NEW d \in direct  PROVE (IF h[d] # {} THEN h[d] ELSE {d}) = {a}
  <2>1. d \in Part(a) \cup {a} /\ d \in AnyBranches
    BY <1>1, MarkedFacts DEF Marked
  <2>2. CASE d = a
    BY <2>2, HighestTop
  <2>3. CASE d \in Part(a)
    <3>1. d \notin Tops
      BY <2>3, TopFacts
    <3>2. d \in MarkedBranches
      BY <2>1, <3>1 DEF AnyBranches, Structured
    <3>3. h[d] = {a}
      BY <2>3, <3>2, HighestPart
    <3> QED
      BY <3>3
  <2> QED
    BY <2>1, <2>2, <2>3
<1>3. direct # {} => found = {a}
  <2> HIDE DEF h, direct
  <2> QED
    BY <1>2
<1>4. direct = {} => above = {a}
  <2>1. SUFFICES ASSUME direct = {}  PROVE above = {a}
    OBVIOUS
  <2>2. b \notin Region(a)
    <3>1. ASSUME NEW d \in RevCD(b) \cap LastingBranches  PROVE d \in direct
      BY MarkedFacts
    <3> QED
      BY <2>1, <3>1
  <2>3. program.func[b] \in Callees(Region(a))
    BY <2>2, TopFacts
  <2>4. ASSUME NEW c \in CallersOf(program.func[b])  PROVE h[c] = {a}
    <3>1. c \in Block /\ program.func[b] \in program.callee[c]
      BY DEF CallersOf
    <3>2. c \in Part(a)
      BY <2>3, <3>1, PartFacts
    <3> QED
      BY <3>1, <3>2, HighestPart
  <2>5. PICK c \in Block : program.func[b] \in program.callee[c]
    BY <1>1, <2>3, CalleesFacts
  <2>6. c \in CallersOf(program.func[b])
    BY <2>5 DEF CallersOf
  <2> HIDE DEF h
  <2> QED
    BY <2>4, <2>6
<1>5. processBBlockRevCDs(pl, b, L, addDep, B) =
        CASE direct # {} -> {P(d) : d \in found}
          [] direct = {} /\ above # {} -> {P(d) : d \in above}
          [] direct = {} /\ above = {} /\ L # {} -> {placeTransForLoop(pl, b, L, B)}
          [] OTHER -> {IF addDep THEN processHighestBr(pl, "first", b, B) ELSE pl}
  BY DEF processBBlockRevCDs
<1> HIDE DEF h, direct, found, above, P
<1>6. processBBlockRevCDs(pl, b, L, addDep, B) = {P(a)}
  <2>1. CASE direct # {}
    BY <1>3, <1>5, <2>1
  <2>2. CASE direct = {}
    <3>1. above # {}
      BY <1>4, <2>2
    <3> QED
      BY <1>4, <1>5, <2>2, <3>1
  <2> QED
    BY <2>1, <2>2
<1> QED
  BY <1>6 DEF P

\* For the others, none.
LEMMA ChosenNone ==
    ASSUME program \in Programs, Structured, NEW pl, PlInv(pl), NEW b \in Block, NEW L,
           RevCD(b) \cap AnyBranches \subseteq L, NotCalled(program.func[b]), NEW addDep, NEW B
    PROVE  processBBlockRevCDs(pl, b, L, addDep, B) =
              {IF L # {} THEN placeTransForLoop(pl, b, L, B)
               ELSE IF addDep THEN processHighestBr(pl, "first", b, B) ELSE pl}
<1> DEFINE h == Highest(pl)
           direct == {d \in RevCD(b) : MarkedBr(pl, d) /\ d \notin L}
           found == UNION {IF h[d] # {} THEN h[d] ELSE {d} : d \in direct}
           above == UNION {h[c] : c \in CallersOf(program.func[b])}
           P(d) == processHighestBr(pl, "last", d, B)
<1>1. direct = {}
  BY MarkedFacts
<1>2. above = {}
  BY NothingAbove DEF Up
<1>3. processBBlockRevCDs(pl, b, L, addDep, B) =
        CASE direct # {} -> {P(d) : d \in found}
          [] direct = {} /\ above # {} -> {P(d) : d \in above}
          [] direct = {} /\ above = {} /\ L # {} -> {placeTransForLoop(pl, b, L, B)}
          [] OTHER -> {IF addDep THEN processHighestBr(pl, "first", b, B) ELSE pl}
  BY DEF processBBlockRevCDs
<1> HIDE DEF h, direct, found, above, P
<1> QED
  BY <1>1, <1>2, <1>3

-----------------------------------------------------------------------------
(* One step of the tool.                                                     *)

\* The buffers that accesses in the blocks L may touch.
LoopAccesses(L) == UNION {UNION Range(program.access[b]) : b \in L}

\* The access n is preloaded for.
Covered(c, n) ==
    /\ \A a \in Tops : n[1] \in Part(a) =>
          c["last"][a] # <<>> /\ program.access[n[1]][n[2]] \subseteq DataIn(c["last"][a])
    /\ n \in program.addDep /\ n[1] \notin Parts =>
          c["first"][n[1]] # <<>> /\ program.access[n[1]][n[2]] \subseteq DataIn(c["first"][n[1]])

\* Where a secret loop lies, and which transaction is to cover it.
LEMMA SecretLoopFacts ==
    ASSUME program \in Programs, Structured, NEW loop \in SecretLoops
    PROVE  /\ loop[2] \subseteq Parts /\ loop[2] \subseteq Block
           /\ loop[2] \cap (LastingBranches \cup LoopTops) = {}
           /\ loop[1] \in Block /\ loop[1] \in loop[2]
           /\ \E c \in program.blocks : c \in loop[2] /\ program.func[c] = program.func[loop[1]]
           /\ loop \in OuterLoops =>
                 LET a == idom(loop[1]) IN
                 /\ a \in LoopTops /\ a \in Tops /\ loop = LoopOf(a) /\ OwnLoop(a)
                 /\ loop[2] \subseteq Region(a)
           /\ loop \notin OuterLoops =>
                 \E a \in Tops \ LoopTops : loop[2] \subseteq Part(a) /\ Found(a, loop[1])
<1>1. /\ loop[1] \in Block /\ loop[1] \in loop[2]
      /\ \E b \in MarkedBranches : loop \in NearestLoops(b) /\ IsExit(b, loop[2])
  BY LoopTopFacts
<1>2. PICK c \in MarkedBranches : loop \in NearestLoops(c) /\ IsExit(c, loop[2])
  BY <1>1
<1>3. \A d \in loop[2] : d \in Block /\ program.func[d] = program.func[loop[1]]
  BY <1>2, LoopFunc
<1>4. c \in program.blocks /\ c \in loop[2]
  <2>1. <<c, 0>> \in program.nodes
    BY DEF MarkedBranches, Branches
  <2> QED
    BY <1>2, <2>1, FuncFacts DEF IsExit
<1>5. ASSUME loop \in OuterLoops
      PROVE  LET a == idom(loop[1]) IN
             /\ a \in LoopTops /\ a \in Tops /\ loop = LoopOf(a) /\ OwnLoop(a)
             /\ loop[2] \subseteq Region(a)
  <2> DEFINE a == idom(loop[1])
  <2>1. a \in LoopTops
    BY <1>5 DEF LoopTops
  <2> HIDE DEF a
  <2>2. a \in Tops /\ OwnLoop(a)
    BY <2>1 DEF Structured
  <2>3. idom(loop[1]) = a
    BY DEF a
  <2>4. loop = LoopOf(a)
    BY <1>5, <2>2, <2>3 DEF OwnLoop
  <2>5. loop[2] \subseteq Region(a)
    BY <2>2, <2>4 DEF OwnLoop
  <2> QED
    BY <2>1, <2>2, <2>4, <2>5 DEF a
<1>6. ASSUME loop \notin OuterLoops
      PROVE  \E a \in Tops \ LoopTops : loop[2] \subseteq Part(a) /\ Found(a, loop[1])
  BY <1>6 DEF Structured
<1>7. loop[2] \subseteq Parts
  <2>1. CASE loop \in OuterLoops
    <3>1. PICK a \in Tops : loop[2] \subseteq Region(a)
      BY <1>5, <2>1
    <3>2. Region(a) \subseteq Part(a) /\ Part(a) \subseteq Parts
      BY TopFacts
    <3> QED
      BY <3>1, <3>2
  <2>2. CASE loop \notin OuterLoops
    <3>1. PICK a \in Tops : loop[2] \subseteq Part(a)
      BY <1>6, <2>2
    <3> QED
      BY <3>1, TopFacts
  <2> QED
    BY <2>1, <2>2
<1>8. loop[2] \cap (LastingBranches \cup LoopTops) = {}
  <2>1. LoopTops \subseteq Tops
    BY DEF Structured
  <2>2. loop[2] \cap LoopTops = {}
    BY <1>7, <2>1, TopFacts
  <2>3. loop[2] \cap LastingBranches = {}
    BY DEF LastingBranches
  <2> QED
    BY <2>2, <2>3
<1> QED
  BY <1>1, <1>3, <1>4, <1>5, <1>6, <1>7, <1>8

\* The nodes of a loop are marked no longer.
Unmarked(pl, L) ==
    [pl EXCEPT !.nodes = {n \in pl.nodes : n[1] \notin L}, !.loops = pl.loops \ L]

\* Unmarking the nodes of a loop keeps the invariant.
LEMMA UnmarkedFacts ==
    ASSUME program \in Programs, Structured, NEW pl, PlInv(pl), NEW L,
           L \cap (LastingBranches \cup LoopTops) = {}
    PROVE  LET q == Unmarked(pl, L) IN
           /\ PlInv(q) /\ q.nodes = {n \in pl.nodes : n[1] \notin L} /\ q.code = pl.code
           /\ q.phase = pl.phase
<1> DEFINE q == Unmarked(pl, L)
           N == {n \in pl.nodes : n[1] \notin L}
<1>1. pl \in PlSet /\ CodeInv(pl.code) /\ SliceInv(pl) /\ NodesInv(pl)
  BY DEF PlInv
<1>2. N \subseteq pl.nodes
  OBVIOUS
<1>3. ASSUME NEW b \in LastingBranches \cup pl.loops  PROVE <<b, 0>> \in N
  BY <1>1 DEF NodesInv
<1>4. q = [pl EXCEPT !.nodes = N, !.loops = pl.loops]
  <2>1. pl.loops \ L = pl.loops
    BY <1>1 DEF NodesInv
  <2> QED
    BY <2>1 DEF Unmarked
<1> HIDE DEF N, q
<1>5. /\ q \in PlSet /\ q.nodes = N /\ q.slice = pl.slice /\ q.loops = pl.loops /\ q.code = pl.code
      /\ q.phase = pl.phase
  BY <1>1, <1>2, <1>4 DEF PlSet
<1>6. CodeInv(q.code)
  BY <1>1, <1>5
<1>7. SliceInv(q)
  BY <1>1, <1>5 DEF SliceInv
<1>8. NodesInv(q)
  BY <1>1, <1>2, <1>3, <1>5 DEF NodesInv
<1>9. PlInv(q)
  BY <1>5, <1>6, <1>7, <1>8 DEF PlInv
<1> QED
  BY <1>5, <1>9 DEF N, q

\* A secret loop.
LEMMA LoopPlaced ==
    ASSUME program \in Programs, Structured, NEW pl, PlInv(pl), NEW loop \in SecretLoops,
           NEW B \in SUBSET Buffer, NEW q \in processBBlockRevCDs(pl, loop[1], loop[2], FALSE, B)
    PROVE  /\ PlInv(q) /\ Grows(pl, q)
           /\ \E a \in Tops : /\ loop[2] \subseteq Part(a) /\ Covers(q, a, B)
                              /\ a \in LoopTops => loop = LoopOf(a)
<1> DEFINE b == loop[1]
           L == loop[2]
           addDep == FALSE
<1>0. q \in processBBlockRevCDs(pl, b, L, addDep, B)
  OBVIOUS
<1> HIDE DEF addDep
<1>1. CASE loop \in OuterLoops
  <2> DEFINE a == idom(loop[1])
  <2>1. /\ a \in LoopTops /\ a \in Tops /\ loop = LoopOf(a) /\ OwnLoop(a)
        /\ loop[2] \subseteq Region(a) /\ loop[1] \in Block /\ loop[1] \in loop[2]
    BY <1>1, SecretLoopFacts
  <2>2. Region(a) \subseteq Part(a) /\ program.func[loop[1]] = program.func[a]
    BY <2>1, TopFacts
  <2>3. NotCalled(program.func[loop[1]])
    BY <2>1, <2>2 DEF Structured, SingleEntry
  <2>4. RevCD(loop[1]) \cap AnyBranches \subseteq loop[2]
    BY <2>1 DEF OwnLoop
  <2> HIDE DEF a
  <2>5. q = placeTransForLoop(pl, loop[1], loop[2], B)
    <3>1. b \in Block /\ NotCalled(program.func[b]) /\ RevCD(b) \cap AnyBranches \subseteq L /\ L # {}
      BY <2>1, <2>3, <2>4
    <3> HIDE DEF b, L
    <3>2. q = placeTransForLoop(pl, b, L, B)
      BY <1>0, <3>1, ChosenNone
    <3> QED
      BY <3>2 DEF b, L
  <2>6. a = idom(loop[1])
    BY DEF a
  <2>7. PlInv(q) /\ Grows(pl, q) /\ Covers(q, a, B)
    BY <1>1, <2>5, <2>6, PutLoop
  <2> QED
    BY <2>1, <2>2, <2>7
<1>2. CASE loop \notin OuterLoops
  <2>1. PICK a \in Tops \ LoopTops : loop[2] \subseteq Part(a) /\ Found(a, loop[1])
    BY <1>2, SecretLoopFacts
  <2>2. /\ a \in Tops /\ a \notin LoopTops /\ a \notin loop[2] /\ Active(pl, a)
        /\ loop[1] \in Part(a) /\ (loop[1] \in Region(a) => RevCD(loop[1]) \cap LastingBranches # {})
    BY <2>1, TopFacts DEF Found, Active
  <2>3. loop[2] \cap LastingBranches = {} /\ \E c \in program.blocks : program.func[c] = program.func[loop[1]]
    BY SecretLoopFacts
  <2>4. q = processHighestBr(pl, "last", a, B)
    <3>1. /\ b \in Part(a) /\ (b \in Region(a) => RevCD(b) \cap LastingBranches # {})
          /\ L \cap LastingBranches = {} /\ a \notin L
          /\ \E c \in program.blocks : program.func[c] = program.func[b]
      BY <2>2, <2>3
    <3> HIDE DEF b, L
    <3> QED
      BY <1>0, <2>2, <3>1, ChosenPart
  <2>5. PlInv(q) /\ Grows(pl, q) /\ Covers(q, a, B)
    BY <2>2, <2>4, PutBranch
  <2> QED
    BY <2>1, <2>5
<1> QED
  BY <1>1, <1>2

\* An access.
LEMMA AccessPlaced ==
    ASSUME program \in Programs, Structured, NEW pl, PlInv(pl), NEW n \in Accesses,
           \A a \in LoopTops : n[1] \notin LoopOf(a)[2],
           \A a \in Tops : n[1] \in Part(a) => Active(pl, a),
           NEW q \in processBBlockRevCDs(pl, n[1], {}, n \in program.addDep, program.access[n[1]][n[2]])
    PROVE  /\ PlInv(q) /\ Grows(pl, q)
           /\ program.access[n[1]][n[2]] # {} => Covered(q.code, n)
<1> DEFINE b == n[1]
           B == program.access[b][n[2]]
           addDep == n \in program.addDep
<1>1. /\ b \in Block /\ b \in program.blocks /\ n[2] \in DOMAIN program.access[b]
      /\ program.access[b] \in Seq(SUBSET Buffer)
  BY FuncFacts, ProgramFacts DEF Accesses
<1>2. B \in SUBSET Buffer
  BY <1>1
<1>3. PlInv(pl)
  OBVIOUS
<1> HIDE DEF B, addDep
<1>4. q \in processBBlockRevCDs(pl, b, {}, addDep, B)
  BY DEF B, addDep
<1>5. CASE Quiet(b)
  <2>1. b \notin Parts /\ NotCalled(program.func[b]) /\ RevCD(b) \cap AnyBranches \subseteq {}
    BY <1>5 DEF Quiet
  <2>2. q = IF addDep THEN processHighestBr(pl, "first", b, B) ELSE pl
    BY <1>1, <1>4, <2>1, ChosenNone
  <2>3. \A a \in Tops : b \notin Part(a)
    BY <2>1 DEF Parts
  <2>4. CASE addDep
    <3>1. b \in BlockTops
      BY <2>1, <2>4 DEF BlockTops, addDep
    <3>2. /\ PlInv(q) /\ Grows(pl, q)
          /\ B # {} => q.code["first"][b] # <<>> /\ B \subseteq DataIn(q.code["first"][b])
      BY <1>2, <2>2, <2>4, <3>1, PutBlock
    <3> QED
      BY <2>3, <3>2 DEF Covered, B
  <2>5. CASE ~addDep
    <3>1. q = pl
      BY <2>2, <2>5
    <3> QED
      BY <1>3, <2>3, <2>5, <3>1, GrowsSelf DEF Covered, addDep
  <2> QED
    BY <2>4, <2>5
<1>6. CASE ~Quiet(b)
  <2>1. PICK a \in Tops : Found(a, b)
    BY <1>6 DEF Structured
  <2>2. /\ b \in Part(a) /\ Active(pl, a) /\ a \notin {} /\ {} \cap LastingBranches = {}
        /\ b \in Region(a) => RevCD(b) \cap LastingBranches # {}
    BY <2>1 DEF Found
  <2>3. \E c \in program.blocks : program.func[c] = program.func[b]
    BY <1>1
  <2> HIDE DEF b
  <2>4. q = processHighestBr(pl, "last", a, B)
    BY <1>4, <2>2, <2>3, ChosenPart
  <2>5. a \notin LoopTops \/ pl.code["last"][a] # <<>>
    BY <2>2 DEF Active, PlInv, SliceInv
  <2>6. PlInv(q) /\ Grows(pl, q) /\ Covers(q, a, B)
    BY <1>2, <2>4, <2>5, PutBranch
  <2>7. \A c \in Tops : b \in Part(c) => c = a
    BY <2>2, PartsApart
  <2>8. b \in Parts
    BY <2>2 DEF Parts
  <2> QED
    BY <2>6, <2>7, <2>8 DEF Covered, Covers, B, b
<1> QED
  BY <1>5, <1>6

\* The loop of a is preloaded for, or its exits are still to be visited.
LoopDone(pl, a) ==
    /\ \A n \in pl.nodes : n[1] \notin LoopOf(a)[2]
    /\ LoopAccesses(LoopOf(a)[2]) # {} => pl.code["last"][a] # <<>>

\* The marked branches that leave the loop of a.
ExitsOf(a) ==
    {<<b, 0>> : b \in {c \in MarkedBranches : LoopOf(a) \in NearestLoops(c) /\ IsExit(c, LoopOf(a)[2])}}

\* Each loop for which no branch is found is preloaded for or still to be visited.
LoopsInv(pl, t) ==
    \A a \in LoopTops : LoopDone(pl, a) \/ (pl.phase = "loops" /\ ExitsOf(a) \subseteq t \cap pl.nodes)

\* An access is preloaded for, or still to be visited.
AccessInv(pl, t) ==
    \A n \in Accesses : program.access[n[1]][n[2]] # {} =>
       Covered(pl.code, n) \/ (n \in pl.nodes /\ (pl.phase = "loops" \/ n \in t))

\* The loop of a loop top is a secret loop in its region, and has marked exits.
LEMMA LoopOfFacts ==
    ASSUME program \in Programs, Structured, NEW a \in LoopTops
    PROVE  /\ LoopOf(a) \in SecretLoops /\ a \in Tops /\ LoopOf(a)[2] \subseteq Region(a)
           /\ LoopOf(a)[2] \subseteq Part(a) /\ LoopOf(a)[2] \cap LoopTops = {} /\ OwnLoop(a)
           /\ ExitsOf(a) # {}
<1>1. LoopOf(a) \in OuterLoops
  BY DEF LoopTops, LoopOf
<1>2. LoopOf(a) \in SecretLoops
  BY <1>1 DEF OuterLoops
<1>3. a \in Tops /\ OwnLoop(a)
  BY DEF Structured
<1>4. LoopOf(a)[2] \subseteq Region(a) /\ Region(a) \subseteq Part(a)
  BY <1>3, TopFacts DEF OwnLoop
<1>5. LoopOf(a)[2] \cap LoopTops = {}
  BY <1>2, SecretLoopFacts
<1>6. ExitsOf(a) # {}
  <2>1. PICK b \in MarkedBranches : LoopOf(a) \in NearestLoops(b) /\ IsExit(b, LoopOf(a)[2])
    BY <1>2, LoopTopFacts
  <2>2. <<b, 0>> \in ExitsOf(a)
    BY <2>1 DEF ExitsOf
  <2> QED
    BY <2>2
<1> QED
  BY <1>2, <1>3, <1>4, <1>5, <1>6

\* An access that is preloaded for stays so.
LEMMA CoveredGrows ==
    ASSUME NEW pl, NEW q, Grows(pl, q), NEW n \in Accesses, Covered(pl.code, n)
    PROVE  Covered(q.code, n)
<1>1. n \in program.addDep /\ n[1] \notin Parts => n[1] \in BlockTops
  BY DEF BlockTops
<1> QED
  BY <1>1 DEF Covered, Grows

\* A loop that is preloaded for stays so.
LEMMA DoneGrows ==
    ASSUME program \in Programs, Structured, NEW pl, NEW q, Grows(pl, q),
           NEW a \in LoopTops, LoopDone(pl, a)
    PROVE  LoopDone(q, a)
<1>1. a \in Tops /\ LoopOf(a)[2] \cap LoopTops = {}
  BY LoopOfFacts
<1>2. ASSUME NEW n \in q.nodes  PROVE n[1] \notin LoopOf(a)[2]
  <2>1. n \in pl.nodes \/ \E s \in LoopTops : n = <<s, 0>>
    BY DEF Grows
  <2> QED
    BY <1>1, <2>1 DEF LoopDone
<1> QED
  BY <1>1, <1>2 DEF LoopDone, Grows

\* The accesses of a loop.
LEMMA LoopAccessesFacts ==
    ASSUME program \in Programs, NEW L \in SUBSET Block
    PROVE  /\ LoopAccesses(L) \in SUBSET Buffer
           /\ \A n \in Accesses : n[1] \in L => program.access[n[1]][n[2]] \subseteq LoopAccesses(L)
<1>1. program.access \in [Block -> Seq(SUBSET Buffer)]
  BY ProgramFacts
<1>2. ASSUME NEW b \in L  PROVE UNION Range(program.access[b]) \subseteq Buffer
  <2>1. program.access[b] \in Seq(SUBSET Buffer)
    BY <1>1
  <2>2. \A i \in DOMAIN program.access[b] : program.access[b][i] \in SUBSET Buffer
    BY <2>1
  <2> QED
    BY <2>2 DEF Range
<1>3. ASSUME NEW n \in Accesses, n[1] \in L
      PROVE  program.access[n[1]][n[2]] \subseteq LoopAccesses(L)
  <2>1. n[2] \in DOMAIN program.access[n[1]]
    BY FuncFacts DEF Accesses
  <2>2. program.access[n[1]][n[2]] \in Range(program.access[n[1]])
    BY <2>1 DEF Range
  <2> QED
    BY <1>3, <2>2 DEF LoopAccesses
<1>4. LoopAccesses(L) \in SUBSET Buffer
  BY <1>2 DEF LoopAccesses
<1> QED
  BY <1>3, <1>4

\* The first pass comes to an exit.
LEMMA LoopStep ==
    ASSUME program \in Programs, Structured, NEW pl, PlInv(pl), pl.phase = "loops",
           NEW t \in SUBSET Branches, LoopsInv(pl, t), AccessInv(pl, t),
           NEW n \in t, n \in pl.nodes, NEW loop \in NearestLoops(n[1]), IsExit(n[1], loop[2]),
           NEW q, PlInv(q), Grows(Unmarked(pl, loop[2]), q),
           \E a \in Tops : /\ loop[2] \subseteq Part(a) /\ Covers(q, a, LoopAccesses(loop[2]))
                           /\ a \in LoopTops => loop = LoopOf(a)
    PROVE  q.phase = "loops" /\ LoopsInv(q, t \ {n}) /\ AccessInv(q, t \ {n})
<1> DEFINE L == loop[2]
           B == LoopAccesses(L)
           r == Unmarked(pl, L)
<1>1. n[1] \in MarkedBranches /\ n = <<n[1], 0>>
  <2>1. n \in Node /\ n[2] = 0
    BY ProgramFacts DEF Branches
  <2> QED
    BY <2>1 DEF MarkedBranches, Node
<1>2. loop \in SecretLoops
  BY <1>1 DEF SecretLoops
<1>3. /\ L \in SUBSET Block /\ L \cap (LastingBranches \cup LoopTops) = {} /\ L \subseteq Parts
  BY <1>2, SecretLoopFacts
<1>4. /\ r.nodes = {m \in pl.nodes : m[1] \notin L} /\ r.code = pl.code /\ r.phase = "loops"
  BY <1>3, UnmarkedFacts
<1>5. B \in SUBSET Buffer /\ \A m \in Accesses : m[1] \in L => program.access[m[1]][m[2]] \subseteq B
  BY <1>3, LoopAccessesFacts
<1>6. Grows(r, q)
  OBVIOUS
<1>7. \E a \in Tops : /\ loop[2] \subseteq Part(a) /\ Covers(q, a, B)
                      /\ a \in LoopTops => loop = LoopOf(a)
  OBVIOUS
<1> HIDE DEF r, B
<1>8. PICK a \in Tops : /\ loop[2] \subseteq Part(a) /\ Covers(q, a, B)
                        /\ a \in LoopTops => loop = LoopOf(a)
  BY <1>7
<1>9. q.phase = "loops" /\ r.nodes \subseteq q.nodes
  BY <1>4, <1>6 DEF Grows
<1>10. ASSUME NEW c \in LoopTops
       PROVE  LoopDone(q, c) \/ ExitsOf(c) \subseteq (t \ {n}) \cap q.nodes
  <2>1. /\ c \in Tops /\ LoopOf(c)[2] \subseteq Part(c) /\ OwnLoop(c)
        /\ LoopOf(c)[2] \cap LoopTops = {}
    BY LoopOfFacts
  <2>2. CASE LoopDone(pl, c)
    <3>1. LoopDone(r, c)
      BY <1>4, <2>2 DEF LoopDone
    <3> QED
      BY <1>6, <3>1, DoneGrows
  <2>3. CASE loop = LoopOf(c)
    <3>1. a = c
      <4>1. loop[1] \in loop[2]
        BY <1>2, SecretLoopFacts
      <4> QED
        BY <1>8, <2>1, <2>3, <4>1, PartsApart
    <3>2. ASSUME NEW m \in q.nodes  PROVE m[1] \notin L
      <4>1. m \in r.nodes \/ \E s \in LoopTops : m = <<s, 0>>
        BY <1>6 DEF Grows
      <4> QED
        BY <1>3, <1>4, <4>1
    <3>3. LoopAccesses(LoopOf(c)[2]) # {} => q.code["last"][c] # <<>>
      BY <1>8, <2>3, <3>1 DEF Covers, B
    <3> QED
      BY <2>3, <3>2, <3>3 DEF LoopDone
  <2>4. CASE ~LoopDone(pl, c) /\ loop # LoopOf(c)
    <3>1. ExitsOf(c) \subseteq t \cap pl.nodes
      BY <2>4 DEF LoopsInv
    <3>2. a # c
      BY <1>8, <2>4
    <3>3. ASSUME NEW m \in ExitsOf(c)  PROVE m # n /\ m \in q.nodes
      <4>1. PICK b \in MarkedBranches : /\ LoopOf(c) \in NearestLoops(b) /\ IsExit(b, LoopOf(c)[2])
                                       /\ m = <<b, 0>>
        BY DEF ExitsOf
      <4>2. NearestLoops(b) = {LoopOf(c)}
        BY <2>1, <4>1 DEF OwnLoop
      <4>3. b # n[1]
        BY <2>4, <4>2
      <4>4. b \in Part(c)
        BY <2>1, <4>1 DEF IsExit
      <4>5. b \notin L
        BY <1>8, <2>1, <3>2, <4>4, PartsApart
      <4>6. m \in r.nodes
        BY <1>4, <3>1, <4>1, <4>5
      <4> QED
        BY <1>9, <4>1, <4>3, <4>6
    <3> QED
      BY <3>1, <3>3
  <2> QED
    BY <2>2, <2>3, <2>4
<1>11. ASSUME NEW m \in Accesses, program.access[m[1]][m[2]] # {}
       PROVE  Covered(q.code, m) \/ m \in q.nodes
  <2>1. CASE Covered(pl.code, m)
    BY <1>4, <1>6, <2>1, CoveredGrows
  <2>2. CASE m \in pl.nodes /\ m[1] \notin L
    BY <1>4, <1>9, <2>2
  <2>3. CASE m[1] \in L
    <3>1. m[1] \in Parts /\ m[1] \in Part(a) /\ program.access[m[1]][m[2]] \subseteq B
      BY <1>3, <1>5, <1>8, <2>3
    <3>2. \A c \in Tops : m[1] \in Part(c) => c = a
      BY <3>1, PartsApart
    <3>3. B # {}
      BY <1>11, <3>1
    <3>4. q.code["last"][a] # <<>> /\ program.access[m[1]][m[2]] \subseteq DataIn(q.code["last"][a])
      BY <1>8, <3>1, <3>3 DEF Covers
    <3> QED
      BY <3>1, <3>2, <3>4 DEF Covered
  <2> QED
    BY <1>11, <2>1, <2>2, <2>3 DEF AccessInv
<1>12. LoopsInv(q, t \ {n})
  BY <1>9, <1>10 DEF LoopsInv
<1>13. AccessInv(q, t \ {n})
  BY <1>9, <1>11 DEF AccessInv
<1> QED
  BY <1>9, <1>12, <1>13

\* It comes to another branch.
LEMMA LoopSkip ==
    ASSUME program \in Programs, Structured, NEW pl, pl.phase = "loops", NEW t, NEW n,
           LoopsInv(pl, t), AccessInv(pl, t),
           n \in pl.nodes => \/ NearestLoops(n[1]) = {}
                             \/ \E loop \in NearestLoops(n[1]) : ~IsExit(n[1], loop[2])
    PROVE  LoopsInv(pl, t \ {n}) /\ AccessInv(pl, t \ {n})
<1>1. ASSUME NEW a \in LoopTops, ExitsOf(a) \subseteq t \cap pl.nodes  PROVE n \notin ExitsOf(a)
  <2>1. SUFFICES ASSUME n \in ExitsOf(a)  PROVE FALSE
    OBVIOUS
  <2>2. PICK b \in MarkedBranches : /\ LoopOf(a) \in NearestLoops(b) /\ IsExit(b, LoopOf(a)[2])
                                   /\ n = <<b, 0>>
    BY <2>1 DEF ExitsOf
  <2>3. NearestLoops(b) = {LoopOf(a)}
    BY <2>2, LoopOfFacts DEF OwnLoop
  <2> QED
    BY <1>1, <2>1, <2>2, <2>3
<1>2. LoopsInv(pl, t \ {n})
  BY <1>1 DEF LoopsInv
<1>3. AccessInv(pl, t \ {n})
  BY DEF AccessInv
<1> QED
  BY <1>2, <1>3

\* A transaction of a loop is started before the second pass, if it is needed there.
LEMMA LoopActive ==
    ASSUME program \in Programs, Structured, NEW pl, PlInv(pl), NEW a \in LoopTops, LoopDone(pl, a),
           NEW b \in Part(a), b \notin Region(a)
    PROVE  Active(pl, a)
<1>1. /\ a \in Tops /\ OwnLoop(a) /\ Region(a) \in SUBSET Block
      /\ program.func[b] \in Callees(Region(a))
  BY LoopOfFacts, TopFacts
<1>2. \E c \in Region(a) : program.callee[c] # {}
  <2>1. SUFFICES ASSUME \A c \in Region(a) : program.callee[c] = {}  PROVE Callees(Region(a)) = {}
    BY <1>1
  <2> DEFINE g == [f \in Func |-> UNION {program.callee[d] : d \in {c \in Block : program.func[c] = f}}]
             S == UNION {program.callee[d] : d \in Region(a)}
  <2>2. Callees(Region(a)) = Reachable(g, S)
    BY DEF Callees
  <2>3. S = {}
    BY <2>1
  <2>4. IsGraph(g) /\ DOMAIN g = Func
    BY ProgramFacts, PlaceAssumption DEF IsGraph
  <2> HIDE DEF g, S
  <2>5. S \in SUBSET DOMAIN g
    BY <2>3
  <2>6. \A C : S \subseteq C /\ (\A f \in Reachable(g, S) \cap C : g[f] \subseteq C) => Reachable(g, S) \subseteq C
    BY <2>4, <2>5, ReachableLeast, Zenon
  <2> QED
    BY <2>2, <2>3, <2>6
<1>3. LoopAccesses(LoopOf(a)[2]) # {}
  BY <1>1, <1>2 DEF OwnLoop, LoopAccesses
<1>4. pl.code["last"][a] # <<>>
  BY <1>3 DEF LoopDone
<1> QED
  BY <1>1, <1>4 DEF PlInv, SliceInv, Active

\* The second pass comes to an access that is marked.
LEMMA AccessReady ==
    ASSUME program \in Programs, Structured, NEW pl, PlInv(pl), pl.phase = "accesses",
           NEW t, LoopsInv(pl, t), NEW n \in Accesses, n \in pl.nodes
    PROVE  /\ \A a \in LoopTops : LoopDone(pl, a) /\ n[1] \notin LoopOf(a)[2]
           /\ \A a \in Tops : n[1] \in Part(a) => Active(pl, a)
<1>1. \A a \in LoopTops : LoopDone(pl, a)
  BY DEF LoopsInv
<1>2. \A a \in LoopTops : n[1] \notin LoopOf(a)[2]
  BY <1>1 DEF LoopDone
<1>3. ASSUME NEW a \in Tops, n[1] \in Part(a)  PROVE Active(pl, a)
  <2>1. CASE a \notin LoopTops
    BY <2>1 DEF Active
  <2>2. CASE a \in LoopTops
    <3>1. n[1] \notin Region(a)
      <4>1. ~Quiet(n[1])
        BY <1>3 DEF Quiet, Parts
      <4>2. PICK c \in Tops : Found(c, n[1])
        BY <4>1 DEF Structured
      <4>3. c = a
        BY <1>3, <4>2, PartsApart DEF Found
      <4> QED
        BY <1>2, <2>2, <4>2, <4>3 DEF Found
    <3> QED
      BY <1>1, <1>3, <2>2, <3>1, LoopActive
  <2> QED
    BY <2>1, <2>2
<1> QED
  BY <1>1, <1>2, <1>3

\* The second pass keeps what it has to when it deals with one access.
LEMMA AccessStep ==
    ASSUME program \in Programs, Structured, NEW pl, pl.phase = "accesses",
           NEW t, AccessInv(pl, t), NEW n \in Accesses,
           \A a \in LoopTops : LoopDone(pl, a), NEW q, Grows(pl, q),
           program.access[n[1]][n[2]] # {} => Covered(q.code, n)
    PROVE  q.phase = "accesses" /\ LoopsInv(q, t \ {n}) /\ AccessInv(q, t \ {n})
<1>4. q.phase = "accesses" /\ pl.nodes \subseteq q.nodes
  BY DEF Grows
<1>5. LoopsInv(q, t \ {n})
  <2>1. ASSUME NEW a \in LoopTops  PROVE LoopDone(q, a)
    BY DoneGrows
  <2> QED
    BY <2>1 DEF LoopsInv
<1>6. ASSUME NEW m \in Accesses, program.access[m[1]][m[2]] # {}
      PROVE  Covered(q.code, m) \/ (m \in q.nodes /\ m \in t \ {n})
  <2>1. CASE Covered(pl.code, m)
    BY <2>1, CoveredGrows
  <2>2. CASE m = n
    BY <1>6, <2>2
  <2>3. CASE m \in pl.nodes /\ m \in t /\ m # n
    BY <1>4, <2>3
  <2> QED
    BY <1>6, <2>1, <2>2, <2>3 DEF AccessInv
<1>7. AccessInv(q, t \ {n})
  BY <1>6 DEF AccessInv
<1> QED
  BY <1>4, <1>5, <1>7

-----------------------------------------------------------------------------
(* The tool, and then the run.                                               *)

\* The run has not begun.
Idle ==
    /\ at = <<program.entry[program.main], "first">>
    /\ stack = <<>> /\ depth = 0 /\ loaded = {} /\ ready = {}

\* The inductive invariant.
ToolInv ==
    /\ program \in Programs
    /\ PlInv(placement)
    /\ LoopsInv(placement, todo) /\ AccessInv(placement, todo)
    /\ phase = "loops" => todo \subseteq Branches
    /\ phase = "accesses" => todo \subseteq Accesses
    /\ phase = "run" => todo = {}
    /\ IF phase = "run" THEN RunInv ELSE Idle

\* The fields of placement are the variables of the tool.
LEMMA PlacementFacts ==
    /\ placement.slice = slice /\ placement.nodes = nodes /\ placement.loops = loops
    /\ placement.code = code /\ placement.phase = phase
  BY DEF placement

\* What is said of a placement does not change.
LEMMA SamePlInv ==
    ASSUME program' = program, NEW q, placement' = q, PlInv(q)
    PROVE  PlInv(placement)'
<1>1. /\ UNCHANGED <<Tops, Parts, Ends, BlockTops, Touched, LoopTops, LastingBranches>>
      /\ \A a : Region(a)' = Region(a) /\ EndOf(a)' = EndOf(a) /\ Callees(Region(a))' = Callees(Region(a))
  BY SameProgram
<1>2. q \in PlSet /\ CodeInv(q.code) /\ SliceInv(q) /\ NodesInv(q)
  BY DEF PlInv
<1>3. (placement \in PlSet)'
  BY <1>2
<1>4. CodeInv(placement.code)'
  <2>1. \A a \in Tops : q.code["last"][a] # <<>> => Placed(placement.code, a)'
    BY <1>1, <1>2 DEF CodeInv, Placed
  <2> QED
    BY <1>1, <1>2, <2>1 DEF CodeInv
<1>5. SliceInv(placement)'
  BY <1>1, <1>2 DEF SliceInv
<1>6. NodesInv(placement)'
  BY <1>1, <1>2 DEF NodesInv
<1> QED
  BY <1>3, <1>4, <1>5, <1>6 DEF PlInv

\* What is said of the loops does not change with the program.
LEMMA SameLoopsInv ==
    ASSUME program' = program, NEW q, placement' = q, LoopsInv(q, todo')
    PROVE  LoopsInv(placement, todo)'
<1>1. /\ LoopTops' = LoopTops /\ MarkedBranches' = MarkedBranches
      /\ \A a : LoopOf(a)' = LoopOf(a)
      /\ \A b : NearestLoops(b)' = NearestLoops(b)
      /\ \A b, L : IsExit(b, L)' <=> IsExit(b, L)
  BY SameProgram
<1>2. ASSUME NEW a  PROVE ExitsOf(a)' = ExitsOf(a)
  BY <1>1 DEF ExitsOf
<1>3. ASSUME NEW a  PROVE LoopAccesses(LoopOf(a)[2])' = LoopAccesses(LoopOf(a)[2])
  BY <1>1 DEF LoopAccesses
<1>4. ASSUME NEW a, LoopDone(q, a)  PROVE LoopDone(placement, a)'
  BY <1>1, <1>3, <1>4 DEF LoopDone
<1> QED
  BY <1>1, <1>2, <1>4 DEF LoopsInv

\* What is said of the accesses does not change with the program.
LEMMA SameAccessInv ==
    ASSUME program' = program, NEW q, placement' = q, AccessInv(q, todo')
    PROVE  AccessInv(placement, todo)'
<1>1. /\ Tops' = Tops /\ Parts' = Parts /\ Accesses' = Accesses
      /\ \A a : Part(a)' = Part(a)
  BY SameProgram
<1>2. ASSUME NEW n, Covered(q.code, n)  PROVE Covered(placement.code, n)'
  BY <1>1, <1>2 DEF Covered
<1> QED
  BY <1>1, <1>2 DEF AccessInv

\* A step of the tool makes the variables the fields of the new placement.
LEMMA Became ==
    ASSUME NEW q, q \in PlSet, Become(q)
    PROVE  placement' = q /\ phase' = q.phase
<1>1. q = [slice |-> q.slice, nodes |-> q.nodes, loops |-> q.loops, code |-> q.code, phase |-> q.phase]
  BY DEF PlSet
<1> QED
  BY <1>1 DEF Become, placement

\* No call is inserted at first.
LEMMA ToolInit ==
    ASSUME Init, Structured
    PROVE  ToolInv
<1>1. /\ program \in Programs /\ phase = "loops" /\ todo = Branches /\ nodes = program.nodes /\ loops = {}
      /\ slice = [b \in Block |-> IF b \in program.blocks THEN "marked" ELSE "none"]
      /\ code = [k \in Place |-> [b \in Block |-> <<>>]] /\ Idle
  BY DEF Init, Idle
<1>2. /\ program.blocks \subseteq Block /\ program.nodes \subseteq Node
      /\ LoopTops \subseteq Block /\ Tops \subseteq Block /\ BlockTops \subseteq Block
  BY <1>1, ProgramFacts, LoopTopsType, BlockTopsType
<1>3. /\ \A b \in Block : code["last"][b] = <<>> /\ code["first"][b] = <<>>
      /\ code \in [Place -> [Block -> Seq(Ops)]]
  <2>1. <<>> \in Seq(Ops) /\ "first" \in Place /\ "last" \in Place
    BY DEF Place
  <2> QED
    BY <1>1, <2>1
<1>4. /\ \A b \in Block : slice[b] = IF b \in program.blocks THEN "marked" ELSE "none"
      /\ slice \in [Block -> SliceId]
  BY <1>1 DEF SliceId
<1>5. \A a \in Tops : Region(a) \subseteq Block /\ EndOf(a) \in Block
  BY <1>1, TopFacts
<1>6. LoopTops \subseteq Tops
  BY DEF Structured
<1>7. placement \in PlSet
  BY <1>1, <1>2, <1>3, <1>4, PlacementFacts DEF PlSet, placement
<1>8. CodeInv(placement.code)
  <2>1. \A b \in Ends : b \in Block
    BY <1>5 DEF Ends
  <2>2. DOMAIN <<>> = {}
    OBVIOUS
  <2>3. CodeInv(code)
    BY <1>2, <1>3, <2>1, <2>2 DEF CodeInv
  <2> QED
    BY <2>3, PlacementFacts
<1>9. SliceInv(placement)
  <2>1. \A b \in Block \ Touched : slice[b] = "none"
    BY <1>4 DEF Touched
  <2>2. \A b \in program.blocks : slice[b] # "none"
    BY <1>2, <1>4
  <2>3. \A b \in Block : slice[b] \notin {"placed", "preloaded"}
    BY <1>4
  <2>4. loops = {}
    BY <1>1
  <2> QED
    BY <1>2, <1>3, <1>5, <1>6, <2>1, <2>2, <2>3, <2>4, PlacementFacts DEF SliceInv
<1>10. NodesInv(placement)
  <2>1. \A b \in LastingBranches : <<b, 0>> \in program.nodes
    BY DEF LastingBranches, MarkedBranches, Branches
  <2> QED
    BY <1>1, <2>1, PlacementFacts DEF NodesInv
<1>11. LoopsInv(placement, todo)
  <2>1. \A a \in LoopTops : ExitsOf(a) \subseteq Branches
    BY DEF ExitsOf, MarkedBranches
  <2>2. Branches \subseteq program.nodes
    BY DEF Branches
  <2> QED
    BY <1>1, <2>1, <2>2, PlacementFacts DEF LoopsInv
<1>12. AccessInv(placement, todo)
  BY <1>1, PlacementFacts DEF AccessInv, Accesses
<1> QED
  BY <1>1, <1>7, <1>8, <1>9, <1>10, <1>11, <1>12 DEF ToolInv, PlInv

\* The first pass.
LEMMA ToolFirst ==
    ASSUME Structured, ToolInv, FirstPass
    PROVE  ToolInv'
<1>1. /\ program \in Programs /\ PlInv(placement) /\ LoopsInv(placement, todo)
      /\ AccessInv(placement, todo) /\ phase = "loops" /\ placement.phase = "loops"
      /\ todo \in SUBSET Branches /\ Idle
  BY PlacementFacts DEF ToolInv, FirstPass
<1>2. program' = program /\ UNCHANGED machine
  BY DEF FirstPass
<1>3. Idle' /\ Branches' = Branches
  BY <1>1, <1>2, SameProgram DEF Idle, machine
<1>4. PICK n \in todo :
         LET near == NearestLoops(n[1]) IN
         /\ todo' = todo \ {n}
         /\ \/ /\ n \in nodes
               /\ \E loop \in near : IsExit(n[1], loop[2]) /\ PlaceLoop(loop[1], loop[2])
            \/ /\ n \in nodes => near = {} \/ \E loop \in near : ~IsExit(n[1], loop[2])
               /\ UNCHANGED <<phase, slice, nodes, loops, code>>
  BY DEF FirstPass
<1>5. SUFFICES \E q : /\ placement' = q /\ q.phase = "loops" /\ PlInv(q)
                      /\ LoopsInv(q, todo \ {n}) /\ AccessInv(q, todo \ {n})
  <2>1. PICK q : /\ placement' = q /\ q.phase = "loops" /\ PlInv(q)
                 /\ LoopsInv(q, todo \ {n}) /\ AccessInv(q, todo \ {n})
    BY <1>5
  <2>2. phase' = "loops" /\ todo' = todo \ {n}
    BY <1>4, <2>1 DEF placement
  <2>3. PlInv(placement)' /\ LoopsInv(placement, todo)' /\ AccessInv(placement, todo)'
    BY <1>2, <2>1, <2>2, SamePlInv, SameLoopsInv, SameAccessInv
  <2> QED
    BY <1>1, <1>2, <1>3, <2>2, <2>3 DEF ToolInv
<1>6. CASE n \in nodes /\ \E loop \in NearestLoops(n[1]) : IsExit(n[1], loop[2]) /\ PlaceLoop(loop[1], loop[2])
  <2>1. PICK loop \in NearestLoops(n[1]) : IsExit(n[1], loop[2]) /\ PlaceLoop(loop[1], loop[2])
    BY <1>6
  <2> DEFINE L == loop[2]
             r == Unmarked(placement, L)
             B == LoopAccesses(L)
  <2>2. PICK q \in processBBlockRevCDs(r, loop[1], loop[2], FALSE, B) : Become(q)
    BY <2>1, PlacementFacts DEF PlaceLoop, Unmarked, LoopAccesses
  <2>3. n[1] \in MarkedBranches
    <3>1. n \in Node /\ n[2] = 0 /\ n \in Branches
      BY <1>1, <1>4, ProgramFacts DEF Branches
    <3> QED
      BY <3>1 DEF MarkedBranches, Node
  <2>4. loop \in SecretLoops
    BY <2>1, <2>3 DEF SecretLoops
  <2>5. L \in SUBSET Block /\ L \cap (LastingBranches \cup LoopTops) = {}
    BY <1>1, <2>4, SecretLoopFacts
  <2>6. PlInv(r)
    BY <1>1, <2>5, UnmarkedFacts
  <2>7. B \in SUBSET Buffer
    BY <1>1, <2>5, LoopAccessesFacts
  <2> HIDE DEF r, B
  <2>8. /\ PlInv(q) /\ Grows(r, q)
        /\ \E a \in Tops : /\ loop[2] \subseteq Part(a) /\ Covers(q, a, B)
                           /\ a \in LoopTops => loop = LoopOf(a)
    BY <1>1, <2>2, <2>4, <2>6, <2>7, LoopPlaced
  <2>9. q.phase = "loops" /\ LoopsInv(q, todo \ {n}) /\ AccessInv(q, todo \ {n})
    BY <1>1, <1>4, <1>6, <2>1, <2>8, LoopStep, PlacementFacts DEF r, B
  <2>10. placement' = q
    BY <2>2, <2>8, Became DEF PlInv
  <2> QED
    BY <2>8, <2>9, <2>10
<1>7. CASE /\ n \in nodes => \/ NearestLoops(n[1]) = {}
                             \/ \E loop \in NearestLoops(n[1]) : ~IsExit(n[1], loop[2])
           /\ UNCHANGED <<phase, slice, nodes, loops, code>>
  <2>1. placement' = placement
    BY <1>7 DEF placement
  <2>2. LoopsInv(placement, todo \ {n}) /\ AccessInv(placement, todo \ {n})
    BY <1>1, <1>7, LoopSkip, PlacementFacts
  <2> QED
    BY <1>1, <2>1, <2>2
<1> QED
  BY <1>4, <1>6, <1>7

\* The second.
LEMMA ToolSecond ==
    ASSUME Structured, ToolInv, SecondPass
    PROVE  ToolInv'
<1>1. /\ program \in Programs /\ PlInv(placement) /\ LoopsInv(placement, todo)
      /\ AccessInv(placement, todo) /\ phase = "accesses" /\ placement.phase = "accesses"
      /\ todo \in SUBSET Accesses /\ Idle
  BY PlacementFacts DEF ToolInv, SecondPass
<1>2. program' = program /\ UNCHANGED machine
  BY DEF SecondPass
<1>3. Idle' /\ Accesses' = Accesses
  BY <1>1, <1>2, SameProgram DEF Idle, machine
<1>4. PICK n \in todo : /\ todo' = todo \ {n}
                        /\ IF n \in nodes THEN PlaceAccess(n)
                           ELSE UNCHANGED <<phase, slice, nodes, loops, code>>
  BY DEF SecondPass
<1>5. SUFFICES \E q : /\ placement' = q /\ q.phase = "accesses" /\ PlInv(q)
                      /\ LoopsInv(q, todo \ {n}) /\ AccessInv(q, todo \ {n})
  <2>1. PICK q : /\ placement' = q /\ q.phase = "accesses" /\ PlInv(q)
                 /\ LoopsInv(q, todo \ {n}) /\ AccessInv(q, todo \ {n})
    BY <1>5
  <2>2. phase' = "accesses" /\ todo' = todo \ {n}
    BY <1>4, <2>1 DEF placement
  <2>3. PlInv(placement)' /\ LoopsInv(placement, todo)' /\ AccessInv(placement, todo)'
    BY <1>2, <2>1, <2>2, SamePlInv, SameLoopsInv, SameAccessInv
  <2> QED
    BY <1>1, <1>2, <1>3, <2>2, <2>3 DEF ToolInv
<1>6. n \in Accesses
  BY <1>1, <1>4
<1>7. CASE n \in nodes
  <2>1. n \in placement.nodes
    BY <1>7, PlacementFacts
  <2>2. PICK q \in processBBlockRevCDs(placement, n[1], {}, n \in program.addDep,
                                       program.access[n[1]][n[2]]) : Become(q)
    BY <1>4, <1>7 DEF PlaceAccess
  <2>3. /\ \A a \in LoopTops : LoopDone(placement, a) /\ n[1] \notin LoopOf(a)[2]
        /\ \A a \in Tops : n[1] \in Part(a) => Active(placement, a)
    BY <1>1, <1>6, <2>1, AccessReady
  <2>4. /\ PlInv(q) /\ Grows(placement, q)
        /\ program.access[n[1]][n[2]] # {} => Covered(q.code, n)
    BY <1>1, <1>6, <2>2, <2>3, AccessPlaced
  <2>5. q.phase = "accesses" /\ LoopsInv(q, todo \ {n}) /\ AccessInv(q, todo \ {n})
    BY <1>1, <1>6, <2>3, <2>4, AccessStep
  <2>6. placement' = q
    BY <2>2, <2>4, Became DEF PlInv
  <2> QED
    BY <2>4, <2>5, <2>6
<1>8. CASE n \notin nodes
  <2>1. placement' = placement
    BY <1>4, <1>8 DEF placement
  <2>2. LoopsInv(placement, todo \ {n})
    BY <1>1 DEF LoopsInv
  <2>3. AccessInv(placement, todo \ {n})
    BY <1>1, <1>8, PlacementFacts DEF AccessInv
  <2> QED
    BY <1>1, <2>1, <2>2, <2>3
<1> QED
  BY <1>7, <1>8

\* A pass is over: the loops are all preloaded for before the second one, the accesses before the run.
LEMMA ToolNext ==
    ASSUME Structured, ToolInv, NextPass
    PROVE  ToolInv'
<1>1. /\ program \in Programs /\ PlInv(placement) /\ LoopsInv(placement, todo)
      /\ AccessInv(placement, todo) /\ phase \in {"loops", "accesses"} /\ Idle /\ todo = {}
  BY DEF ToolInv, NextPass
<1>2. /\ program' = program /\ UNCHANGED machine
      /\ phase' = IF phase = "loops" THEN "accesses" ELSE "run"
      /\ todo' = IF phase = "loops" THEN Accesses ELSE {}
      /\ UNCHANGED <<slice, nodes, loops, code>>
  BY DEF NextPass
<1>3. Idle' /\ Accesses' = Accesses /\ Branches' = Branches
  BY <1>1, <1>2, SameProgram DEF Idle, machine
<1> DEFINE q == [placement EXCEPT !.phase = phase']
<1>4. /\ placement' = q /\ q.slice = slice /\ q.nodes = nodes /\ q.loops = loops
      /\ q.code = code /\ q.phase = phase'
  BY <1>2 DEF placement
<1>5. PlInv(q)
  <2>1. placement \in PlSet /\ CodeInv(code) /\ SliceInv(placement) /\ NodesInv(placement)
    BY <1>1, PlacementFacts DEF PlInv
  <2>2. phase' \in {"loops", "accesses", "run"}
    BY <1>2
  <2>3. q \in PlSet
    BY <2>1, <2>2 DEF PlSet
  <2> HIDE DEF q
  <2>4. SliceInv(q)
    BY <1>4, <2>1, PlacementFacts DEF SliceInv
  <2>5. NodesInv(q)
    BY <1>4, <2>1, PlacementFacts DEF NodesInv
  <2> QED
    BY <1>4, <2>1, <2>3, <2>4, <2>5 DEF PlInv
<1> HIDE DEF q
<1>6. ASSUME NEW a \in LoopTops  PROVE LoopDone(placement, a)
  <2>1. ExitsOf(a) # {}
    BY <1>1, LoopOfFacts
  <2> QED
    BY <1>1, <2>1 DEF LoopsInv
<1>7. LoopsInv(q, todo')
  <2>1. \A a \in LoopTops : LoopDone(q, a)
    BY <1>4, <1>6, PlacementFacts DEF LoopDone
  <2> QED
    BY <2>1 DEF LoopsInv
<1>8. AccessInv(q, todo')
  BY <1>1, <1>2, <1>4, PlacementFacts DEF AccessInv
<1>9. PlInv(placement)' /\ LoopsInv(placement, todo)' /\ AccessInv(placement, todo)'
  BY <1>2, <1>4, <1>5, <1>7, <1>8, SamePlInv, SameLoopsInv, SameAccessInv
<1>10. /\ phase' # "loops"
       /\ phase' = "accesses" => todo' \subseteq Accesses'
       /\ phase' = "run" => todo' = {}
  BY <1>1, <1>2, <1>3
<1>11. phase' = "run" => RunInv'
  <2> DEFINE e == program.entry[program.main]
  <2>1. e \in Block /\ program.func[e] = program.main
    BY <1>1, ProgramFacts, FuncFacts
  <2>2. /\ at' = <<e, "first">> /\ stack' = <<>> /\ depth' = 0 /\ loaded' = {} /\ ready' = {}
        /\ code' = code
    BY <1>1, <1>2 DEF Idle, machine
  <2>3. e \notin Parts
    <3>1. SUFFICES ASSUME NEW a \in Tops, e \in Part(a)  PROVE FALSE
      BY DEF Parts
    <3>2. e \in Region(a) \/ program.func[e] \in Callees(Region(a))
      BY <1>1, <2>1, <3>1, TopFacts
    <3>3. /\ program.main \notin Callees(Region(a)) /\ program.entry[program.func[a]] \notin Region(a)
          /\ \A b \in Region(a) : program.func[b] = program.func[a]
      BY <1>1, PartFacts, TopFacts
    <3> QED
      BY <2>1, <3>2, <3>3
  <2> HIDE DEF e
  <2>4. code \in [Place -> [Block -> Seq(Ops)]]
    BY <1>1, PlacementFacts DEF PlInv, PlSet
  <2>5. Types'
    <3>1. stack' \in Seq(Block)
      BY <2>2
    <3> QED
      BY <1>1, <1>2, <2>1, <2>2, <2>4, <3>1 DEF Types
  <2>6. PathInv'
    <3>1. Len(stack') = 0
      BY <2>2
    <3>2. \A i \in 1 .. Len(stack') - 1 : FALSE
      BY <3>1
    <3> QED
      BY <1>2, <2>1, <2>2, <3>2 DEF PathInv
  <2>7. Parts' = Parts /\ Tops' = Tops /\ BlockTops' = BlockTops /\ \A a : Part(a)' = Part(a)
    BY <1>2, SameProgram
  <2>8. PartInv'
    <3>1. \A a \in Tops : e \notin Part(a)
      BY <2>3 DEF Parts
    <3> QED
      BY <2>2, <2>7, <3>1 DEF PartInv
  <2>9. OutsideInv'
    BY <2>2 DEF OutsideInv
  <2> QED
    BY <2>5, <2>6, <2>8, <2>9 DEF RunInv
<1> QED
  BY <1>1, <1>2, <1>3, <1>9, <1>10, <1>11 DEF ToolInv

\* The run of the transformed program.
LEMMA ToolRun ==
    ASSUME Structured, ToolInv, EnterBlock \/ Item \/ Call \/ Branch \/ Return
    PROVE  ToolInv'
<1>1. program' = program /\ phase' = phase /\ phase = "run" /\ UNCHANGED tool
  BY DEF EnterBlock, Item, Call, Branch, Return, tool
<1>2. /\ program \in Programs /\ PlInv(placement) /\ LoopsInv(placement, todo)
      /\ AccessInv(placement, todo) /\ RunInv /\ todo = {}
  BY <1>1 DEF ToolInv
<1>3. CodeInv(code)
  BY <1>2, PlacementFacts DEF PlInv
<1>4. RunInv'
  BY <1>2, <1>3, EnterBlockRun, ItemRun, CallRun, BranchRun, ReturnRun
<1>5. placement' = placement /\ todo' = todo
  BY <1>1 DEF placement, tool
<1>6. PlInv(placement)' /\ LoopsInv(placement, todo)' /\ AccessInv(placement, todo)'
  BY <1>1, <1>2, <1>5, SamePlInv, SameLoopsInv, SameAccessInv
<1> QED
  BY <1>1, <1>2, <1>4, <1>5, <1>6 DEF ToolInv

\* The invariant is enough for the safety of the run.
LEMMA ToolSafe ==
    ASSUME Structured, ToolInv
    PROVE  Protected /\ WellNested
<1>1. CASE phase = "run"
  <2>1. RunInv /\ CodeInv(code) /\ AccessInv(placement, todo) /\ todo = {}
    BY <1>1, PlacementFacts DEF ToolInv, PlInv
  <2>2. \A n \in Accesses : program.access[n[1]][n[2]] # {} => Covered(code, n)
    BY <1>1, <2>1, PlacementFacts DEF AccessInv
  <2>3. Coverage(code)
    BY <2>2 DEF Coverage, Covered
  <2> QED
    BY <2>1, <2>3, RunSafe
<1>2. CASE phase # "run"
  <2>1. Idle
    BY <1>2 DEF ToolInv
  <2>2. Made = {}
    BY <1>2 DEF Made
  <2> QED
    BY <2>1, <2>2 DEF Protected, WellNested, Idle
<1> QED
  BY <1>1, <1>2

\* The invariant of all programs.
PlaceInv == Structured => ToolInv

\* The invariant of a structured program holds in every state of tool and run.
LEMMA PlaceInductive == Spec => []PlaceInv
<1>1. Init => PlaceInv
  BY ToolInit DEF PlaceInv
<1>2. PlaceInv /\ [Next]_vars => PlaceInv'
  <2> SUFFICES ASSUME PlaceInv, [Next]_vars, Structured'  PROVE ToolInv'
    BY DEF PlaceInv
  <2>1. program' = program
    BY DEF Next, FirstPass, SecondPass, NextPass, EnterBlock, Item, Call, Branch, Return, vars
  <2>2. Structured /\ ToolInv
    BY <2>1, SameProgram DEF PlaceInv
  <2>3. CASE FirstPass
    BY <2>2, <2>3, ToolFirst
  <2>4. CASE SecondPass
    BY <2>2, <2>4, ToolSecond
  <2>5. CASE NextPass
    BY <2>2, <2>5, ToolNext
  <2>6. CASE EnterBlock \/ Item \/ Call \/ Branch \/ Return
    BY <2>2, <2>6, ToolRun
  <2>7. CASE UNCHANGED vars
    <3>1. placement' = placement /\ todo' = todo /\ phase' = phase /\ UNCHANGED machine /\ code' = code
      BY <2>7 DEF vars, placement, tool
    <3>2. PlInv(placement)' /\ LoopsInv(placement, todo)' /\ AccessInv(placement, todo)'
      BY <2>1, <2>2, <3>1, SamePlInv, SameLoopsInv, SameAccessInv DEF ToolInv
    <3>3. phase = "run" => RunInv'
      <4>1. SUFFICES ASSUME RunInv  PROVE RunInv'
        BY <2>2 DEF ToolInv
      <4>2. /\ UNCHANGED <<Tops, Parts, BlockTops>>
            /\ \A a : Part(a)' = Part(a) /\ EndOf(a)' = EndOf(a)
        BY <2>1, SameProgram
      <4>3. Types' /\ PathInv'
        BY <2>1, <3>1, <4>1 DEF RunInv, Types, PathInv, machine
      <4>4. PartInv'
        BY <3>1, <4>1, <4>2 DEF RunInv, PartInv, machine
      <4>5. OutsideInv'
        BY <3>1, <4>1, <4>2 DEF RunInv, OutsideInv, machine
      <4> QED
        BY <4>3, <4>4, <4>5 DEF RunInv
    <3>4. Idle' <=> Idle
      BY <2>1, <3>1 DEF Idle, machine
    <3>5. Branches' = Branches /\ Accesses' = Accesses
      BY <2>1, SameProgram
    <3> QED
      BY <2>1, <2>2, <3>1, <3>2, <3>3, <3>4, <3>5 DEF ToolInv
  <2> QED
    BY <2>3, <2>4, <2>5, <2>6, <2>7 DEF Next
<1> QED
  BY <1>1, <1>2, PTL DEF Spec

\* In a structured program every access at a secret address, and every access that a branch
\* on the secret decides about, is made in a transaction that has preloaded its data and
\* its code: the branch that markSlice finds for it is one whose region has one entry
\* and one end (Slicing.h:401-585, 937-1016).
THEOREM StructuredProtected == Spec => [](Structured => Protected)
<1>1. PlaceInv => (Structured => Protected)
  BY ToolSafe DEF PlaceInv
<1> QED
  BY <1>1, PlaceInductive, PTL

\* In a structured program no transaction is started in another and none is running when the
\* program ends, because every start is matched by the end of its region (Slicing.h:249-294).
THEOREM StructuredWellNested == Spec => [](Structured => WellNested)
<1>1. PlaceInv => (Structured => WellNested)
  BY ToolSafe DEF PlaceInv
<1> QED
  BY <1>1, PlaceInductive, PTL

\* In a structured program the tool finds an end for every transaction that it starts: it
\* never looks for the block behind a loop where there is none (Slicing.h:287-295).
THEOREM StructuredNoCrash == Spec => [](Structured => phase # "crashed")
<1>1. PlaceInv => (Structured => phase # "crashed")
  BY DEF PlaceInv, ToolInv, PlInv, PlSet, placement
<1> QED
  BY <1>1, PlaceInductive, PTL
=============================================================================
