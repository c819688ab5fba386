------------------------------- MODULE FlowGraph -------------------------------
(***************************************************************************)
(* Control flow graphs and the relations on their blocks that LLVM's       *)
(* DominatorTree and PostDominatorTree compute, each by its definition: a  *)
(* graph is a function "succ" from blocks to the sets of their successors. *)
(***************************************************************************)
EXTENDS Naturals, FiniteSets

\* Blocks reachable from S without entering a block of Avoid.
ReachableAvoiding(succ, S, Avoid) ==
    LET r[i \in Nat] ==
            IF i = 0 THEN S \ Avoid
            ELSE (S \cup UNION {succ[b] : b \in r[i - 1]}) \ Avoid
    IN  r[Cardinality(DOMAIN succ)]

Reachable(succ, S) == ReachableAvoiding(succ, S, {})

Pred(succ, b) == {a \in DOMAIN succ : b \in succ[a]}
Exits(succ) == {b \in DOMAIN succ : succ[b] = {}}

\* The blocks that every path from a block of S to a passes before a.
StrictDominators(succ, S, a) ==
    {d \in DOMAIN succ \ {a} : a \notin ReachableAvoiding(succ, S, {d})}

Reversed(succ) == [b \in DOMAIN succ |-> Pred(succ, b)]

\* Those that every path from a to an exit passes after a.
StrictPostDominators(succ, a) ==
    StrictDominators(Reversed(succ), Exits(succ), a)

\* The member of doms[a] that all its others dominate too, root if there is none;
\* doms maps every block to its strict dominators.
Nearest(doms, a, root) ==
    LET near == {d \in doms[a] : doms[a] = {d} \cup doms[d]}
    IN  IF near = {} THEN root ELSE CHOOSE d \in near : TRUE

\* Immediate dominator and postdominator; root is the virtual root of the tree.
IDom(succ, entry, a, root) ==
    Nearest([b \in DOMAIN succ |-> StrictDominators(succ, {entry}, b)], a, root)

IPostDom(succ, a, root) ==
    Nearest([b \in DOMAIN succ |-> StrictPostDominators(succ, b)], a, root)

\* b is control dependent on a in the sense of Ferrante, Ottenstein and Warren:
\* b postdominates a successor of a (which may be b) and does not strictly
\* postdominate a.
ControlDependent(succ, a, b) ==
    /\ \E s \in succ[a] : s = b \/ b \in StrictPostDominators(succ, s)
    /\ b \notin StrictPostDominators(succ, a)
=============================================================================
