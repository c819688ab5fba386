----------------------------- MODULE GraphWalk -----------------------------
(***************************************************************************)
(* What every walk over a dependence graph promises, whatever the order in *)
(* which it takes the nodes: it discovers only nodes that an edge leads    *)
(* to, it is finished with a node only when the obligatory successors of   *)
(* the node are discovered, and it stops only when it is finished with     *)
(* every discovered node.                                                  *)
(***************************************************************************)
EXTENDS Naturals

VARIABLES
    must,     \* must[n]: successors a walk may not miss
    may,      \* may[n]: nodes that may be discovered from n
    seen,     \* nodes discovered by the running walk
    pending   \* those the walk is not finished with

vars == <<must, may, seen, pending>>

\* A walk begins at one node; the graph may differ from the last walk's.
Begin ==
    /\ pending = {}
    /\ \E s \in DOMAIN may' : seen' = {s} /\ pending' = {s}

\* The walk looks at edges of a node that it is not finished with, and may then
\* be finished with it.
Step ==
    /\ seen \subseteq seen'
    /\ \E n \in pending :
          LET found == seen' \ seen IN
          /\ found \subseteq may[n]
          /\ \/ pending' = pending \cup found
             \/ pending' = (pending \cup found) \ {n} /\ must[n] \subseteq seen'
    /\ UNCHANGED <<must, may>>

Init == seen = {} /\ pending = {}
Next == Begin \/ Step
Spec == Init /\ [][Next]_vars
=============================================================================
