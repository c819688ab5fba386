-------------------------- MODULE SimplePointsToSet --------------------------
(***************************************************************************)
(* What a points-to set promises, as the class that dg keeps for           *)
(* comparison and regression testing states it: a plain set of pointers in *)
(* which an addition of the unknown offset takes the place of the other    *)
(* offsets of its target.  "this" and "other" are two sets that are united *)
(* and exchanged, "changed" the answer of the last addition, by which the  *)
(* pointer analysis decides whether its fixpoint is reached.               *)
(***************************************************************************)
EXTENDS Integers

CONSTANTS Pointers,  \* pointers that are added, removed and asked for
          UNKNOWN    \* the unknown offset

VARIABLES this, other, changed

vars == <<this, other, changed>>

Targets == {p.target : p \in Pointers}

Unknown(t) == [target |-> t, offset |-> UNKNOWN]

pointersOther(s, t) == {q \in s : q.target # t}

added(s, p) ==
    IF Unknown(p.target) \in s THEN s
    ELSE IF p.offset = UNKNOWN THEN pointersOther(s, p.target) \cup {p}
    ELSE s \cup {p}

Init == this = {} /\ other = {} /\ changed = FALSE

Add(p) ==
    /\ this' = added(this, p)
    /\ changed' = (this' # this)
    /\ UNCHANGED other

\* The union does not look at unknown offsets: a target may keep a known
\* offset beside the unknown one.
AddAll ==
    /\ this' = this \cup other
    /\ changed' = (this' # this)
    /\ UNCHANGED other

Remove(p) == this' = this \ {p} /\ UNCHANGED <<other, changed>>

RemoveAny(t) == this' = pointersOther(this, t) /\ UNCHANGED <<other, changed>>

Clear == this' = {} /\ UNCHANGED <<other, changed>>

Swap == this' = other /\ other' = this /\ UNCHANGED changed

Next ==
    \/ \E p \in Pointers : Add(p) \/ Remove(p)
    \/ \E t \in Targets : RemoveAny(t)
    \/ AddAll \/ Clear \/ Swap

Spec == Init /\ [][Next]_vars
=============================================================================
