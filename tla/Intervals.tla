----------------------------- MODULE Intervals -----------------------------
(***************************************************************************)
(* The operators of the interval map (include/dg/ADT/                      *)
(* DisjunctiveIntervalMap.h) on its entries: a set M of disjoint intervals *)
(* of bytes, each with the set of values that it is mapped to.  An         *)
(* iterator is the entry it points to.                                     *)
(***************************************************************************)
EXTENDS Integers

CONSTANT Top      \* Offset::UNKNOWN, the last byte an interval may hold

ASSUME TopAssumption == Top \in Nat \ {0}

-----------------------------------------------------------------------------
(* Looking up entries                                                      *)

\* The entry that lower_bound finds, if any, and the one before that.
FindGe(M, x) == {e \in M : x <= e.start /\ \A f \in M : x <= f.start => e.start <= f.start}
Before(M, x) == {e \in M : e.start < x /\ \A f \in M : f.start < x => f.start <= e.start}

\* Fault: an entry that starts before the interval is not looked at.
le_NotBefore(M, lo, hi) == {e \in FindGe(M, lo) : e.start <= hi}

\* The first entry that overlaps lo..hi, or none: the entry in front of the
\* lower bound (the last one, if there is no lower bound) goes first.
le(M, lo, hi) ==
    LET prev == {e \in Before(M, lo) : lo <= e.end}
    IN  IF prev # {} THEN prev ELSE {e \in FindGe(M, lo) : e.start <= hi}

\* All values in lo..hi: from that entry to the right as long as they overlap.
gather(M, lo, hi) ==
    UNION {e.vals : e \in {e \in M : /\ e.start <= hi
                                     /\ \E f \in le(M, lo, hi) : f.start <= e.start}}

\* The entries that uncovered() visits: from the first that overlaps up to the first
\* that ends at hi or behind, which need not overlap any more.
Visited(M, lo, hi) ==
    {e \in M : /\ \E f \in le(M, lo, hi) : f.start <= e.start
               /\ \A f \in M : f.start < e.start => f.end < hi}

\* The intervals in front of the visited entries that have no entry, from lo on, and
\* the end of lo..hi if no entry ends there.
GapsAmong(visited, lo, hi) ==
    LET last == {e \in visited : hi <= e.end}
        \* where the next gap begins if one is to end before x
        From(x) == {b \in lo .. x - 1 :
            /\ b = lo \/ \E e \in visited : b = e.end + 1 /\ e.start < x
            /\ \A e \in visited : e.start < x => e.end < b}
        ends == {e.start : e \in visited} \cup {x \in {hi + 1} : last = {}}
    IN  UNION {{[lo |-> b, hi |-> x - 1] : b \in From(x)} : x \in ends}

uncovered(M, lo, hi) == GapsAmong(Visited(M, lo, hi), lo, hi)

-----------------------------------------------------------------------------
(* Changing entries                                                        *)

\* splitIntervalHint for each entry of E: the two parts keep the values.
SplitAt(M, E, where) ==
    (M \ E) \cup {[e EXCEPT !.end = where] : e \in E}
            \cup {[e EXCEPT !.start = where + 1] : e \in E}

\* First an entry that starts in the interval and reaches over its end, then one
\* that reaches into it from the left; if that one reached over the end as
\* well, its upper part is split again.  (If no entry starts at lo or behind it, the code
\* splits the last entry at hi before it splits it at lo - 1.)
SplitAtEnd(M, lo, hi) == SplitAt(M, {e \in M : e.start \in lo .. hi /\ hi < e.end}, hi)
SplitAtStart(M, lo) == SplitAt(M, {e \in M : e.start < lo /\ lo <= e.end}, lo - 1)
splitExtBorders(M, lo, hi) == SplitAtEnd(SplitAtStart(SplitAtEnd(M, lo, hi), lo), lo, hi)

\* Fault: an update keeps the values that were there.
addValue_Kept(e, v, strong) == [e EXCEPT !.vals = @ \cup {v}]

\* _addValue: an update forgets the other values.
addValue(e, v, strong) == [e EXCEPT !.vals = IF strong THEN {v} ELSE @ \cup {v}]

\* emplace: nothing happens if an entry starts there already.
emplace(M, lo, hi, v) ==
    IF \E e \in M : e.start = lo THEN M
    ELSE M \cup {[start |-> lo, end |-> hi, vals |-> {v}]}

-----------------------------------------------------------------------------
(* A whole operation                                                       *)

\* The longest runs of a set of bytes.
Runs(bytes) ==
    {r \in [lo : bytes, hi : bytes] :
        /\ r.lo <= r.hi /\ r.lo .. r.hi \subseteq bytes
        /\ r.lo - 1 \notin bytes /\ r.hi + 1 \notin bytes}

\* Entries cut at the borders of lo..hi with the values entered in between.
Fill(cut, lo, hi, vals, strong) ==
    LET inner == {e \in cut : lo <= e.start /\ e.end <= hi}
        free  == {b \in lo .. hi : \A e \in inner : b < e.start \/ e.end < b}
    IN  (cut \ inner)
        \cup {[e EXCEPT !.vals = IF strong THEN vals ELSE @ \cup vals] : e \in inner}
        \cup {[start |-> r.lo, end |-> r.hi, vals |-> vals] : r \in Runs(free)}

\* The entries after add or, if strong, update of lo..hi with some values one after the
\* other: the interval is cut out of the entries that reach over its borders, the entries
\* in it get the values, and so do new entries for its gaps.  (An update with several values
\* keeps the last of them only; update is called with one.)
Written(M, lo, hi, vals, strong) ==
    IF vals = {} THEN M ELSE Fill(splitExtBorders(M, lo, hi), lo, hi, vals, strong)
=============================================================================
