---------------------------- MODULE IntervalMap ----------------------------
(***************************************************************************)
(* The interval map in which memory SSA keeps what is defined and what is  *)
(* overwritten (include/dg/ADT/DisjunctiveIntervalMap.h): disjoint         *)
(* intervals of bytes, each with a set of values.  Adding to an interval   *)
(* first splits the entries that reach over its borders and then goes      *)
(* through its gaps and its entries from the left to the right.            *)
(*                                                                         *)
(* `it' of the loop in _add is always the first entry that starts at       *)
(* `rest' or behind it.  The result that says whether the map has changed  *)
(* is left out.                                                            *)
(***************************************************************************)
EXTENDS Intervals

CONSTANTS
    Value,    \* the nodes that define memory
    None      \* no operation

Entry == [start : 0 .. Top, end : 0 .. Top, vals : SUBSET Value]

\* Intervals that DefinitionsMap asks for.  Bytes of known offsets lie well below the
\* unknown offset, as no object is that large, so that none ends next to it; the sum of an
\* offset and a length saturates to it (Offset.h).  Hence no entry starts at the unknown
\* offset, and the saturating sums and differences of offsets in the code are plain ones here.
Interval == {i \in [lo : 0 .. Top, hi : 0 .. Top] :
                i.lo <= i.hi /\ i.lo < Top /\ i.hi + 1 # Top}

Operation == [interval : Interval, val : Value, strong : BOOLEAN]

ASSUME NoneAssumption == None \notin Operation

VARIABLES
    mapping,  \* the entries
    pc,       \* "idle", or what _add does next: "split", "fill"
    op,       \* the running operation: its interval, its value, update or add
    rest      \* the first byte that the loop of _add has not dealt with (0 when idle)

mapVars == <<mapping, pc, op, rest>>

-----------------------------------------------------------------------------

TypeOK ==
    /\ mapping \subseteq Entry
    /\ pc \in {"idle", "split", "fill"}
    /\ pc = "idle" => op = None /\ rest = 0
    /\ pc # "idle" => /\ op \in Operation
                      /\ rest \in op.interval.lo .. op.interval.hi

lo == op.interval.lo
hi == op.interval.hi

Return == pc' = "idle" /\ op' = None /\ rest' = 0

MapInit == mapping = {} /\ pc = "idle" /\ op = None /\ rest = 0

\* add or, if strong, update.
Call(o) ==
    /\ pc = "idle"
    /\ pc' = "split" /\ op' = o /\ rest' = o.interval.lo
    /\ UNCHANGED mapping

\* The map is empty.
AddFirst ==
    /\ pc = "split" /\ mapping = {}
    /\ mapping' = emplace(mapping, lo, hi, op.val)
    /\ Return

Split ==
    /\ pc = "split" /\ mapping # {}
    /\ mapping' = splitExtBorders(mapping, lo, hi)
    /\ pc' = "fill"
    /\ UNCHANGED <<op, rest>>

\* No entry starts in the rest of the interval.
FillRest ==
    /\ pc = "fill"
    /\ \A e \in mapping : e.start \notin rest .. hi
    /\ mapping' = emplace(mapping, rest, hi, op.val)
    /\ Return

\* Fault: the entry for a gap reaches into the entry behind it.
FillGap_TooLong ==
    /\ pc = "fill"
    /\ \E it \in FindGe(mapping, rest) :
        /\ rest < it.start /\ it.start <= hi
        /\ mapping' = emplace(mapping, rest, it.start, op.val)
        /\ rest' = it.start
    /\ UNCHANGED <<op, pc>>

\* A gap in front of the next entry.
FillGap ==
    /\ pc = "fill"
    /\ \E it \in FindGe(mapping, rest) :
        /\ rest < it.start /\ it.start <= hi
        /\ mapping' = emplace(mapping, rest, it.start - 1, op.val)
        /\ rest' = it.start
    /\ UNCHANGED <<op, pc>>

\* An entry at the beginning of the rest.
FillEntry ==
    /\ pc = "fill"
    /\ \E it \in FindGe(mapping, rest) :
        /\ it.start = rest
        /\ mapping' = (mapping \ {it}) \cup {addValue(it, op.val, op.strong)}
        /\ \/ it.end = hi /\ Return
           \/ it.end # hi /\ rest' = it.end + 1 /\ UNCHANGED <<pc, op>>

\* addAll: the value is added to all entries.
AddToAll(v) ==
    /\ pc = "idle"
    /\ mapping' = {addValue(e, v, FALSE) : e \in mapping}
    /\ UNCHANGED <<pc, op, rest>>

MapNext ==
    \/ \E o \in Operation : Call(o)
    \/ AddFirst \/ Split \/ FillRest \/ FillGap \/ FillEntry
    \/ \E v \in Value : AddToAll(v)

MapSpec == MapInit /\ [][MapNext]_mapVars

-----------------------------------------------------------------------------

\* No two entries share a byte and no entry is without values: what _check() asserts
\* between the steps of _add, and what makes the order of starts an order of entries.
Apart(M) ==
    /\ \A e, f \in M : e # f => e.end < f.start \/ f.end < e.start
    /\ \A e \in M : e.start <= e.end /\ e.vals # {}
Disjoint == Apart(mapping)

\* The values of a byte; the bytes of a running operation count as written.
Stored(M, b) == UNION {e.vals : e \in {e \in M : e.start <= b /\ b <= e.end}}
Bytes == [b \in 0 .. Top |->
    IF pc # "idle" /\ rest <= b /\ b <= hi
    THEN IF op.strong THEN {op.val} ELSE Stored(mapping, b) \cup {op.val}
    ELSE Stored(mapping, b)]

BM == INSTANCE ByteMap WITH bytes <- Bytes, request <- op

\* For every byte the map holds what the calls of add, update and addAll made of it,
\* however entries are split and gaps are filled on the way (_add): a splitting or
\* filling step changes no byte but those it is to write.
MapImplements == BM!Spec

\* The first entry that shares a byte with a..b.
FirstOverlap(M, a, b) ==
    LET meet == {e \in M : e.start <= b /\ a <= e.end}
    IN  {e \in meet : \A f \in meet : e.start <= f.start}

\* What le(), gather() and uncovered() compute from the entries is what it should be byte by
\* byte: the first entry with a byte of the interval, the values of the bytes in it, and
\* intervals of undefined bytes that hold all undefined bytes of the interval.  They may reach
\* beyond the interval, see the README.  (gather is not asked of a map without entries:
\* DefinitionsMap keeps none.)  A whole write, as memory SSA uses it, leaves disjoint entries
\* that hold what the steps of _add hold in the end.
QueriesExact ==
    pc = "idle" => \A i \in Interval :
        LET gaps == UNION {g.lo .. g.hi : g \in uncovered(mapping, i.lo, i.hi)} IN
        /\ le(mapping, i.lo, i.hi) = FirstOverlap(mapping, i.lo, i.hi)
        /\ mapping # {} =>
              gather(mapping, i.lo, i.hi) = UNION {Stored(mapping, b) : b \in i.lo .. i.hi}
        /\ \A b \in i.lo .. i.hi : b \in gaps <=> Stored(mapping, b) = {}
        /\ \A b \in gaps : b <= Top /\ (Stored(mapping, b) = {} \/ b > i.hi)
        /\ \A v \in Value, strong \in BOOLEAN :
              LET new == Written(mapping, i.lo, i.hi, {v}, strong)
              IN  /\ Apart(new)
                  /\ \A b \in 0 .. Top :
                        Stored(new, b) =
                            BM!Written([interval |-> i, val |-> v, strong |-> strong])[b]
=============================================================================
