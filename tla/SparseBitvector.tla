--------------------------- MODULE SparseBitvector ---------------------------
(***************************************************************************)
(* The sparse bit vector that the points-to sets are kept in: a map from a *)
(* multiple of the width of a word to the positions set in that word.  No  *)
(* word of the map is empty, which empty() and the iterator rely on.       *)
(***************************************************************************)
EXTENDS Integers, FiniteSets

WordBits == 64

Shift(i) == i - (i % WordBits)

NoBits == [s \in {} |-> {}]

\* The bits of the word at s, none if the map has no such word.
WordAt(bv, s) == IF s \in DOMAIN bv THEN bv[s] ELSE {}

get(bv, i) == i - Shift(i) \in WordAt(bv, Shift(i))

set(bv, i) ==
    [s \in DOMAIN bv \cup {Shift(i)} |->
        IF s = Shift(i) THEN WordAt(bv, s) \cup {i - s} ELSE bv[s]]

setAll(bv, rhs) ==
    [s \in DOMAIN bv \cup DOMAIN rhs |-> WordAt(bv, s) \cup WordAt(rhs, s)]

\* Fault: the word stays in the map when its last bit goes.
UnsetKeepingWord(bv, i) ==
    [s \in DOMAIN bv |-> IF s = Shift(i) THEN bv[s] \ {i - s} ELSE bv[s]]

\* A word that becomes empty leaves the map.
unset(bv, i) ==
    LET left == WordAt(bv, Shift(i)) \ {i - Shift(i)}
    IN  [s \in {r \in DOMAIN bv : r = Shift(i) => left # {}} |->
            IF s = Shift(i) THEN left ELSE bv[s]]

\* The numbers the iterator visits, word by word.
Numbers(bv) == UNION {{s + b : b \in bv[s]} : s \in DOMAIN bv}

isEmpty(bv) == DOMAIN bv = {}

size(bv) == Cardinality(Numbers(bv))

\* A range of numbers is unset one by one.
unsetAll(bv, nums) ==
    LET left(s) == {b \in bv[s] : s + b \notin nums}
    IN  [s \in {r \in DOMAIN bv : left(r) # {}} |-> left(s)]

=============================================================================
