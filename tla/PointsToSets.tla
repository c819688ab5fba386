---------------------------- MODULE PointsToSets ----------------------------
(***************************************************************************)
(* The representations of points-to sets.  PointerIdPointsToSet, the one   *)
(* the analyses are built with, numbers the pointers in the order in which *)
(* they are first met and keeps the numbers in a bit vector; SmallOffsets  *)
(* gives every target a word of the bit vector, a bit for every small      *)
(* offset and the last bit for the unknown one; the aligned variants keep  *)
(* only the multiples of four in the vector; OffsetsSet maps a target to a *)
(* bit vector of offsets; SeparateOffsets keeps targets and offsets apart. *)
(* The numbers are given out once and for all sets of a kind: "ids" is the *)
(* static idVector, which even a question extends.                         *)
(***************************************************************************)
EXTENDS SparseBitvector, Sequences

CONSTANTS Pointers,  \* pointers that are added, removed and asked for
          UNKNOWN,   \* the unknown offset, the largest number
          Kinds      \* the representations examined

VARIABLES kind, ids, this, other, changed

vars == <<kind, ids, this, other, changed>>

IdKinds == {"PointerId", "AlignedPointerId"}
SmallKinds == {"SmallOffsets", "AlignedSmallOffsets"}
VectorKinds == IdKinds \cup SmallKinds

ASSUME PointersAssumption ==
    /\ UNKNOWN \in Nat /\ UNKNOWN % WordBits = WordBits - 1
    /\ UNKNOWN >= 4 * WordBits - 1  \* above every offset that a word can hold
    /\ \A p \in Pointers : p \in [target : {p.target}, offset : 0 .. UNKNOWN]
    /\ Kinds \subseteq VectorKinds \cup {"OffsetsSet", "SeparateOffsets"}

Targets == {p.target : p \in Pointers}

Unknown(t) == [target |-> t, offset |-> UNKNOWN]

-----------------------------------------------------------------------------
\* Numbering

multiplier(k) == IF k \in {"AlignedPointerId", "AlignedSmallOffsets"} THEN 4 ELSE 1

IsNumbered(x) == \E n \in DOMAIN ids : ids[n] = x

getID(v, x) == CHOOSE n \in DOMAIN v : v[n] = x

\* Gives x the next number unless it has one.
Numbered(v, x) == IF \E n \in DOMAIN v : v[n] = x THEN v ELSE Append(v, x)

getNodePosition(v, t) == (getID(v, t) - 1) * WordBits

getPosition(v, p) ==
    getNodePosition(v, p.target)
        + (IF p.offset = UNKNOWN THEN WordBits - 1
           ELSE p.offset \div multiplier(kind))

\* Whether the bit vector can hold the pointer.
isOffsetValid(p) ==
    \/ p.offset = UNKNOWN
    \/ /\ p.offset % multiplier(kind) = 0
       /\ kind \in SmallKinds => p.offset <= (WordBits - 2) * multiplier(kind)

\* What the kind numbers when the pointer is mentioned.
Key(p) == IF kind \in IdKinds THEN p ELSE p.target

Bit(v, p) == IF kind \in IdKinds THEN getID(v, p) ELSE getPosition(v, p)

\* The pointer of a bit, as the iterator decodes it.
PointerAt(n) ==
    IF kind \in IdKinds THEN ids[n]
    ELSE LET b == n % WordBits
         IN  [target |-> ids[((n - b) \div WordBits) + 1],
              offset |-> IF b = WordBits - 1 THEN UNKNOWN ELSE b * multiplier(kind)]

\* The numbers after a question for the pointer.
Named(v, p) ==
    IF (kind \in VectorKinds /\ isOffsetValid(p)) \/ kind = "SeparateOffsets"
    THEN Numbered(v, Key(p))
    ELSE v

-----------------------------------------------------------------------------
\* Questions

pointsTo(s, p) ==
    CASE kind = "OffsetsSet" ->
            p.target \in DOMAIN s /\ get(s[p.target], p.offset)
      [] kind = "SeparateOffsets" ->
            /\ IsNumbered(p.target) /\ get(s.nodes, getID(ids, p.target))
            /\ get(s.offsets, p.offset)
      [] kind \in VectorKinds /\ isOffsetValid(p) ->
            IsNumbered(Key(p)) /\ get(s.pointers, Bit(ids, p))
      [] OTHER -> p \in s.rest

mayPointTo(s, p) == pointsTo(s, p) \/ pointsTo(s, Unknown(p.target))

pointsToTarget(s, t) ==
    CASE kind = "OffsetsSet" -> t \in DOMAIN s
      [] kind = "SeparateOffsets" -> IsNumbered(t) /\ get(s.nodes, getID(ids, t))
      [] kind \in IdKinds ->
            \/ \E n \in DOMAIN ids : ids[n].target = t /\ get(s.pointers, n)
            \/ \E p \in s.rest : p.target = t
      [] kind \in SmallKinds ->
            \/ /\ IsNumbered(t)
               /\ \E b \in 0 .. WordBits - 1 : get(s.pointers, getNodePosition(ids, t) + b)
            \/ \E p \in s.rest : p.target = t

isSingleton(s) ==
    CASE kind = "OffsetsSet" -> Cardinality(DOMAIN s) = 1
      [] kind = "SeparateOffsets" -> size(s.nodes) = 1 /\ size(s.offsets) = 1
      [] OTHER -> size(s.pointers) + Cardinality(s.rest) = 1

mustPointTo(s, p) ==
    /\ pointsTo(s, p)
    /\ IF kind = "SeparateOffsets" THEN size(s.nodes) = 1 \/ size(s.offsets) = 1
       ELSE isSingleton(s)

empty(s) ==
    CASE kind = "OffsetsSet" -> DOMAIN s = {}
      [] kind = "SeparateOffsets" -> isEmpty(s.nodes) /\ isEmpty(s.offsets)
      [] OTHER -> isEmpty(s.pointers) /\ s.rest = {}

\* The pointers that the iterators visit.
offsetsListed(s) ==
    UNION {{[target |-> t, offset |-> o] : o \in Numbers(s[t])} : t \in DOMAIN s}

productListed(s) ==
    {[target |-> ids[n], offset |-> o] : n \in Numbers(s.nodes), o \in Numbers(s.offsets)}

vectorListed(s) == {PointerAt(n) : n \in Numbers(s.pointers)} \cup s.rest

Listed(s) ==
    CASE kind = "OffsetsSet" -> offsetsListed(s)
      [] kind = "SeparateOffsets" -> productListed(s)
      [] OTHER -> vectorListed(s)

-----------------------------------------------------------------------------
\* Changes

NoPointers ==
    CASE kind = "OffsetsSet" -> NoBits
      [] kind = "SeparateOffsets" -> [nodes |-> NoBits, offsets |-> NoBits]
      [] OTHER -> [pointers |-> NoBits, rest |-> {}]

\* The bits of a target: those whose number is the number of one of its
\* pointers, or the whole word of the target.
BitsOf(v, t) ==
    IF kind \in IdKinds THEN {n \in DOMAIN v : v[n].target = t}
    ELSE getNodePosition(v, t) .. getNodePosition(v, t) + WordBits - 1

\* Fault: the pointers outside the bit vector stay.
RemovedFromVector(v, s, t) ==
    IF kind = "OffsetsSet" THEN [r \in DOMAIN s \ {t} |-> s[r]]
    ELSE [s EXCEPT !.pointers = unsetAll(@, BitsOf(v, t))]

removedAny(v, s, t) ==
    IF kind = "OffsetsSet" THEN [r \in DOMAIN s \ {t} |-> s[r]]
    ELSE [pointers |-> unsetAll(s.pointers, BitsOf(v, t)),
          rest |-> {p \in s.rest : p.target # t}]

\* OffsetsSet keeps the target when its last offset is removed.
removed(v, s, p) ==
    CASE kind = "OffsetsSet" ->
            IF p.target \in DOMAIN s
            THEN [s EXCEPT ![p.target] = unset(@, p.offset)]
            ELSE s
      [] kind \in VectorKinds /\ isOffsetValid(p) ->
            [s EXCEPT !.pointers = unset(@, Bit(v, p))]
      [] OTHER -> [s EXCEPT !.rest = @ \ {p}]

vectorAdded(v, s, p) ==
    IF pointsTo(s, Unknown(p.target)) THEN s
    ELSE IF p.offset = UNKNOWN
    THEN [removedAny(v, s, p.target) EXCEPT !.pointers = set(@, Bit(v, p))]
    ELSE IF isOffsetValid(p) THEN [s EXCEPT !.pointers = set(@, Bit(v, p))]
    ELSE [s EXCEPT !.rest = @ \cup {p}]

\* The offsets of the target in an OffsetsSet.
offsetsOf(s, t) == IF t \in DOMAIN s THEN s[t] ELSE NoBits

offsetsAdded(s, p) ==
    LET old == offsetsOf(s, p.target)
        new == IF get(old, UNKNOWN) THEN old
               ELSE IF p.offset = UNKNOWN THEN set(NoBits, UNKNOWN)
               ELSE set(old, p.offset)
    IN  [t \in DOMAIN s \cup {p.target} |-> IF t = p.target THEN new ELSE s[t]]

\* Once the unknown offset is there no other offset is kept for any target.
separateAdded(v, s, p) ==
    [nodes |-> set(s.nodes, getID(v, p.target)),
     offsets |-> IF get(s.offsets, UNKNOWN) THEN s.offsets
                 ELSE IF p.offset = UNKNOWN THEN set(NoBits, UNKNOWN)
                 ELSE set(s.offsets, p.offset)]

added(v, s, p) ==
    CASE kind = "OffsetsSet" -> offsetsAdded(s, p)
      [] kind = "SeparateOffsets" -> separateAdded(v, s, p)
      [] OTHER -> vectorAdded(v, s, p)

\* What add answers: whether a bit was not set before.
addAnswer(s, p) ==
    IF kind = "SeparateOffsets"
    THEN \/ ~ pointsToTarget(s, p.target)
         \/ ~ get(s.offsets, UNKNOWN) /\ ~ get(s.offsets, p.offset)
    ELSE ~ pointsTo(s, Unknown(p.target)) /\ ~ pointsTo(s, p)

\* Whether the union of the words sets a bit.
grows(bv, rhs) == \E w \in DOMAIN rhs : ~ rhs[w] \subseteq WordAt(bv, w)

offsetsUnited(s, r) ==
    [t \in DOMAIN s \cup DOMAIN r |-> setAll(offsetsOf(s, t), offsetsOf(r, t))]

united(s, r) ==
    CASE kind = "OffsetsSet" -> offsetsUnited(s, r)
      [] kind = "SeparateOffsets" ->
            [nodes |-> setAll(s.nodes, r.nodes), offsets |-> setAll(s.offsets, r.offsets)]
      [] OTHER ->
            [pointers |-> setAll(s.pointers, r.pointers), rest |-> s.rest \cup r.rest]

uniteAnswer(s, r) ==
    CASE kind = "OffsetsSet" ->
            \E t \in DOMAIN r : grows(offsetsOf(s, t), r[t])
      [] kind = "SeparateOffsets" -> grows(s.nodes, r.nodes) \/ grows(s.offsets, r.offsets)
      [] OTHER -> grows(s.pointers, r.pointers) \/ ~ r.rest \subseteq s.rest

-----------------------------------------------------------------------------
Init ==
    /\ kind \in Kinds
    /\ ids = <<>>
    /\ this = NoPointers /\ other = NoPointers
    /\ changed = FALSE

\* The vectors ask for the unknown offset first and do not number the
\* pointer when they have it.
Add(p) ==
    LET asked == IF kind \in VectorKinds THEN Named(ids, Unknown(p.target)) ELSE ids
        v == IF kind \in VectorKinds /\ pointsTo(this, Unknown(p.target)) THEN asked
             ELSE Named(asked, p)
    IN  /\ ids' = v
        /\ this' = added(v, this, p)
        /\ changed' = addAnswer(this, p)
        /\ UNCHANGED <<kind, other>>

AddAll ==
    /\ this' = united(this, other)
    /\ changed' = uniteAnswer(this, other)
    /\ UNCHANGED <<kind, ids, other>>

\* SeparateOffsets aborts on any removal.
Remove(p) ==
    /\ kind # "SeparateOffsets"
    /\ ids' = Named(ids, p)
    /\ this' = removed(ids', this, p)
    /\ UNCHANGED <<kind, other, changed>>

RemoveAny(t) ==
    /\ kind # "SeparateOffsets"
    /\ ids' = IF kind \in SmallKinds THEN Numbered(ids, t) ELSE ids
    /\ this' = removedAny(ids', this, t)
    /\ UNCHANGED <<kind, other, changed>>

Clear == this' = NoPointers /\ UNCHANGED <<kind, ids, other, changed>>

Swap == this' = other /\ other' = this /\ UNCHANGED <<kind, ids, changed>>

\* A question leaves the sets alone but may number the pointer.
Ask(p) == ids' = Named(ids, p) /\ UNCHANGED <<kind, this, other, changed>>

Next ==
    \/ \E p \in Pointers : Add(p) \/ Remove(p) \/ Ask(p)
    \/ \E t \in Targets : RemoveAny(t)
    \/ AddAll \/ Clear \/ Swap

Spec == Init /\ [][Next]_vars

-----------------------------------------------------------------------------
\* Properties

Exact == kind # "SeparateOffsets"

Simple == INSTANCE SimplePointsToSet
            WITH this <- Listed(this), other <- Listed(other)

\* SeparateOffsets may answer for pointers nobody added but forgets none: the added
\* pointer and those of a united set are among its answers, which additions only
\* widen, and one that answers "no change" leaves as they were.
AdditionsWiden ==
    /\ \A q \in Pointers : Add(q) => mayPointTo(this, q)'
    /\ AddAll => \A p \in Pointers : mayPointTo(other, p) => mayPointTo(this, p)'
    /\ AddAll \/ (\E q \in Pointers : Add(q)) =>
         \A p \in Pointers :
             /\ mayPointTo(this, p) => mayPointTo(this, p)'
             /\ mayPointTo(this, p)' /\ ~ changed' => mayPointTo(this, p)

\* Every representation but SeparateOffsets, which approximates it, is the simple set
\* of pointers: each operation changes the pointers that the iterator visits as it
\* changes the simple set, and additions give the same answer.  The answer is what
\* stops the fixpoint of the analysis: a "no change" for a pointer that was
\* new would end it early.
ImplementsSimple ==
    /\ Exact => Simple!Init
    /\ [][Exact => [Simple!Next]_Simple!vars]_vars
    /\ [][AdditionsWiden]_vars

\* The questions agree with the pointers that the iterator visits, though
\* they search by encoding the pointer while the iterator decodes numbers.
\* OffsetsSet still knows a target whose last offset was removed, and calls
\* one target with any offsets a singleton.
QuestionsAgree ==
    /\ \A p \in Pointers : pointsTo(this, p) <=> p \in Listed(this)
    /\ kind = "OffsetsSet" \/
        (/\ \A t \in Targets : pointsToTarget(this, t) <=> \E p \in Listed(this) : p.target = t
         /\ empty(this) <=> Listed(this) = {}
         /\ isSingleton(this) <=> Cardinality(Listed(this)) = 1
         /\ Exact => \A p \in Pointers : mustPointTo(this, p) <=> Listed(this) = {p})

=============================================================================
