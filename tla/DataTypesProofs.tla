--------------------------- MODULE DataTypesProofs ---------------------------
(***************************************************************************)
(* Proofs for the data types of the analyses.  Every representation of     *)
(* points-to sets but SeparateOffsets is the simple set of pointers, for   *)
(* every set of targets and every unknown offset (PointsToSets); the       *)
(* interval map stores what was written to every byte, for every number of *)
(* bytes and every set of values (IntervalMap).                            *)
(***************************************************************************)
EXTENDS PointsToSets, IntervalMap, FiniteSetTheorems, WellFoundedInduction, TLAPS

-----------------------------------------------------------------------------
(* The sparse bit vector is the set of its numbers.                          *)

Bits == 0 .. WordBits - 1

IsWords(bv) ==
    /\ bv \in [DOMAIN bv -> (SUBSET Bits) \ {{}}]
    /\ \A s \in DOMAIN bv : s \in Nat /\ Shift(s) = s

IsBitvector(bv) == IsWords(bv) /\ IsFiniteSet(Numbers(bv))

\* The word of a number, and its bit there.
LEMMA ShiftOf ==
    ASSUME NEW i \in Nat
    PROVE  /\ Shift(i) \in Nat /\ i - Shift(i) \in Bits /\ Shift(Shift(i)) = Shift(i)
           /\ i = Shift(i) + (i - Shift(i))
BY DEF Shift, Bits, WordBits

\* A bit of a word belongs to that word only.
LEMMA ShiftUnique ==
    ASSUME NEW s \in Nat, Shift(s) = s, NEW b \in Bits
    PROVE  s + b \in Nat /\ Shift(s + b) = s
BY DEF Shift, Bits, WordBits

\* The search for a bit and the iterator agree.
LEMMA WordsGet ==
    ASSUME NEW bv, IsWords(bv), NEW i \in Nat
    PROVE  get(bv, i) <=> i \in Numbers(bv)
<1>1. ASSUME get(bv, i) PROVE i \in Numbers(bv)
  <2>1. Shift(i) \in DOMAIN bv /\ i - Shift(i) \in bv[Shift(i)]
    BY <1>1 DEF get, WordAt
  <2> QED
    BY <2>1, ShiftOf DEF Numbers
<1>2. ASSUME i \in Numbers(bv) PROVE get(bv, i)
  <2>1. PICK s \in DOMAIN bv : \E c \in bv[s] : i = s + c
    BY <1>2 DEF Numbers
  <2>0. PICK b \in bv[s] : i = s + b
    BY <2>1
  <2>2. s \in Nat /\ Shift(s) = s /\ b \in Bits
    BY DEF IsWords
  <2>3. Shift(i) = s /\ i - s = b
    BY <2>0, <2>2, ShiftUnique DEF Bits
  <2> QED
    BY <2>3 DEF get, WordAt
<1> QED
  BY <1>1, <1>2

\* The iterator visits natural numbers.
LEMMA NumbersNat ==
    ASSUME NEW bv, IsWords(bv)
    PROVE  Numbers(bv) \subseteq Nat
BY DEF IsWords, Numbers, Bits

\* A number in terms of its word and its bit.
LEMMA InNumbers ==
    ASSUME NEW bv, IsWords(bv), NEW i \in Nat
    PROVE  i \in Numbers(bv) <=> Shift(i) \in DOMAIN bv /\ i - Shift(i) \in bv[Shift(i)]
BY WordsGet DEF get, WordAt

\* The empty bit vector is the empty set.
LEMMA NoBitsEmpty == IsBitvector(NoBits) /\ Numbers(NoBits) = {}
BY FS_EmptySet DEF IsBitvector, IsWords, NoBits, Numbers

\* Setting a bit adds its number.
LEMMA SetNumbers ==
    ASSUME NEW bv, IsBitvector(bv), NEW i \in Nat
    PROVE  IsBitvector(set(bv, i)) /\ Numbers(set(bv, i)) = Numbers(bv) \cup {i}
<1>a. IsWords(bv) /\ IsFiniteSet(Numbers(bv))
  BY DEF IsBitvector
<1> DEFINE new == set(bv, i)
<1>1. IsWords(new)
  BY <1>a, ShiftOf DEF set, IsWords, WordAt
<1>2. ASSUME NEW j \in Nat PROVE j \in Numbers(new) <=> j \in Numbers(bv) \/ j = i
  <2>1. j \in Numbers(new) <=> Shift(j) \in DOMAIN new /\ j - Shift(j) \in new[Shift(j)]
    BY <1>1, InNumbers
  <2>2. j \in Numbers(bv) <=> Shift(j) \in DOMAIN bv /\ j - Shift(j) \in bv[Shift(j)]
    BY <1>a, InNumbers
  <2>3. CASE Shift(j) = Shift(i)
    <3>1. new[Shift(j)] = WordAt(bv, Shift(i)) \cup {i - Shift(i)} /\ Shift(j) \in DOMAIN new
      BY <2>3 DEF set
    <3>2. j - Shift(j) = i - Shift(i) <=> j = i
      BY <2>3, ShiftOf
    <3> QED
      BY <2>1, <2>2, <2>3, <3>1, <3>2 DEF WordAt
  <2>4. CASE Shift(j) # Shift(i)
    BY <2>1, <2>2, <2>4 DEF set
  <2> QED
    BY <2>3, <2>4
<1>3. Numbers(new) \subseteq Nat /\ Numbers(bv) \subseteq Nat
  BY <1>a, <1>1, NumbersNat
<1>4. Numbers(new) = Numbers(bv) \cup {i}
  BY <1>2, <1>3
<1> HIDE DEF new
<1> QED
  BY <1>a, <1>1, <1>4, FS_AddElement DEF IsBitvector, new

\* Unsetting a bit removes its number, with the word when it was the last.
LEMMA UnsetNumbers ==
    ASSUME NEW bv, IsBitvector(bv), NEW i \in Nat
    PROVE  IsBitvector(unset(bv, i)) /\ Numbers(unset(bv, i)) = Numbers(bv) \ {i}
<1>a. IsWords(bv) /\ IsFiniteSet(Numbers(bv))
  BY DEF IsBitvector
<1> DEFINE new == unset(bv, i)
           left == WordAt(bv, Shift(i)) \ {i - Shift(i)}
<1>0. /\ DOMAIN new = {r \in DOMAIN bv : r = Shift(i) => left # {}}
      /\ \A r \in DOMAIN new : new[r] = IF r = Shift(i) THEN left ELSE bv[r]
  BY DEF unset
<1>1. IsWords(new)
  <2>1. \A r \in DOMAIN bv : r \in Nat /\ Shift(r) = r /\ bv[r] \in (SUBSET Bits) \ {{}}
    BY <1>a DEF IsWords
  <2>2. \A r \in DOMAIN new : new[r] \in (SUBSET Bits) \ {{}}
    BY <1>0, <2>1 DEF WordAt
  <2>3. new = [r \in DOMAIN new |-> new[r]]
    BY DEF unset
  <2>4. \A r \in DOMAIN new : r \in Nat /\ Shift(r) = r
    BY <1>0, <2>1
  <2> HIDE DEF new
  <2> QED
    BY <2>2, <2>3, <2>4 DEF IsWords
<1>2. ASSUME NEW j \in Nat PROVE j \in Numbers(new) <=> j \in Numbers(bv) /\ j # i
  <2>1. j \in Numbers(new) <=> Shift(j) \in DOMAIN new /\ j - Shift(j) \in new[Shift(j)]
    BY <1>1, InNumbers
  <2>2. j \in Numbers(bv) <=> Shift(j) \in DOMAIN bv /\ j - Shift(j) \in bv[Shift(j)]
    BY <1>a, InNumbers
  <2> HIDE DEF new
  <2>3. CASE Shift(j) = Shift(i)
    <3>2. j - Shift(j) = i - Shift(i) <=> j = i
      BY <2>3, ShiftOf
    <3> QED
      BY <1>0, <2>1, <2>2, <2>3, <3>2 DEF WordAt
  <2>4. CASE Shift(j) # Shift(i)
    BY <1>0, <2>1, <2>2, <2>4
  <2> QED
    BY <2>3, <2>4
<1>3. Numbers(new) \subseteq Nat /\ Numbers(bv) \subseteq Nat
  BY <1>a, <1>1, NumbersNat
<1> HIDE DEF new
<1>4. Numbers(new) = Numbers(bv) \ {i}
  BY <1>2, <1>3
<1>5. IsFiniteSet(Numbers(new))
  BY <1>a, <1>4, FS_Subset
<1> QED
  BY <1>1, <1>4, <1>5 DEF IsBitvector, new

\* Unsetting a range removes its numbers.
LEMMA UnsetAllNumbers ==
    ASSUME NEW bv, IsBitvector(bv), NEW N \in SUBSET Nat
    PROVE  IsBitvector(unsetAll(bv, N)) /\ Numbers(unsetAll(bv, N)) = Numbers(bv) \ N
<1>a. IsWords(bv) /\ IsFiniteSet(Numbers(bv))
  BY DEF IsBitvector
<1> DEFINE new == unsetAll(bv, N)
           left(s) == {b \in bv[s] : s + b \notin N}
<1>0. /\ DOMAIN new = {r \in DOMAIN bv : left(r) # {}}
      /\ \A r \in DOMAIN new : new[r] = left(r)
  BY DEF unsetAll
<1>1. IsWords(new)
  <2>1. \A r \in DOMAIN bv : r \in Nat /\ Shift(r) = r /\ bv[r] \in SUBSET Bits
    BY <1>a DEF IsWords
  <2>2. \A r \in DOMAIN new : new[r] \in (SUBSET Bits) \ {{}}
    BY <1>0, <2>1
  <2>3. new = [r \in DOMAIN new |-> new[r]]
    BY DEF unsetAll
  <2>4. \A r \in DOMAIN new : r \in Nat /\ Shift(r) = r
    BY <1>0, <2>1
  <2> HIDE DEF new
  <2> QED
    BY <2>2, <2>3, <2>4 DEF IsWords
<1>2. ASSUME NEW j \in Nat PROVE j \in Numbers(new) <=> j \in Numbers(bv) /\ j \notin N
  <2>1. j \in Numbers(new) <=> Shift(j) \in DOMAIN new /\ j - Shift(j) \in new[Shift(j)]
    BY <1>1, InNumbers
  <2>2. j \in Numbers(bv) <=> Shift(j) \in DOMAIN bv /\ j - Shift(j) \in bv[Shift(j)]
    BY <1>a, InNumbers
  <2>3. Shift(j) + (j - Shift(j)) = j
    BY ShiftOf
  <2> HIDE DEF new
  <2> QED
    BY <1>0, <2>1, <2>2, <2>3
<1>3. Numbers(new) \subseteq Nat /\ Numbers(bv) \subseteq Nat
  BY <1>a, <1>1, NumbersNat
<1> HIDE DEF new
<1>4. Numbers(new) = Numbers(bv) \ N
  BY <1>2, <1>3
<1>5. IsFiniteSet(Numbers(new))
  BY <1>a, <1>4, FS_Subset
<1> QED
  BY <1>1, <1>4, <1>5 DEF IsBitvector, new

\* The union of the words is the union of the sets.
LEMMA SetAllNumbers ==
    ASSUME NEW bv, IsBitvector(bv), NEW rhs, IsBitvector(rhs)
    PROVE  IsBitvector(setAll(bv, rhs)) /\ Numbers(setAll(bv, rhs)) = Numbers(bv) \cup Numbers(rhs)
<1>a. IsWords(bv) /\ IsFiniteSet(Numbers(bv)) /\ IsWords(rhs) /\ IsFiniteSet(Numbers(rhs))
  BY DEF IsBitvector
<1> DEFINE new == setAll(bv, rhs)
<1>0. /\ DOMAIN new = DOMAIN bv \cup DOMAIN rhs
      /\ \A r \in DOMAIN new : new[r] = WordAt(bv, r) \cup WordAt(rhs, r)
  BY DEF setAll
<1>1. IsWords(new)
  <2>1. \A r \in DOMAIN bv : r \in Nat /\ Shift(r) = r /\ bv[r] \in (SUBSET Bits) \ {{}}
    BY <1>a DEF IsWords
  <2>2. \A r \in DOMAIN rhs : r \in Nat /\ Shift(r) = r /\ rhs[r] \in (SUBSET Bits) \ {{}}
    BY <1>a DEF IsWords
  <2>3. \A r \in DOMAIN new : new[r] \in (SUBSET Bits) \ {{}}
    BY <1>0, <2>1, <2>2 DEF WordAt
  <2>4. new = [r \in DOMAIN new |-> new[r]]
    BY DEF setAll
  <2>5. \A r \in DOMAIN new : r \in Nat /\ Shift(r) = r
    BY <1>0, <2>1, <2>2
  <2> HIDE DEF new
  <2> QED
    BY <2>3, <2>4, <2>5 DEF IsWords
<1>2. ASSUME NEW j \in Nat PROVE j \in Numbers(new) <=> j \in Numbers(bv) \/ j \in Numbers(rhs)
  <2>1. j \in Numbers(new) <=> Shift(j) \in DOMAIN new /\ j - Shift(j) \in new[Shift(j)]
    BY <1>1, InNumbers
  <2>2. j \in Numbers(bv) <=> Shift(j) \in DOMAIN bv /\ j - Shift(j) \in bv[Shift(j)]
    BY <1>a, InNumbers
  <2>3. j \in Numbers(rhs) <=> Shift(j) \in DOMAIN rhs /\ j - Shift(j) \in rhs[Shift(j)]
    BY <1>a, InNumbers
  <2> HIDE DEF new
  <2> QED
    BY <1>0, <2>1, <2>2, <2>3 DEF WordAt
<1>3. Numbers(new) \subseteq Nat /\ Numbers(bv) \subseteq Nat /\ Numbers(rhs) \subseteq Nat
  BY <1>a, <1>1, NumbersNat
<1> HIDE DEF new
<1>4. Numbers(new) = Numbers(bv) \cup Numbers(rhs)
  BY <1>2, <1>3
<1>5. IsFiniteSet(Numbers(new))
  BY <1>a, <1>4, FS_Union
<1> QED
  BY <1>1, <1>4, <1>5 DEF IsBitvector, new

\* The union answers whether it brings a number that was not there.
LEMMA WordsGrow ==
    ASSUME NEW bv, IsWords(bv), NEW rhs, IsWords(rhs)
    PROVE  grows(bv, rhs) <=> ~ Numbers(rhs) \subseteq Numbers(bv)
<1>1. ASSUME grows(bv, rhs) PROVE ~ Numbers(rhs) \subseteq Numbers(bv)
  <2>1. PICK w \in DOMAIN rhs : ~ rhs[w] \subseteq WordAt(bv, w)
    BY <1>1 DEF grows
  <2>0. PICK b \in rhs[w] : b \notin WordAt(bv, w)
    BY <2>1
  <2>2. w \in Nat /\ Shift(w) = w /\ b \in Bits
    BY DEF IsWords
  <2>3. w + b \in Nat /\ Shift(w + b) = w /\ (w + b) - w = b
    BY <2>2, ShiftUnique DEF Bits
  <2>4. w + b \in Numbers(rhs) /\ w + b \notin Numbers(bv)
    BY <2>0, <2>1, <2>3, InNumbers DEF WordAt
  <2> QED
    BY <2>4
<1>2. ASSUME ~ Numbers(rhs) \subseteq Numbers(bv) PROVE grows(bv, rhs)
  <2>1. PICK j \in Nat : j \in Numbers(rhs) /\ j \notin Numbers(bv)
    BY <1>2, NumbersNat
  <2> QED
    BY <2>1, InNumbers DEF grows, WordAt
<1> QED
  BY <1>1, <1>2

\* The same for a bit vector.
LEMMA GetNumbers ==
    ASSUME NEW bv, IsBitvector(bv), NEW i \in Nat
    PROVE  get(bv, i) <=> i \in Numbers(bv)
BY WordsGet DEF IsBitvector

\* The same for a bit vector.
LEMMA GrowsNumbers ==
    ASSUME NEW bv, IsBitvector(bv), NEW rhs, IsBitvector(rhs)
    PROVE  grows(bv, rhs) <=> ~ Numbers(rhs) \subseteq Numbers(bv)
BY WordsGrow DEF IsBitvector

\* No word is empty, so what the map is empty of, the set is.
LEMMA EmptyNumbers ==
    ASSUME NEW bv, IsBitvector(bv)
    PROVE  isEmpty(bv) <=> Numbers(bv) = {}
<1>1. ASSUME NEW s \in DOMAIN bv PROVE Numbers(bv) # {}
  <2>1. bv[s] # {}
    BY DEF IsBitvector, IsWords
  <2> QED
    BY <2>1 DEF Numbers
<1>2. DOMAIN bv = {} => Numbers(bv) = {}
  BY DEF Numbers
<1> QED
  BY <1>1, <1>2 DEF isEmpty

-----------------------------------------------------------------------------
(* Numbers of pointers.                                                      *)

Pointer == [target : Targets, offset : 0 .. UNKNOWN]

Numberable == IF kind \in IdKinds THEN {p \in Pointer : isOffsetValid(p)} ELSE Targets

IsNumbering(v) ==
    /\ v \in Seq(Numberable)
    /\ \A m, n \in DOMAIN v : v[m] = v[n] => m = n

Has(v, x) == \E n \in DOMAIN v : v[n] = x

\* The numbers that stand for a pointer.
Positions(v) == IF kind \in IdKinds THEN DOMAIN v ELSE 0 .. (64 * Len(v)) - 1

\* PointerAt for other numbers than those of the state.
At(v, n) ==
    IF kind \in IdKinds THEN v[n]
    ELSE LET b == n % WordBits
         IN  [target |-> v[((n - b) \div WordBits) + 1],
              offset |-> IF b = WordBits - 1 THEN UNKNOWN ELSE b * multiplier(kind)]

\* The unknown offset is above every offset of a word and falls on the last bit.
LEMMA UnknownFacts ==
    /\ UNKNOWN \in Nat /\ UNKNOWN % 64 = 63 /\ UNKNOWN >= 255
    /\ \A t \in Targets : Unknown(t) \in Pointer /\ isOffsetValid(Unknown(t))
    /\ Pointers \subseteq Pointer
<1>1. UNKNOWN \in Nat /\ UNKNOWN % 64 = 63 /\ UNKNOWN >= 255
  BY PointersAssumption DEF WordBits
<1>2. \A t \in Targets : Unknown(t) \in Pointer /\ isOffsetValid(Unknown(t))
  BY <1>1 DEF Unknown, Pointer, isOffsetValid
<1>3. Pointers \subseteq Pointer
  <2> SUFFICES ASSUME NEW p \in Pointers PROVE p \in Pointer
    OBVIOUS
  <2>1. p \in [target : {p.target}, offset : 0 .. UNKNOWN] /\ p.target \in Targets
    BY PointersAssumption DEF Targets
  <2> QED
    BY <2>1 DEF Pointer
<1> QED
  BY <1>1, <1>2, <1>3

\* What has a number is found under it.
LEMMA GetID ==
    ASSUME NEW v, IsNumbering(v), NEW x, Has(v, x)
    PROVE  getID(v, x) \in DOMAIN v /\ v[getID(v, x)] = x
BY DEF Has, getID

\* No number is given twice.
LEMMA Injective ==
    ASSUME NEW v, IsNumbering(v), NEW n \in DOMAIN v
    PROVE  getID(v, v[n]) = n /\ Has(v, v[n]) /\ n \in Nat /\ n >= 1 /\ n <= Len(v)
<1>1. Has(v, v[n])
  BY DEF Has
<1>2. getID(v, v[n]) = n
  BY <1>1, GetID DEF IsNumbering
<1>3. n \in 1 .. Len(v) /\ Len(v) \in Nat
  BY DEF IsNumbering
<1> QED
  BY <1>1, <1>2, <1>3

\* The offset of a bit of a word, and back.
OffsetOf(b, m) == IF b = 63 THEN UNKNOWN ELSE b * m

BitFor(o, m) == IF o = UNKNOWN THEN 63 ELSE o \div m

FitsWord(o, m) == o = UNKNOWN \/ (o % m = 0 /\ o <= 62 * m)

\* A bit stands for an offset that fits the word, and is its bit.
LEMMA BitToOffset ==
    ASSUME NEW m \in {1, 4}, NEW b \in 0 .. 63
    PROVE  /\ OffsetOf(b, m) \in 0 .. UNKNOWN
           /\ FitsWord(OffsetOf(b, m), m)
           /\ BitFor(OffsetOf(b, m), m) = b
<1>1. CASE b = 63
  BY <1>1, UnknownFacts DEF OffsetOf, BitFor, FitsWord
<1>2. CASE b # 63 /\ m = 1
  BY <1>2, UnknownFacts DEF OffsetOf, BitFor, FitsWord
<1>3. CASE b # 63 /\ m = 4
  BY <1>3, UnknownFacts DEF OffsetOf, BitFor, FitsWord
<1> QED
  BY <1>1, <1>2, <1>3

\* An offset that fits the word has a bit, which stands for it.
LEMMA OffsetToBit ==
    ASSUME NEW m \in {1, 4}, NEW o \in 0 .. UNKNOWN, FitsWord(o, m)
    PROVE  BitFor(o, m) \in 0 .. 63 /\ OffsetOf(BitFor(o, m), m) = o
<1>1. CASE o = UNKNOWN
  BY <1>1, UnknownFacts DEF OffsetOf, BitFor, FitsWord
<1>2. CASE o # UNKNOWN /\ m = 1
  BY <1>2, UnknownFacts DEF OffsetOf, BitFor, FitsWord
<1>3. CASE o # UNKNOWN /\ m = 4
  BY <1>3, UnknownFacts DEF OffsetOf, BitFor, FitsWord
<1> QED
  BY <1>1, <1>2, <1>3

\* The word of a position, counted from 1, and back.
WordOf(n) == ((n - (n % 64)) \div 64) + 1

Position(i, b) == (i - 1) * 64 + b

\* A position within the words in use is a bit of one of them.
LEMMA PositionToWord ==
    ASSUME NEW l \in Nat, NEW n \in 0 .. (64 * l) - 1
    PROVE  n % 64 \in 0 .. 63 /\ WordOf(n) \in 1 .. l /\ n = Position(WordOf(n), n % 64)
BY DEF WordOf, Position

\* A bit of a word in use has a position, which leads back to it.
LEMMA WordToPosition ==
    ASSUME NEW l \in Nat, NEW i \in 1 .. l, NEW b \in 0 .. 63
    PROVE  /\ Position(i, b) \in 0 .. (64 * l) - 1
           /\ Position(i, b) % 64 = b /\ WordOf(Position(i, b)) = i
BY DEF WordOf, Position

PositionsOf(i) == (i - 1) * 64 .. (i - 1) * 64 + 64 - 1

\* Words do not overlap.
LEMMA PositionInWord ==
    ASSUME NEW i \in Nat, NEW j \in Nat, NEW b \in 0 .. 63
    PROVE  Position(j, b) \in PositionsOf(i) <=> j = i
BY DEF Position, PositionsOf

\* The definitions of the code in these terms.
LEMMA SmallTerms ==
    ASSUME kind \in SmallKinds, NEW v
    PROVE  /\ multiplier(kind) \in {1, 4}
           /\ \A n : At(v, n) = [target |-> v[WordOf(n)],
                                 offset |-> OffsetOf(n % 64, multiplier(kind))]
           /\ \A p : /\ Key(p) = p.target
                     /\ isOffsetValid(p) <=> FitsWord(p.offset, multiplier(kind))
                     /\ Bit(v, p) = Position(getID(v, p.target), BitFor(p.offset, multiplier(kind)))
<1>1. kind \notin IdKinds
  BY DEF IdKinds, SmallKinds
<1>2. multiplier(kind) \in {1, 4}
  BY DEF multiplier
<1>3. \A n : At(v, n) = [target |-> v[WordOf(n)], offset |-> OffsetOf(n % 64, multiplier(kind))]
  BY <1>1 DEF At, WordOf, OffsetOf, WordBits
<1>4. \A p : Key(p) = p.target /\ (isOffsetValid(p) <=> FitsWord(p.offset, multiplier(kind)))
  BY <1>1 DEF Key, isOffsetValid, FitsWord, WordBits
<1>5. \A p : Bit(v, p) = Position(getID(v, p.target), BitFor(p.offset, multiplier(kind)))
  BY <1>1 DEF Bit, getPosition, getNodePosition, Position, BitFor, WordBits
<1> QED
  BY <1>2, <1>3, <1>4, <1>5

\* Every number in use stands for a pointer that has a number, and back.
LEMMA Decoding ==
    ASSUME kind \in VectorKinds, NEW v, IsNumbering(v), NEW n \in Positions(v)
    PROVE  /\ n \in Nat
           /\ At(v, n) \in Pointer /\ isOffsetValid(At(v, n))
           /\ Has(v, Key(At(v, n))) /\ Bit(v, At(v, n)) = n
<1>1. CASE kind \in IdKinds
  <2>1. n \in DOMAIN v /\ At(v, n) = v[n] /\ Key(At(v, n)) = v[n]
    BY <1>1 DEF Positions, At, Key
  <2>2. v[n] \in Pointer /\ isOffsetValid(v[n])
    BY <1>1, <2>1 DEF IsNumbering, Numberable
  <2>3. Bit(v, v[n]) = getID(v, v[n])
    BY <1>1 DEF Bit
  <2> QED
    BY <2>1, <2>2, <2>3, Injective
<1>2. CASE kind \notin IdKinds
  <2> DEFINE i == WordOf(n)
             b == n % 64
             m == multiplier(kind)
             p == At(v, n)
  <2>1. v \in Seq(Targets) /\ Len(v) \in Nat /\ n \in 0 .. (64 * Len(v)) - 1 /\ kind \in SmallKinds
    BY <1>2 DEF IsNumbering, Numberable, Positions, VectorKinds
  <2>2. b \in 0 .. 63 /\ i \in DOMAIN v /\ n = Position(i, b) /\ m \in {1, 4}
    BY <2>1, PositionToWord, SmallTerms
  <2>3. p = [target |-> v[i], offset |-> OffsetOf(b, m)]
    BY <2>1, SmallTerms
  <2>4. OffsetOf(b, m) \in 0 .. UNKNOWN /\ FitsWord(OffsetOf(b, m), m) /\ BitFor(OffsetOf(b, m), m) = b
    BY <2>2, BitToOffset
  <2>5. v[i] \in Targets /\ Has(v, v[i]) /\ getID(v, v[i]) = i
    BY <2>1, <2>2, Injective
  <2>6. p \in Pointer /\ p.target = v[i] /\ p.offset = OffsetOf(b, m)
    BY <2>3, <2>4, <2>5 DEF Pointer
  <2>7. isOffsetValid(p) /\ Key(p) = v[i] /\ Bit(v, p) = Position(i, b)
    BY <2>1, <2>4, <2>5, <2>6, SmallTerms
  <2> QED
    BY <2>1, <2>2, <2>5, <2>6, <2>7
<1> QED
  BY <1>1, <1>2

\* A pointer that the vector can hold is found under its bit.
LEMMA Coding ==
    ASSUME kind \in VectorKinds, NEW v, IsNumbering(v),
           NEW p \in Pointer, isOffsetValid(p), Has(v, Key(p))
    PROVE  Bit(v, p) \in Positions(v) /\ Bit(v, p) \in Nat /\ At(v, Bit(v, p)) = p
<1>1. CASE kind \in IdKinds
  BY <1>1, GetID DEF Bit, Key, Positions, At, IsNumbering
<1>2. CASE kind \notin IdKinds
  <2> DEFINE i == getID(v, p.target)
             m == multiplier(kind)
             b == BitFor(p.offset, m)
             n == Position(i, b)
  <2>1. kind \in SmallKinds /\ Len(v) \in Nat /\ v \in Seq(Targets)
    BY <1>2 DEF VectorKinds, IsNumbering, Numberable
  <2>2. /\ Key(p) = p.target /\ FitsWord(p.offset, m) /\ m \in {1, 4} /\ Bit(v, p) = n
        /\ At(v, n) = [target |-> v[WordOf(n)], offset |-> OffsetOf(n % 64, m)]
    BY <2>1, SmallTerms
  <2>3. i \in 1 .. Len(v) /\ v[i] = p.target
    BY <2>1, <2>2, GetID
  <2>4. p.offset \in 0 .. UNKNOWN /\ p = [target |-> p.target, offset |-> p.offset]
    BY DEF Pointer
  <2>5. b \in 0 .. 63 /\ OffsetOf(b, m) = p.offset
    BY <2>2, <2>4, OffsetToBit
  <2>6. n \in 0 .. (64 * Len(v)) - 1 /\ n % 64 = b /\ WordOf(n) = i
    BY <2>1, <2>3, <2>5, WordToPosition
  <2>7. At(v, n) = p
    BY <2>2, <2>3, <2>4, <2>5, <2>6
  <2> QED
    BY <1>2, <2>1, <2>2, <2>6, <2>7 DEF Positions
<1> QED
  BY <1>1, <1>2

\* Numbers are never taken back.
Extends(v, w) ==
    /\ IsNumbering(v) /\ IsNumbering(w)
    /\ Len(v) <= Len(w) /\ \A n \in DOMAIN v : w[n] = v[n]

\* Giving a number keeps those given before.
LEMMA NumberedExtends ==
    ASSUME NEW v, IsNumbering(v), NEW x \in Numberable
    PROVE  Extends(v, Numbered(v, x)) /\ Has(Numbered(v, x), x)
<1>1. CASE Has(v, x)
  BY <1>1 DEF Has, Numbered, Extends, IsNumbering
<1>2. CASE ~ Has(v, x)
  <2> DEFINE w == Append(v, x)
  <2>1. v \in Seq(Numberable) /\ Len(v) \in Nat /\ Numbered(v, x) = w
    BY <1>2 DEF Has, Numbered, IsNumbering
  <2>2. /\ w \in Seq(Numberable) /\ Len(w) = Len(v) + 1
        /\ DOMAIN w = 1 .. Len(v) + 1 /\ DOMAIN v = 1 .. Len(v)
        /\ w[Len(v) + 1] = x /\ \A n \in 1 .. Len(v) : w[n] = v[n]
    BY <2>1
  <2> HIDE DEF w
  <2>3. IsNumbering(w)
    BY <1>2, <2>1, <2>2 DEF IsNumbering, Has
  <2> QED
    BY <2>1, <2>2, <2>3 DEF Extends, Has
<1> QED
  BY <1>1, <1>2

\* Later numbers change neither what a bit stands for nor the bit of a pointer.
LEMMA ExtendsKeeps ==
    ASSUME kind \in VectorKinds, NEW v, NEW w, Extends(v, w)
    PROVE  /\ Positions(v) \subseteq Positions(w)
           /\ \A n \in Positions(v) : At(w, n) = At(v, n)
           /\ \A p \in Pointer : isOffsetValid(p) /\ Has(v, Key(p)) =>
                 Has(w, Key(p)) /\ Bit(w, p) = Bit(v, p)
<1>1. /\ IsNumbering(v) /\ IsNumbering(w) /\ Len(v) \in Nat /\ Len(w) \in Nat
      /\ DOMAIN v = 1 .. Len(v) /\ DOMAIN w = 1 .. Len(w) /\ Len(v) <= Len(w)
      /\ \A n \in DOMAIN v : w[n] = v[n]
  BY DEF Extends, IsNumbering
<1>2. Positions(v) \subseteq Positions(w)
  BY <1>1 DEF Positions
<1>3. ASSUME NEW n \in Positions(v) PROVE At(w, n) = At(v, n)
  <2>1. CASE kind \in IdKinds
    BY <1>1, <2>1 DEF Positions, At
  <2>2. CASE kind \notin IdKinds
    <3>1. kind \in SmallKinds /\ n \in 0 .. (64 * Len(v)) - 1
      BY <2>2 DEF VectorKinds, Positions
    <3>2. WordOf(n) \in DOMAIN v
      BY <1>1, <3>1, PositionToWord
    <3> QED
      BY <1>1, <3>1, <3>2, SmallTerms
  <2> QED
    BY <2>1, <2>2
<1>4. ASSUME NEW p \in Pointer, isOffsetValid(p), Has(v, Key(p))
      PROVE  Has(w, Key(p)) /\ Bit(w, p) = Bit(v, p)
  <2>1. Bit(v, p) \in Positions(v) /\ At(v, Bit(v, p)) = p
    BY <1>1, <1>4, Coding
  <2>2. Has(w, Key(p))
    BY <1>1, <1>4 DEF Has
  <2> QED
    BY <1>1, <1>2, <1>3, <2>1, <2>2, Decoding
<1> QED
  BY <1>2, <1>3, <1>4

-----------------------------------------------------------------------------
(* Sets of the kinds with one bit vector.                                    *)

IsVector(v, s) ==
    /\ s = [pointers |-> s.pointers, rest |-> s.rest]
    /\ IsBitvector(s.pointers) /\ Numbers(s.pointers) \subseteq Positions(v)
    /\ s.rest \subseteq {p \in Pointer : ~ isOffsetValid(p)} /\ IsFiniteSet(s.rest)

VectorListing(v, s) == {At(v, n) : n \in Numbers(s.pointers)} \cup s.rest

VectorContains(v, s, p) ==
    IF isOffsetValid(p) THEN Has(v, Key(p)) /\ Bit(v, p) \in Numbers(s.pointers)
    ELSE p \in s.rest

\* What the iterator visits is what the search by encoding finds.
LEMMA VectorMembers ==
    ASSUME kind \in VectorKinds, NEW v, IsNumbering(v), NEW s, IsVector(v, s)
    PROVE  /\ VectorListing(v, s) \subseteq Pointer
           /\ \A p \in Pointer : p \in VectorListing(v, s) <=> VectorContains(v, s, p)
<1>1. VectorListing(v, s) \subseteq Pointer
  BY Decoding DEF VectorListing, IsVector
<1>2. ASSUME NEW p \in Pointer, isOffsetValid(p)
      PROVE  p \in VectorListing(v, s) <=> VectorContains(v, s, p)
  <2>1. ASSUME p \in VectorListing(v, s) PROVE VectorContains(v, s, p)
    <3>1. PICK n \in Numbers(s.pointers) : p = At(v, n)
      BY <1>2, <2>1 DEF VectorListing, IsVector
    <3> QED
      BY <1>2, <3>1, Decoding DEF VectorContains, IsVector
  <2>2. ASSUME VectorContains(v, s, p) PROVE p \in VectorListing(v, s)
    BY <1>2, <2>2, Coding DEF VectorContains, VectorListing
  <2> QED
    BY <2>1, <2>2
<1>3. ASSUME NEW p \in Pointer, ~ isOffsetValid(p)
      PROVE  p \in VectorListing(v, s) <=> VectorContains(v, s, p)
  <2>1. \A n \in Numbers(s.pointers) : p # At(v, n)
    BY <1>3, Decoding DEF IsVector
  <2> QED
    BY <1>3, <2>1 DEF VectorListing, VectorContains
<1> QED
  BY <1>1, <1>2, <1>3

\* Numbers that are added for other pointers change no set.
LEMMA VectorExtends ==
    ASSUME kind \in VectorKinds, NEW v, NEW w, Extends(v, w), NEW s, IsVector(v, s)
    PROVE  IsVector(w, s) /\ VectorListing(w, s) = VectorListing(v, s)
BY ExtendsKeeps DEF IsVector, VectorListing

\* Setting the bit of a pointer adds the pointer.
LEMMA VectorSet ==
    ASSUME kind \in VectorKinds, NEW v, IsNumbering(v), NEW s, IsVector(v, s),
           NEW p \in Pointer, isOffsetValid(p), Has(v, Key(p))
    PROVE  LET new == [s EXCEPT !.pointers = set(@, Bit(v, p))]
           IN  IsVector(v, new) /\ VectorListing(v, new) = VectorListing(v, s) \cup {p}
<1> DEFINE new == [s EXCEPT !.pointers = set(@, Bit(v, p))]
<1>1. Bit(v, p) \in Positions(v) /\ Bit(v, p) \in Nat /\ At(v, Bit(v, p)) = p
  BY Coding
<1>2. new.pointers = set(s.pointers, Bit(v, p)) /\ new.rest = s.rest
      /\ new = [pointers |-> new.pointers, rest |-> new.rest]
  BY DEF IsVector
<1>3. IsBitvector(new.pointers) /\ Numbers(new.pointers) = Numbers(s.pointers) \cup {Bit(v, p)}
  BY <1>1, <1>2, SetNumbers DEF IsVector
<1> HIDE DEF new
<1>4. IsVector(v, new)
  BY <1>1, <1>2, <1>3 DEF IsVector
<1>5. VectorListing(v, new) = VectorListing(v, s) \cup {p}
  BY <1>1, <1>2, <1>3 DEF VectorListing
<1> QED
  BY <1>4, <1>5 DEF new

\* Unsetting the bit of a pointer removes the pointer.
LEMMA VectorUnset ==
    ASSUME kind \in VectorKinds, NEW v, IsNumbering(v), NEW s, IsVector(v, s),
           NEW p \in Pointer, isOffsetValid(p), Has(v, Key(p))
    PROVE  LET new == [s EXCEPT !.pointers = unset(@, Bit(v, p))]
           IN  IsVector(v, new) /\ VectorListing(v, new) = VectorListing(v, s) \ {p}
<1> DEFINE new == [s EXCEPT !.pointers = unset(@, Bit(v, p))]
<1>1. Bit(v, p) \in Nat /\ At(v, Bit(v, p)) = p
  BY Coding
<1>2. new.pointers = unset(s.pointers, Bit(v, p)) /\ new.rest = s.rest
      /\ new = [pointers |-> new.pointers, rest |-> new.rest]
  BY DEF IsVector
<1>3. IsBitvector(new.pointers) /\ Numbers(new.pointers) = Numbers(s.pointers) \ {Bit(v, p)}
  BY <1>1, <1>2, UnsetNumbers DEF IsVector
<1> HIDE DEF new
<1>4. IsVector(v, new)
  BY <1>2, <1>3 DEF IsVector
<1>5. \A n \in Numbers(s.pointers) : At(v, n) = p <=> n = Bit(v, p)
  BY <1>1, Decoding DEF IsVector
<1>6. p \notin s.rest
  BY DEF IsVector
<1>7. VectorListing(v, new) = VectorListing(v, s) \ {p}
  BY <1>2, <1>3, <1>5, <1>6 DEF VectorListing
<1> QED
  BY <1>4, <1>7 DEF new

\* The pointers that the vector cannot hold.
LEMMA VectorRest ==
    ASSUME kind \in VectorKinds, NEW v, IsNumbering(v), NEW s, IsVector(v, s),
           NEW R \in SUBSET {p \in Pointer : ~ isOffsetValid(p)}, IsFiniteSet(R)
    PROVE  LET new == [s EXCEPT !.rest = R]
           IN  /\ IsVector(v, new)
               /\ VectorListing(v, new) = (VectorListing(v, s) \ s.rest) \cup R
<1> DEFINE new == [s EXCEPT !.rest = R]
<1>1. new.pointers = s.pointers /\ new.rest = R /\ new = [pointers |-> new.pointers, rest |-> new.rest]
  BY DEF IsVector
<1>2. \A n \in Numbers(s.pointers) : At(v, n) \notin s.rest
  BY Decoding DEF IsVector
<1> HIDE DEF new
<1>3. IsVector(v, new)
  BY <1>1 DEF IsVector
<1>4. VectorListing(v, new) = (VectorListing(v, s) \ s.rest) \cup R
  BY <1>1, <1>2 DEF VectorListing
<1> QED
  BY <1>3, <1>4 DEF new

\* The bits of a target are those of its pointers.
LEMMA BitsOfTarget ==
    ASSUME kind \in VectorKinds, NEW v, IsNumbering(v), NEW t \in Targets,
           kind \in SmallKinds => Has(v, t)
    PROVE  /\ BitsOf(v, t) \subseteq Nat
           /\ \A n \in Positions(v) : n \in BitsOf(v, t) <=> At(v, n).target = t
<1>1. CASE kind \in IdKinds
  BY <1>1 DEF BitsOf, At, Positions, IsNumbering
<1>2. CASE kind \notin IdKinds
  <2> DEFINE i == getID(v, t)
  <2>1. kind \in SmallKinds /\ Len(v) \in Nat /\ v \in Seq(Targets)
    BY <1>2 DEF VectorKinds, IsNumbering, Numberable
  <2>2. i \in 1 .. Len(v) /\ v[i] = t
    BY <2>1, GetID
  <2>3. BitsOf(v, t) = PositionsOf(i)
    BY <1>2 DEF BitsOf, getNodePosition, WordBits, PositionsOf
  <2>4. ASSUME NEW n \in Positions(v)
        PROVE  n \in BitsOf(v, t) <=> At(v, n).target = t
    <3>1. n \in 0 .. (64 * Len(v)) - 1
      BY <1>2 DEF Positions
    <3>2. n % 64 \in 0 .. 63 /\ WordOf(n) \in 1 .. Len(v) /\ n = Position(WordOf(n), n % 64)
      BY <2>1, <3>1, PositionToWord
    <3>3. At(v, n).target = v[WordOf(n)]
      BY <2>1, SmallTerms
    <3>4. v[WordOf(n)] = t <=> WordOf(n) = i
      BY <2>1, <2>2, <3>2 DEF IsNumbering
    <3>5. i \in Nat /\ WordOf(n) \in Nat
      BY <2>1, <2>2, <3>2
    <3>6. Position(WordOf(n), n % 64) \in PositionsOf(i) <=> WordOf(n) = i
      <4> HIDE DEF i
      <4> QED
        BY <3>2, <3>5, PositionInWord
    <3>7. n \in BitsOf(v, t) <=> WordOf(n) = i
      BY <2>3, <3>2, <3>6
    <3> QED
      BY <3>3, <3>4, <3>7
  <2>5. BitsOf(v, t) \subseteq Nat
    BY <2>1, <2>2, <2>3 DEF PositionsOf
  <2> QED
    BY <2>4, <2>5
<1> QED
  BY <1>1, <1>2

\* Removing a target removes its pointers inside and outside the vector.
LEMMA VectorRemovedAny ==
    ASSUME kind \in VectorKinds, NEW v, IsNumbering(v), NEW s, IsVector(v, s),
           NEW t \in Targets, kind \in SmallKinds => Has(v, t)
    PROVE  LET new == removedAny(v, s, t)
           IN  /\ IsVector(v, new)
               /\ VectorListing(v, new) = {q \in VectorListing(v, s) : q.target # t}
<1> DEFINE new == removedAny(v, s, t)
<1>1. /\ new.pointers = unsetAll(s.pointers, BitsOf(v, t))
      /\ new.rest = {p \in s.rest : p.target # t}
      /\ new = [pointers |-> new.pointers, rest |-> new.rest]
  BY DEF removedAny, VectorKinds, IdKinds, SmallKinds
<1>2. IsBitvector(new.pointers) /\ Numbers(new.pointers) = Numbers(s.pointers) \ BitsOf(v, t)
  BY <1>1, BitsOfTarget, UnsetAllNumbers DEF IsVector
<1> HIDE DEF new
<1>3. IsVector(v, new)
  <2>1. IsFiniteSet(new.rest)
    BY <1>1, FS_Subset DEF IsVector
  <2> QED
    BY <1>1, <1>2, <2>1 DEF IsVector
<1>4. \A n \in Numbers(s.pointers) : n \in BitsOf(v, t) <=> At(v, n).target = t
  BY BitsOfTarget DEF IsVector
<1>5. VectorListing(v, new) = {q \in VectorListing(v, s) : q.target # t}
  BY <1>1, <1>2, <1>4 DEF VectorListing
<1> QED
  BY <1>3, <1>5 DEF new

\* The union of two vectors holds the pointers of both.
LEMMA VectorUnited ==
    ASSUME kind \in VectorKinds, NEW v, IsNumbering(v),
           NEW s, IsVector(v, s), NEW r, IsVector(v, r)
    PROVE  LET new == united(s, r)
           IN  /\ IsVector(v, new)
               /\ VectorListing(v, new) = VectorListing(v, s) \cup VectorListing(v, r)
<1> DEFINE new == united(s, r)
<1>1. /\ new.pointers = setAll(s.pointers, r.pointers)
      /\ new.rest = s.rest \cup r.rest
      /\ new = [pointers |-> new.pointers, rest |-> new.rest]
  BY DEF united, VectorKinds, IdKinds, SmallKinds
<1>2. /\ IsBitvector(new.pointers)
      /\ Numbers(new.pointers) = Numbers(s.pointers) \cup Numbers(r.pointers)
  BY <1>1, SetAllNumbers DEF IsVector
<1> HIDE DEF new
<1>3. IsVector(v, new)
  <2>1. IsFiniteSet(new.rest)
    BY <1>1, FS_Union DEF IsVector
  <2> QED
    BY <1>1, <1>2, <2>1 DEF IsVector
<1>4. VectorListing(v, new) = VectorListing(v, s) \cup VectorListing(v, r)
  BY <1>1, <1>2 DEF VectorListing
<1> QED
  BY <1>3, <1>4 DEF new

\* The answer of the union is that it has changed the set.
LEMMA VectorUniteAnswer ==
    ASSUME kind \in VectorKinds, NEW v, IsNumbering(v),
           NEW s, IsVector(v, s), NEW r, IsVector(v, r)
    PROVE  uniteAnswer(s, r) <=> ~ VectorListing(v, r) \subseteq VectorListing(v, s)
<1>1. uniteAnswer(s, r) <=> grows(s.pointers, r.pointers) \/ ~ r.rest \subseteq s.rest
  BY DEF uniteAnswer, VectorKinds, IdKinds, SmallKinds
<1>2. grows(s.pointers, r.pointers) <=> ~ Numbers(r.pointers) \subseteq Numbers(s.pointers)
  BY GrowsNumbers DEF IsVector
<1>3. \A n \in Numbers(r.pointers) : At(v, n) \in VectorListing(v, s) => n \in Numbers(s.pointers)
  <2> SUFFICES ASSUME NEW n \in Numbers(r.pointers), At(v, n) \in VectorListing(v, s)
               PROVE  n \in Numbers(s.pointers)
    OBVIOUS
  <2>1. n \in Positions(v) /\ At(v, n) \in Pointer /\ isOffsetValid(At(v, n)) /\ Bit(v, At(v, n)) = n
    BY Decoding DEF IsVector
  <2> QED
    BY <2>1, VectorMembers DEF VectorContains
<1>4. \A p \in r.rest : p \in VectorListing(v, s) => p \in s.rest
  BY VectorMembers DEF IsVector, VectorContains
<1> QED
  BY <1>1, <1>2, <1>3, <1>4 DEF VectorListing

\* The question and the iterator agree.
LEMMA VectorPointsTo ==
    ASSUME kind \in VectorKinds, IsNumbering(ids), NEW s, IsVector(ids, s), NEW p \in Pointer
    PROVE  pointsTo(s, p) <=> p \in VectorListing(ids, s)
<1>1. CASE isOffsetValid(p)
  <2>1. pointsTo(s, p) <=> Has(ids, Key(p)) /\ get(s.pointers, Bit(ids, p))
    BY <1>1 DEF pointsTo, IsNumbered, Has, VectorKinds, IdKinds, SmallKinds
  <2>2. Has(ids, Key(p)) => (get(s.pointers, Bit(ids, p)) <=> Bit(ids, p) \in Numbers(s.pointers))
    BY <1>1, Coding, GetNumbers DEF IsVector
  <2> QED
    BY <1>1, <2>1, <2>2, VectorMembers DEF VectorContains
<1>2. CASE ~ isOffsetValid(p)
  <2>1. pointsTo(s, p) <=> p \in s.rest
    BY <1>2 DEF pointsTo, VectorKinds, IdKinds, SmallKinds
  <2> QED
    BY <1>2, <2>1, VectorMembers DEF VectorContains
<1> QED
  BY <1>1, <1>2

\* A pointer and the unknown offset of its target.
LEMMA UnknownOf ==
    ASSUME NEW p \in Pointer
    PROVE  /\ p.target \in Targets /\ p.offset \in 0 .. UNKNOWN
           /\ p = [target |-> p.target, offset |-> p.offset]
           /\ Unknown(p.target) \in Pointer /\ isOffsetValid(Unknown(p.target))
           /\ p.offset = UNKNOWN <=> p = Unknown(p.target)
           /\ Unknown(p.target).target = p.target /\ Unknown(p.target).offset = UNKNOWN
BY UnknownFacts DEF Pointer, Unknown

\* Adding a pointer to a vector is adding it to the simple set.
LEMMA VectorAdded ==
    ASSUME kind \in VectorKinds, NEW v, Extends(ids, v), NEW s, IsVector(ids, s),
           NEW p \in Pointer, Has(v, Key(Unknown(p.target))),
           ~ pointsTo(s, Unknown(p.target)) /\ isOffsetValid(p) => Has(v, Key(p))
    PROVE  LET new == added(v, s, p)
           IN  /\ IsVector(v, new)
               /\ VectorListing(v, new) = Simple!added(VectorListing(ids, s), p)
<1> DEFINE L == VectorListing(ids, s)
           u == Unknown(p.target)
<1>1. IsNumbering(ids) /\ IsNumbering(v) /\ IsVector(v, s) /\ VectorListing(v, s) = L
  BY VectorExtends DEF Extends
<1>2. pointsTo(s, u) <=> u \in L
  BY <1>1, VectorPointsTo, UnknownOf
<1>3. added(v, s, p) = vectorAdded(v, s, p)
  BY DEF added, VectorKinds, IdKinds, SmallKinds
<1>4. /\ p.target \in Targets /\ u \in Pointer /\ u.target = p.target
      /\ u = Simple!Unknown(p.target)
  BY UnknownOf DEF Unknown, Simple!Unknown
<1>5. CASE u \in L
  BY <1>1, <1>2, <1>3, <1>4, <1>5 DEF vectorAdded, Simple!added
<1>6. CASE u \notin L /\ p.offset = UNKNOWN
  <2> DEFINE r == removedAny(v, s, p.target)
  <2>1. p = u /\ isOffsetValid(p) /\ Has(v, Key(p))
    BY <1>6, UnknownOf
  <2>2. kind \in SmallKinds => Has(v, p.target)
    BY <2>1 DEF Key, IdKinds, SmallKinds
  <2>3. IsVector(v, r) /\ VectorListing(v, r) = {q \in L : q.target # p.target}
    BY <1>1, <1>4, <2>2, VectorRemovedAny
  <2> HIDE DEF r
  <2>4. LET new == [r EXCEPT !.pointers = set(@, Bit(v, p))]
        IN  IsVector(v, new) /\ VectorListing(v, new) = VectorListing(v, r) \cup {p}
    BY <1>1, <2>1, <2>3, VectorSet
  <2>5. added(v, s, p) = [r EXCEPT !.pointers = set(@, Bit(v, p))]
    BY <1>2, <1>3, <1>6 DEF vectorAdded, r
  <2>6. Simple!added(L, p) = {q \in L : q.target # p.target} \cup {p}
    BY <1>4, <1>6 DEF Simple!added, Simple!pointersOther
  <2> HIDE DEF L
  <2> QED
    BY <2>3, <2>4, <2>5, <2>6 DEF L
<1>7. CASE u \notin L /\ p.offset # UNKNOWN
  <2>1. Simple!added(L, p) = L \cup {p}
    BY <1>4, <1>7 DEF Simple!added
  <2>2. CASE isOffsetValid(p)
    <3>1. Has(v, Key(p))
      BY <1>2, <1>7, <2>2
    <3>2. added(v, s, p) = [s EXCEPT !.pointers = set(@, Bit(v, p))]
      BY <1>2, <1>3, <1>7, <2>2 DEF vectorAdded
    <3> QED
      BY <1>1, <2>1, <2>2, <3>1, <3>2, VectorSet
  <2>3. CASE ~ isOffsetValid(p)
    <3>1. added(v, s, p) = [s EXCEPT !.rest = @ \cup {p}]
      BY <1>2, <1>3, <1>7, <2>3 DEF vectorAdded
    <3> DEFINE R == s.rest \cup {p}
    <3>2. /\ R \in SUBSET {q \in Pointer : ~ isOffsetValid(q)} /\ s.rest \subseteq L
          /\ IsFiniteSet(R)
      BY <1>1, <2>3, FS_AddElement DEF IsVector, VectorListing
    <3> HIDE DEF R
    <3>3. LET new == [s EXCEPT !.rest = R]
          IN  IsVector(v, new) /\ VectorListing(v, new) = (L \ s.rest) \cup R
      BY <1>1, <3>2, VectorRest
    <3>4. added(v, s, p) = [s EXCEPT !.rest = R] /\ (L \ s.rest) \cup R = L \cup {p}
      BY <3>1, <3>2 DEF R
    <3> QED
      BY <2>1, <3>3, <3>4
  <2> QED
    BY <2>2, <2>3
<1> QED
  BY <1>5, <1>6, <1>7

-----------------------------------------------------------------------------
(* Sets of the kind OffsetsSet.                                              *)

IsOffsets(s) ==
    /\ s = [t \in DOMAIN s |-> s[t]] /\ DOMAIN s \subseteq Targets
    /\ \A t \in DOMAIN s : IsBitvector(s[t]) /\ Numbers(s[t]) \subseteq 0 .. UNKNOWN

\* A pointer is visited when its offset is in the vector of its target.
LEMMA OffsetsMembers ==
    ASSUME NEW s, IsOffsets(s)
    PROVE  /\ offsetsListed(s) \subseteq Pointer
           /\ \A p \in Pointer : p \in offsetsListed(s) <=>
                 p.target \in DOMAIN s /\ p.offset \in Numbers(s[p.target])
           /\ \A t : /\ IsBitvector(offsetsOf(s, t)) /\ Numbers(offsetsOf(s, t)) \subseteq 0 .. UNKNOWN
                     /\ \A p \in Pointer : p.target = t =>
                           (p \in offsetsListed(s) <=> p.offset \in Numbers(offsetsOf(s, t)))
<1>1. offsetsListed(s) \subseteq Pointer
  BY DEF offsetsListed, IsOffsets, Pointer
<1>2. \A p \in Pointer : p \in offsetsListed(s) <=>
         p.target \in DOMAIN s /\ p.offset \in Numbers(s[p.target])
  BY DEF offsetsListed, Pointer
<1>3. \A t : IsBitvector(offsetsOf(s, t)) /\ Numbers(offsetsOf(s, t)) \subseteq 0 .. UNKNOWN
  BY NoBitsEmpty DEF offsetsOf, IsOffsets
<1>4. \A t : \A p \in Pointer : p.target = t =>
         (p \in offsetsListed(s) <=> p.offset \in Numbers(offsetsOf(s, t)))
  BY <1>2, NoBitsEmpty DEF offsetsOf
<1> QED
  BY <1>1, <1>2, <1>3, <1>4

\* Adding a pointer is adding it to the simple set.
LEMMA OffsetsAdded ==
    ASSUME NEW s, IsOffsets(s), NEW p \in Pointer
    PROVE  /\ IsOffsets(offsetsAdded(s, p))
           /\ offsetsListed(offsetsAdded(s, p)) = Simple!added(offsetsListed(s), p)
<1> DEFINE old == offsetsOf(s, p.target)
           new == IF get(old, UNKNOWN) THEN old
                  ELSE IF p.offset = UNKNOWN THEN set(NoBits, UNKNOWN)
                  ELSE set(old, p.offset)
           r == offsetsAdded(s, p)
           u == Unknown(p.target)
           L == offsetsListed(s)
<1>0. /\ p.target \in Targets /\ p.offset \in 0 .. UNKNOWN /\ UNKNOWN \in Nat
      /\ u \in Pointer /\ u.target = p.target /\ u.offset = UNKNOWN
      /\ u = Simple!Unknown(p.target)
      /\ p.offset = UNKNOWN <=> p = u
  BY UnknownOf, UnknownFacts DEF Unknown, Simple!Unknown
<1>1. r = [t \in DOMAIN s \cup {p.target} |-> IF t = p.target THEN new ELSE s[t]]
  BY DEF offsetsAdded
<1>2. IsBitvector(old) /\ Numbers(old) \subseteq 0 .. UNKNOWN
  BY OffsetsMembers
<1>3. get(old, UNKNOWN) <=> u \in L
  BY <1>0, <1>2, OffsetsMembers, GetNumbers
<1>4. /\ IsBitvector(new)
      /\ Numbers(new) = IF u \in L THEN Numbers(old)
                        ELSE IF p.offset = UNKNOWN THEN {UNKNOWN} ELSE Numbers(old) \cup {p.offset}
  <2>1. CASE u \in L
    BY <1>2, <1>3, <2>1
  <2>2. CASE u \notin L /\ p.offset = UNKNOWN
    <3>1. IsBitvector(set(NoBits, UNKNOWN)) /\ Numbers(set(NoBits, UNKNOWN)) = {} \cup {UNKNOWN}
      BY <1>0, SetNumbers, NoBitsEmpty
    <3> QED
      BY <1>3, <2>2, <3>1
  <2>3. CASE u \notin L /\ p.offset # UNKNOWN
    <3>1. /\ IsBitvector(set(old, p.offset))
          /\ Numbers(set(old, p.offset)) = Numbers(old) \cup {p.offset}
      BY <1>0, <1>2, SetNumbers
    <3> QED
      BY <1>3, <2>3, <3>1
  <2> QED
    BY <2>1, <2>2, <2>3
<1> HIDE DEF r, new, old, u
<1>5. IsOffsets(r)
  BY <1>0, <1>1, <1>2, <1>4 DEF IsOffsets
<1>6. ASSUME NEW q \in Pointer
      PROVE  q \in offsetsListed(r) <=> q \in Simple!added(L, p)
  <2>1. q \in offsetsListed(r) <=> q.target \in DOMAIN r /\ q.offset \in Numbers(r[q.target])
    BY <1>5, OffsetsMembers
  <2>2. q \in L <=> q.target \in DOMAIN s /\ q.offset \in Numbers(s[q.target])
    BY OffsetsMembers
  <2>3. CASE q.target # p.target
    <3>1. q \in offsetsListed(r) <=> q \in L
      BY <1>1, <2>1, <2>2, <2>3
    <3> QED
      BY <2>3, <3>1 DEF Simple!added, Simple!pointersOther
  <2>4. CASE q.target = p.target
    <3>1. q \in offsetsListed(r) <=> q.offset \in Numbers(new)
      BY <1>1, <2>1, <2>4
    <3>2. q \in L <=> q.offset \in Numbers(old)
      BY <2>4, OffsetsMembers DEF old
    <3>3. q.offset = p.offset <=> q = p
      BY <2>4, UnknownOf
    <3> QED
      BY <1>0, <1>4, <2>4, <3>1, <3>2, <3>3 DEF Simple!added, Simple!pointersOther
  <2> QED
    BY <2>3, <2>4
<1>7. Simple!added(L, p) \subseteq Pointer
  BY OffsetsMembers DEF Simple!added, Simple!pointersOther
<1>8. offsetsListed(r) = Simple!added(L, p)
  BY <1>5, <1>6, <1>7, OffsetsMembers
<1> QED
  BY <1>5, <1>8 DEF r

\* Removing a pointer may leave its target without offsets.
LEMMA OffsetsRemoved ==
    ASSUME kind = "OffsetsSet", NEW v, NEW s, IsOffsets(s), NEW p \in Pointer
    PROVE  /\ IsOffsets(removed(v, s, p))
           /\ offsetsListed(removed(v, s, p)) = offsetsListed(s) \ {p}
<1> DEFINE r == removed(v, s, p)
<1>1. CASE p.target \notin DOMAIN s
  <2>1. r = s
    BY <1>1 DEF removed, VectorKinds, IdKinds, SmallKinds
  <2> QED
    BY <1>1, <2>1, OffsetsMembers
<1>2. CASE p.target \in DOMAIN s
  <2>1. /\ DOMAIN r = DOMAIN s /\ r = [t \in DOMAIN r |-> r[t]]
        /\ \A t \in DOMAIN r : r[t] = IF t = p.target THEN unset(s[t], p.offset) ELSE s[t]
    BY <1>2 DEF removed, VectorKinds, IdKinds, SmallKinds, IsOffsets
  <2>2. p.offset \in Nat
    BY UnknownFacts DEF Pointer
  <2>3. /\ IsBitvector(unset(s[p.target], p.offset))
        /\ Numbers(unset(s[p.target], p.offset)) = Numbers(s[p.target]) \ {p.offset}
    BY <1>2, <2>2, UnsetNumbers DEF IsOffsets
  <2> HIDE DEF r
  <2>4. IsOffsets(r)
    BY <2>1, <2>3 DEF IsOffsets
  <2>5. \A q \in Pointer : q.target = p.target /\ q.offset = p.offset <=> q = p
    BY DEF Pointer
  <2>6. \A q \in Pointer : q \in offsetsListed(r) <=> q \in offsetsListed(s) /\ q # p
    <3> SUFFICES ASSUME NEW q \in Pointer
                 PROVE  q \in offsetsListed(r) <=> q \in offsetsListed(s) /\ q # p
      OBVIOUS
    <3>1. q \in offsetsListed(r) <=> q.target \in DOMAIN r /\ q.offset \in Numbers(r[q.target])
      BY <2>4, OffsetsMembers
    <3>2. q \in offsetsListed(s) <=> q.target \in DOMAIN s /\ q.offset \in Numbers(s[q.target])
      BY OffsetsMembers
    <3> QED
      BY <1>2, <2>1, <2>3, <2>5, <3>1, <3>2
  <2>7. offsetsListed(r) = offsetsListed(s) \ {p}
    BY <2>4, <2>6, OffsetsMembers
  <2> QED
    BY <2>4, <2>7 DEF r
<1> QED
  BY <1>1, <1>2

\* Removing a target removes its pointers.
LEMMA OffsetsRemovedAny ==
    ASSUME kind = "OffsetsSet", NEW v, NEW s, IsOffsets(s), NEW t
    PROVE  /\ IsOffsets(removedAny(v, s, t))
           /\ offsetsListed(removedAny(v, s, t)) = {q \in offsetsListed(s) : q.target # t}
<1> DEFINE r == removedAny(v, s, t)
<1>1. /\ DOMAIN r = DOMAIN s \ {t} /\ r = [u \in DOMAIN r |-> r[u]]
      /\ \A u \in DOMAIN r : r[u] = s[u]
  BY DEF removedAny
<1> HIDE DEF r
<1>2. IsOffsets(r)
  BY <1>1 DEF IsOffsets
<1>3. offsetsListed(r) = {q \in offsetsListed(s) : q.target # t}
  BY <1>1 DEF offsetsListed
<1> QED
  BY <1>2, <1>3 DEF r

\* The union adds the pointers of the other set and answers whether one was new.
LEMMA OffsetsUnited ==
    ASSUME NEW s, IsOffsets(s), NEW r, IsOffsets(r)
    PROVE  /\ IsOffsets(offsetsUnited(s, r))
           /\ offsetsListed(offsetsUnited(s, r)) = offsetsListed(s) \cup offsetsListed(r)
           /\ (\E t \in DOMAIN r : grows(offsetsOf(s, t), r[t])) <=>
                 ~ offsetsListed(r) \subseteq offsetsListed(s)
<1> DEFINE new == offsetsUnited(s, r)
<1>1. /\ DOMAIN new = DOMAIN s \cup DOMAIN r /\ new = [t \in DOMAIN new |-> new[t]]
      /\ \A t \in DOMAIN new : new[t] = setAll(offsetsOf(s, t), offsetsOf(r, t))
  BY DEF offsetsUnited
<1>2. ASSUME NEW t
      PROVE  /\ IsBitvector(setAll(offsetsOf(s, t), offsetsOf(r, t)))
             /\ Numbers(setAll(offsetsOf(s, t), offsetsOf(r, t))) =
                   Numbers(offsetsOf(s, t)) \cup Numbers(offsetsOf(r, t))
  <2>1. IsBitvector(offsetsOf(s, t)) /\ IsBitvector(offsetsOf(r, t))
    BY OffsetsMembers
  <2> QED
    BY <2>1, SetAllNumbers
<1> HIDE DEF new
<1>3. IsOffsets(new)
  <2>1. \A t \in DOMAIN new : IsBitvector(new[t]) /\ Numbers(new[t]) \subseteq 0 .. UNKNOWN
    BY <1>1, <1>2, OffsetsMembers
  <2> QED
    BY <1>1, <2>1 DEF IsOffsets
<1>4. ASSUME NEW q \in Pointer
      PROVE  q \in offsetsListed(new) <=> q \in offsetsListed(s) \/ q \in offsetsListed(r)
  <2> DEFINE t == q.target
  <2>1. q \in offsetsListed(s) <=> q.offset \in Numbers(offsetsOf(s, t))
    BY OffsetsMembers
  <2>2. q \in offsetsListed(r) <=> q.offset \in Numbers(offsetsOf(r, t))
    BY OffsetsMembers
  <2>3. q \in offsetsListed(new) <=> t \in DOMAIN new /\ q.offset \in Numbers(new[t])
    BY <1>3, OffsetsMembers
  <2>4. t \notin DOMAIN new => offsetsOf(s, t) = NoBits /\ offsetsOf(r, t) = NoBits
    BY <1>1 DEF offsetsOf
  <2> QED
    BY <1>1, <1>2, <2>1, <2>2, <2>3, <2>4, NoBitsEmpty
<1>5. offsetsListed(new) = offsetsListed(s) \cup offsetsListed(r)
  <2>1. offsetsListed(new) \subseteq Pointer /\ offsetsListed(s) \subseteq Pointer
        /\ offsetsListed(r) \subseteq Pointer
    BY <1>3, OffsetsMembers
  <2> QED
    BY <1>4, <2>1
<1>6. \A t \in DOMAIN r : grows(offsetsOf(s, t), r[t]) <=> ~ Numbers(r[t]) \subseteq Numbers(offsetsOf(s, t))
  <2> SUFFICES ASSUME NEW t \in DOMAIN r
               PROVE  grows(offsetsOf(s, t), r[t]) <=> ~ Numbers(r[t]) \subseteq Numbers(offsetsOf(s, t))
    OBVIOUS
  <2>1. IsBitvector(offsetsOf(s, t)) /\ IsBitvector(r[t])
    BY OffsetsMembers DEF IsOffsets
  <2> QED
    BY <2>1, GrowsNumbers
<1>7. ASSUME NEW t \in DOMAIN r, ~ Numbers(r[t]) \subseteq Numbers(offsetsOf(s, t))
      PROVE  ~ offsetsListed(r) \subseteq offsetsListed(s)
  <2>1. PICK o \in Numbers(r[t]) : o \notin Numbers(offsetsOf(s, t))
    BY <1>7
  <2> DEFINE q == [target |-> t, offset |-> o]
  <2>2. q \in Pointer /\ q.target = t /\ q.offset = o
    BY DEF Pointer, IsOffsets
  <2>3. q \in offsetsListed(r)
    BY <2>1, <2>2, OffsetsMembers
  <2>4. q \notin offsetsListed(s)
    BY <2>1, <2>2, OffsetsMembers
  <2> QED
    BY <2>3, <2>4
<1>8. ASSUME ~ offsetsListed(r) \subseteq offsetsListed(s)
      PROVE  \E t \in DOMAIN r : ~ Numbers(r[t]) \subseteq Numbers(offsetsOf(s, t))
  <2>1. PICK q \in Pointer : q \in offsetsListed(r) /\ q \notin offsetsListed(s)
    BY <1>8, OffsetsMembers
  <2>2. q.target \in DOMAIN r /\ q.offset \in Numbers(r[q.target])
    BY <2>1, OffsetsMembers
  <2>3. q.offset \notin Numbers(offsetsOf(s, q.target))
    BY <2>1, OffsetsMembers
  <2> QED
    BY <2>2, <2>3
<1> QED
  BY <1>3, <1>5, <1>6, <1>7, <1>8 DEF new

\* Removing a pointer, inside the vector or outside.
LEMMA VectorRemoved ==
    ASSUME kind \in VectorKinds, NEW v, IsNumbering(v), NEW s, IsVector(v, s),
           NEW p \in Pointer, isOffsetValid(p) => Has(v, Key(p))
    PROVE  /\ IsVector(v, removed(v, s, p))
           /\ VectorListing(v, removed(v, s, p)) = VectorListing(v, s) \ {p}
<1>1. CASE isOffsetValid(p)
  <2>1. removed(v, s, p) = [s EXCEPT !.pointers = unset(@, Bit(v, p))]
    BY <1>1 DEF removed, VectorKinds, IdKinds, SmallKinds
  <2> QED
    BY <1>1, <2>1, VectorUnset
<1>2. CASE ~ isOffsetValid(p)
  <2> DEFINE R == s.rest \ {p}
  <2>1. removed(v, s, p) = [s EXCEPT !.rest = R]
    BY <1>2 DEF removed, VectorKinds, IdKinds, SmallKinds
  <2>2. R \in SUBSET {q \in Pointer : ~ isOffsetValid(q)} /\ IsFiniteSet(R)
    BY FS_Subset DEF IsVector
  <2>3. (VectorListing(v, s) \ s.rest) \cup R = VectorListing(v, s) \ {p}
    <3>1. p \in VectorListing(v, s) => p \in s.rest
      BY <1>2, VectorMembers DEF VectorContains
    <3>2. s.rest \subseteq VectorListing(v, s)
      BY DEF VectorListing
    <3> QED
      BY <3>1, <3>2
  <2> HIDE DEF R
  <2>4. LET new == [s EXCEPT !.rest = R]
        IN  IsVector(v, new) /\ VectorListing(v, new) = (VectorListing(v, s) \ s.rest) \cup R
    BY <2>2, VectorRest
  <2> QED
    BY <2>1, <2>3, <2>4
<1> QED
  BY <1>1, <1>2

-----------------------------------------------------------------------------
(* Sets of the kind SeparateOffsets.                                         *)

IsSeparate(v, s) ==
    /\ s = [nodes |-> s.nodes, offsets |-> s.offsets]
    /\ IsBitvector(s.nodes) /\ Numbers(s.nodes) \subseteq DOMAIN v
    /\ IsBitvector(s.offsets) /\ Numbers(s.offsets) \subseteq 0 .. UNKNOWN
    /\ Numbers(s.nodes) = {} <=> Numbers(s.offsets) = {}

\* What such a set answers for.
Allows(v, s, p) ==
    /\ Has(v, p.target) /\ getID(v, p.target) \in Numbers(s.nodes)
    /\ p.offset \in Numbers(s.offsets) \/ UNKNOWN \in Numbers(s.offsets)

\* The questions in terms of the numbers of the two vectors.
LEMMA SeparateQuestions ==
    ASSUME kind = "SeparateOffsets", IsNumbering(ids), NEW s, IsSeparate(ids, s), NEW p \in Pointer
    PROVE  /\ mayPointTo(s, p) <=> Allows(ids, s, p)
           /\ pointsToTarget(s, p.target) <=>
                 Has(ids, p.target) /\ getID(ids, p.target) \in Numbers(s.nodes)
           /\ get(s.offsets, UNKNOWN) <=> UNKNOWN \in Numbers(s.offsets)
           /\ get(s.offsets, p.offset) <=> p.offset \in Numbers(s.offsets)
<1>1. p.offset \in Nat /\ UNKNOWN \in Nat
  BY UnknownFacts DEF Pointer
<1>2. Has(ids, p.target) => getID(ids, p.target) \in Nat
  BY GetID DEF IsNumbering
<1>3. Has(ids, p.target) =>
         (get(s.nodes, getID(ids, p.target)) <=> getID(ids, p.target) \in Numbers(s.nodes))
  BY <1>2, GetNumbers DEF IsSeparate
<1>4. /\ get(s.offsets, UNKNOWN) <=> UNKNOWN \in Numbers(s.offsets)
      /\ get(s.offsets, p.offset) <=> p.offset \in Numbers(s.offsets)
  BY <1>1, GetNumbers DEF IsSeparate
<1>5. pointsToTarget(s, p.target) <=>
         Has(ids, p.target) /\ get(s.nodes, getID(ids, p.target))
  BY DEF pointsToTarget, IsNumbered, Has, VectorKinds, IdKinds, SmallKinds
<1>6. /\ pointsTo(s, p) <=>
            /\ Has(ids, p.target) /\ get(s.nodes, getID(ids, p.target))
            /\ get(s.offsets, p.offset)
      /\ pointsTo(s, Unknown(p.target)) <=>
            /\ Has(ids, p.target) /\ get(s.nodes, getID(ids, p.target))
            /\ get(s.offsets, UNKNOWN)
  BY DEF pointsTo, IsNumbered, Has, Unknown, VectorKinds, IdKinds, SmallKinds
<1> QED
  BY <1>3, <1>4, <1>5, <1>6 DEF mayPointTo, Allows

\* Numbers that are added for other targets change no set.
LEMMA SeparateExtends ==
    ASSUME kind = "SeparateOffsets", NEW v, NEW w, Extends(v, w), NEW s, IsSeparate(v, s)
    PROVE  /\ IsSeparate(w, s)
           /\ \A t : Has(v, t) => Has(w, t) /\ getID(w, t) = getID(v, t)
           /\ \A p : Allows(w, s, p) <=> Allows(v, s, p)
<1>1. /\ IsNumbering(v) /\ IsNumbering(w) /\ DOMAIN v \subseteq DOMAIN w
      /\ \A n \in DOMAIN v : w[n] = v[n]
  BY DEF Extends, IsNumbering
<1>2. IsSeparate(w, s)
  BY <1>1 DEF IsSeparate
<1>3. ASSUME NEW t, Has(v, t) PROVE Has(w, t) /\ getID(w, t) = getID(v, t)
  <2>1. getID(v, t) \in DOMAIN v /\ v[getID(v, t)] = t
    BY <1>1, <1>3, GetID
  <2> QED
    BY <1>1, <2>1, Injective
<1>4. ASSUME NEW t, Has(w, t), getID(w, t) \in DOMAIN v PROVE Has(v, t)
  BY <1>1, <1>4, GetID DEF Has
<1>5. \A p : Allows(w, s, p) <=> Allows(v, s, p)
  BY <1>3, <1>4 DEF Allows, IsSeparate
<1> QED
  BY <1>2, <1>3, <1>5

\* An addition answers for its pointer, forgets none, and may change nothing.
LEMMA SeparateAdded ==
    ASSUME kind = "SeparateOffsets", NEW v, IsNumbering(v), NEW s, IsSeparate(v, s),
           NEW p \in Pointer, Has(v, p.target)
    PROVE  /\ IsSeparate(v, separateAdded(v, s, p))
           /\ Allows(v, separateAdded(v, s, p), p)
           /\ \A q : Allows(v, s, q) => Allows(v, separateAdded(v, s, p), q)
           /\ /\ getID(v, p.target) \in Numbers(s.nodes)
              /\ UNKNOWN \in Numbers(s.offsets) \/ p.offset \in Numbers(s.offsets)
              => \A q \in Pointer : Allows(v, separateAdded(v, s, p), q) => Allows(v, s, q)
<1> DEFINE new == separateAdded(v, s, p)
           i == getID(v, p.target)
<1>1. /\ p.offset \in 0 .. UNKNOWN /\ UNKNOWN \in Nat
      /\ i \in DOMAIN v /\ i \in Nat
  BY UnknownFacts, GetID DEF Pointer, IsNumbering
<1>2. new.nodes = set(s.nodes, i) /\ new = [nodes |-> new.nodes, offsets |-> new.offsets]
  BY DEF separateAdded
<1>3. IsBitvector(new.nodes) /\ Numbers(new.nodes) = Numbers(s.nodes) \cup {i}
  BY <1>1, <1>2, SetNumbers DEF IsSeparate
<1>4. /\ IsBitvector(new.offsets)
      /\ Numbers(new.offsets) = IF UNKNOWN \in Numbers(s.offsets) THEN Numbers(s.offsets)
                                ELSE IF p.offset = UNKNOWN THEN {UNKNOWN}
                                ELSE Numbers(s.offsets) \cup {p.offset}
  <2>1. get(s.offsets, UNKNOWN) <=> UNKNOWN \in Numbers(s.offsets)
    BY <1>1, GetNumbers DEF IsSeparate
  <2>2. CASE UNKNOWN \in Numbers(s.offsets)
    BY <2>1, <2>2 DEF separateAdded, IsSeparate
  <2>3. CASE UNKNOWN \notin Numbers(s.offsets) /\ p.offset = UNKNOWN
    <3>1. IsBitvector(set(NoBits, UNKNOWN)) /\ Numbers(set(NoBits, UNKNOWN)) = {} \cup {UNKNOWN}
      BY <1>1, SetNumbers, NoBitsEmpty
    <3> QED
      BY <2>1, <2>3, <3>1 DEF separateAdded
  <2>4. CASE UNKNOWN \notin Numbers(s.offsets) /\ p.offset # UNKNOWN
    <3>1. /\ IsBitvector(set(s.offsets, p.offset))
          /\ Numbers(set(s.offsets, p.offset)) = Numbers(s.offsets) \cup {p.offset}
      BY <1>1, SetNumbers DEF IsSeparate
    <3> QED
      BY <2>1, <2>4, <3>1 DEF separateAdded
  <2> QED
    BY <2>2, <2>3, <2>4
<1> HIDE DEF new
<1>5. IsSeparate(v, new)
  BY <1>1, <1>2, <1>3, <1>4 DEF IsSeparate
<1>6. Allows(v, new, p)
  BY <1>3, <1>4 DEF Allows
<1>7. \A q : Allows(v, s, q) => Allows(v, new, q)
  BY <1>3, <1>4 DEF Allows
<1>8. ASSUME i \in Numbers(s.nodes), UNKNOWN \in Numbers(s.offsets) \/ p.offset \in Numbers(s.offsets)
      PROVE  \A q \in Pointer : Allows(v, new, q) => Allows(v, s, q)
  <2>1. Numbers(new.nodes) = Numbers(s.nodes)
    BY <1>3, <1>8
  <2>2. Numbers(new.offsets) = Numbers(s.offsets)
    BY <1>4, <1>8
  <2> QED
    BY <2>1, <2>2 DEF Allows
<1> QED
  BY <1>5, <1>6, <1>7, <1>8 DEF new

\* A union forgets no pointer of either set, and answers when it adds one.
LEMMA SeparateUnited ==
    ASSUME kind = "SeparateOffsets", NEW v, NEW s, IsSeparate(v, s), NEW r, IsSeparate(v, r)
    PROVE  /\ IsSeparate(v, united(s, r))
           /\ \A q : Allows(v, s, q) \/ Allows(v, r, q) => Allows(v, united(s, r), q)
           /\ ~ uniteAnswer(s, r) => \A q : Allows(v, united(s, r), q) => Allows(v, s, q)
<1> DEFINE new == united(s, r)
<1>1. /\ new.nodes = setAll(s.nodes, r.nodes) /\ new.offsets = setAll(s.offsets, r.offsets)
      /\ new = [nodes |-> new.nodes, offsets |-> new.offsets]
  BY DEF united
<1>2. uniteAnswer(s, r) <=> grows(s.nodes, r.nodes) \/ grows(s.offsets, r.offsets)
  BY DEF uniteAnswer
<1>3. /\ IsBitvector(new.nodes) /\ Numbers(new.nodes) = Numbers(s.nodes) \cup Numbers(r.nodes)
      /\ IsBitvector(new.offsets)
      /\ Numbers(new.offsets) = Numbers(s.offsets) \cup Numbers(r.offsets)
  BY <1>1, SetAllNumbers DEF IsSeparate
<1>4. /\ grows(s.nodes, r.nodes) <=> ~ Numbers(r.nodes) \subseteq Numbers(s.nodes)
      /\ grows(s.offsets, r.offsets) <=> ~ Numbers(r.offsets) \subseteq Numbers(s.offsets)
  BY GrowsNumbers DEF IsSeparate
<1> HIDE DEF new
<1>5. IsSeparate(v, new)
  BY <1>1, <1>3 DEF IsSeparate
<1>6. \A q : Allows(v, s, q) \/ Allows(v, r, q) => Allows(v, new, q)
  BY <1>3 DEF Allows
<1>7. ASSUME ~ uniteAnswer(s, r) PROVE \A q : Allows(v, new, q) => Allows(v, s, q)
  <2>1. Numbers(new.nodes) = Numbers(s.nodes) /\ Numbers(new.offsets) = Numbers(s.offsets)
    BY <1>2, <1>3, <1>4, <1>7
  <2> QED
    BY <2>1 DEF Allows
<1> QED
  BY <1>5, <1>6, <1>7 DEF new

-----------------------------------------------------------------------------
(* The invariant.                                                            *)

IsSet(v, s) ==
    /\ kind \in VectorKinds => IsVector(v, s)
    /\ kind = "OffsetsSet" => IsOffsets(s)
    /\ kind = "SeparateOffsets" => IsSeparate(v, s)

IInv ==
    /\ kind \in Kinds
    /\ IsNumbering(ids)
    /\ IsSet(ids, this)
    /\ IsSet(ids, other)

\* Listed for other numbers than those of the state.
Listing(v, s) ==
    CASE kind = "OffsetsSet" -> offsetsListed(s)
      [] kind = "SeparateOffsets" ->
            {[target |-> v[n], offset |-> o] : n \in Numbers(s.nodes), o \in Numbers(s.offsets)}
      [] OTHER -> VectorListing(v, s)

\* A representation is of one sort only.
LEMMA KindCases ==
    ASSUME kind \in Kinds
    PROVE  \/ kind \in VectorKinds /\ kind \notin {"OffsetsSet", "SeparateOffsets"}
           \/ kind = "OffsetsSet" /\ kind \notin VectorKinds
           \/ kind = "SeparateOffsets" /\ kind \notin VectorKinds
BY PointersAssumption DEF VectorKinds, IdKinds, SmallKinds

\* Listing is Listed at the numbers of the state.
LEMMA ListedIsListing == \A s : Listed(s) = Listing(ids, s)
<1>1. \A n : PointerAt(n) = At(ids, n)
  BY DEF PointerAt, At
<1>2. \A s : vectorListed(s) = VectorListing(ids, s)
  BY <1>1 DEF vectorListed, VectorListing
<1> QED
  BY <1>2 DEF Listed, Listing, productListed

\* Listed after a step is Listing at the new numbers.
LEMMA ListedNext ==
    ASSUME kind' = kind
    PROVE  Listed(this)' = Listing(ids', this') /\ Listed(other)' = Listing(ids', other')
<1>1. \A n : (PointerAt(n))' = At(ids', n)
  BY DEF PointerAt, At
<1>2. vectorListed(this)' = VectorListing(ids', this') /\ vectorListed(other)' = VectorListing(ids', other')
  BY <1>1 DEF vectorListed, VectorListing
<1> QED
  BY <1>2 DEF Listed, Listing, productListed, offsetsListed

\* The numbering after a step.
LEMMA NumberingNext ==
    ASSUME kind' = kind, IsNumbering(ids')
    PROVE  IsNumbering(ids)'
BY DEF IsNumbering, Numberable, Pointer, isOffsetValid, multiplier

\* The sets after a step.
LEMMA SetNext ==
    ASSUME kind' = kind, IsSet(ids', this'), IsSet(ids', other')
    PROVE  IsSet(ids, this)' /\ IsSet(ids, other)'
<1>1. \A p : isOffsetValid(p)' <=> isOffsetValid(p)
  BY DEF isOffsetValid, multiplier
<1>2. Positions(ids)' = Positions(ids')
  BY DEF Positions
<1> QED
  BY <1>1, <1>2 DEF IsSet, IsVector, IsOffsets, IsSeparate, Pointer

\* Whether it numbers a pointer or not, a question or an addition takes back no number.
LEMMA NamedExtends ==
    ASSUME kind \in Kinds, NEW v, IsNumbering(v), NEW p \in Pointer
    PROVE  /\ Extends(v, Named(v, p))
           /\ kind \in VectorKinds /\ isOffsetValid(p) => Has(Named(v, p), Key(p))
           /\ kind = "SeparateOffsets" => Has(Named(v, p), p.target)
<1>0. kind = "SeparateOffsets" => kind \notin IdKinds /\ Key(p) = p.target
  BY DEF IdKinds, Key
<1>1. CASE (kind \in VectorKinds /\ isOffsetValid(p)) \/ kind = "SeparateOffsets"
  <2>1. Key(p) \in Numberable
    BY <1>0, <1>1 DEF Key, Numberable, Pointer
  <2>2. Named(v, p) = Numbered(v, Key(p))
    BY <1>1 DEF Named
  <2> QED
    BY <1>0, <2>1, <2>2, NumberedExtends
<1>2. CASE ~ ((kind \in VectorKinds /\ isOffsetValid(p)) \/ kind = "SeparateOffsets")
  <2>1. Named(v, p) = v
    BY <1>2 DEF Named
  <2>2. Len(v) \in Nat
    BY DEF IsNumbering
  <2> QED
    BY <1>2, <2>1, <2>2 DEF Extends
<1> QED
  BY <1>1, <1>2

\* Numbers that are kept twice are kept.
LEMMA ExtendsTransitive ==
    ASSUME NEW u, NEW v, NEW w, Extends(u, v), Extends(v, w)
    PROVE  Extends(u, w) /\ \A x : Has(v, x) => Has(w, x)
<1>1. /\ IsNumbering(u) /\ IsNumbering(v) /\ IsNumbering(w)
      /\ Len(u) \in Nat /\ Len(v) \in Nat /\ Len(w) \in Nat
      /\ DOMAIN u = 1 .. Len(u) /\ DOMAIN v = 1 .. Len(v) /\ DOMAIN w = 1 .. Len(w)
      /\ Len(u) <= Len(v) /\ Len(v) <= Len(w)
      /\ \A n \in DOMAIN u : v[n] = u[n]
      /\ \A n \in DOMAIN v : w[n] = v[n]
  BY DEF Extends, IsNumbering
<1>2. DOMAIN u \subseteq DOMAIN v /\ DOMAIN v \subseteq DOMAIN w /\ Len(u) <= Len(w)
  BY <1>1
<1>3. Extends(u, w)
  BY <1>1, <1>2 DEF Extends
<1>4. \A x : Has(v, x) => Has(w, x)
  BY <1>1, <1>2 DEF Has
<1> QED
  BY <1>3, <1>4

\* Numbers that are added for other pointers change no set.
LEMMA SetExtends ==
    ASSUME kind \in Kinds, NEW v, NEW w, Extends(v, w), NEW s, IsSet(v, s)
    PROVE  IsSet(w, s) /\ (Exact => Listing(w, s) = Listing(v, s))
<1>1. CASE kind \in VectorKinds
  BY <1>1, KindCases, VectorExtends DEF IsSet, Listing
<1>2. CASE kind = "OffsetsSet"
  BY <1>2, KindCases DEF IsSet, Listing
<1>3. CASE kind = "SeparateOffsets"
  BY <1>3, KindCases, SeparateExtends DEF IsSet, Exact
<1> QED
  BY <1>1, <1>2, <1>3, KindCases

\* The question and the iterator agree.
LEMMA PointsToListing ==
    ASSUME kind \in Kinds, Exact, IsNumbering(ids), NEW s, IsSet(ids, s), NEW p \in Pointer
    PROVE  pointsTo(s, p) <=> p \in Listing(ids, s)
<1>1. CASE kind \in VectorKinds
  BY <1>1, KindCases, VectorPointsTo DEF IsSet, Listing
<1>2. CASE kind = "OffsetsSet"
  <2>1. p.offset \in Nat
    BY UnknownFacts DEF Pointer
  <2>2. p.target \in DOMAIN s => (get(s[p.target], p.offset) <=> p.offset \in Numbers(s[p.target]))
    BY <1>2, <2>1, GetNumbers DEF IsSet, IsOffsets
  <2>3. p \in offsetsListed(s) <=> p.target \in DOMAIN s /\ p.offset \in Numbers(s[p.target])
    BY <1>2, OffsetsMembers DEF IsSet
  <2>4. pointsTo(s, p) <=> p.target \in DOMAIN s /\ get(s[p.target], p.offset)
    BY <1>2 DEF pointsTo, VectorKinds, IdKinds, SmallKinds
  <2>5. Listing(ids, s) = offsetsListed(s)
    BY <1>2 DEF Listing
  <2> QED
    BY <2>2, <2>3, <2>4, <2>5
<1> QED
  BY <1>1, <1>2, KindCases DEF Exact

\* What an addition does to the numbers and to the set.
LEMMA AddNumbers ==
    ASSUME IInv, NEW p \in Pointers, Add(p)
    PROVE  /\ kind' = kind /\ other' = other
           /\ Extends(ids, ids')
           /\ this' = added(ids', this, p) /\ (changed' <=> addAnswer(this, p))
           /\ kind \in VectorKinds =>
                 /\ Has(ids', Key(Unknown(p.target)))
                 /\ ~ pointsTo(this, Unknown(p.target)) /\ isOffsetValid(p) => Has(ids', Key(p))
           /\ kind = "SeparateOffsets" => Has(ids', p.target)
<1> DEFINE u == Unknown(p.target)
           asked == IF kind \in VectorKinds THEN Named(ids, u) ELSE ids
           known == kind \in VectorKinds /\ pointsTo(this, u)
<1>1. kind' = kind /\ other' = other /\ ids' = (IF known THEN asked ELSE Named(asked, p))
      /\ this' = added(ids', this, p) /\ (changed' <=> addAnswer(this, p))
  BY DEF Add
<1>2. p \in Pointer /\ u \in Pointer /\ isOffsetValid(u) /\ kind \in Kinds /\ IsNumbering(ids)
  BY UnknownFacts, UnknownOf DEF IInv
<1>3. Len(ids) \in Nat /\ Extends(ids, ids)
  BY <1>2 DEF IsNumbering, Extends
<1>4. Extends(ids, asked) /\ (kind \in VectorKinds => Has(asked, Key(u)))
  BY <1>2, <1>3, NamedExtends
<1>5. CASE known
  BY <1>1, <1>4, <1>5, KindCases, <1>2
<1>6. CASE ~ known
  <2>1. IsNumbering(asked) /\ ids' = Named(asked, p)
    BY <1>1, <1>4, <1>6 DEF Extends
  <2> HIDE DEF asked
  <2>2. /\ Extends(asked, ids')
        /\ kind \in VectorKinds /\ isOffsetValid(p) => Has(ids', Key(p))
        /\ kind = "SeparateOffsets" => Has(ids', p.target)
    BY <1>2, <2>1, NamedExtends
  <2> QED
    BY <1>1, <1>4, <2>2, ExtendsTransitive
<1> QED
  BY <1>5, <1>6

\* What an addition does to the pointers that are visited.
LEMMA AddStep ==
    ASSUME IInv, NEW p \in Pointers, Add(p)
    PROVE  /\ IsSet(ids', this')
           /\ Exact => Listing(ids', this') = Simple!added(Listing(ids, this), p)
<1>1. p \in Pointer /\ kind \in Kinds /\ IsNumbering(ids) /\ IsSet(ids, this)
  BY UnknownFacts DEF IInv
<1>2. Extends(ids, ids') /\ IsNumbering(ids') /\ this' = added(ids', this, p)
  BY AddNumbers DEF Extends
<1>3. CASE kind \in VectorKinds
  BY <1>1, <1>2, <1>3, AddNumbers, KindCases, VectorAdded DEF IsSet, Listing
<1>4. CASE kind = "OffsetsSet"
  <2>1. this' = offsetsAdded(this, p)
    BY <1>2, <1>4 DEF added
  <2> QED
    BY <1>1, <1>4, <2>1, KindCases, OffsetsAdded DEF IsSet, Listing
<1>5. CASE kind = "SeparateOffsets"
  <2>1. this' = separateAdded(ids', this, p)
    BY <1>2, <1>5 DEF added
  <2>2. Has(ids', p.target) /\ IsSeparate(ids', this)
    BY <1>1, <1>2, <1>5, AddNumbers, SeparateExtends DEF IsSet
  <2> QED
    BY <1>1, <1>2, <1>5, <2>1, <2>2, KindCases, SeparateAdded DEF IsSet, Exact
<1> QED
  BY <1>1, <1>3, <1>4, <1>5, KindCases

\* The answer of an addition is that it has changed the set.
LEMMA AddAnswer ==
    ASSUME IInv, Exact, NEW p \in Pointers, Add(p)
    PROVE  changed' <=> Simple!added(Listing(ids, this), p) # Listing(ids, this)
<1> DEFINE L == Listing(ids, this)
           u == Unknown(p.target)
<1>1. p \in Pointer /\ u \in Pointer /\ kind \in Kinds /\ IsNumbering(ids) /\ IsSet(ids, this)
  BY UnknownFacts, UnknownOf DEF IInv
<1>2. (pointsTo(this, u) <=> u \in L) /\ (pointsTo(this, p) <=> p \in L)
  BY <1>1, PointsToListing
<1>3. changed' <=> u \notin L /\ p \notin L
  BY <1>2, AddNumbers DEF addAnswer, Exact
<1>4. u = Simple!Unknown(p.target) /\ (p.offset = UNKNOWN <=> p = u)
  BY <1>1, UnknownOf DEF Unknown, Simple!Unknown
<1> HIDE DEF L, u
<1>5. Simple!added(L, p) # L <=> u \notin L /\ p \notin L
  BY <1>4 DEF Simple!added, Simple!pointersOther
<1> QED
  BY <1>3, <1>5 DEF L

\* What a union does to them, and its answer.
LEMMA AddAllStep ==
    ASSUME IInv, AddAll
    PROVE  /\ kind' = kind /\ other' = other /\ ids' = ids /\ IsSet(ids, this')
           /\ Exact => /\ Listing(ids, this') = Listing(ids, this) \cup Listing(ids, other)
                       /\ changed' <=> Listing(ids, this') # Listing(ids, this)
<1>1. /\ kind \in Kinds /\ IsNumbering(ids) /\ IsSet(ids, this) /\ IsSet(ids, other)
      /\ kind' = kind /\ other' = other /\ ids' = ids
      /\ this' = united(this, other) /\ (changed' <=> uniteAnswer(this, other))
  BY DEF IInv, AddAll
<1>2. CASE kind \in VectorKinds
  <2>1. /\ IsVector(ids, this')
        /\ VectorListing(ids, this') = VectorListing(ids, this) \cup VectorListing(ids, other)
    BY <1>1, <1>2, VectorUnited DEF IsSet
  <2>2. changed' <=> ~ VectorListing(ids, other) \subseteq VectorListing(ids, this)
    BY <1>1, <1>2, VectorUniteAnswer DEF IsSet
  <2>3. \A s : Listing(ids, s) = VectorListing(ids, s)
    BY <1>1, <1>2, KindCases DEF Listing
  <2> QED
    BY <1>1, <1>2, <2>1, <2>2, <2>3, KindCases DEF IsSet
<1>3. CASE kind = "OffsetsSet"
  <2>1. this' = offsetsUnited(this, other)
    BY <1>1, <1>3 DEF united
  <2>2. uniteAnswer(this, other) <=> \E t \in DOMAIN other : grows(offsetsOf(this, t), other[t])
    BY <1>3 DEF uniteAnswer
  <2>3. /\ IsOffsets(this')
        /\ offsetsListed(this') = offsetsListed(this) \cup offsetsListed(other)
        /\ changed' <=> ~ offsetsListed(other) \subseteq offsetsListed(this)
    BY <1>1, <1>3, <2>1, <2>2, OffsetsUnited DEF IsSet
  <2>4. \A s : Listing(ids, s) = offsetsListed(s)
    BY <1>3 DEF Listing
  <2> QED
    BY <1>1, <1>3, <2>3, <2>4, KindCases DEF IsSet
<1>4. CASE kind = "SeparateOffsets"
  BY <1>1, <1>4, KindCases, SeparateUnited DEF IsSet, Exact
<1> QED
  BY <1>1, <1>2, <1>3, <1>4, KindCases

\* What the removal of a pointer does to them.
LEMMA RemoveStep ==
    ASSUME IInv, NEW p \in Pointers, Remove(p)
    PROVE  /\ kind' = kind /\ other' = other /\ changed' = changed /\ Exact
           /\ Extends(ids, ids') /\ IsSet(ids', this')
           /\ Listing(ids', this') = Listing(ids, this) \ {p}
<1>1. p \in Pointer /\ kind \in Kinds /\ IsNumbering(ids) /\ IsSet(ids, this)
  BY UnknownFacts DEF IInv
<1>2. /\ kind' = kind /\ other' = other /\ changed' = changed /\ Exact
      /\ ids' = Named(ids, p) /\ this' = removed(ids', this, p)
  BY DEF Remove, Exact
<1>3. Extends(ids, ids') /\ (kind \in VectorKinds /\ isOffsetValid(p) => Has(ids', Key(p)))
  BY <1>1, <1>2, NamedExtends
<1>4. IsNumbering(ids') /\ IsSet(ids', this) /\ Listing(ids', this) = Listing(ids, this)
  BY <1>1, <1>2, <1>3, SetExtends DEF Extends
<1>5. CASE kind \in VectorKinds
  <2>1. \A s : Listing(ids', s) = VectorListing(ids', s)
    BY <1>1, <1>5, KindCases DEF Listing
  <2>2. /\ IsVector(ids', this')
        /\ VectorListing(ids', this') = VectorListing(ids', this) \ {p}
    BY <1>1, <1>2, <1>3, <1>4, <1>5, VectorRemoved DEF IsSet
  <2> QED
    BY <1>1, <1>2, <1>3, <1>4, <1>5, <2>1, <2>2, KindCases DEF IsSet
<1>6. CASE kind = "OffsetsSet"
  <2>1. \A s : Listing(ids', s) = offsetsListed(s)
    BY <1>6 DEF Listing
  <2>2. IsOffsets(this') /\ offsetsListed(this') = offsetsListed(this) \ {p}
    BY <1>1, <1>2, <1>6, OffsetsRemoved DEF IsSet
  <2> QED
    BY <1>1, <1>2, <1>3, <1>4, <1>6, <2>1, <2>2, KindCases DEF IsSet
<1> QED
  BY <1>1, <1>2, <1>5, <1>6, KindCases DEF Exact

\* What the removal of a target does to them.
LEMMA RemoveAnyStep ==
    ASSUME IInv, NEW t \in Targets, RemoveAny(t)
    PROVE  /\ kind' = kind /\ other' = other /\ changed' = changed /\ Exact
           /\ Extends(ids, ids') /\ IsSet(ids', this')
           /\ Listing(ids', this') = {q \in Listing(ids, this) : q.target # t}
<1>1. kind \in Kinds /\ IsNumbering(ids) /\ IsSet(ids, this)
  BY DEF IInv
<1>2. /\ kind' = kind /\ other' = other /\ changed' = changed /\ Exact
      /\ ids' = (IF kind \in SmallKinds THEN Numbered(ids, t) ELSE ids)
      /\ this' = removedAny(ids', this, t)
  BY DEF RemoveAny, Exact
<1>3. Extends(ids, ids') /\ (kind \in SmallKinds => Has(ids', t))
  <2>1. CASE kind \in SmallKinds
    <3>1. t \in Numberable
      BY <2>1 DEF Numberable, IdKinds, SmallKinds
    <3> QED
      BY <1>1, <1>2, <2>1, <3>1, NumberedExtends
  <2>2. CASE kind \notin SmallKinds
    <3>1. Len(ids) \in Nat
      BY <1>1 DEF IsNumbering
    <3> QED
      BY <1>1, <1>2, <2>2, <3>1 DEF Extends
  <2> QED
    BY <2>1, <2>2
<1>4. IsNumbering(ids') /\ IsSet(ids', this) /\ Listing(ids', this) = Listing(ids, this)
  BY <1>1, <1>2, <1>3, SetExtends DEF Extends
<1>5. CASE kind \in VectorKinds
  <2>1. \A s : Listing(ids', s) = VectorListing(ids', s)
    BY <1>1, <1>5, KindCases DEF Listing
  <2>2. /\ IsVector(ids', this')
        /\ VectorListing(ids', this') = {q \in VectorListing(ids', this) : q.target # t}
    BY <1>1, <1>2, <1>3, <1>4, <1>5, VectorRemovedAny DEF IsSet
  <2> QED
    BY <1>1, <1>2, <1>3, <1>4, <1>5, <2>1, <2>2, KindCases DEF IsSet
<1>6. CASE kind = "OffsetsSet"
  <2>1. \A s : Listing(ids', s) = offsetsListed(s)
    BY <1>6 DEF Listing
  <2>2. IsOffsets(this') /\ offsetsListed(this') = {q \in offsetsListed(this) : q.target # t}
    BY <1>1, <1>2, <1>6, OffsetsRemovedAny DEF IsSet
  <2> QED
    BY <1>1, <1>2, <1>3, <1>4, <1>6, <2>1, <2>2, KindCases DEF IsSet
<1> QED
  BY <1>1, <1>2, <1>5, <1>6, KindCases DEF Exact

\* The cleared set is empty.
LEMMA NoPointersSet ==
    ASSUME kind \in Kinds, NEW v
    PROVE  IsSet(v, NoPointers) /\ Listing(v, NoPointers) = {}
<1>1. CASE kind \in VectorKinds
  <2>1. NoPointers = [pointers |-> NoBits, rest |-> {}]
    BY <1>1, KindCases DEF NoPointers
  <2>2. IsVector(v, NoPointers) /\ VectorListing(v, NoPointers) = {}
    BY <2>1, NoBitsEmpty, FS_EmptySet DEF IsVector, VectorListing
  <2> QED
    BY <1>1, <2>2, KindCases DEF IsSet, Listing
<1>2. CASE kind = "OffsetsSet"
  <2>1. NoPointers = NoBits
    BY <1>2 DEF NoPointers
  <2>2. IsOffsets(NoPointers) /\ offsetsListed(NoPointers) = {}
    BY <2>1 DEF IsOffsets, offsetsListed, NoBits
  <2> QED
    BY <1>2, <2>2, KindCases DEF IsSet, Listing
<1>3. CASE kind = "SeparateOffsets"
  <2>1. NoPointers = [nodes |-> NoBits, offsets |-> NoBits]
    BY <1>3 DEF NoPointers
  <2>2. IsSeparate(v, NoPointers)
    BY <2>1, NoBitsEmpty DEF IsSeparate
  <2>3. Listing(v, NoPointers) = {}
    BY <1>3, <2>1, NoBitsEmpty DEF Listing
  <2> QED
    BY <1>3, <2>2, <2>3, KindCases DEF IsSet
<1> QED
  BY <1>1, <1>2, <1>3, KindCases

-----------------------------------------------------------------------------
(* The theorems.                                                             *)

\* The invariant holds at the start.
LEMMA InitInvariant == Init => IInv
<1> SUFFICES ASSUME Init PROVE IInv
  OBVIOUS
<1>1. kind \in Kinds /\ ids = <<>> /\ this = NoPointers /\ other = NoPointers
  BY DEF Init
<1>2. IsNumbering(ids)
  BY <1>1 DEF IsNumbering
<1> QED
  BY <1>1, <1>2, NoPointersSet DEF IInv

\* Every operation and every question keeps it.
LEMMA NextInvariant == IInv /\ [Next]_vars => IInv'
<1> SUFFICES ASSUME IInv, Next \/ UNCHANGED vars PROVE IInv'
  OBVIOUS
<1>0. kind \in Kinds /\ IsNumbering(ids) /\ IsSet(ids, this) /\ IsSet(ids, other)
  BY DEF IInv
<1>1. ASSUME kind' = kind, IsNumbering(ids'), IsSet(ids', this'), IsSet(ids', other')
      PROVE  IInv'
  BY <1>0, <1>1, NumberingNext, SetNext DEF IInv
<1>2. ASSUME NEW p \in Pointers, Add(p) PROVE IInv'
  <2>1. kind' = kind /\ other' = other /\ Extends(ids, ids') /\ IsSet(ids', this')
    BY <1>2, AddNumbers, AddStep
  <2> QED
    BY <1>0, <1>1, <2>1, SetExtends DEF Extends
<1>3. ASSUME NEW p \in Pointers, Remove(p) PROVE IInv'
  <2>1. kind' = kind /\ other' = other /\ Extends(ids, ids') /\ IsSet(ids', this')
    BY <1>3, RemoveStep
  <2> QED
    BY <1>0, <1>1, <2>1, SetExtends DEF Extends
<1>4. ASSUME NEW p \in Pointers, Ask(p) PROVE IInv'
  <2>1. p \in Pointer /\ kind' = kind /\ this' = this /\ other' = other /\ ids' = Named(ids, p)
    BY <1>4, UnknownFacts DEF Ask
  <2>2. Extends(ids, ids')
    BY <1>0, <2>1, NamedExtends
  <2> QED
    BY <1>0, <1>1, <2>1, <2>2, SetExtends DEF Extends
<1>5. ASSUME NEW t \in Targets, RemoveAny(t) PROVE IInv'
  <2>1. kind' = kind /\ other' = other /\ Extends(ids, ids') /\ IsSet(ids', this')
    BY <1>5, RemoveAnyStep
  <2> QED
    BY <1>0, <1>1, <2>1, SetExtends DEF Extends
<1>6. CASE AddAll
  BY <1>0, <1>1, <1>6, AddAllStep
<1>7. CASE Clear
  BY <1>0, <1>1, <1>7, NoPointersSet DEF Clear
<1>8. CASE Swap
  BY <1>0, <1>1, <1>8 DEF Swap
<1>9. CASE UNCHANGED vars
  BY <1>0, <1>1, <1>9 DEF vars
<1> QED
  BY <1>2, <1>3, <1>4, <1>5, <1>6, <1>7, <1>8, <1>9 DEF Next

\* The numbers stay a numbering, and every bit of a set stands for a pointer.
THEOREM TypeCorrect == Spec => []IInv
  BY InitInvariant, NextInvariant, PTL DEF Spec

\* The sets start as empty simple sets.
LEMMA InitRefines == Init => (Exact => Simple!Init)
<1> SUFFICES ASSUME Init, Exact PROVE Simple!Init
  OBVIOUS
<1>1. kind \in Kinds /\ this = NoPointers /\ other = NoPointers /\ changed = FALSE
  BY DEF Init
<1> QED
  BY <1>1, NoPointersSet, ListedIsListing DEF Simple!Init

\* Every operation is the operation of the simple set, every question a stutter.
LEMMA NextRefines == IInv /\ [Next]_vars => (Exact => [Simple!Next]_(Simple!vars))
<1> SUFFICES ASSUME IInv, Next \/ UNCHANGED vars, Exact
             PROVE  Simple!Next \/ UNCHANGED Simple!vars
  OBVIOUS
<1> DEFINE L == Listing(ids, this)
           O == Listing(ids, other)
<1>0. /\ kind \in Kinds /\ IsNumbering(ids) /\ IsSet(ids, this) /\ IsSet(ids, other)
      /\ Listed(this) = L /\ Listed(other) = O
  BY ListedIsListing DEF IInv
<1> HIDE DEF L, O
<1>1. ASSUME kind' = kind
      PROVE  Listed(this)' = Listing(ids', this') /\ Listed(other)' = Listing(ids', other')
  BY <1>1, ListedNext
<1>2. ASSUME Extends(ids, ids') PROVE Listing(ids', this) = L /\ Listing(ids', other) = O
  BY <1>0, <1>2, SetExtends DEF L, O
<1>3. ASSUME NEW p \in Pointers, Add(p) PROVE Simple!Add(p)
  <2>1. /\ kind' = kind /\ other' = other /\ Extends(ids, ids')
        /\ Listing(ids', this') = Simple!added(L, p) /\ (changed' <=> Simple!added(L, p) # L)
    BY <1>3, AddNumbers, AddStep, AddAnswer DEF L
  <2>2. Listed(this)' = Simple!added(Listed(this), p) /\ Listed(other)' = Listed(other)
    BY <1>0, <1>1, <1>2, <2>1
  <2>3. changed' = (Listed(this)' # Listed(this))
    <3>1. changed' \in BOOLEAN
      BY <1>3 DEF Add, addAnswer
    <3> QED
      BY <1>0, <2>1, <2>2, <3>1
  <2> QED
    BY <2>2, <2>3 DEF Simple!Add
<1>4. ASSUME NEW p \in Pointers, Remove(p) PROVE Simple!Remove(p)
  <2>1. /\ kind' = kind /\ other' = other /\ changed' = changed /\ Extends(ids, ids')
        /\ Listing(ids', this') = L \ {p}
    BY <1>4, RemoveStep DEF L
  <2> QED
    BY <1>0, <1>1, <1>2, <2>1 DEF Simple!Remove
<1>5. ASSUME NEW p \in Pointers, Ask(p) PROVE UNCHANGED Simple!vars
  <2>1. /\ p \in Pointer /\ kind' = kind /\ this' = this /\ other' = other /\ changed' = changed
        /\ ids' = Named(ids, p)
    BY <1>5, UnknownFacts DEF Ask
  <2>2. Extends(ids, ids')
    BY <1>0, <2>1, NamedExtends
  <2> QED
    BY <1>0, <1>1, <1>2, <2>1, <2>2 DEF Simple!vars
<1>6. ASSUME NEW t \in Targets, RemoveAny(t) PROVE Simple!RemoveAny(t)
  <2>1. /\ kind' = kind /\ other' = other /\ changed' = changed /\ Extends(ids, ids')
        /\ Listing(ids', this') = {q \in L : q.target # t}
    BY <1>6, RemoveAnyStep DEF L
  <2> QED
    BY <1>0, <1>1, <1>2, <2>1 DEF Simple!RemoveAny, Simple!pointersOther
<1>7. ASSUME AddAll PROVE Simple!AddAll
  <2>1. /\ kind' = kind /\ other' = other /\ ids' = ids
        /\ Listing(ids, this') = L \cup O /\ (changed' <=> Listing(ids, this') # L)
    BY <1>7, AddAllStep DEF L, O
  <2>2. Listed(this)' = L \cup O /\ Listed(other)' = O
    BY <1>1, <2>1 DEF O
  <2>3. changed' \in BOOLEAN
    BY <1>7 DEF AddAll, uniteAnswer
  <2> QED
    BY <1>0, <2>1, <2>2, <2>3 DEF Simple!AddAll
<1>8. ASSUME Clear PROVE Simple!Clear
  <2>1. /\ kind' = kind /\ ids' = ids /\ other' = other /\ changed' = changed
        /\ this' = NoPointers
    BY <1>8 DEF Clear
  <2>2. Listed(this)' = {} /\ Listed(other)' = O
    BY <1>0, <1>1, <2>1, NoPointersSet DEF O
  <2> QED
    BY <1>0, <2>1, <2>2 DEF Simple!Clear
<1>9. ASSUME Swap PROVE Simple!Swap
  <2>1. kind' = kind /\ ids' = ids /\ this' = other /\ other' = this /\ changed' = changed
    BY <1>9 DEF Swap
  <2>2. Listed(this)' = O /\ Listed(other)' = L
    BY <1>1, <2>1 DEF O, L
  <2> QED
    BY <1>0, <2>1, <2>2 DEF Simple!Swap
<1>10. ASSUME UNCHANGED vars PROVE UNCHANGED Simple!vars
  <2>1. kind' = kind /\ ids' = ids /\ this' = this /\ other' = other /\ changed' = changed
    BY <1>10 DEF vars
  <2> QED
    BY <1>0, <1>1, <2>1 DEF Simple!vars, L, O
<1>11. Targets = Simple!Targets
  BY DEF Targets, Simple!Targets
<1> QED
  BY <1>3, <1>4, <1>5, <1>6, <1>7, <1>8, <1>9, <1>10, <1>11 DEF Next, Simple!Next

\* What the sets may point to, in terms of what they hold.
Answers ==
    /\ Exact => \A p \in Pointers :
          /\ mayPointTo(this, p) <=> p \in Listed(this) \/ Unknown(p.target) \in Listed(this)
          /\ mayPointTo(other, p) <=> p \in Listed(other) \/ Unknown(p.target) \in Listed(other)
    /\ ~ Exact => \A p \in Pointers :
          /\ mayPointTo(this, p) <=> Allows(ids, this, p)
          /\ mayPointTo(other, p) <=> Allows(ids, other, p)

\* The answers follow from the invariant.
LEMMA InvariantAnswers == IInv => Answers
<1> SUFFICES ASSUME IInv, NEW p \in Pointers, NEW s, IsSet(ids, s)
             PROVE  /\ Exact => (mayPointTo(s, p) <=>
                                   p \in Listed(s) \/ Unknown(p.target) \in Listed(s))
                    /\ ~ Exact => (mayPointTo(s, p) <=> Allows(ids, s, p))
  BY DEF Answers, IInv
<1>1. kind \in Kinds /\ IsNumbering(ids) /\ p \in Pointer /\ Unknown(p.target) \in Pointer
  BY UnknownFacts, UnknownOf DEF IInv
<1>2. CASE Exact
  BY <1>1, <1>2, PointsToListing, ListedIsListing DEF mayPointTo
<1>3. CASE ~ Exact
  BY <1>1, <1>3, SeparateQuestions DEF Exact, IsSet
<1> QED
  BY <1>2, <1>3

\* The additions of SeparateOffsets.
LEMMA SeparateSteps ==
    ASSUME IInv, ~ Exact, (\E q \in Pointers : Add(q)) \/ AddAll
    PROVE  /\ \A q \in Pointers : Add(q) => Allows(ids', this', q)
           /\ AddAll => \A p \in Pointers : Allows(ids, other, p) => Allows(ids', this', p)
           /\ \A p \in Pointers :
                /\ Allows(ids, this, p) => Allows(ids', this', p)
                /\ Allows(ids', this', p) /\ ~ changed' => Allows(ids, this, p)
<1>0. /\ kind = "SeparateOffsets" /\ kind \in Kinds /\ IsNumbering(ids)
      /\ IsSeparate(ids, this) /\ IsSeparate(ids, other) /\ Pointers \subseteq Pointer
  BY UnknownFacts DEF IInv, Exact, IsSet
<1>1. ASSUME NEW q \in Pointers, Add(q)
      PROVE  /\ Allows(ids', this', q)
             /\ \A p \in Pointers :
                  /\ Allows(ids, this, p) => Allows(ids', this', p)
                  /\ Allows(ids', this', p) /\ ~ changed' => Allows(ids, this, p)
  <2>1. /\ Extends(ids, ids') /\ IsNumbering(ids') /\ Has(ids', q.target)
        /\ this' = separateAdded(ids', this, q) /\ (changed' <=> addAnswer(this, q))
    <3>1. /\ Extends(ids, ids') /\ this' = added(ids', this, q)
          /\ (changed' <=> addAnswer(this, q)) /\ Has(ids', q.target)
      BY <1>0, <1>1, AddNumbers
    <3> QED
      BY <1>0, <3>1 DEF added, Extends
  <2>2. /\ IsSeparate(ids', this)
        /\ \A p : Allows(ids', this, p) <=> Allows(ids, this, p)
        /\ Has(ids, q.target) => getID(ids', q.target) = getID(ids, q.target)
    BY <1>0, <2>1, SeparateExtends
  <2>3. /\ Allows(ids', this', q)
        /\ \A p : Allows(ids', this, p) => Allows(ids', this', p)
        /\ /\ getID(ids', q.target) \in Numbers(this.nodes)
           /\ UNKNOWN \in Numbers(this.offsets) \/ q.offset \in Numbers(this.offsets)
           => \A p \in Pointer : Allows(ids', this', p) => Allows(ids', this, p)
    BY <1>0, <2>1, <2>2, SeparateAdded
  <2>4. ~ changed' => /\ getID(ids', q.target) \in Numbers(this.nodes)
                      /\ UNKNOWN \in Numbers(this.offsets) \/ q.offset \in Numbers(this.offsets)
    <3>1. addAnswer(this, q) <=>
             \/ ~ pointsToTarget(this, q.target)
             \/ ~ get(this.offsets, UNKNOWN) /\ ~ get(this.offsets, q.offset)
      BY <1>0 DEF addAnswer
    <3> QED
      BY <1>0, <2>1, <2>2, <3>1, SeparateQuestions
  <2> QED
    BY <1>0, <2>2, <2>3, <2>4
<1>2. ASSUME AddAll
      PROVE  /\ \A p \in Pointers : Allows(ids, other, p) => Allows(ids', this', p)
             /\ \A p \in Pointers :
                  /\ Allows(ids, this, p) => Allows(ids', this', p)
                  /\ Allows(ids', this', p) /\ ~ changed' => Allows(ids, this, p)
  <2>1. ids' = ids /\ this' = united(this, other) /\ (changed' <=> uniteAnswer(this, other))
    BY <1>2 DEF AddAll
  <2> QED
    BY <1>0, <2>1, SeparateUnited
<1> QED
  BY <1>1, <1>2

\* The additions of the other kinds.
LEMMA ExactSteps ==
    ASSUME IInv, Exact, (\E q \in Pointers : Add(q)) \/ AddAll
    PROVE  LET May(S, p) == p \in S \/ Unknown(p.target) \in S
               new == Listing(ids', this')
           IN  /\ \A q \in Pointers : Add(q) => May(new, q)
               /\ AddAll => \A p \in Pointers : May(Listing(ids, other), p) => May(new, p)
               /\ \A p \in Pointers :
                    /\ May(Listing(ids, this), p) => May(new, p)
                    /\ May(new, p) /\ ~ changed' => May(Listing(ids, this), p)
<1> DEFINE May(S, p) == p \in S \/ Unknown(p.target) \in S
           L == Listing(ids, this)
           new == Listing(ids', this')
<1>1. ASSUME NEW q \in Pointers, Add(q)
      PROVE  /\ May(new, q)
             /\ \A p \in Pointers : /\ May(L, p) => May(new, p)
                                    /\ May(new, p) /\ ~ changed' => May(L, p)
  <2>1. new = Simple!added(L, q) /\ (changed' <=> new # L)
    BY <1>1, AddStep, AddAnswer
  <2>2. /\ q \in Pointer /\ (q.offset = UNKNOWN <=> q = Unknown(q.target))
        /\ \A p \in Pointers : Unknown(p.target) = Simple!Unknown(p.target)
        /\ \A p \in Pointers : Unknown(p.target).target = p.target
    BY UnknownFacts, UnknownOf DEF Unknown, Simple!Unknown
  <2> HIDE DEF L, new
  <2>3. May(new, q)
    BY <2>1, <2>2 DEF Simple!added
  <2>4. ASSUME NEW p \in Pointers, May(L, p) PROVE May(new, p)
    <3>1. CASE p.target = q.target
      BY <2>1, <2>2, <2>4, <3>1 DEF Simple!added, Simple!pointersOther
    <3>2. CASE p.target # q.target
      BY <2>1, <2>2, <2>4, <3>2 DEF Simple!added, Simple!pointersOther
    <3> QED
      BY <3>1, <3>2
  <2> QED
    BY <2>1, <2>3, <2>4
<1>2. ASSUME AddAll
      PROVE  /\ \A p \in Pointers : May(Listing(ids, other), p) => May(new, p)
             /\ \A p \in Pointers : /\ May(L, p) => May(new, p)
                                    /\ May(new, p) /\ ~ changed' => May(L, p)
  <2>1. ids' = ids /\ new = L \cup Listing(ids, other) /\ (changed' <=> new # L)
    BY <1>2, AddAllStep
  <2> HIDE DEF L, new
  <2> QED
    BY <2>1
<1> QED
  BY <1>1, <1>2

\* Additions only widen what is answered for.
LEMMA NextWidens ==
    IInv /\ IInv' /\ Answers /\ Answers' /\ [Next]_vars => [AdditionsWiden]_vars
<1> SUFFICES ASSUME IInv, IInv', Answers, Answers', Next PROVE AdditionsWiden
  OBVIOUS
<1>1. CASE ~ ((\E q \in Pointers : Add(q)) \/ AddAll)
  BY <1>1 DEF AdditionsWiden
<1>2. CASE (\E q \in Pointers : Add(q)) \/ AddAll
  <2>1. kind' = kind
    BY <1>2 DEF Add, AddAll
  <2>2. Listed(this)' = Listing(ids', this')
        /\ Listed(this) = Listing(ids, this) /\ Listed(other) = Listing(ids, other)
    BY <2>1, ListedNext, ListedIsListing
  <2>3. CASE Exact
    <3>1. \A p \in Pointers :
             /\ mayPointTo(this, p) <=>
                   p \in Listing(ids, this) \/ Unknown(p.target) \in Listing(ids, this)
             /\ mayPointTo(other, p) <=>
                   p \in Listing(ids, other) \/ Unknown(p.target) \in Listing(ids, other)
      BY <2>2, <2>3 DEF Answers
    <3>2. \A p \in Pointers :
             mayPointTo(this, p)' <=>
                p \in Listing(ids', this') \/ Unknown(p.target) \in Listing(ids', this')
      BY <2>1, <2>2, <2>3 DEF Answers, Exact, Unknown
    <3> QED
      BY <1>2, <2>3, <3>1, <3>2, ExactSteps DEF AdditionsWiden
  <2>4. CASE ~ Exact
    <3>1. \A p \in Pointers :
             /\ mayPointTo(this, p) <=> Allows(ids, this, p)
             /\ mayPointTo(other, p) <=> Allows(ids, other, p)
      BY <2>4 DEF Answers
    <3>2. \A p \in Pointers : mayPointTo(this, p)' <=> Allows(ids', this', p)
      BY <2>1, <2>4 DEF Answers, Exact, Allows, Has, getID
    <3> QED
      BY <1>2, <2>4, <3>1, <3>2, SeparateSteps DEF AdditionsWiden
  <2> QED
    BY <2>3, <2>4
<1> QED
  BY <1>1, <1>2

\* The step of the simple set, as the property has it.
LEMMA NextImplements == IInv /\ [Next]_vars => [Exact => [Simple!Next]_(Simple!vars)]_vars
  BY NextRefines

\* Whatever is added, removed, united, exchanged and asked, the pointers that the iterator
\* of a representation visits are those of the plain set, an addition answers whether
\* it has changed them, and SeparateOffsets, which may hold more, forgets none.
THEOREM Implements == Spec => ImplementsSimple
  BY TypeCorrect, InitRefines, NextImplements, NextWidens, InvariantAnswers, PTL
     DEF Spec, ImplementsSimple

-----------------------------------------------------------------------------
(* The questions.                                                            *)

\* What the other questions should answer of a set whose pointers are L.
Answered(s, L) ==
    /\ \A t \in Targets : pointsToTarget(s, t) <=> \E p \in L : p.target = t
    /\ empty(s) <=> L = {}
    /\ isSingleton(s) <=> Cardinality(L) = 1

\* The search among the bits of a target finds its pointers.
LEMMA VectorKnowsTarget ==
    ASSUME kind \in VectorKinds, IsNumbering(ids), NEW s, IsVector(ids, s), NEW t \in Targets
    PROVE  pointsToTarget(s, t) <=> \E p \in VectorListing(ids, s) : p.target = t
<1> DEFINE N == Numbers(s.pointers)
           L == VectorListing(ids, s)
<1>1. /\ N \subseteq Positions(ids) /\ N \subseteq Nat
      /\ \A n \in Nat : get(s.pointers, n) <=> n \in N
  BY Decoding, GetNumbers DEF IsVector
<1>2. (\E p \in L : p.target = t) <=>
         (\E n \in N : At(ids, n).target = t) \/ (\E p \in s.rest : p.target = t)
  BY DEF VectorListing
<1> HIDE DEF N, L
<1>3. CASE kind \in IdKinds
  <2>1. pointsToTarget(s, t) <=>
           \/ \E n \in DOMAIN ids : ids[n].target = t /\ get(s.pointers, n)
           \/ \E p \in s.rest : p.target = t
    BY <1>3 DEF pointsToTarget, IdKinds, SmallKinds
  <2>2. \A n : n \in N => n \in DOMAIN ids
    BY <1>1, <1>3 DEF Positions
  <2>3. \A n \in DOMAIN ids : n \in Nat
    BY Injective
  <2>4. \A n : At(ids, n) = ids[n]
    BY <1>3 DEF At
  <2> QED
    BY <1>1, <1>2, <2>1, <2>2, <2>3, <2>4 DEF L
<1>4. CASE kind \notin IdKinds
  <2>0. kind \in SmallKinds
    BY <1>4 DEF VectorKinds
  <2>1. pointsToTarget(s, t) <=>
           \/ /\ Has(ids, t)
              /\ \E b \in 0 .. WordBits - 1 : get(s.pointers, getNodePosition(ids, t) + b)
           \/ \E p \in s.rest : p.target = t
    BY <1>4, <2>0 DEF pointsToTarget, IsNumbered, Has, IdKinds, SmallKinds
  <2>2. CASE Has(ids, t)
    <3> DEFINE k == getNodePosition(ids, t)
    <3>1. k \in Nat
      BY <2>2, GetID DEF getNodePosition, WordBits, IsNumbering
    <3>2. BitsOf(ids, t) = k .. k + 63
      BY <1>4 DEF BitsOf, WordBits
    <3> HIDE DEF k
    <3>3. \A b \in 0 .. 63 : k + b \in BitsOf(ids, t) /\ k + b \in Nat
      BY <3>1, <3>2
    <3>4. ASSUME NEW n \in k .. k + 63 PROVE n - k \in 0 .. 63 /\ k + (n - k) = n
      BY <3>1
    <3>5. (\E b \in 0 .. 63 : get(s.pointers, k + b)) <=> \E n \in N : n \in BitsOf(ids, t)
      BY <1>1, <3>2, <3>3, <3>4
    <3>6. \A n \in N : n \in BitsOf(ids, t) <=> At(ids, n).target = t
      BY <1>1, <2>2, BitsOfTarget
    <3> QED
      BY <1>2, <2>1, <2>2, <3>5, <3>6 DEF k, L, WordBits
  <2>3. CASE ~ Has(ids, t)
    <3>1. \A n \in N : At(ids, n).target # t
      BY <1>1, <2>0, <2>3, Decoding, SmallTerms
    <3> QED
      BY <1>2, <2>1, <2>3, <3>1 DEF L
  <2> QED
    BY <2>2, <2>3
<1> QED
  BY <1>3, <1>4

\* Different numbers stand for different pointers, none of them outside the vector.
LEMMA VectorSingleton ==
    ASSUME kind \in VectorKinds, NEW v, IsNumbering(v), NEW s, IsVector(v, s)
    PROVE  /\ IsFiniteSet(VectorListing(v, s))
           /\ (size(s.pointers) + Cardinality(s.rest) = 1) <=>
                 Cardinality(VectorListing(v, s)) = 1
<1> DEFINE N == Numbers(s.pointers)
           P == {At(v, n) : n \in N}
           f == [n \in N |-> At(v, n)]
           R == s.rest
<1>1. IsFiniteSet(N) /\ IsFiniteSet(R)
  BY DEF IsVector, IsBitvector
<1>2. f \in Bijection(N, P)
  <2>1. \A m, n \in N : At(v, m) = At(v, n) => m = n
    BY Decoding DEF IsVector
  <2> QED
    BY <2>1 DEF Bijection, Injection, Surjection, IsInjective
<1>3. IsFiniteSet(P) /\ Cardinality(P) = Cardinality(N)
  BY <1>1, <1>2, FS_Surjection DEF Bijection
<1>4. P \cap R = {}
  BY Decoding DEF IsVector
<1>5. VectorListing(v, s) = P \cup R /\ size(s.pointers) = Cardinality(N)
  BY DEF VectorListing, size
<1> HIDE DEF N, P, R
<1>6. /\ IsFiniteSet(P \cup R)
      /\ Cardinality(P \cup R) = Cardinality(P) + Cardinality(R) - Cardinality(P \cap R)
  BY <1>1, <1>3, FS_Union
<1>7. Cardinality(P) \in Nat /\ Cardinality(R) \in Nat
  BY <1>1, <1>3, FS_CardinalityType
<1>8. Cardinality(P \cap R) = 0
  BY <1>4, FS_EmptySet
<1>9. Cardinality(P \cup R) = Cardinality(N) + Cardinality(R)
  BY <1>3, <1>6, <1>7, <1>8
<1> QED
  BY <1>5, <1>6, <1>9 DEF R

\* The other questions of a vector.
LEMMA VectorAnswers ==
    ASSUME kind \in VectorKinds, IsNumbering(ids), NEW s, IsVector(ids, s)
    PROVE  Answered(s, VectorListing(ids, s)) /\ IsFiniteSet(VectorListing(ids, s))
<1>0. kind # "OffsetsSet" /\ kind # "SeparateOffsets"
  BY DEF VectorKinds, IdKinds, SmallKinds
<1>1. empty(s) <=> VectorListing(ids, s) = {}
  <2>1. empty(s) <=> Numbers(s.pointers) = {} /\ s.rest = {}
    BY <1>0, EmptyNumbers DEF empty, IsVector
  <2> QED
    BY <2>1 DEF VectorListing
<1>2. isSingleton(s) <=> Cardinality(VectorListing(ids, s)) = 1
  BY <1>0, VectorSingleton DEF isSingleton
<1> QED
  BY <1>1, <1>2, VectorKnowsTarget, VectorSingleton DEF Answered

Product(v, s) ==
    {[target |-> v[n], offset |-> o] : n \in Numbers(s.nodes), o \in Numbers(s.offsets)}

\* The targets are numbered apart, so the pointers are pairs of the two sets.
LEMMA ProductSingleton ==
    ASSUME kind = "SeparateOffsets", NEW v, IsNumbering(v), NEW s, IsSeparate(v, s)
    PROVE  size(s.nodes) = 1 /\ size(s.offsets) = 1 <=> Cardinality(Product(v, s)) = 1
<1> DEFINE N == Numbers(s.nodes)
           O == Numbers(s.offsets)
           P == Product(v, s)
           f == [x \in N \X O |-> [target |-> v[x[1]], offset |-> x[2]]]
<1>1. IsFiniteSet(N) /\ IsFiniteSet(O) /\ (N = {} <=> O = {})
  BY DEF IsSeparate, IsBitvector
<1>2. \A m, n \in N : v[m] = v[n] => m = n
  BY DEF IsSeparate, IsNumbering
<1>3. P = {[target |-> v[n], offset |-> o] : n \in N, o \in O}
  BY DEF Product
<1>4. size(s.nodes) = Cardinality(N) /\ size(s.offsets) = Cardinality(O)
  BY DEF size
<1> HIDE DEF N, O, P
<1>5. f \in Surjection(N \X O, P)
  <2>1. \A x \in N \X O : f[x] \in P
    BY <1>3
  <2>2. ASSUME NEW p \in P PROVE \E x \in N \X O : f[x] = p
    <3>1. PICK n \in N, o \in O : p = [target |-> v[n], offset |-> o]
      BY <1>3
    <3>2. <<n, o>> \in N \X O /\ f[<<n, o>>] = p
      BY <3>1
    <3> QED
      BY <3>2
  <2>3. f \in [N \X O -> P]
    BY <2>1
  <2> HIDE DEF f
  <2> QED
    BY <2>2, <2>3 DEF Surjection
<1>6. IsFiniteSet(P)
  BY <1>1, <1>5, FS_Product, FS_Surjection
<1>7. /\ Cardinality(N) = 1 <=> \E n : N = {n}
      /\ Cardinality(O) = 1 <=> \E o : O = {o}
      /\ Cardinality(P) = 1 <=> \E p : P = {p}
  BY <1>1, <1>6, FS_Singleton
<1>8. ASSUME NEW n, N = {n}, NEW o, O = {o}
      PROVE  \E p : P = {p}
  <2>1. P = {[target |-> v[n], offset |-> o]}
    BY <1>3, <1>8
  <2> QED
    BY <2>1
<1>9. ASSUME NEW p, P = {p}
      PROVE  (\E n : N = {n}) /\ (\E o : O = {o})
  <2>1. PICK n \in N, o \in O : p = [target |-> v[n], offset |-> o]
    BY <1>3, <1>9
  <2>2. \A m \in N : \A c \in O : [target |-> v[m], offset |-> c] = [target |-> v[n], offset |-> o]
    BY <1>3, <1>9, <2>1
  <2>3. \A m \in N : \A c \in O : v[m] = v[n] /\ c = o
    BY <2>2
  <2>4. N = {n} /\ O = {o}
    BY <1>2, <2>1, <2>3
  <2> QED
    BY <2>4
<1> QED
  BY <1>4, <1>7, <1>8, <1>9 DEF P

\* The questions of the two vectors are those of their product.
LEMMA SeparateAnswers ==
    ASSUME kind = "SeparateOffsets", IsNumbering(ids), NEW s, IsSeparate(ids, s)
    PROVE  /\ \A p \in Pointer : pointsTo(s, p) <=> p \in Product(ids, s)
           /\ Answered(s, Product(ids, s))
<1> DEFINE N == Numbers(s.nodes)
           O == Numbers(s.offsets)
<1>0. /\ N \subseteq DOMAIN ids /\ O \subseteq 0 .. UNKNOWN /\ (N = {} <=> O = {})
      /\ Product(ids, s) = {[target |-> ids[n], offset |-> o] : n \in N, o \in O}
  BY DEF IsSeparate, Product
<1>1. \A n \in Nat : /\ get(s.nodes, n) <=> n \in N
                     /\ get(s.offsets, n) <=> n \in O
  BY GetNumbers DEF IsSeparate
<1>2. \A t : Has(ids, t) => getID(ids, t) \in Nat /\ ids[getID(ids, t)] = t
  BY GetID, Injective
<1>3. \A n \in N : Has(ids, ids[n]) /\ getID(ids, ids[n]) = n
  BY <1>0, Injective
<1> HIDE DEF N, O
<1>4. \A t : pointsToTarget(s, t) <=> Has(ids, t) /\ getID(ids, t) \in N
  <2>1. \A t : pointsToTarget(s, t) <=> Has(ids, t) /\ get(s.nodes, getID(ids, t))
    BY DEF pointsToTarget, IsNumbered, Has, VectorKinds, IdKinds, SmallKinds
  <2> QED
    BY <1>1, <1>2, <2>1
<1>5. ASSUME NEW p \in Pointer PROVE pointsTo(s, p) <=> p \in Product(ids, s)
  <2>1. p.offset \in Nat /\ p = [target |-> p.target, offset |-> p.offset]
    BY UnknownFacts DEF Pointer
  <2>2. pointsTo(s, p) <=> /\ Has(ids, p.target) /\ get(s.nodes, getID(ids, p.target))
                           /\ get(s.offsets, p.offset)
    BY DEF pointsTo, IsNumbered, Has, VectorKinds, IdKinds, SmallKinds
  <2>3. pointsTo(s, p) <=> Has(ids, p.target) /\ getID(ids, p.target) \in N /\ p.offset \in O
    BY <1>1, <1>2, <2>1, <2>2
  <2>4. ASSUME Has(ids, p.target), getID(ids, p.target) \in N, p.offset \in O
        PROVE  p \in Product(ids, s)
    BY <1>0, <1>2, <2>1, <2>4
  <2>5. ASSUME p \in Product(ids, s)
        PROVE  Has(ids, p.target) /\ getID(ids, p.target) \in N /\ p.offset \in O
    <3>1. PICK n \in N, o \in O : p = [target |-> ids[n], offset |-> o]
      BY <1>0, <2>5
    <3>2. p.target = ids[n] /\ p.offset = o
      BY <3>1
    <3> QED
      BY <1>3, <3>2
  <2> QED
    BY <2>3, <2>4, <2>5
<1>6. ASSUME NEW t \in Targets
      PROVE  pointsToTarget(s, t) <=> \E p \in Product(ids, s) : p.target = t
  <2>1. ASSUME NEW p \in Product(ids, s), p.target = t PROVE Has(ids, t) /\ getID(ids, t) \in N
    <3>1. PICK n \in N, o \in O : p = [target |-> ids[n], offset |-> o]
      BY <1>0
    <3>2. t = ids[n]
      BY <2>1, <3>1
    <3> QED
      BY <1>3, <3>2
  <2>2. ASSUME Has(ids, t), getID(ids, t) \in N
        PROVE  \E p \in Product(ids, s) : p.target = t
    <3>1. PICK o \in O : TRUE
      BY <1>0, <2>2
    <3>2. [target |-> t, offset |-> o] \in Product(ids, s)
      BY <1>0, <1>2, <2>2
    <3> QED
      BY <3>2
  <2> QED
    BY <1>4, <2>1, <2>2
<1>7. empty(s) <=> Product(ids, s) = {}
  <2>1. empty(s) <=> N = {} /\ O = {}
    BY EmptyNumbers DEF empty, IsSeparate, N, O
  <2>2. ASSUME NEW n \in N, NEW o \in O PROVE Product(ids, s) # {}
    <3>1. [target |-> ids[n], offset |-> o] \in Product(ids, s)
      BY <1>0
    <3> QED
      BY <3>1
  <2>3. N = {} \/ O = {} => Product(ids, s) = {}
    BY <1>0
  <2> QED
    BY <1>0, <2>1, <2>2, <2>3
<1>8. isSingleton(s) <=> Cardinality(Product(ids, s)) = 1
  <2>1. isSingleton(s) <=> size(s.nodes) = 1 /\ size(s.offsets) = 1
    BY DEF isSingleton
  <2> QED
    BY <2>1, ProductSingleton
<1> QED
  BY <1>5, <1>6, <1>7, <1>8 DEF Answered

\* The agreement follows from the invariant.
LEMMA InvariantQuestions == IInv => QuestionsAgree
<1> SUFFICES ASSUME IInv PROVE QuestionsAgree
  OBVIOUS
<1> DEFINE L == Listing(ids, this)
<1>1. /\ kind \in Kinds /\ IsNumbering(ids) /\ IsSet(ids, this)
      /\ Listed(this) = L /\ Pointers \subseteq Pointer
  BY ListedIsListing, UnknownFacts DEF IInv
<1>2. CASE kind \in VectorKinds
  <2>1. Answered(this, L) /\ IsFiniteSet(L)
    BY <1>1, <1>2, KindCases, VectorAnswers DEF IsSet, Listing
  <2>2. \A p \in Pointers : pointsTo(this, p) <=> p \in L
    BY <1>1, <1>2, KindCases, PointsToListing DEF Exact
  <2> HIDE DEF L
  <2>3. ASSUME NEW p \in Pointers PROVE mustPointTo(this, p) <=> L = {p}
    <3>1. mustPointTo(this, p) <=> p \in L /\ Cardinality(L) = 1
      BY <1>1, <1>2, <2>1, <2>2, KindCases DEF mustPointTo, Answered
    <3>2. Cardinality(L) = 1 <=> \E x : L = {x}
      BY <2>1, FS_Singleton
    <3> QED
      BY <3>1, <3>2
  <2> QED
    BY <1>1, <2>1, <2>2, <2>3 DEF QuestionsAgree, Answered
<1>3. CASE kind = "OffsetsSet"
  <2>1. \A p \in Pointers : pointsTo(this, p) <=> p \in L
    BY <1>1, <1>3, PointsToListing DEF Exact
  <2> QED
    BY <1>1, <1>3, <2>1 DEF QuestionsAgree
<1>4. CASE kind = "SeparateOffsets"
  <2>1. L = Product(ids, this)
    BY <1>4 DEF Listing, Product
  <2>2. (\A p \in Pointers : pointsTo(this, p) <=> p \in L) /\ Answered(this, L)
    BY <1>1, <1>4, <2>1, SeparateAnswers DEF IsSet
  <2> QED
    BY <1>1, <1>4, <2>2 DEF QuestionsAgree, Answered, Exact
<1> QED
  BY <1>1, <1>2, <1>3, <1>4, KindCases

\* Every question answers what a look at all the pointers of the set would, whatever
\* numbers the questions and the operations before it gave out.
THEOREM QuestionsAnswered == Spec => []QuestionsAgree
  BY TypeCorrect, InvariantQuestions, PTL

-----------------------------------------------------------------------------
(* The interval map.                                                         *)

USE TopAssumption

-----------------------------------------------------------------------------
(* Splitting entries.                                                        *)

\* Every entry of a map in which entries were split is an old one or a part of one.
LEMMA SplitCases ==
    ASSUME NEW M \in SUBSET Entry, NEW E \in SUBSET M, NEW w \in Int,
           \A d \in E : d.start <= w /\ w < d.end,
           NEW e \in SplitAt(M, E, w)
    PROVE  \E d \in M : /\ e.vals = d.vals
                        /\ \/ d \notin E /\ e = d
                           \/ d \in E /\ e.start = d.start /\ e.end = w
                           \/ d \in E /\ e.start = w + 1 /\ e.end = d.end
<1>1. CASE e \in M \ E
  BY <1>1
<1>2. ASSUME NEW d \in E, e = [d EXCEPT !.end = w]
      PROVE  e.start = d.start /\ e.end = w /\ e.vals = d.vals
  BY <1>2 DEF Entry
<1>3. ASSUME NEW d \in E, e = [d EXCEPT !.start = w + 1]
      PROVE  e.start = w + 1 /\ e.end = d.end /\ e.vals = d.vals
  BY <1>3 DEF Entry
<1> QED
  BY <1>1, <1>2, <1>3 DEF SplitAt

\* Splitting keeps the entries well formed and apart.
LEMMA SplitApart ==
    ASSUME NEW M \in SUBSET Entry, Apart(M), NEW E \in SUBSET M, NEW w \in Int,
           \A d \in E : d.start <= w /\ w < d.end
    PROVE  SplitAt(M, E, w) \subseteq Entry /\ Apart(SplitAt(M, E, w))
<1> DEFINE N == SplitAt(M, E, w)
<1>1. N \subseteq Entry
  <2>1. \A d \in E : [d EXCEPT !.end = w] \in Entry /\ [d EXCEPT !.start = w + 1] \in Entry
    BY DEF Entry
  <2> QED
    BY <2>1 DEF SplitAt
<1>2. \A e \in N : e.start <= e.end /\ e.vals # {}
  <2> SUFFICES ASSUME NEW e \in N PROVE e.start <= e.end /\ e.vals # {}
    OBVIOUS
  <2>1. PICK d \in M : /\ e.vals = d.vals
                       /\ \/ d \notin E /\ e = d
                          \/ d \in E /\ e.start = d.start /\ e.end = w
                          \/ d \in E /\ e.start = w + 1 /\ e.end = d.end
    BY SplitCases
  <2> QED
    BY <2>1 DEF Apart, Entry
<1>3. ASSUME NEW e \in N, NEW f \in N, e # f PROVE e.end < f.start \/ f.end < e.start
  <2>1. PICK d \in M : /\ e.vals = d.vals
                       /\ \/ d \notin E /\ e = d
                          \/ d \in E /\ e.start = d.start /\ e.end = w
                          \/ d \in E /\ e.start = w + 1 /\ e.end = d.end
    BY SplitCases
  <2>2. PICK c \in M : /\ f.vals = c.vals
                       /\ \/ c \notin E /\ f = c
                          \/ c \in E /\ f.start = c.start /\ f.end = w
                          \/ c \in E /\ f.start = w + 1 /\ f.end = c.end
    BY SplitCases
  <2>3. e \in Entry /\ f \in Entry /\ d \in Entry /\ c \in Entry
    BY <1>1
  <2>4. d.start \in Nat /\ d.end \in Nat /\ c.start \in Nat /\ c.end \in Nat /\ w \in Int
    BY <2>3 DEF Entry
  <2>5. CASE d # c
    BY <2>1, <2>2, <2>4, <2>5 DEF Apart
  <2>6. CASE d = c
    <3>1. e.start # f.start \/ e.end # f.end
      BY <1>3, <2>1, <2>2, <2>3, <2>6 DEF Entry
    <3> QED
      BY <3>1, <2>1, <2>2, <2>4, <2>6
  <2> QED
    BY <2>5, <2>6
<1> QED
  BY <1>1, <1>2, <1>3 DEF Apart

\* Splitting changes the values of no byte.
LEMMA SplitStored ==
    ASSUME NEW M \in SUBSET Entry, NEW E \in SUBSET M, NEW w \in Int,
           \A d \in E : d.start <= w /\ w < d.end,
           NEW b \in 0 .. Top
    PROVE  Stored(SplitAt(M, E, w), b) = Stored(M, b)
<1> DEFINE N == SplitAt(M, E, w)
<1>1. ASSUME NEW e \in N, e.start <= b, b <= e.end
      PROVE  \E d \in M : d.start <= b /\ b <= d.end /\ d.vals = e.vals
  <2>1. PICK d \in M : /\ e.vals = d.vals
                       /\ \/ d \notin E /\ e = d
                          \/ d \in E /\ e.start = d.start /\ e.end = w
                          \/ d \in E /\ e.start = w + 1 /\ e.end = d.end
    BY SplitCases
  <2>2. d.start \in Nat /\ d.end \in Nat /\ w \in Int /\ b \in Nat
    BY DEF Entry
  <2> QED
    BY <1>1, <2>1, <2>2
<1>2. ASSUME NEW d \in M, d.start <= b, b <= d.end
      PROVE  \E e \in N : e.start <= b /\ b <= e.end /\ e.vals = d.vals
  <2>1. CASE d \notin E
    BY <1>2, <2>1 DEF SplitAt
  <2>2. CASE d \in E /\ b <= w
    <3> DEFINE e == [d EXCEPT !.end = w]
    <3>1. e \in N
      BY <2>2 DEF SplitAt
    <3>2. e.start = d.start /\ e.end = w /\ e.vals = d.vals
      BY DEF Entry
    <3> QED
      BY <1>2, <2>2, <3>1, <3>2
  <2>3. CASE d \in E /\ ~(b <= w)
    <3> DEFINE e == [d EXCEPT !.start = w + 1]
    <3>1. e \in N
      BY <2>3 DEF SplitAt
    <3>2. e.start = w + 1 /\ e.end = d.end /\ e.vals = d.vals
      BY DEF Entry
    <3>3. w + 1 <= b
      BY <2>3
    <3> HIDE DEF e
    <3> QED
      BY <1>2, <3>1, <3>2, <3>3
  <2> QED
    BY <2>1, <2>2, <2>3
<1> QED
  BY <1>1, <1>2 DEF Stored

\* After the borders are split, no entry reaches over one of them.
LEMMA BordersSplit ==
    ASSUME NEW M \in SUBSET Entry, Apart(M), NEW i \in Interval
    PROVE  LET N == splitExtBorders(M, i.lo, i.hi) IN
           /\ N \subseteq Entry /\ Apart(N)
           /\ \A b \in 0 .. Top : Stored(N, b) = Stored(M, b)
           /\ \A e \in N : /\ e.start < i.lo => e.end < i.lo
                           /\ e.start <= i.hi => e.end <= i.hi
<1> DEFINE N == splitExtBorders(M, i.lo, i.hi)
           lo_ == i.lo
           hi_ == i.hi
           E1 == {e \in M : e.start \in lo_ .. hi_ /\ hi_ < e.end}
           M1 == SplitAt(M, E1, hi_)
           E2 == {e \in M1 : e.start < lo_ /\ lo_ <= e.end}
           M2 == SplitAt(M1, E2, lo_ - 1)
           E3 == {e \in M2 : e.start \in lo_ .. hi_ /\ hi_ < e.end}
           M3 == SplitAt(M2, E3, hi_)
<1>1. /\ lo_ \in Nat /\ hi_ \in Nat /\ lo_ <= hi_ /\ hi_ <= Top /\ Top \in Nat
      /\ N = M3
  BY DEF Interval, splitExtBorders, SplitAtStart, SplitAtEnd
<1> HIDE DEF lo_, hi_
<1>2. \A e \in Entry : e.start \in Nat /\ e.end \in Nat /\ e.start <= Top /\ e.end <= Top
  BY DEF Entry
<1>3. /\ M1 \subseteq Entry /\ Apart(M1)
      /\ \A b \in 0 .. Top : Stored(M1, b) = Stored(M, b)
      /\ \A e \in M1 : e.start \in lo_ .. hi_ => e.end <= hi_
  <2>1. hi_ \in Int /\ E1 \in SUBSET M /\ \A d \in E1 : d.start <= hi_ /\ hi_ < d.end
    BY <1>1, <1>2
  <2>2. ASSUME NEW e \in M1 PROVE e.start \in lo_ .. hi_ => e.end <= hi_
    <3> HIDE DEF E1
    <3>1. PICK d \in M : \/ d \notin E1 /\ e = d
                         \/ d \in E1 /\ e.start = d.start /\ e.end = hi_
                         \/ d \in E1 /\ e.start = hi_ + 1 /\ e.end = d.end
      BY <2>1, SplitCases
    <3> QED
      BY <2>1, <3>1, <1>1, <1>2 DEF E1
  <2> HIDE DEF E1
  <2> QED
    BY <2>1, <2>2, SplitApart, SplitStored
<1> HIDE DEF M1
<1>4. /\ M2 \subseteq Entry /\ Apart(M2)
      /\ \A b \in 0 .. Top : Stored(M2, b) = Stored(M, b)
      /\ \A e \in M2 : (e.start < lo_ => e.end < lo_) /\ (e.start \in lo_ + 1 .. hi_ => e.end <= hi_)
  <2>1. lo_ - 1 \in Int /\ E2 \in SUBSET M1 /\ \A d \in E2 : d.start <= lo_ - 1 /\ lo_ - 1 < d.end
    BY <1>1, <1>2, <1>3
  <2>2. ASSUME NEW e \in M2 PROVE (e.start < lo_ => e.end < lo_) /\ (e.start \in lo_ + 1 .. hi_ => e.end <= hi_)
    <3> HIDE DEF E2
    <3>1. PICK d \in M1 : \/ d \notin E2 /\ e = d
                          \/ d \in E2 /\ e.start = d.start /\ e.end = lo_ - 1
                          \/ d \in E2 /\ e.start = (lo_ - 1) + 1 /\ e.end = d.end
      BY <2>1, <1>3, SplitCases
    <3> QED
      BY <2>1, <3>1, <1>1, <1>2, <1>3 DEF E2
  <2> HIDE DEF E2
  <2> QED
    BY <2>1, <2>2, <1>3, SplitApart, SplitStored
<1> HIDE DEF M2
<1>5. /\ M3 \subseteq Entry /\ Apart(M3)
      /\ \A b \in 0 .. Top : Stored(M3, b) = Stored(M, b)
      /\ \A e \in M3 : (e.start < lo_ => e.end < lo_) /\ (e.start <= hi_ => e.end <= hi_)
  <2>1. hi_ \in Int /\ E3 \in SUBSET M2 /\ \A d \in E3 : d.start <= hi_ /\ hi_ < d.end
    BY <1>1, <1>2, <1>4
  <2>2. ASSUME NEW e \in M3 PROVE (e.start < lo_ => e.end < lo_) /\ (e.start <= hi_ => e.end <= hi_)
    <3> HIDE DEF E3
    <3>1. PICK d \in M2 : \/ d \notin E3 /\ e = d
                          \/ d \in E3 /\ e.start = d.start /\ e.end = hi_
                          \/ d \in E3 /\ e.start = hi_ + 1 /\ e.end = d.end
      BY <2>1, <1>4, SplitCases
    <3> QED
      BY <2>1, <3>1, <1>1, <1>2, <1>4 DEF E3
  <2> HIDE DEF E3
  <2> QED
    BY <2>1, <2>2, <1>4, SplitApart, SplitStored
<1> HIDE DEF M3
<1> QED
  BY <1>1, <1>5 DEF lo_, hi_

-----------------------------------------------------------------------------
(* Writing entries.                                                          *)

\* A new entry in a gap defines the bytes of the gap and nothing else.
LEMMA EmplaceGap ==
    ASSUME NEW M \in SUBSET Entry, Apart(M), NEW a \in 0 .. Top, NEW z \in 0 .. Top, a <= z,
           NEW v \in Value, \A e \in M : e.end < a \/ z < e.start
    PROVE  LET N == emplace(M, a, z, v) IN
           /\ N \subseteq Entry /\ Apart(N)
           /\ \A e \in N : e \in M \/ (e.start = a /\ e.end = z)
           /\ \A b \in 0 .. Top :
                 Stored(N, b) = IF a <= b /\ b <= z THEN {v} ELSE Stored(M, b)
           /\ \A b \in 0 .. Top : a <= b /\ b <= z => Stored(M, b) = {}
<1> DEFINE N == emplace(M, a, z, v)
           n == [start |-> a, end |-> z, vals |-> {v}]
<1>1. \A e \in M : e.start \in Nat /\ e.end \in Nat /\ e.start <= e.end /\ e.vals # {}
  BY DEF Entry, Apart
<1>2. N = M \cup {n}
  <2>1. ~ \E e \in M : e.start = a
    BY <1>1
  <2> QED
    BY <2>1 DEF emplace
<1>3. n.start = a /\ n.end = z /\ n.vals = {v} /\ n \in Entry
  BY DEF Entry
<1> HIDE DEF n
<1>4. Apart(N)
  BY <1>1, <1>2, <1>3 DEF Apart
<1>5. ASSUME NEW b \in 0 .. Top
      PROVE  /\ Stored(N, b) = IF a <= b /\ b <= z THEN {v} ELSE Stored(M, b)
             /\ a <= b /\ b <= z => Stored(M, b) = {}
  <2>1. CASE a <= b /\ b <= z
    <3>1. \A e \in M : ~(e.start <= b /\ b <= e.end)
      BY <1>1, <2>1
    <3>2. Stored(M, b) = {}
      BY <3>1 DEF Stored
    <3>3. {e \in N : e.start <= b /\ b <= e.end} = {n}
      BY <2>1, <3>1, <1>2, <1>3
    <3>4. Stored(N, b) = {v}
      BY <3>3, <1>3 DEF Stored
    <3> QED
      BY <2>1, <3>2, <3>4
  <2>2. CASE ~(a <= b /\ b <= z)
    <3>1. {e \in N : e.start <= b /\ b <= e.end} = {e \in M : e.start <= b /\ b <= e.end}
      BY <2>2, <1>2, <1>3
    <3> QED
      BY <2>2, <3>1 DEF Stored
  <2> QED
    BY <2>1, <2>2
<1> QED
  BY <1>2, <1>3, <1>4, <1>5

\* What a new value makes of the values of a byte.
NewValues(old, v, strong) == IF strong THEN {v} ELSE old \cup {v}

\* addValue changes the values of one entry.
LEMMA AddValueEntry ==
    ASSUME NEW e \in Entry, NEW v \in Value, NEW strong \in BOOLEAN
    PROVE  LET n == addValue(e, v, strong) IN
           /\ n \in Entry /\ n.start = e.start /\ n.end = e.end
           /\ n.vals = NewValues(e.vals, v, strong)
  BY DEF addValue, Entry, NewValues

\* The entries N are the entries M but for the bytes of the entry it.
Rewritten(M, N, it, v, strong) ==
    /\ N \subseteq Entry /\ Apart(N)
    /\ \A e \in N : \E d \in M : d.start = e.start /\ d.end = e.end
    /\ \A b \in 0 .. Top :
          Stored(N, b) = IF it.start <= b /\ b <= it.end
                         THEN NewValues(Stored(M, b), v, strong) ELSE Stored(M, b)

\* Writing to an entry changes the bytes of the entry and nothing else.
LEMMA WriteEntry ==
    ASSUME NEW M \in SUBSET Entry, Apart(M), NEW it \in M,
           NEW v \in Value, NEW strong \in BOOLEAN
    PROVE  Rewritten(M, (M \ {it}) \cup {addValue(it, v, strong)}, it, v, strong)
<1> DEFINE N == (M \ {it}) \cup {addValue(it, v, strong)}
           n == addValue(it, v, strong)
<1>1. \A e \in M : e.start \in Nat /\ e.end \in Nat /\ e.start <= e.end /\ e.vals # {}
  BY DEF Entry, Apart
<1>2. n.start = it.start /\ n.end = it.end /\ n.vals = NewValues(it.vals, v, strong) /\ n \in Entry
  BY AddValueEntry
<1> HIDE DEF n
<1>3. N = (M \ {it}) \cup {n}
  BY DEF n
<1>4. n.vals # {}
  BY <1>2 DEF NewValues
<1>5. Apart(N)
  BY <1>1, <1>2, <1>3, <1>4 DEF Apart
<1>6. ASSUME NEW b \in 0 .. Top
      PROVE  Stored(N, b) = IF it.start <= b /\ b <= it.end
                            THEN NewValues(Stored(M, b), v, strong) ELSE Stored(M, b)
  <2>1. CASE it.start <= b /\ b <= it.end
    <3>1. \A e \in M : e # it => ~(e.start <= b /\ b <= e.end)
      BY <1>1, <2>1 DEF Apart
    <3>2. {e \in M : e.start <= b /\ b <= e.end} = {it}
      BY <2>1, <3>1
    <3>3. {e \in N : e.start <= b /\ b <= e.end} = {n}
      BY <2>1, <3>1, <1>2, <1>3
    <3>4. Stored(M, b) = it.vals /\ Stored(N, b) = n.vals
      BY <3>2, <3>3 DEF Stored
    <3> QED
      BY <2>1, <3>4, <1>2
  <2>2. CASE ~(it.start <= b /\ b <= it.end)
    <3>1. {e \in N : e.start <= b /\ b <= e.end} = {e \in M : e.start <= b /\ b <= e.end}
      BY <2>2, <1>2, <1>3
    <3> QED
      BY <2>2, <3>1 DEF Stored
  <2> QED
    BY <2>1, <2>2
<1>7. N \subseteq Entry /\ \A e \in N : \E d \in M : d.start = e.start /\ d.end = e.end
  BY <1>2, <1>3
<1> QED
  BY <1>5, <1>6, <1>7 DEF Rewritten

\* Adding a value to all entries adds it to all bytes that are defined.
LEMMA WriteAll ==
    ASSUME NEW M \in SUBSET Entry, Apart(M), NEW v \in Value
    PROVE  LET N == {addValue(e, v, FALSE) : e \in M} IN
           /\ N \subseteq Entry /\ Apart(N)
           /\ \A b \in 0 .. Top :
                 Stored(N, b) = IF Stored(M, b) = {} THEN {} ELSE Stored(M, b) \cup {v}
<1> DEFINE N == {addValue(e, v, FALSE) : e \in M}
<1>1. \A e \in M : e.start \in Nat /\ e.end \in Nat /\ e.start <= e.end /\ e.vals # {}
  BY DEF Entry, Apart
<1>2. \A e \in M : LET n == addValue(e, v, FALSE) IN
          n \in Entry /\ n.start = e.start /\ n.end = e.end /\ n.vals = e.vals \cup {v}
  BY AddValueEntry DEF NewValues
<1>3. N \subseteq Entry
  BY <1>2
<1>4. Apart(N)
  <2>1. ASSUME NEW e \in N, NEW f \in N, e # f PROVE e.end < f.start \/ f.end < e.start
    <3>1. PICK d \in M : e = addValue(d, v, FALSE)
      OBVIOUS
    <3>2. PICK c \in M : f = addValue(c, v, FALSE)
      OBVIOUS
    <3>3. d # c
      BY <2>1, <3>1, <3>2
    <3> QED
      BY <3>1, <3>2, <3>3, <1>2 DEF Apart
  <2>2. ASSUME NEW e \in N PROVE e.start <= e.end /\ e.vals # {}
    BY <1>1, <1>2
  <2> QED
    BY <2>1, <2>2 DEF Apart
<1>5. ASSUME NEW b \in 0 .. Top
      PROVE  Stored(N, b) = IF Stored(M, b) = {} THEN {} ELSE Stored(M, b) \cup {v}
  <2>1. CASE \E e \in M : e.start <= b /\ b <= e.end
    <3>1. PICK e \in M : e.start <= b /\ b <= e.end
      BY <2>1
    <3>2. {d \in M : d.start <= b /\ b <= d.end} = {e}
      BY <3>1, <1>1 DEF Apart
    <3> DEFINE n == addValue(e, v, FALSE)
    <3>3. n \in N /\ n.start = e.start /\ n.end = e.end /\ n.vals = e.vals \cup {v}
      BY <1>2
    <3>4. ASSUME NEW d \in N, d.start <= b, b <= d.end PROVE d = n
      <4>1. PICK c \in M : d = addValue(c, v, FALSE)
        OBVIOUS
      <4>2. c.start <= b /\ b <= c.end
        BY <3>4, <4>1, <1>2
      <4> QED
        BY <3>2, <4>1, <4>2
    <3> HIDE DEF n
    <3>5. {d \in N : d.start <= b /\ b <= d.end} = {n}
      BY <3>1, <3>3, <3>4
    <3>6. Stored(M, b) = e.vals
      BY <3>2 DEF Stored
    <3>7. Stored(N, b) = e.vals \cup {v}
      BY <3>3, <3>5 DEF Stored
    <3> QED
      BY <3>6, <3>7, <1>1
  <2>2. CASE ~ \E e \in M : e.start <= b /\ b <= e.end
    <3>1. {d \in M : d.start <= b /\ b <= d.end} = {}
      BY <2>2
    <3>2. {d \in N : d.start <= b /\ b <= d.end} = {}
      BY <2>2, <1>2
    <3> QED
      BY <3>1, <3>2 DEF Stored
  <2> QED
    BY <2>1, <2>2
<1> QED
  BY <1>3, <1>4, <1>5

-----------------------------------------------------------------------------
(* The invariant.                                                            *)

\* While the loop runs, no entry reaches over the beginning of the rest or over the end
\* of the interval.
Aligned ==
    /\ pc = "split" => rest = lo
    /\ pc = "fill" => \A e \in mapping : /\ e.start < rest => e.end < rest
                                         /\ e.start <= hi => e.end <= hi

MapInv == TypeOK /\ Disjoint /\ Aligned

\* What TypeOK says of the numbers of a running operation.
LEMMA MapNumbers ==
    ASSUME TypeOK, pc # "idle"
    PROVE  /\ lo \in Nat /\ hi \in Nat /\ rest \in Nat /\ lo <= rest /\ rest <= hi
           /\ lo < Top /\ hi <= Top /\ Top \in Nat /\ op.interval \in Interval
           /\ op.val \in Value /\ op.strong \in BOOLEAN /\ op \in Operation
<1>1. op \in Operation /\ op.interval \in Interval /\ op.val \in Value /\ op.strong \in BOOLEAN
      /\ rest \in op.interval.lo .. op.interval.hi
  BY DEF TypeOK, Operation
<1>2. op.interval.lo \in 0 .. Top /\ op.interval.hi \in 0 .. Top /\ op.interval.lo < Top
  BY <1>1 DEF Interval
<1> QED
  BY <1>1, <1>2 DEF lo, hi

\* Entries lie within the bytes and are not empty.
LEMMA EntryNumbers ==
    ASSUME TypeOK, Disjoint
    PROVE  \A e \in mapping : /\ e \in Entry /\ e.start \in Nat /\ e.end \in Nat
                              /\ e.start <= e.end /\ e.end <= Top
  BY DEF TypeOK, Disjoint, Apart, Entry

\* An interval starts and ends within the bytes.
LEMMA IntervalNumbers ==
    ASSUME NEW i \in Interval
    PROVE  i.lo \in 0 .. Top /\ i.hi \in 0 .. Top /\ i.lo <= i.hi
  BY DEF Interval

\* The bytes before and after a step.
Old(b) == Stored(mapping, b)
Changed(a, z, v, strong) ==
    \A b \in 0 .. Top : Stored(mapping', b) =
        IF a <= b /\ b <= z THEN NewValues(Old(b), v, strong) ELSE Old(b)

\* What each action does to the entries, to the invariant and to the bytes.
LEMMA CallStep ==
    ASSUME MapInv, NEW o \in Operation, Call(o)
    PROVE  /\ MapInv' /\ mapping' = mapping /\ pc = "idle" /\ pc' = "split"
           /\ op' = o /\ rest' = o.interval.lo
<1>1. o.interval \in Interval
  BY DEF Operation
<1>2. o.interval.lo \in o.interval.lo .. o.interval.hi
  BY <1>1, IntervalNumbers
<1> QED
  BY <1>2 DEF MapInv, TypeOK, Disjoint, Aligned, Call, lo

LEMMA AddFirstStep ==
    ASSUME MapInv, AddFirst
    PROVE  /\ MapInv' /\ Changed(rest, hi, op.val, op.strong)
           /\ pc = "split" /\ pc' = "idle" /\ op' = None
<1> USE DEF MapInv
<1>1. /\ mapping = {} /\ Return /\ pc = "split" /\ rest = lo
      /\ mapping' = emplace(mapping, rest, hi, op.val)
  BY DEF AddFirst, Aligned
<1>2. mapping \in SUBSET Entry /\ Apart(mapping)
  BY DEF TypeOK, Disjoint
<1>3. rest \in 0 .. Top /\ hi \in 0 .. Top /\ rest <= hi /\ op.val \in Value
  BY <1>1, MapNumbers
<1>4. \A e \in mapping : e.end < rest \/ hi < e.start
  BY <1>1
<1>5. /\ mapping' \subseteq Entry /\ Apart(mapping')
      /\ \A b \in 0 .. Top :
            Stored(mapping', b) = IF rest <= b /\ b <= hi THEN {op.val} ELSE Stored(mapping, b)
      /\ \A b \in 0 .. Top : rest <= b /\ b <= hi => Stored(mapping, b) = {}
  <2> DEFINE N == emplace(mapping, rest, hi, op.val)
  <2>1. /\ N \subseteq Entry /\ Apart(N)
        /\ \A e \in N : e \in mapping \/ (e.start = rest /\ e.end = hi)
        /\ \A b \in 0 .. Top :
              Stored(N, b) = IF rest <= b /\ b <= hi THEN {op.val} ELSE Stored(mapping, b)
        /\ \A b \in 0 .. Top : rest <= b /\ b <= hi => Stored(mapping, b) = {}
    <3> HIDE DEF MapInv
    <3> QED
      BY <1>2, <1>3, <1>4, EmplaceGap
  <2>2. mapping' = N
    BY <1>1
  <2> HIDE DEF N
  <2> QED
    BY <2>1, <2>2
<1>6. Changed(rest, hi, op.val, op.strong)
  BY <1>5 DEF Changed, NewValues, Old
<1> QED
  BY <1>1, <1>5, <1>6 DEF TypeOK, Disjoint, Aligned, Return

LEMMA SplitStep ==
    ASSUME MapInv, Split
    PROVE  /\ MapInv' /\ \A b \in 0 .. Top : Stored(mapping', b) = Old(b)
           /\ pc = "split" /\ pc' = "fill" /\ UNCHANGED <<op, rest>>
<1> USE DEF MapInv
<1>1. pc = "split" /\ pc' = "fill" /\ op' = op /\ rest' = rest
      /\ mapping' = splitExtBorders(mapping, op.interval.lo, op.interval.hi)
  BY DEF Split, lo, hi
<1>2. mapping \in SUBSET Entry /\ Apart(mapping)
  BY DEF TypeOK, Disjoint
<1>3. op.interval \in Interval
  BY <1>1, MapNumbers
<1>4. /\ mapping' \subseteq Entry /\ Apart(mapping')
      /\ \A b \in 0 .. Top : Stored(mapping', b) = Stored(mapping, b)
      /\ \A e \in mapping' : /\ e.start < op.interval.lo => e.end < op.interval.lo
                             /\ e.start <= op.interval.hi => e.end <= op.interval.hi
  <2> PICK i \in Interval : i = op.interval
    BY <1>3
  <2> DEFINE N == splitExtBorders(mapping, i.lo, i.hi)
  <2>1. /\ N \subseteq Entry /\ Apart(N)
        /\ \A b \in 0 .. Top : Stored(N, b) = Stored(mapping, b)
        /\ \A e \in N : /\ e.start < i.lo => e.end < i.lo
                        /\ e.start <= i.hi => e.end <= i.hi
    BY <1>2, BordersSplit
  <2>2. mapping' = N
    BY <1>1
  <2> HIDE DEF N
  <2> QED
    BY <2>1, <2>2
<1>5. rest = op.interval.lo
  BY <1>1 DEF Aligned, lo
<1> QED
  BY <1>1, <1>4, <1>5 DEF TypeOK, Disjoint, Aligned, hi, Old

LEMMA FillRestStep ==
    ASSUME MapInv, FillRest
    PROVE  /\ MapInv' /\ Changed(rest, hi, op.val, op.strong)
           /\ pc = "fill" /\ pc' = "idle" /\ op' = None
<1> USE DEF MapInv
<1>1. pc = "fill" /\ Return /\ mapping' = emplace(mapping, rest, hi, op.val)
  BY DEF FillRest
<1>2. mapping \in SUBSET Entry /\ Apart(mapping)
  BY DEF TypeOK, Disjoint
<1>3. \A e \in mapping : e.end < rest \/ hi < e.start
  BY <1>1, MapNumbers, EntryNumbers DEF FillRest, Aligned
<1>4. rest \in 0 .. Top /\ hi \in 0 .. Top /\ rest <= hi /\ op.val \in Value
  BY <1>1, MapNumbers
<1>5. /\ mapping' \subseteq Entry /\ Apart(mapping')
      /\ \A b \in 0 .. Top :
            Stored(mapping', b) = IF rest <= b /\ b <= hi THEN {op.val} ELSE Stored(mapping, b)
      /\ \A b \in 0 .. Top : rest <= b /\ b <= hi => Stored(mapping, b) = {}
  <2> DEFINE N == emplace(mapping, rest, hi, op.val)
  <2>1. /\ N \subseteq Entry /\ Apart(N)
        /\ \A e \in N : e \in mapping \/ (e.start = rest /\ e.end = hi)
        /\ \A b \in 0 .. Top :
              Stored(N, b) = IF rest <= b /\ b <= hi THEN {op.val} ELSE Stored(mapping, b)
        /\ \A b \in 0 .. Top : rest <= b /\ b <= hi => Stored(mapping, b) = {}
    BY <1>1, <1>2, <1>3, <1>4, EmplaceGap
  <2>2. mapping' = N
    BY <1>1, <1>2
  <2> HIDE DEF N
  <2> QED
    BY <2>1, <2>2
<1>6. Changed(rest, hi, op.val, op.strong)
  BY <1>5 DEF Changed, NewValues, Old
<1> QED
  BY <1>1, <1>5, <1>6 DEF TypeOK, Disjoint, Aligned, Return

LEMMA FillGapStep ==
    ASSUME MapInv, FillGap
    PROVE  /\ MapInv' /\ pc = "fill" /\ UNCHANGED <<pc, op>>
           /\ \E z \in rest .. hi : Changed(rest, z, op.val, op.strong) /\ rest' = z + 1
<1> USE DEF MapInv
<1>1. pc = "fill" /\ UNCHANGED <<pc, op>>
  BY DEF FillGap
<1>2. PICK it \in FindGe(mapping, rest) :
         /\ rest < it.start /\ it.start <= hi
         /\ mapping' = emplace(mapping, rest, it.start - 1, op.val)
         /\ rest' = it.start
  BY DEF FillGap
<1>3. it \in mapping /\ \A e \in mapping : rest <= e.start => it.start <= e.start
  BY DEF FindGe
<1>4. mapping \in SUBSET Entry /\ Apart(mapping)
  BY DEF TypeOK, Disjoint
<1>5. /\ rest \in 0 .. Top /\ it.start - 1 \in 0 .. Top /\ rest <= it.start - 1
      /\ op.val \in Value
  BY <1>1, <1>2, <1>3, MapNumbers, EntryNumbers
<1>6. \A e \in mapping : e.end < rest \/ it.start - 1 < e.start
  BY <1>1, <1>3, MapNumbers, EntryNumbers DEF Aligned
<1>7. /\ mapping' \subseteq Entry /\ Apart(mapping')
      /\ \A e \in mapping' : e \in mapping \/ (e.start = rest /\ e.end = it.start - 1)
      /\ \A b \in 0 .. Top :
            Stored(mapping', b) = IF rest <= b /\ b <= it.start - 1 THEN {op.val}
                                  ELSE Stored(mapping, b)
      /\ \A b \in 0 .. Top : rest <= b /\ b <= it.start - 1 => Stored(mapping, b) = {}
  <2> DEFINE N == emplace(mapping, rest, it.start - 1, op.val)
  <2>1. /\ N \subseteq Entry /\ Apart(N)
        /\ \A e \in N : e \in mapping \/ (e.start = rest /\ e.end = it.start - 1)
        /\ \A b \in 0 .. Top :
              Stored(N, b) = IF rest <= b /\ b <= it.start - 1 THEN {op.val}
                                    ELSE Stored(mapping, b)
        /\ \A b \in 0 .. Top : rest <= b /\ b <= it.start - 1 => Stored(mapping, b) = {}
    BY <1>2, <1>4, <1>5, <1>6, EmplaceGap
  <2>2. mapping' = N
    BY <1>1, <1>2
  <2> HIDE DEF N
  <2> QED
    BY <2>1, <2>2
<1>8. Changed(rest, it.start - 1, op.val, op.strong)
  BY <1>7 DEF Changed, NewValues, Old
<1>12. it.start - 1 \in rest .. hi /\ rest' = (it.start - 1) + 1
  BY <1>1, <1>2, <1>3, MapNumbers, EntryNumbers
<1>9. rest' \in lo .. hi
  BY <1>1, <1>2, <1>3, MapNumbers, EntryNumbers
<1>10. TypeOK'
  BY <1>1, <1>7, <1>9 DEF TypeOK, lo, hi
<1>11. \A e \in mapping' : /\ e.start < rest' => e.end < rest'
                           /\ e.start <= hi => e.end <= hi
  <2> SUFFICES ASSUME NEW e \in mapping'
               PROVE  (e.start < it.start => e.end < it.start) /\ (e.start <= hi => e.end <= hi)
    BY <1>2
  <2>1. CASE e \in mapping
    BY <2>1, <1>1, <1>2, <1>3, MapNumbers, EntryNumbers DEF Aligned, Apart, Disjoint
  <2>2. CASE e.start = rest /\ e.end = it.start - 1
    BY <2>2, <1>1, <1>2, <1>3, MapNumbers, EntryNumbers
  <2> QED
    BY <2>1, <2>2, <1>7
<1> QED
  BY <1>1, <1>7, <1>8, <1>10, <1>11, <1>12 DEF Disjoint, Aligned, hi

LEMMA FillEntryStep ==
    ASSUME MapInv, FillEntry
    PROVE  /\ MapInv' /\ pc = "fill"
           /\ \E z \in rest .. hi :
                 /\ Changed(rest, z, op.val, op.strong)
                 /\ \/ z = hi /\ pc' = "idle" /\ op' = None
                    \/ rest' = z + 1 /\ UNCHANGED <<pc, op>>
<1> USE DEF MapInv
<1>1. PICK it \in FindGe(mapping, rest) :
         /\ it.start = rest
         /\ mapping' = (mapping \ {it}) \cup {addValue(it, op.val, op.strong)}
         /\ \/ it.end = hi /\ Return
            \/ it.end # hi /\ rest' = it.end + 1 /\ UNCHANGED <<pc, op>>
  BY DEF FillEntry
<1>2. pc = "fill" /\ it \in mapping
  BY DEF FillEntry, FindGe
<1>3. mapping \in SUBSET Entry /\ Apart(mapping)
  BY DEF TypeOK, Disjoint
<1>4. op.val \in Value /\ op.strong \in BOOLEAN
  BY <1>2, MapNumbers
<1>5. /\ mapping' \subseteq Entry /\ Apart(mapping')
      /\ \A e \in mapping' : \E d \in mapping : d.start = e.start /\ d.end = e.end
      /\ \A b \in 0 .. Top :
            Stored(mapping', b) = IF it.start <= b /\ b <= it.end
                                  THEN NewValues(Stored(mapping, b), op.val, op.strong)
                                  ELSE Stored(mapping, b)
  <2>1. Rewritten(mapping, mapping', it, op.val, op.strong)
    BY <1>1, <1>2, <1>3, <1>4, WriteEntry
  <2> QED
    BY <2>1 DEF Rewritten
<1>6. it.end \in rest .. hi
  BY <1>1, <1>2, MapNumbers, EntryNumbers DEF Aligned
<1>7. Changed(rest, it.end, op.val, op.strong)
  BY <1>1, <1>5 DEF Changed, Old
<1>8. CASE it.end = hi /\ Return
  BY <1>2, <1>5, <1>6, <1>7, <1>8 DEF TypeOK, Disjoint, Aligned, Return
<1>9. CASE it.end # hi /\ rest' = it.end + 1 /\ UNCHANGED <<pc, op>>
  <2>1. rest' \in lo .. hi
    BY <1>2, <1>6, <1>9, MapNumbers
  <2>2. TypeOK'
    BY <1>2, <1>5, <1>9, <2>1 DEF TypeOK, lo, hi
  <2>3. \A e \in mapping' : /\ e.start < rest' => e.end < rest'
                            /\ e.start <= hi => e.end <= hi
    <3> SUFFICES ASSUME NEW e \in mapping'
                 PROVE  (e.start < it.end + 1 => e.end < it.end + 1) /\ (e.start <= hi => e.end <= hi)
      BY <1>9
    <3>1. PICK d \in mapping : d.start = e.start /\ d.end = e.end
      BY <1>5
    <3>2. d = it \/ d.end < it.start \/ it.end < d.start
      BY <1>2 DEF Disjoint, Apart
    <3> QED
      BY <1>1, <1>2, <3>1, <3>2, MapNumbers, EntryNumbers DEF Aligned
  <2> QED
    BY <1>2, <1>5, <1>6, <1>7, <1>9, <2>2, <2>3 DEF Disjoint, Aligned, hi
<1> QED
  BY <1>1, <1>8, <1>9

LEMMA AddToAllStep ==
    ASSUME MapInv, NEW v \in Value, AddToAll(v)
    PROVE  /\ MapInv' /\ pc = "idle" /\ pc' = "idle"
           /\ \A b \in 0 .. Top :
                 Stored(mapping', b) = IF Old(b) = {} THEN {} ELSE Old(b) \cup {v}
<1> USE DEF MapInv
<1>1. mapping' = {addValue(e, v, FALSE) : e \in mapping} /\ pc = "idle" /\ UNCHANGED <<pc, op, rest>>
  BY DEF AddToAll
<1>2. mapping \in SUBSET Entry /\ Apart(mapping)
  BY DEF TypeOK, Disjoint
<1>3. /\ mapping' \subseteq Entry /\ Apart(mapping')
      /\ \A b \in 0 .. Top :
            Stored(mapping', b) = IF Stored(mapping, b) = {} THEN {} ELSE Stored(mapping, b) \cup {v}
  BY <1>1, <1>2, WriteAll
<1> QED
  BY <1>1, <1>3 DEF TypeOK, Disjoint, Aligned, Old

LEMMA MapInitInv == MapInit => MapInv
  BY DEF MapInit, MapInv, TypeOK, Disjoint, Apart, Aligned

LEMMA MapNextInv == MapInv /\ [MapNext]_mapVars => MapInv'
<1> SUFFICES ASSUME MapInv, MapNext \/ UNCHANGED mapVars PROVE MapInv'
  OBVIOUS
<1>1. ASSUME NEW o \in Operation, Call(o) PROVE MapInv'
  BY <1>1, CallStep
<1>2. CASE AddFirst
  BY <1>2, AddFirstStep
<1>3. CASE Split
  BY <1>3, SplitStep
<1>4. CASE FillRest
  BY <1>4, FillRestStep
<1>5. CASE FillGap
  BY <1>5, FillGapStep
<1>6. CASE FillEntry
  BY <1>6, FillEntryStep
<1>7. ASSUME NEW v \in Value, AddToAll(v) PROVE MapInv'
  BY <1>7, AddToAllStep
<1>8. CASE UNCHANGED mapVars
  BY <1>8 DEF mapVars, MapInv, TypeOK, Disjoint, Apart, Aligned, lo, hi
<1> QED
  BY <1>1, <1>2, <1>3, <1>4, <1>5, <1>6, <1>7, <1>8 DEF MapNext

LEMMA MapInvariant == MapSpec => []MapInv
  BY MapInitInv, MapNextInv, PTL DEF MapSpec

\* The variables keep their types: entries stay within the bytes, and the rest of an
\* interval never runs past its end (the loop of _add).
THEOREM MapTypeCorrect == MapSpec => []TypeOK
<1>1. MapInv => TypeOK
  BY DEF MapInv
<1> QED
  BY <1>1, MapInvariant, PTL

\* No two entries ever share a byte, what _check() asserts after every step of _add.
THEOREM EntriesDisjoint == MapSpec => []Disjoint
<1>1. MapInv => Disjoint
  BY DEF MapInv
<1> QED
  BY <1>1, MapInvariant, PTL

-----------------------------------------------------------------------------
(* The refinement.                                                           *)

\* The abstract map has a request while an operation runs.
LEMMA Requests ==
    ASSUME TypeOK
    PROVE  (op = None <=> pc = "idle") /\ (op # None => op \in BM!Request)
<1>1. Operation \subseteq BM!Request
  BY DEF Operation, Interval, BM!Request
<1> QED
  BY <1>1, NoneAssumption DEF TypeOK

LEMMA MapInitRefines == MapInit => BM!Init
  BY DEF MapInit, BM!Init, Bytes, Stored

LEMMA MapNextRefines == MapInv /\ [MapNext]_mapVars => [BM!Next]_(BM!vars)
<1> SUFFICES ASSUME MapInv, MapNext \/ UNCHANGED mapVars PROVE BM!Next \/ UNCHANGED BM!vars
  OBVIOUS
<1>0. pc # "idle" => rest \in Nat /\ hi \in Nat /\ rest <= hi /\ hi <= Top
  BY MapNumbers DEF MapInv
<1>00. (op = None <=> pc = "idle") /\ (op # None => op \in BM!Request)
  BY Requests DEF MapInv
<1>1. ASSUME NEW o \in Operation, Call(o) PROVE BM!Write
  <2>1. /\ mapping' = mapping /\ pc = "idle" /\ pc' = "split"
        /\ op' = o /\ rest' = o.interval.lo /\ MapInv'
    BY <1>1, CallStep
  <2>2. op' \in BM!Request /\ op = None
    BY <1>00, <2>1 DEF Operation, Interval, BM!Request
  <2>3. Bytes = [b \in 0 .. Top |-> Stored(mapping, b)]
    BY <2>1 DEF Bytes
  <2>4. hi' = o.interval.hi
    BY <2>1 DEF hi
  <2>5. Bytes' = [b \in 0 .. Top |->
                     IF o.interval.lo <= b /\ b <= o.interval.hi
                     THEN IF o.strong THEN {o.val} ELSE Stored(mapping, b) \cup {o.val}
                     ELSE Stored(mapping, b)]
    BY <2>1, <2>4 DEF Bytes
  <2>6. Bytes' = BM!Written(op')
    BY <2>1, <2>3, <2>5 DEF BM!Written
  <2> QED
    BY <2>2, <2>6 DEF BM!Write
<1>2. CASE AddFirst
  <2>1. Changed(rest, hi, op.val, op.strong) /\ pc = "split" /\ pc' = "idle" /\ op' = None
    BY <1>2, AddFirstStep
  <2>2. Bytes' = [b \in 0 .. Top |-> Stored(mapping', b)]
    BY <2>1 DEF Bytes
  <2>3. Bytes' = Bytes
    BY <2>1, <2>2 DEF Bytes, Changed, Old, NewValues
  <2> QED
    BY <1>00, <2>1, <2>3 DEF BM!End, BM!Next
<1>3. CASE Split
  <2>1. /\ \A b \in 0 .. Top : Stored(mapping', b) = Stored(mapping, b)
        /\ pc = "split" /\ pc' = "fill" /\ op' = op /\ rest' = rest
    BY <1>3, SplitStep DEF Old
  <2>2. hi' = hi
    BY <2>1 DEF hi
  <2> QED
    BY <2>1, <2>2 DEF Bytes, BM!vars
<1>4. CASE FillRest
  <2>1. Changed(rest, hi, op.val, op.strong) /\ pc = "fill" /\ pc' = "idle" /\ op' = None
    BY <1>4, FillRestStep
  <2>2. Bytes' = [b \in 0 .. Top |-> Stored(mapping', b)]
    BY <2>1 DEF Bytes
  <2>3. Bytes' = Bytes
    BY <2>1, <2>2 DEF Bytes, Changed, Old, NewValues
  <2> QED
    BY <1>00, <2>1, <2>3 DEF BM!End, BM!Next
<1>5. CASE FillGap
  <2>1. PICK z \in rest .. hi : Changed(rest, z, op.val, op.strong) /\ rest' = z + 1
    BY <1>5, FillGapStep
  <2>2. pc = "fill" /\ pc' = pc /\ op' = op /\ hi' = hi
    BY <1>5, FillGapStep DEF hi
  <2>3. ASSUME NEW b \in 0 .. Top
        PROVE  (IF rest' <= b /\ b <= hi THEN NewValues(Stored(mapping', b), op.val, op.strong)
                ELSE Stored(mapping', b))
             = (IF rest <= b /\ b <= hi THEN NewValues(Stored(mapping, b), op.val, op.strong)
                ELSE Stored(mapping, b))
    BY <1>0, <2>1, <2>2 DEF Changed, Old
  <2> QED
    BY <2>2, <2>3 DEF Bytes, NewValues, BM!vars
<1>6. CASE FillEntry
  <2>1. PICK z \in rest .. hi :
           /\ Changed(rest, z, op.val, op.strong) /\ pc = "fill"
           /\ \/ z = hi /\ pc' = "idle" /\ op' = None
              \/ rest' = z + 1 /\ UNCHANGED <<pc, op>>
    BY <1>6, FillEntryStep
  <2>2. CASE z = hi /\ pc' = "idle" /\ op' = None
    <3>1. Bytes' = [b \in 0 .. Top |-> Stored(mapping', b)]
      BY <2>2 DEF Bytes
    <3>2. Bytes' = Bytes
      BY <2>1, <2>2, <3>1 DEF Bytes, Changed, Old, NewValues
    <3> QED
      BY <1>00, <2>1, <2>2, <3>2 DEF BM!End, BM!Next
  <2>3. CASE rest' = z + 1 /\ UNCHANGED <<pc, op>>
    <3>1. hi' = hi
      BY <2>3 DEF hi
    <3>2. ASSUME NEW b \in 0 .. Top
          PROVE  (IF rest' <= b /\ b <= hi THEN NewValues(Stored(mapping', b), op.val, op.strong)
                  ELSE Stored(mapping', b))
               = (IF rest <= b /\ b <= hi THEN NewValues(Stored(mapping, b), op.val, op.strong)
                  ELSE Stored(mapping, b))
      BY <1>0, <2>1, <2>3 DEF Changed, Old
    <3> QED
      BY <2>1, <2>3, <3>1, <3>2 DEF Bytes, NewValues, BM!vars
  <2> QED
    BY <2>1, <2>2, <2>3
<1>7. ASSUME NEW v \in Value, AddToAll(v) PROVE BM!WriteDefined
  <2>0. op = None /\ op' = op
    BY <1>7, <1>00 DEF AddToAll
  <2>1. /\ pc = "idle" /\ pc' = "idle"
        /\ \A b \in 0 .. Top : Stored(mapping', b) =
              IF Stored(mapping, b) = {} THEN {} ELSE Stored(mapping, b) \cup {v}
    BY <1>7, AddToAllStep DEF Old
  <2>2. Bytes = [b \in 0 .. Top |-> Stored(mapping, b)]
    BY <2>1 DEF Bytes
  <2>3. Bytes' = [b \in 0 .. Top |-> Stored(mapping', b)]
    BY <2>1 DEF Bytes
  <2>4. Bytes' = [b \in 0 .. Top |-> IF Bytes[b] = {} THEN {} ELSE Bytes[b] \cup {v}]
    BY <2>1, <2>2, <2>3
  <2> QED
    BY <2>0, <2>4 DEF BM!WriteDefined
<1>8. CASE UNCHANGED mapVars
  BY <1>8 DEF mapVars, Bytes, hi, BM!vars
<1> QED
  BY <1>1, <1>2, <1>3, <1>4, <1>5, <1>6, <1>7, <1>8 DEF MapNext, BM!Next

\* Whatever the calls and however their intervals overlap, the map holds for every byte what
\* the calls of add, update and addAll make of it; splitting and filling change no other byte.
THEOREM MapImplemented == MapSpec => MapImplements
  BY MapInvariant, MapInitRefines, MapNextRefines, PTL DEF MapSpec, MapImplements, BM!Spec

-----------------------------------------------------------------------------
(* The queries, and a whole write.                                           *)

\* A set of naturals has a least member, and a greatest one if it is bounded.
LEMMA LeastMember ==
    ASSUME NEW T \in SUBSET Nat, T # {}
    PROVE  \E x \in T : \A y \in T : x <= y
<1> DEFINE R == OpToRel(<, Nat)
<1>1. IsWellFoundedOn(R, Nat)
  BY NatLessThanWellFounded
<1> HIDE DEF R
<1>2. PICK x \in T : \A y \in T : ~ (<<y, x>> \in R)
  BY <1>1, WFMin
<1>3. \A y \in T : y < x => <<y, x>> \in R
  BY SMT DEF R, OpToRel
<1>4. \A y \in T : ~ (y < x)
  BY <1>2, <1>3, Zenon
<1> QED
  BY <1>4

LEMMA GreatestMember ==
    ASSUME NEW n \in Nat, NEW T \in SUBSET (0 .. n), T # {}
    PROVE  \E x \in T : \A y \in T : y <= x
<1> DEFINE U == {n - y : y \in T}
<1>1. U \in SUBSET Nat /\ U # {}
  <2>1. \A y \in T : y \in 0 .. n /\ n - y \in Nat
    OBVIOUS
  <2>2. PICK y \in T : TRUE
    OBVIOUS
  <2> QED
    BY <2>1, <2>2
<1>2. PICK u \in U : \A w \in U : u <= w
  BY <1>1, LeastMember
<1>3. PICK x \in T : u = n - x
  OBVIOUS
<1>4. ASSUME NEW y \in T PROVE y <= x
  <2>1. n - y \in U
    OBVIOUS
  <2>2. u <= n - y
    BY <1>2, <2>1
  <2> QED
    BY <1>3, <2>2
<1> QED
  BY <1>3, <1>4

\* A map M of disjoint entries, as the queries find it.
LEMMA ApartNumbers ==
    ASSUME NEW M \in SUBSET Entry, Apart(M)
    PROVE  /\ \A e \in M : /\ e.start \in Nat /\ e.end \in Nat /\ e.start <= e.end
                           /\ e.end <= Top /\ e.vals # {}
           /\ \A e, f \in M : e # f => e.end < f.start \/ f.end < e.start
  BY DEF Apart, Entry

\* The entries at or behind the first one that le() finds and up to hi are those that
\* share a byte with the interval.
LEMMA LeFinds ==
    ASSUME NEW M \in SUBSET Entry, Apart(M), NEW lo_ \in Nat, NEW hi_ \in Nat, lo_ <= hi_,
           NEW e \in M, e.start <= hi_
    PROVE  (\E f \in le(M, lo_, hi_) : f.start <= e.start) <=> lo_ <= e.end
<1>0. /\ \A d \in M : d.start \in Nat /\ d.end \in Nat /\ d.start <= d.end
      /\ \A c, d \in M : c # d => c.end < d.start \/ d.end < c.start
  BY ApartNumbers
<1> DEFINE prev == {d \in Before(M, lo_) : lo_ <= d.end}
           next == {d \in FindGe(M, lo_) : d.start <= hi_}
<1>1. le(M, lo_, hi_) = IF prev # {} THEN prev ELSE next
  BY DEF le
<1>2. ASSUME NEW f \in le(M, lo_, hi_), f.start <= e.start PROVE lo_ <= e.end
  <2>1. f \in M /\ (lo_ <= f.end \/ lo_ <= f.start)
    BY <1>1 DEF Before, FindGe
  <2> QED
    BY <1>0, <1>2, <2>1
<1>3. ASSUME lo_ <= e.end PROVE \E f \in le(M, lo_, hi_) : f.start <= e.start
  <2>1. CASE e.start < lo_
    <3>1. \A f \in M : f.start < lo_ => f.start <= e.start
      BY <1>0, <1>3, <2>1
    <3>2. e \in prev
      BY <1>3, <2>1, <3>1 DEF Before
    <3> QED
      BY <1>0, <1>1, <3>2
  <2>2. CASE ~ (e.start < lo_)
    <3>1. CASE prev # {}
      <4>1. PICK f \in prev : TRUE
        BY <3>1
      <4>2. f \in M /\ f.start < lo_ /\ f \in le(M, lo_, hi_)
        BY <1>1, <4>1 DEF Before
      <4> QED
        BY <1>0, <2>2, <4>2
    <3>2. CASE prev = {}
      <4> DEFINE T == {d.start : d \in {d \in M : lo_ <= d.start}}
      <4>1. T \in SUBSET Nat /\ e.start \in T
        BY <1>0, <2>2
      <4>2. PICK x \in T : \A y \in T : x <= y
        BY <4>1, LeastMember
      <4>3. PICK f \in M : lo_ <= f.start /\ x = f.start
        BY <4>2
      <4>4. \A d \in M : lo_ <= d.start => d.start \in T
        OBVIOUS
      <4>5. f \in FindGe(M, lo_)
        BY <4>2, <4>3, <4>4 DEF FindGe
      <4>6. f.start <= e.start
        BY <4>1, <4>2, <4>3
      <4>7. f \in next
        BY <1>0, <4>5, <4>6
      <4> QED
        BY <1>1, <3>2, <4>6, <4>7
    <3> QED
      BY <3>1, <3>2
  <2> QED
    BY <2>1, <2>2
<1> QED
  BY <1>2, <1>3

\* gather() collects the values of the bytes of the interval.
LEMMA GatherExact ==
    ASSUME NEW M \in SUBSET Entry, Apart(M), NEW i \in Interval
    PROVE  gather(M, i.lo, i.hi) = UNION {Stored(M, b) : b \in i.lo .. i.hi}
<1>0. \A d \in M : d.start \in Nat /\ d.end \in Nat /\ d.start <= d.end
  BY ApartNumbers
<1>1. i.lo \in Nat /\ i.hi \in Nat /\ i.lo <= i.hi
  BY IntervalNumbers
<1>2. ASSUME NEW v \in gather(M, i.lo, i.hi)
      PROVE  v \in UNION {Stored(M, b) : b \in i.lo .. i.hi}
  <2>1. PICK e \in M : /\ v \in e.vals /\ e.start <= i.hi
                       /\ \E f \in le(M, i.lo, i.hi) : f.start <= e.start
    BY DEF gather
  <2>2. i.lo <= e.end
    BY <1>1, <2>1, LeFinds
  <2>3. \E b \in i.lo .. i.hi : e.start <= b /\ b <= e.end
    <3>1. CASE i.lo <= e.start
      BY <1>0, <1>1, <2>1, <3>1
    <3>2. CASE ~ (i.lo <= e.start)
      BY <1>0, <1>1, <2>2, <3>2
    <3> QED
      BY <3>1, <3>2
  <2> QED
    BY <2>1, <2>3 DEF Stored
<1>3. ASSUME NEW b \in i.lo .. i.hi, NEW v \in Stored(M, b)
      PROVE  v \in gather(M, i.lo, i.hi)
  <2>1. PICK e \in M : e.start <= b /\ b <= e.end /\ v \in e.vals
    BY DEF Stored
  <2>2. e.start <= i.hi /\ i.lo <= e.end
    BY <1>0, <1>1, <2>1
  <2>3. \E f \in le(M, i.lo, i.hi) : f.start <= e.start
    BY <1>1, <2>2, LeFinds
  <2> QED
    BY <2>1, <2>2, <2>3 DEF gather
<1> QED
  BY <1>2, <1>3

\* What le() finds is the first entry that shares a byte with the interval.
LEMMA LeFirst ==
    ASSUME NEW M \in SUBSET Entry, Apart(M), NEW lo_ \in Nat, NEW hi_ \in Nat, lo_ <= hi_
    PROVE  le(M, lo_, hi_) = FirstOverlap(M, lo_, hi_)
<1>0. /\ \A d \in M : d.start \in Nat /\ d.end \in Nat /\ d.start <= d.end
      /\ \A c, d \in M : c # d => c.end < d.start \/ d.end < c.start
  BY ApartNumbers
<1> DEFINE prev == {d \in Before(M, lo_) : lo_ <= d.end}
           next == {d \in FindGe(M, lo_) : d.start <= hi_}
           meet == {d \in M : d.start <= hi_ /\ lo_ <= d.end}
           first == {d \in meet : \A f \in meet : d.start <= f.start}
<1>1. le(M, lo_, hi_) = (IF prev # {} THEN prev ELSE next) /\ FirstOverlap(M, lo_, hi_) = first
  BY DEF le, FirstOverlap
<1>2. ASSUME NEW e \in meet, e.start < lo_ PROVE e \in prev
  <2>1. ASSUME NEW g \in M, g.start < lo_ PROVE g.start <= e.start
    <3>1. CASE g = e
      BY <1>0, <2>1, <3>1
    <3>2. CASE g # e
      <4>1. g.end < e.start \/ e.end < g.start
        BY <1>0, <2>1, <3>2
      <4> QED
        BY <1>0, <1>2, <2>1, <4>1
    <3> QED
      BY <3>1, <3>2
  <2> QED
    BY <1>2, <2>1 DEF Before
<1>3. ASSUME NEW e \in prev PROVE e \in first
  <2>1. e \in meet /\ e.start < lo_
    BY <1>0, <1>3 DEF Before
  <2>2. ASSUME NEW f \in meet PROVE e.start <= f.start
    <3>1. CASE f.start < lo_
      <4>1. f \in prev
        BY <1>2, <2>2, <3>1
      <4> QED
        BY <1>0, <1>3, <3>1, <4>1 DEF Before
    <3>2. CASE ~ (f.start < lo_)
      BY <1>0, <2>1, <2>2, <3>2
    <3> QED
      BY <3>1, <3>2
  <2> QED
    BY <2>1, <2>2
<1>4. ASSUME NEW e \in first PROVE e \in le(M, lo_, hi_)
  <2>1. e \in meet /\ e \in M /\ e.start \in Nat /\ e.start <= hi_ /\ lo_ <= e.end
    BY <1>0, <1>4
  <2>2. CASE e.start < lo_
    <3>1. e \in prev
      BY <1>2, <2>1, <2>2
    <3> QED
      BY <1>1, <3>1
  <2>3. CASE ~ (e.start < lo_)
    <3>1. prev = {}
      <4> SUFFICES ASSUME NEW d \in prev PROVE FALSE
        OBVIOUS
      <4>1. d \in meet /\ d \in M /\ d.start < lo_
        BY <1>0 DEF Before
      <4>2. e.start <= d.start
        BY <1>4, <4>1
      <4> QED
        BY <1>0, <2>1, <2>3, <4>1, <4>2
    <3>2. ASSUME NEW f \in M, lo_ <= f.start PROVE e.start <= f.start
      <4>1. CASE f.start <= hi_
        <5>1. f \in meet
          BY <1>0, <3>2, <4>1
        <5> QED
          BY <1>4, <5>1
      <4>2. CASE ~ (f.start <= hi_)
        BY <1>0, <2>1, <3>2, <4>2
      <4> QED
        BY <4>1, <4>2
    <3>3. e \in next
      BY <2>1, <2>3, <3>2 DEF FindGe
    <3> QED
      BY <1>1, <3>1, <3>3
  <2> QED
    BY <2>2, <2>3
<1>5. ASSUME prev = {}, NEW e \in next PROVE e \in first
  <2>1. e \in M /\ lo_ <= e.start /\ e.start <= hi_ /\ \A f \in M : lo_ <= f.start => e.start <= f.start
    BY <1>5 DEF FindGe
  <2>2. e \in meet
    BY <1>0, <2>1
  <2>3. ASSUME NEW f \in meet PROVE e.start <= f.start
    <3>1. ~ (f.start < lo_)
      BY <1>2, <1>5, <2>3
    <3> QED
      BY <1>0, <2>1, <2>3, <3>1
  <2> QED
    BY <2>2, <2>3
<1> QED
  BY <1>1, <1>3, <1>4, <1>5

\* What uncovered() visits are entries that share a byte with the interval, and all
\* those that do, up to the first one that ends with it or behind it.
LEMMA VisitedFacts ==
    ASSUME NEW M \in SUBSET Entry, Apart(M), NEW i \in Interval
    PROVE  LET V == Visited(M, i.lo, i.hi) IN
           /\ V \subseteq M
           /\ \A e \in V : i.lo <= e.end \/ i.hi < e.start
           /\ \A e \in M : e.start <= i.hi /\ i.lo <= e.end => e \in V
<1> DEFINE V == Visited(M, i.lo, i.hi)
<1>0. /\ \A d \in M : d.start \in Nat /\ d.end \in Nat /\ d.start <= d.end
      /\ \A c, d \in M : c # d => c.end < d.start \/ d.end < c.start
  BY ApartNumbers
<1>1. i.lo \in Nat /\ i.hi \in Nat /\ i.lo <= i.hi
  BY IntervalNumbers
<1>2. V \subseteq M
  BY DEF Visited
<1>3. ASSUME NEW e \in V PROVE i.lo <= e.end \/ i.hi < e.start
  <2>1. e \in M /\ \E f \in le(M, i.lo, i.hi) : f.start <= e.start
    BY DEF Visited
  <2>2. CASE e.start <= i.hi
    BY <1>1, <2>1, <2>2, LeFinds
  <2> QED
    BY <1>0, <1>1, <2>1, <2>2
<1>4. ASSUME NEW e \in M, e.start <= i.hi, i.lo <= e.end PROVE e \in V
  <2>1. \E f \in le(M, i.lo, i.hi) : f.start <= e.start
    BY <1>1, <1>4, LeFinds
  <2>2. \A f \in M : f.start < e.start => f.end < i.hi
    BY <1>0, <1>1, <1>4
  <2> QED
    BY <2>1, <2>2 DEF Visited
<1> QED
  BY <1>2, <1>3, <1>4

\* The gap from b up to x, in front of the first visited entry behind it or at the end.
GapFrom(V, lo_, hi_, b, x) ==
    /\ b \in lo_ .. x - 1
    /\ b = lo_ \/ \E e \in V : b = e.end + 1 /\ e.start < x
    /\ \A e \in V : e.start < x => e.end < b
    /\ \/ \E e \in V : x = e.start
       \/ x = hi_ + 1 /\ \A e \in V : ~ (hi_ <= e.end)

LEMMA GapsAre ==
    ASSUME NEW V, NEW lo_, NEW hi_, NEW g
    PROVE  g \in GapsAmong(V, lo_, hi_)
             <=> \E b, x : g = [lo |-> b, hi |-> x - 1] /\ GapFrom(V, lo_, hi_, b, x)
<1> DEFINE last == {e \in V : hi_ <= e.end}
           From(x) == {b \in lo_ .. x - 1 :
               /\ b = lo_ \/ \E e \in V : b = e.end + 1 /\ e.start < x
               /\ \A e \in V : e.start < x => e.end < b}
           ends == {e.start : e \in V} \cup {x \in {hi_ + 1} : last = {}}
<1>1. GapsAmong(V, lo_, hi_) = UNION {{[lo |-> b, hi |-> x - 1] : b \in From(x)} : x \in ends}
  BY DEF GapsAmong
<1>2. \A x : x \in ends <=> \/ \E e \in V : x = e.start
                            \/ x = hi_ + 1 /\ \A e \in V : ~ (hi_ <= e.end)
  OBVIOUS
<1>3. \A b, x : GapFrom(V, lo_, hi_, b, x) <=> x \in ends /\ b \in From(x)
  BY <1>2, Zenon DEF GapFrom
<1> HIDE DEF From, ends
<1>4. g \in GapsAmong(V, lo_, hi_)
        <=> \E x \in ends : \E b \in From(x) : g = [lo |-> b, hi |-> x - 1]
  <2> DEFINE Gaps(x) == {[lo |-> b, hi |-> x - 1] : b \in From(x)}
  <2>1. g \in UNION {Gaps(x) : x \in ends} <=> \E x \in ends : g \in Gaps(x)
    <3> HIDE DEF Gaps
    <3> QED
      OBVIOUS
  <2>2. \A x : g \in Gaps(x) <=> \E b \in From(x) : g = [lo |-> b, hi |-> x - 1]
    OBVIOUS
  <2> QED
    BY <1>1, <2>1, <2>2
<1> QED
  BY <1>3, <1>4, Zenon

\* A byte of the interval is in a gap exactly if no entry has it, and a gap holds
\* nothing else up to the end of the interval and stays within the bytes.
LEMMA UncoveredExact ==
    ASSUME NEW M \in SUBSET Entry, Apart(M), NEW i \in Interval
    PROVE  LET gaps == UNION {g.lo .. g.hi : g \in uncovered(M, i.lo, i.hi)} IN
           /\ \A b \in i.lo .. i.hi : b \in gaps <=> \A e \in M : ~ (e.start <= b /\ b <= e.end)
           /\ \A b \in gaps : b \in i.lo .. Top
<1> DEFINE V == Visited(M, i.lo, i.hi)
           lo_ == i.lo
           hi_ == i.hi
           gaps == UNION {g.lo .. g.hi : g \in uncovered(M, i.lo, i.hi)}
<1>0. /\ \A d \in M : d.start \in Nat /\ d.end \in Nat /\ d.start <= d.end /\ d.end <= Top
      /\ \A c, d \in M : c # d => c.end < d.start \/ d.end < c.start
  BY ApartNumbers
<1>1. lo_ \in Nat /\ hi_ \in Nat /\ lo_ <= hi_ /\ hi_ <= Top /\ Top \in Nat
  BY IntervalNumbers
<1>2. /\ V \subseteq M
      /\ \A e \in V : lo_ <= e.end \/ hi_ < e.start
      /\ \A e \in M : e.start <= hi_ /\ lo_ <= e.end => e \in V
  BY VisitedFacts
<1>3. uncovered(M, lo_, hi_) = GapsAmong(V, lo_, hi_)
  BY DEF uncovered
<1> HIDE DEF V, lo_, hi_
<1>4. \A c : c \in gaps <=> \E b, x : GapFrom(V, lo_, hi_, b, x) /\ c \in b .. x - 1
  <2>1. \A c : c \in gaps <=> \E g \in GapsAmong(V, lo_, hi_) : c \in g.lo .. g.hi
    BY <1>3 DEF lo_, hi_
  <2>2. \A b, x, g : g = [lo |-> b, hi |-> x - 1] => g.lo = b /\ g.hi = x - 1
    OBVIOUS
  <2>3. ASSUME NEW c, NEW g \in GapsAmong(V, lo_, hi_), c \in g.lo .. g.hi
        PROVE  \E b, x : GapFrom(V, lo_, hi_, b, x) /\ c \in b .. x - 1
    <3>1. PICK b, x : g = [lo |-> b, hi |-> x - 1] /\ GapFrom(V, lo_, hi_, b, x)
      BY GapsAre
    <3> QED
      BY <2>2, <2>3, <3>1
  <2>4. ASSUME NEW c, NEW b, NEW x, GapFrom(V, lo_, hi_, b, x), c \in b .. x - 1
        PROVE  \E g \in GapsAmong(V, lo_, hi_) : c \in g.lo .. g.hi
    <3>1. [lo |-> b, hi |-> x - 1] \in GapsAmong(V, lo_, hi_)
      BY <2>4, GapsAre
    <3> QED
      BY <2>2, <2>4, <3>1
  <2> HIDE DEF gaps
  <2> QED
    BY <2>1, <2>3, <2>4
<1> HIDE DEF gaps
<1>5. ASSUME NEW b, NEW x, GapFrom(V, lo_, hi_, b, x)
      PROVE  b \in Nat /\ lo_ <= b /\ x \in Nat /\ x - 1 <= Top
  <2>1. x \in Nat /\ x - 1 <= Top
    BY <1>0, <1>1, <1>2, <1>5 DEF GapFrom
  <2> QED
    BY <1>1, <1>5, <2>1 DEF GapFrom
<1>6. ASSUME NEW c \in lo_ .. hi_, c \in gaps, NEW e \in M PROVE ~ (e.start <= c /\ c <= e.end)
  <2> SUFFICES ASSUME e.start <= c, c <= e.end PROVE FALSE
    OBVIOUS
  <2>1. PICK b, x : GapFrom(V, lo_, hi_, b, x) /\ c \in b .. x - 1
    BY <1>4, <1>6
  <2>2. b \in Nat /\ x \in Nat
    BY <1>5, <2>1
  <2>3. e \in V
    BY <1>0, <1>1, <1>2
  <2>4. e.start < x
    BY <1>0, <2>1, <2>2
  <2>5. e.end < b
    BY <2>1, <2>3, <2>4 DEF GapFrom
  <2> QED
    BY <1>0, <2>1, <2>2, <2>5
<1>7. ASSUME NEW c \in lo_ .. hi_, \A e \in M : ~ (e.start <= c /\ c <= e.end)
      PROVE  c \in gaps
  <2> DEFINE S == {e.start : e \in {e \in V : c < e.start}}
             E == {e.end : e \in {e \in V : e.start <= c}}
  <2>1. c \in Nat /\ lo_ <= c /\ c <= hi_
    BY <1>1
  <2>2. S \in SUBSET Nat /\ E \in SUBSET (0 .. c)
    BY <1>0, <1>2, <1>7, <2>1
  <2>3. \E x \in Nat :
          /\ c < x /\ \A e \in V : e.start < x <=> e.start <= c
          /\ \/ \E e \in V : x = e.start
             \/ x = hi_ + 1 /\ \A e \in V : ~ (hi_ <= e.end)
    <3>1. CASE S # {}
      <4>1. PICK x \in S : \A y \in S : x <= y
        BY <2>2, <3>1, LeastMember
      <4>2. PICK d \in V : x = d.start /\ c < d.start
        BY <4>1
      <4>3. \A e \in V : c < e.start => e.start \in S
        OBVIOUS
      <4>4. \A e \in V : e.start < x <=> e.start <= c
        BY <1>0, <1>2, <2>1, <4>1, <4>2, <4>3
      <4> QED
        BY <1>0, <1>2, <4>2, <4>4
    <3>2. CASE S = {}
      <4>1. \A e \in V : ~ (c < e.start)
        BY <3>2
      <4>2. \A e \in V : e.start <= c /\ e.end < c
        BY <1>0, <1>2, <1>7, <2>1, <4>1
      <4>3. \A e \in V : ~ (hi_ <= e.end) /\ e.start < hi_ + 1
        BY <1>0, <1>1, <1>2, <2>1, <4>2
      <4>4. hi_ + 1 \in Nat /\ c < hi_ + 1
        BY <1>1, <2>1
      <4> QED
        BY <4>2, <4>3, <4>4
    <3> QED
      BY <3>1, <3>2
  <2>4. PICK x \in Nat :
          /\ c < x /\ \A e \in V : e.start < x <=> e.start <= c
          /\ \/ \E e \in V : x = e.start
             \/ x = hi_ + 1 /\ \A e \in V : ~ (hi_ <= e.end)
    BY <2>3
  <2>5. \E b \in lo_ .. c : /\ b = lo_ \/ \E e \in V : b = e.end + 1 /\ e.start < x
                            /\ \A e \in V : e.start < x => e.end < b
    <3>1. CASE E = {}
      <4>1. \A e \in V : ~ (e.start <= c)
        BY <3>1
      <4> QED
        BY <1>1, <2>1, <2>4, <4>1
    <3>2. CASE E # {}
      <4>1. PICK z \in E : \A y \in E : y <= z
        BY <2>1, <2>2, <3>2, GreatestMember
      <4>2. PICK d \in V : z = d.end /\ d.start <= c
        BY <4>1
      <4>3. \A e \in V : e.start <= c => e.end \in E
        OBVIOUS
      <4>4. lo_ <= z /\ z < c /\ z \in Nat
        BY <1>0, <1>1, <1>2, <1>7, <2>1, <4>2
      <4>5. \A e \in V : e.start < x => e.end < z + 1
        <5> SUFFICES ASSUME NEW e \in V, e.start < x PROVE e.end < z + 1
          OBVIOUS
        <5>1. e.end \in E /\ e.end \in Nat
          BY <1>0, <1>2, <2>4, <4>3
        <5>2. e.end <= z
          BY <4>1, <5>1
        <5> HIDE DEF E
        <5> QED
          BY <4>4, <5>1, <5>2
      <4>6. z + 1 \in lo_ .. c /\ d.start < x
        BY <1>1, <2>1, <2>4, <4>2, <4>4
      <4> QED
        BY <4>2, <4>5, <4>6
    <3> QED
      BY <3>1, <3>2
  <2>6. PICK b \in lo_ .. c : /\ b = lo_ \/ \E e \in V : b = e.end + 1 /\ e.start < x
                              /\ \A e \in V : e.start < x => e.end < b
    BY <2>5
  <2>7. b \in lo_ .. x - 1 /\ c \in b .. x - 1
    BY <1>1, <2>1, <2>4
  <2>8. GapFrom(V, lo_, hi_, b, x)
    BY <2>4, <2>6, <2>7 DEF GapFrom
  <2> QED
    BY <1>4, <2>7, <2>8
<1>8. ASSUME NEW c \in gaps PROVE c \in lo_ .. Top
  <2>1. PICK b, x : GapFrom(V, lo_, hi_, b, x) /\ c \in b .. x - 1
    BY <1>4
  <2>2. b \in Nat /\ lo_ <= b /\ x \in Nat /\ x - 1 <= Top
    BY <1>5, <2>1
  <2> QED
    BY <1>1, <2>1, <2>2
<1> QED
  BY <1>6, <1>7, <1>8 DEF gaps, lo_, hi_

\* Every byte of a bounded set is in a run, and two runs are the same or apart.
LEMMA RunsPartition ==
    ASSUME NEW n \in Nat, NEW F \in SUBSET (0 .. n)
    PROVE  /\ \A r \in Runs(F) : /\ r.lo \in F /\ r.hi \in F /\ r.lo <= r.hi
                                 /\ \A c \in r.lo .. r.hi : c \in F
           /\ \A b \in F : \E r \in Runs(F) : r.lo <= b /\ b <= r.hi
           /\ \A r, s \in Runs(F) : r # s => r.hi < s.lo \/ s.hi < r.lo
<1>0. \A b \in F : b \in Nat /\ b <= n
  OBVIOUS
<1>1. \A r \in Runs(F) : /\ r.lo \in F /\ r.hi \in F /\ r.lo <= r.hi
                         /\ \A c \in r.lo .. r.hi : c \in F
                         /\ r.lo - 1 \notin F /\ r.hi + 1 \notin F
                         /\ r = [lo |-> r.lo, hi |-> r.hi]
  BY DEF Runs
<1>2. ASSUME NEW b \in F PROVE \E r \in Runs(F) : r.lo <= b /\ b <= r.hi
  <2> DEFINE A == {a \in F : a <= b /\ \A c \in a .. b : c \in F}
             Z == {z \in F : b <= z /\ \A c \in b .. z : c \in F}
  <2>1. b \in A /\ b \in Z /\ A \in SUBSET Nat /\ Z \in SUBSET (0 .. n)
    <3>1. b \in Nat /\ b <= n /\ b <= b /\ \A c \in b .. b : c \in F
      <4>1. \A c \in b .. b : c = b
        BY <1>0
      <4> QED
        BY <1>0, <4>1
    <3>2. b \in A /\ b \in Z
      BY <3>1
    <3>3. A \in SUBSET Nat /\ Z \in SUBSET (0 .. n)
      <4>1. A \subseteq F /\ Z \subseteq F
        OBVIOUS
      <4> HIDE DEF A, Z
      <4> QED
        BY <1>0, <4>1
    <3> QED
      BY <3>2, <3>3
  <2>2. PICK a \in A : \A y \in A : a <= y
    BY <2>1, LeastMember
  <2>3. PICK z \in Z : \A y \in Z : y <= z
    BY <2>1, GreatestMember
  <2>4. /\ a \in F /\ a <= b /\ \A c \in a .. b : c \in F
        /\ z \in F /\ b <= z /\ \A c \in b .. z : c \in F
    OBVIOUS
  <2>5. a - 1 \notin F
    <3> SUFFICES ASSUME a - 1 \in F PROVE FALSE
      OBVIOUS
    <3>1. \A c \in a - 1 .. b : c = a - 1 \/ c \in a .. b
      BY <1>0, <2>4
    <3>2. a - 1 <= b /\ \A c \in a - 1 .. b : c \in F
      BY <1>0, <2>4, <3>1
    <3>3. a - 1 \in A
      BY <3>2
    <3> QED
      BY <1>0, <2>2, <2>4, <3>3
  <2>6. z + 1 \notin F
    <3> SUFFICES ASSUME z + 1 \in F PROVE FALSE
      OBVIOUS
    <3>1. \A c \in b .. z + 1 : c = z + 1 \/ c \in b .. z
      BY <1>0, <2>4
    <3>2. b <= z + 1 /\ \A c \in b .. z + 1 : c \in F
      BY <1>0, <2>4, <3>1
    <3>3. z + 1 \in Z
      BY <3>2
    <3> QED
      BY <1>0, <2>3, <2>4, <3>3
  <2>7. \A c \in a .. z : c \in F
    BY <1>0, <2>4
  <2> HIDE DEF A, Z
  <2>8. [lo |-> a, hi |-> z] \in Runs(F)
    BY <1>0, <2>4, <2>5, <2>6, <2>7 DEF Runs
  <2> QED
    BY <2>4, <2>8
<1>3. ASSUME NEW r \in Runs(F), NEW s \in Runs(F), ~ (r.hi < s.lo \/ s.hi < r.lo)
      PROVE  r = s
  <2>1. /\ r.lo \in Nat /\ r.hi \in Nat /\ s.lo \in Nat /\ s.hi \in Nat
        /\ r.lo <= s.hi /\ s.lo <= r.hi
    BY <1>0, <1>1, <1>3
  <2>2. r.lo = s.lo
    <3>1. ~ (r.lo < s.lo)
      <4>1. r.lo < s.lo => s.lo - 1 \in r.lo .. r.hi
        BY <2>1
      <4> QED
        BY <1>1, <4>1
    <3>2. ~ (s.lo < r.lo)
      <4>1. s.lo < r.lo => r.lo - 1 \in s.lo .. s.hi
        BY <2>1
      <4> QED
        BY <1>1, <4>1
    <3> QED
      BY <2>1, <3>1, <3>2
  <2>3. r.hi = s.hi
    <3>1. ~ (r.hi < s.hi)
      <4>1. r.hi < s.hi => r.hi + 1 \in s.lo .. s.hi
        BY <2>1
      <4> QED
        BY <1>1, <4>1
    <3>2. ~ (s.hi < r.hi)
      <4>1. s.hi < r.hi => s.hi + 1 \in r.lo .. r.hi
        BY <2>1
      <4> QED
        BY <1>1, <4>1
    <3> QED
      BY <2>1, <3>1, <3>2
  <2> QED
    BY <1>1, <2>2, <2>3, Zenon
<1> QED
  BY <1>1, <1>2, <1>3

\* A whole write leaves disjoint entries that hold what the bytes had and the value.
LEMMA WrittenExact ==
    ASSUME NEW M \in SUBSET Entry, Apart(M), NEW i \in Interval,
           NEW v \in Value, NEW strong \in BOOLEAN
    PROVE  LET new == Written(M, i.lo, i.hi, {v}, strong) IN
           /\ Apart(new)
           /\ \A b \in 0 .. Top : Stored(new, b) =
                 IF i.lo <= b /\ b <= i.hi THEN NewValues(Stored(M, b), v, strong)
                 ELSE Stored(M, b)
<1> DEFINE lo_ == i.lo
           hi_ == i.hi
           cut == splitExtBorders(M, lo_, hi_)
           inner == {e \in cut : lo_ <= e.start /\ e.end <= hi_}
           free == {b \in lo_ .. hi_ : \A e \in inner : b < e.start \/ e.end < b}
           grown == {addValue(e, v, strong) : e \in inner}
           fresh == {[start |-> r.lo, end |-> r.hi, vals |-> {v}] : r \in Runs(free)}
           new == Written(M, lo_, hi_, {v}, strong)
<1>1. lo_ \in Nat /\ hi_ \in Nat /\ lo_ <= hi_ /\ hi_ <= Top /\ Top \in Nat
  BY IntervalNumbers
<1>2. /\ cut \subseteq Entry /\ Apart(cut)
      /\ \A b \in 0 .. Top : Stored(cut, b) = Stored(M, b)
      /\ \A e \in cut : (e.start < lo_ => e.end < lo_) /\ (e.start <= hi_ => e.end <= hi_)
  BY BordersSplit
<1>3. new = (cut \ inner) \cup grown \cup fresh
  BY DEF Written, Fill, addValue
<1> HIDE DEF cut, new, lo_, hi_
<1>4. /\ \A e \in cut : /\ e.start \in Nat /\ e.end \in Nat /\ e.start <= e.end
                        /\ e.end <= Top /\ e.vals # {}
      /\ \A e, f \in cut : e # f => e.end < f.start \/ f.end < e.start
  BY <1>2, ApartNumbers
<1>5. \A e \in cut \ inner : e.end < lo_ \/ hi_ < e.start
  BY <1>1, <1>2, <1>4
<1>6. free \in SUBSET (0 .. Top) /\ \A b \in free : b \in Nat /\ lo_ <= b /\ b <= hi_
  BY <1>1
<1>7. /\ \A r \in Runs(free) : /\ r.lo \in free /\ r.hi \in free /\ r.lo <= r.hi
                               /\ \A c \in r.lo .. r.hi : c \in free
      /\ \A b \in free : \E r \in Runs(free) : r.lo <= b /\ b <= r.hi
      /\ \A r, s \in Runs(free) : r # s => r.hi < s.lo \/ s.hi < r.lo
  BY <1>1, <1>6, RunsPartition
<1>8. \A g \in grown : \E e \in inner : /\ g = addValue(e, v, strong)
                                       /\ g.start = e.start /\ g.end = e.end
                                       /\ g.vals = NewValues(e.vals, v, strong)
  BY <1>2, AddValueEntry
<1>9. \A a \in fresh : \E r \in Runs(free) :
        /\ a = [start |-> r.lo, end |-> r.hi, vals |-> {v}]
        /\ a.start = r.lo /\ a.end = r.hi /\ a.vals = {v}
  <2> HIDE DEF free
  <2> QED
    OBVIOUS
<1>10. \A b \in free : \A e \in inner : b < e.start \/ e.end < b
  OBVIOUS
<1>11. \A e \in inner : e \in cut /\ lo_ <= e.start /\ e.end <= hi_
  OBVIOUS
<1>12. \A e \in inner : \A r \in Runs(free) : e.end < r.lo \/ r.hi < e.start
  <2> SUFFICES ASSUME NEW e \in inner, NEW r \in Runs(free), ~ (e.end < r.lo \/ r.hi < e.start)
               PROVE  FALSE
    OBVIOUS
  <2>1. /\ r.lo \in Nat /\ r.hi \in Nat /\ r.lo <= r.hi /\ e.start \in Nat /\ e.end \in Nat
        /\ e.start <= e.end
    BY <1>4, <1>6, <1>7, <1>11
  <2>2. \E c \in r.lo .. r.hi : e.start <= c /\ c <= e.end
    <3>1. CASE r.lo <= e.start
      BY <2>1, <3>1
    <3>2. CASE ~ (r.lo <= e.start)
      BY <2>1, <3>2
    <3> QED
      BY <3>1, <3>2
  <2>3. PICK c \in r.lo .. r.hi : e.start <= c /\ c <= e.end
    BY <2>2
  <2>4. c \in free /\ c \in Nat
    BY <1>6, <1>7
  <2> QED
    BY <1>10, <2>1, <2>3, <2>4
<1> HIDE DEF grown, fresh
<1>13. ASSUME NEW e \in new
       PROVE  e.start \in Nat /\ e.end \in Nat /\ e.start <= e.end /\ e.vals # {}
  <2>1. CASE e \in cut
    BY <1>4, <2>1
  <2>2. CASE e \in grown
    <3>1. PICK d \in inner : /\ e.start = d.start /\ e.end = d.end
                             /\ e.vals = NewValues(d.vals, v, strong)
      BY <1>8, <2>2
    <3>2. e.vals # {}
      BY <1>4, <3>1 DEF NewValues
    <3> QED
      BY <1>4, <1>11, <3>1, <3>2
  <2>3. CASE e \in fresh
    BY <1>6, <1>7, <1>9, <2>3
  <2> QED
    BY <1>3, <2>1, <2>2, <2>3
<1>14. ASSUME NEW e \in new, NEW f \in new, e # f PROVE e.end < f.start \/ f.end < e.start
  <2> HIDE DEF inner
  <2> DEFINE In(d) == lo_ <= d.start /\ d.end <= hi_
  <2>1. \A d \in grown \cup fresh : In(d)
    <3>1. \A d \in grown : In(d)
      BY <1>8, <1>11
    <3>2. \A d \in fresh : In(d)
      BY <1>6, <1>7, <1>9
    <3> QED
      BY <3>1, <3>2
  <2>2. ASSUME NEW c \in cut \ inner, NEW d \in grown \cup fresh
        PROVE  c.end < d.start \/ d.end < c.start
    <3>1. c \in new /\ d \in new
      BY <1>3
    <3>2. /\ c.start \in Nat /\ c.end \in Nat /\ d.start \in Nat /\ d.end \in Nat
          /\ c.end < lo_ \/ hi_ < c.start
      BY <1>5, <1>13, <3>1
    <3>3. lo_ <= d.start /\ d.end <= hi_
      BY <2>1
    <3> QED
      BY <1>1, <3>2, <3>3
  <2>3. ASSUME NEW c \in grown, NEW d \in grown, c # d
        PROVE  c.end < d.start \/ d.end < c.start
    <3>1. PICK g \in inner : c = addValue(g, v, strong) /\ c.start = g.start /\ c.end = g.end
      BY <1>8
    <3>2. PICK h \in inner : d = addValue(h, v, strong) /\ d.start = h.start /\ d.end = h.end
      BY <1>8
    <3>3. g # h /\ g \in cut /\ h \in cut
      BY <1>11, <2>3, <3>1, <3>2
    <3> QED
      BY <1>4, <3>1, <3>2, <3>3
  <2>4. ASSUME NEW c \in fresh, NEW d \in fresh, c # d
        PROVE  c.end < d.start \/ d.end < c.start
    <3>1. PICK r \in Runs(free) : /\ c = [start |-> r.lo, end |-> r.hi, vals |-> {v}]
                                  /\ c.start = r.lo /\ c.end = r.hi
      BY <1>9
    <3>2. PICK s \in Runs(free) : /\ d = [start |-> s.lo, end |-> s.hi, vals |-> {v}]
                                  /\ d.start = s.lo /\ d.end = s.hi
      BY <1>9
    <3>3. r # s
      BY <2>4, <3>1, <3>2
    <3> HIDE DEF free
    <3> QED
      BY <1>7, <3>1, <3>2, <3>3
  <2>5. ASSUME NEW c \in grown, NEW d \in fresh PROVE c.end < d.start \/ d.end < c.start
    <3>1. PICK g \in inner : c.start = g.start /\ c.end = g.end
      BY <1>8
    <3>2. PICK r \in Runs(free) : d.start = r.lo /\ d.end = r.hi
      BY <1>9
    <3> HIDE DEF free
    <3> QED
      BY <1>12, <3>1, <3>2
  <2>6. \A c, d \in cut \ inner : c # d => c.end < d.start \/ d.end < c.start
    BY <1>4
  <2> QED
    BY <1>3, <1>14, <2>2, <2>3, <2>4, <2>5, <2>6, Zenon
<1>15. Apart(new)
  BY <1>13, <1>14 DEF Apart
<1>16. ASSUME NEW b \in 0 .. Top
       PROVE  Stored(new, b) = IF lo_ <= b /\ b <= hi_
                               THEN NewValues(Stored(M, b), v, strong) ELSE Stored(M, b)
  <2> DEFINE Over(S) == {e \in S : e.start <= b /\ b <= e.end}
  <2>0. b \in Nat /\ Stored(M, b) = UNION {e.vals : e \in Over(cut)}
        /\ Stored(new, b) = UNION {e.vals : e \in Over(new)}
    BY <1>2 DEF Stored
  <2>1. CASE ~ (lo_ <= b /\ b <= hi_)
    <3>1. \A e \in inner \cup grown \cup fresh : ~ (e.start <= b /\ b <= e.end)
      <4>1. \A e \in inner \cup grown \cup fresh :
              e.start \in Nat /\ e.end \in Nat /\ lo_ <= e.start /\ e.end <= hi_
        BY <1>4, <1>6, <1>7, <1>8, <1>9, <1>11
      <4> HIDE DEF inner
      <4> QED
        BY <1>1, <2>0, <2>1, <4>1
    <3> HIDE DEF inner
    <3>2. Over(new) = Over(cut)
      BY <1>3, <3>1
    <3> QED
      BY <2>0, <2>1, <3>2
  <2>2. CASE lo_ <= b /\ b <= hi_ /\ b \in free
    <3> HIDE DEF inner
    <3>1. PICK r \in Runs(free) : r.lo <= b /\ b <= r.hi
      BY <1>7, <2>2
    <3>2. [start |-> r.lo, end |-> r.hi, vals |-> {v}] \in Over(new)
      BY <1>3, <3>1 DEF fresh
    <3>3. \A e \in cut : ~ (e.start <= b /\ b <= e.end)
      BY <1>1, <1>4, <1>5, <1>10, <1>11, <2>0, <2>2
    <3>4. \A e \in grown : ~ (e.start <= b /\ b <= e.end)
      BY <1>8, <1>11, <3>3
    <3>5. \A e \in Over(new) : e.vals = {v}
      BY <1>3, <1>9, <3>3, <3>4
    <3>6. Stored(new, b) = {v}
      BY <2>0, <3>2, <3>5
    <3>7. Stored(M, b) = {}
      BY <2>0, <3>3
    <3> QED
      BY <2>2, <3>6, <3>7 DEF NewValues
  <2>3. CASE lo_ <= b /\ b <= hi_ /\ b \notin free
    <3>1. PICK d \in inner : ~ (b < d.start \/ d.end < b)
      BY <1>1, <2>0, <2>3
    <3>2. d \in cut /\ d.start <= b /\ b <= d.end
      BY <1>4, <1>11, <2>0, <3>1
    <3> DEFINE g == addValue(d, v, strong)
    <3>3. g.start = d.start /\ g.end = d.end /\ g.vals = NewValues(d.vals, v, strong)
      BY <1>2, <3>2, AddValueEntry
    <3>4. g \in new
      BY <1>3 DEF grown
    <3> HIDE DEF g, inner
    <3>5. Over(cut) = {d}
      BY <1>4, <2>0, <3>2
    <3>6. Over(new) = {g}
      <4>1. g \in Over(new)
        BY <3>2, <3>3, <3>4
      <4>2. ASSUME NEW e \in Over(new) PROVE e = g
        <5>1. e \in new /\ e.start <= b /\ b <= e.end
          OBVIOUS
        <5>2. ~ (e.end < g.start) /\ ~ (g.end < e.start)
          BY <1>4, <1>13, <2>0, <3>2, <3>3, <5>1
        <5> QED
          BY <1>14, <3>4, <5>1, <5>2
      <4> QED
        BY <4>1, <4>2
    <3>7. Stored(M, b) = d.vals /\ Stored(new, b) = g.vals
      BY <2>0, <3>5, <3>6
    <3> QED
      BY <2>3, <3>3, <3>7
  <2> QED
    BY <2>1, <2>2, <2>3
<1> QED
  BY <1>15, <1>16 DEF new, lo_, hi_

\* The queries and a whole write compute from the entries what they should, byte by
\* byte, in every map that the operations of the interval map can build.
THEOREM QueriesCorrect == MapSpec => []QueriesExact
<1>1. ASSUME MapInv PROVE QueriesExact
  <2> SUFFICES ASSUME pc = "idle", NEW i \in Interval
               PROVE  LET gaps == UNION {g.lo .. g.hi : g \in uncovered(mapping, i.lo, i.hi)} IN
        /\ le(mapping, i.lo, i.hi) = FirstOverlap(mapping, i.lo, i.hi)
        /\ mapping # {} =>
              gather(mapping, i.lo, i.hi) = UNION {Stored(mapping, b) : b \in i.lo .. i.hi}
        /\ \A b \in i.lo .. i.hi : b \in gaps <=> Stored(mapping, b) = {}
        /\ \A b \in gaps : b <= Top /\ (Stored(mapping, b) = {} \/ b > i.hi)
        /\ \A v \in Value, strong \in BOOLEAN :
              LET new == Written(mapping, i.lo, i.hi, {v}, strong)
              IN  /\ Apart(new)
                  /\ \A b \in 0 .. Top :
                        Stored(new, b) =
                            BM!Written([interval |-> i, val |-> v, strong |-> strong])[b]
    BY DEF QueriesExact
  <2> DEFINE gaps == UNION {g.lo .. g.hi : g \in uncovered(mapping, i.lo, i.hi)}
  <2>1. mapping \in SUBSET Entry /\ Apart(mapping)
    BY <1>1 DEF MapInv, TypeOK, Disjoint
  <2>2. i.lo \in Nat /\ i.hi \in Nat /\ i.lo <= i.hi /\ i.hi <= Top /\ Top \in Nat
    BY IntervalNumbers
  <2>3. \A b : Stored(mapping, b) = {} <=> \A e \in mapping : ~ (e.start <= b /\ b <= e.end)
    <3>1. \A e \in mapping : e.vals # {}
      BY <2>1 DEF Apart
    <3> QED
      BY <3>1 DEF Stored
  <2>4. gather(mapping, i.lo, i.hi) = UNION {Stored(mapping, b) : b \in i.lo .. i.hi}
    BY <2>1, GatherExact
  <2>5. /\ \A b \in i.lo .. i.hi :
              b \in gaps <=> \A e \in mapping : ~ (e.start <= b /\ b <= e.end)
        /\ \A b \in gaps : b \in i.lo .. Top
    BY <2>1, UncoveredExact
  <2> HIDE DEF gaps
  <2>6. \A b \in i.lo .. i.hi : b \in gaps <=> Stored(mapping, b) = {}
    BY <2>3, <2>5
  <2>7. \A b \in gaps : b <= Top /\ (Stored(mapping, b) = {} \/ b > i.hi)
    <3> SUFFICES ASSUME NEW b \in gaps PROVE b <= Top /\ (Stored(mapping, b) = {} \/ b > i.hi)
      OBVIOUS
    <3>1. b \in i.lo .. Top
      BY <2>5
    <3>2. b \in i.lo .. i.hi \/ b > i.hi
      BY <2>2, <3>1
    <3> QED
      BY <2>2, <2>6, <3>1, <3>2
  <2>8. ASSUME NEW v \in Value, NEW strong \in BOOLEAN
        PROVE  LET new == Written(mapping, i.lo, i.hi, {v}, strong)
               IN  /\ Apart(new)
                   /\ \A b \in 0 .. Top :
                         Stored(new, b) =
                             BM!Written([interval |-> i, val |-> v, strong |-> strong])[b]
    <3> DEFINE new == Written(mapping, i.lo, i.hi, {v}, strong)
               r == [interval |-> i, val |-> v, strong |-> strong]
    <3>1. /\ Apart(new)
          /\ \A b \in 0 .. Top : Stored(new, b) =
                IF i.lo <= b /\ b <= i.hi THEN NewValues(Stored(mapping, b), v, strong)
                ELSE Stored(mapping, b)
      BY <2>1, WrittenExact
    <3> HIDE DEF new
    <3>2. \A b \in 0 .. Top : Bytes[b] = Stored(mapping, b)
      BY DEF Bytes
    <3>3. r.interval = i /\ r.val = v /\ r.strong = strong
      OBVIOUS
    <3> HIDE DEF r
    <3>4. \A b \in 0 .. Top : BM!Written(r)[b] =
             IF i.lo <= b /\ b <= i.hi THEN NewValues(Stored(mapping, b), v, strong)
             ELSE Stored(mapping, b)
      BY <3>2, <3>3 DEF BM!Written, NewValues
    <3>5. Apart(new) /\ \A b \in 0 .. Top : Stored(new, b) = BM!Written(r)[b]
      BY <3>1, <3>4
    <3> QED
      BY <3>5 DEF new, r
  <2>9. le(mapping, i.lo, i.hi) = FirstOverlap(mapping, i.lo, i.hi)
    BY <2>1, <2>2, LeFirst
  <2> QED
    BY <2>4, <2>6, <2>7, <2>8, <2>9 DEF gaps
<1> QED
  BY <1>1, MapInvariant, PTL
=============================================================================
