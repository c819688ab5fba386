--------------------------- MODULE MCPointsToSets ---------------------------
(* Instances of the points-to sets. *)
EXTENDS PointsToSets

MCUNKNOWN == 2147483647

P(t, o) == [target |-> t, offset |-> o]

\* Offset 62 is the last one with a bit of its own in a word of SmallOffsets,
\* 248 the last one in a word of AlignedSmallOffsets, 252 would fall on the
\* bit of the unknown offset there.
MCPointers == {P("a", 62), P("a", 252), P("a", MCUNKNOWN), P("b", 248)}

MCKinds == VectorKinds \cup {"OffsetsSet", "SeparateOffsets"}
=============================================================================
