------------------------------ MODULE ByteMap ------------------------------
(***************************************************************************)
(* What an interval map promises: a set of values for every single byte.   *)
(* A byte without values is not defined.  A write has its whole effect     *)
(* when it is requested and none when it ends; nothing is said of          *)
(* intervals that are stored.                                              *)
(***************************************************************************)
EXTENDS Naturals

CONSTANTS
    Top,      \* the last byte
    Value,    \* the values that bytes are mapped to
    None      \* no request

Request == [interval : [lo : 0 .. Top, hi : 0 .. Top], val : Value, strong : BOOLEAN]

VARIABLES
    bytes,    \* the values of the bytes
    request   \* the write that has not ended yet

vars == <<bytes, request>>

\* The bytes of an interval with a value added to, or put in place of, what they had.
Written(r) ==
    [b \in 0 .. Top |->
        IF r.interval.lo <= b /\ b <= r.interval.hi
        THEN IF r.strong THEN {r.val} ELSE bytes[b] \cup {r.val}
        ELSE bytes[b]]

Write ==
    /\ request = None
    /\ request' \in Request
    /\ bytes' = Written(request')

End ==
    /\ request # None
    /\ request' = None
    /\ UNCHANGED bytes

\* addAll: every byte that is defined.
WriteDefined ==
    /\ request = None
    /\ \E v \in Value :
          bytes' = [b \in 0 .. Top |-> IF bytes[b] = {} THEN {} ELSE bytes[b] \cup {v}]
    /\ UNCHANGED request

Init == bytes = [b \in 0 .. Top |-> {}] /\ request = None
Next == Write \/ End \/ WriteDefined
Spec == Init /\ [][Next]_vars
=============================================================================
