---------------------------- MODULE JsonSequence ----------------------------
(***************************************************************************)
(* What json.h promises of a Json::Value that is an array: a sequence that *)
(* grows with nulls as far as it is written to, that can be resized and    *)
(* cleared, and out of which an element can be removed.                    *)
(***************************************************************************)
EXTENDS Naturals, Sequences

CONSTANTS Element, Null, MaxLen

VARIABLE array

Resized(s, n) == [k \in 1 .. n |-> IF k \in DOMAIN s THEN s[k] ELSE Null]

(* Element i is assigned, which makes the sequence longer if need be.      *)
Assign(i, v) ==
    LET longer == IF i < Len(array) THEN array ELSE Resized(array, i + 1)
    IN  array' = [longer EXCEPT ![i + 1] = v]

Resize(n) == array' = Resized(array, n)

Without(i) ==
    [k \in 1 .. Len(array) - 1 |-> IF k <= i THEN array[k] ELSE array[k + 1]]

Remove(i) == i < Len(array) /\ array' = Without(i)

Init == array = <<>>

Next ==
    \/ \E i \in 0 .. MaxLen - 1, v \in Element : Assign(i, v)
    \/ \E n \in 0 .. MaxLen : Resize(n)
    \/ \E i \in 0 .. MaxLen - 1 : Remove(i)

Spec == Init /\ [][Next]_array
=============================================================================
