----------------------------- MODULE JsonArray -----------------------------
(***************************************************************************)
(* An array of Json::Value (CommMan/json/jsoncpp.cpp): a map from indices  *)
(* to values that has holes where nothing was written, and whose size is   *)
(* its highest index + 1.  One action per call of its interface.           *)
(***************************************************************************)
EXTENDS Naturals, Sequences

CONSTANTS
    Element,   \* what is put into the array
    Null,      \* nullRef
    MaxLen     \* bound: indices that are used

ArrayAssumption == Null \in Element /\ MaxLen \in Nat

VARIABLES
    map,      \* value_.map_, empty while type_ is nullValue
    aborted   \* an assertion has failed

vars == <<map, aborted>>

Indices == 0 .. MaxLen - 1

LastIndex(m) == CHOOSE i \in DOMAIN m : \A j \in DOMAIN m : j <= i
Size(m) == IF DOMAIN m = {} THEN 0 ELSE LastIndex(m) + 1

(* operator[] const: a hole reads as null.                                 *)
At(m, i) == IF i \in DOMAIN m THEN m[i] ELSE Null

(* operator[](ArrayIndex), which puts a null where there is a hole, and    *)
(* what is assigned to the reference it returns.                           *)
Put(m, i, v) == [j \in DOMAIN m \cup {i} |-> IF j = i THEN v ELSE m[j]]
Erase(m, indices) == [j \in DOMAIN m \ indices |-> m[j]]

Init == map = [i \in {} |-> Null] /\ aborted = FALSE

Assign(i, v) ==
    /\ ~aborted
    /\ map' = Put(map, i, v)
    /\ UNCHANGED aborted

(* append: the element behind the last one is assigned.                    *)
append(v) == Size(map) < MaxLen /\ Assign(Size(map), v)

(* A reference that nobody assigns to.                                     *)
Touch(i) == Assign(i, At(map, i))

clear ==
    /\ ~aborted
    /\ map' = Erase(map, DOMAIN map)
    /\ UNCHANGED aborted

(* resize: a larger array is one whose last element is touched; of a       *)
(* smaller one the elements behind its end are erased, and the size is     *)
(* asserted then.                                                          *)
Behind(n) == {j \in DOMAIN map : j >= n}

resize(n) ==
    \/ n = 0 /\ clear
    \/ n > Size(map) /\ Touch(n - 1)
    \/ /\ ~aborted /\ n \in 1 .. Size(map)
       /\ Size(Erase(map, Behind(n))) = n
       /\ map' = Erase(map, Behind(n))
       /\ UNCHANGED aborted

(* The elements are erased, and the assertion fails: where the array is    *)
(* cut there is a hole, so that it is shorter than n.                      *)
ResizeAborts(n) ==
    /\ ~aborted /\ n \in 1 .. Size(map)
    /\ Size(Erase(map, Behind(n))) # n
    /\ map' = Erase(map, Behind(n))
    /\ aborted' = TRUE

(* removeIndex: what is behind i moves one to the left, its holes become   *)
(* nulls, and the last element is erased.  A hole is not removed.  Mutant: *)
(* the last element stays.                                                 *)
ShiftedOnly(i) ==
    [j \in DOMAIN map \cup i .. Size(map) - 2 |->
        IF j < i \/ j = Size(map) - 1 THEN map[j] ELSE At(map, j + 1)]

ShiftedLeft(i) ==
    [j \in (DOMAIN map \cup i .. Size(map) - 2) \ {Size(map) - 1} |->
        IF j < i THEN map[j] ELSE At(map, j + 1)]

removeIndex(i) ==
    /\ ~aborted /\ i \in DOMAIN map
    /\ map' = ShiftedLeft(i)
    /\ UNCHANGED aborted

Next ==
    \/ \E i \in Indices, v \in Element : Assign(i, v)
    \/ \E i \in Indices : Touch(i)
    \/ \E v \in Element : append(v)
    \/ \E n \in 0 .. MaxLen : resize(n) \/ ResizeAborts(n)
    \/ clear
    \/ \E i \in Indices : removeIndex(i)

Spec == Init /\ [][Next]_vars
-----------------------------------------------------------------------------
(* What a caller sees of the array.                                        *)
AsSequence == [k \in 1 .. Size(map) |-> At(map, k - 1)]

Abstract == INSTANCE JsonSequence WITH array <- AsSequence

(* The array is cut behind a hole, which goes with what was cut off:       *)
(* resize, whose assertion fails then, or the removal of the last element. *)
CutAtHole ==
    \E n \in 1 .. Size(map) : n - 1 \notin DOMAIN map /\ map' = Erase(map, Behind(n))

(* Through its interface the map with holes is a plain sequence, and no    *)
(* assertion fails, but for an array that is cut where it has a hole.      *)
ImplementsSequence ==
    /\ Abstract!Init
    /\ [][(Abstract!Next /\ ~aborted') \/ CutAtHole]_<<AsSequence, aborted>>

(* "assert(size() == newSize)" (CommMan/json/jsoncpp.cpp 3260), and        *)
(* "Resize the array to size elements" (json.h 726), of any array.         *)
ResizeHolds == ~aborted
=============================================================================
