-------------------------------- MODULE Cursor --------------------------------
(***************************************************************************)
(* What the content iterators promise: a cursor over the elements of a     *)
(* publication, 1 .. length.  It is on an element, or in a gap between two *)
(* of them: place 2k - 1 is element k, place 2k the gap behind it, place 0 *)
(* the gap before the first one.                                           *)
(***************************************************************************)
EXTENDS Integers

VARIABLES
    length,   \* number of elements, or -1 before they are asked for
    place,    \* where the cursor is
    answer    \* the element the last successful call moved to, or 0

vars == <<length, place, answer>>

Elements == 1 .. length

After(p) == {k \in Elements : 2 * k - 1 > p}
Before(p) == {k \in Elements : 2 * k - 1 < p}

Init == length = -1 /\ place = 0 /\ answer = 0

\* A client opens the publication and is placed in one of the gaps.
Open ==
    /\ length = -1
    /\ length' \in Nat
    /\ \E k \in 0 .. length' : place' = 2 * k
    /\ UNCHANGED answer

\* "Moves to the next item and returns it, or nil if we reached the end."
Forward ==
    \/ \E k \in After(place) :
          /\ \A l \in After(place) : k <= l
          /\ place' = 2 * k - 1
          /\ answer' = k
    \/ After(place) = {} /\ place' \in {place, 2 * length} /\ answer' = 0

\* "Moves to the previous item and returns it, or nil if we reached the beginning."
Backward ==
    \/ \E k \in Before(place) :
          /\ \A l \in Before(place) : l <= k
          /\ place' = 2 * k - 1
          /\ answer' = k
    \/ Before(place) = {} /\ place' \in {place, 0} /\ answer' = 0

\* A call that fails may have left its element, for the gap on either side.
Fail ==
    /\ place' \in {place} \union {p \in {place - 1, place + 1} : p % 2 = 0}
    /\ UNCHANGED answer

Next == Open \/ (length >= 0 /\ (Forward \/ Backward \/ Fail) /\ UNCHANGED length)

Spec == Init /\ [][Next]_vars
=============================================================================
