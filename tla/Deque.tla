-------------------------------- MODULE Deque --------------------------------
(***************************************************************************)
(* collections.deque with a maxlen, and what it is meant to hold.          *)
(***************************************************************************)
EXTENDS Integers, Sequences

\* append(): at maxlen the oldest element is dropped.
Pushed(deque, element, maxlen) ==
    Append(IF Len(deque) < maxlen THEN deque ELSE Tail(deque), element)

\* The latest of all the elements there were, at most maxlen of them.
Latest(all, maxlen) ==
    SubSeq(all, (IF Len(all) > maxlen THEN Len(all) - maxlen ELSE 0) + 1, Len(all))
=============================================================================
