-------------------------------- MODULE Picks --------------------------------
(***************************************************************************)
(* What a list comprehension with a condition makes of a list: the         *)
(* elements at the indices that the condition holds of, in their order.    *)
(***************************************************************************)
EXTENDS Integers, FiniteSets

\* The index of rank k among some, and what a sequence has at some, in order.
Nth(indices, k) == CHOOSE i \in indices : Cardinality({j \in indices : j <= i}) = k
Picked(s, indices) == [k \in 1..Cardinality(indices) |-> s[Nth(indices, k)]]
=============================================================================
