------------------------------ MODULE ListOrder ------------------------------
(* The elements of a list at some of its places, in the order of the list. *)
EXTENDS Integers, Sequences, FiniteSets

\* The k-th smallest number of a set.
Nth(S, k) == CHOOSE i \in S : Cardinality({j \in S : j < i}) = k - 1

Picked(s, places) == [k \in 1 .. Cardinality(places) |-> s[Nth(places, k)]]
=============================================================================
