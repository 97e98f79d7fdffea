------------------------------- MODULE Order --------------------------------
(***************************************************************************)
(* Finite sets of numbers in ascending order, the one in which folds over  *)
(* a Data.IntMap visit its keys, and parts of sequences in their order,    *)
(* which filter gives.                                                     *)
(***************************************************************************)
EXTENDS Integers, FiniteSets

\* The i-th of them has i - 1 of them below it.
Ascending(S) ==
    [i \in 1 .. Cardinality(S) |-> CHOOSE s \in S : Cardinality({t \in S : t < s}) = i - 1]

\* filter: the entries of a sequence at some of its places, in their order.
Picked(q, S) == [i \in 1 .. Cardinality(S) |-> q[Ascending(S)[i]]]
=============================================================================
