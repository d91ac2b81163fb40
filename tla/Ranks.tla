------------------------------- MODULE Ranks --------------------------------
(***************************************************************************)
(* Pages of a set of numbers that is listed in their order: the items      *)
(* whose place in the list falls into the page.                            *)
(***************************************************************************)
EXTENDS Naturals, FiniteSets

\* The place of an item of s in its order, and the items between two places.
Rank(i, s) == Cardinality({j \in s : j <= i})
Ranked(s, first, last) == {i \in s : first <= Rank(i, s) /\ Rank(i, s) <= last}
=============================================================================
