-------------------------------- MODULE Sums --------------------------------
(***************************************************************************)
(* Sums over finite sets: of the counts of rows, points and items.         *)
(***************************************************************************)
EXTENDS FiniteSetsExt

Total(set, f) == MapThenSumSet(LAMBDA x : f[x], set)
=============================================================================
