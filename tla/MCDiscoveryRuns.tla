--------------------------- MODULE MCDiscoveryRuns ---------------------------
(***************************************************************************)
(* DiscoveryRuns on small instances.                                       *)
(***************************************************************************)
EXTENDS DiscoveryRuns, TLC

\* a count below zero, one in range and one above every cap
MCReported == {-1, 0, 2}

Symmetry == Permutations(Urls) \cup Permutations(Workers)
=============================================================================
