---------------------------- MODULE MCRunnerLoop ----------------------------
(***************************************************************************)
(* RunnerLoop on small instances.                                          *)
(***************************************************************************)
EXTENDS RunnerLoop, TLC

MCReported == {0, 1}

Symmetry == Permutations(Workers)
=============================================================================
