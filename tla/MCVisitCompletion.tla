-------------------------- MODULE MCVisitCompletion --------------------------
(***************************************************************************)
(* VisitCompletion on small instances.                                     *)
(***************************************************************************)
EXTENDS VisitCompletion, TLC

Symmetry == Permutations(VisitSubjects) \cup Permutations(Tokens) \cup Permutations(Requests)
=============================================================================
