--------------------------- MODULE MCPaletteSlots ---------------------------
(***************************************************************************)
(* PaletteSlots on small instances.                                        *)
(***************************************************************************)
EXTENDS PaletteSlots, TLC

\* Events keep their category: an edit reconsiders no slot, which
\* docs/BE/category-vocabulary.md says of it, too.
Steady == \A e \in Events : Exists(e) /\ Exists(e)' => event'[e].category = event[e].category

SteadySpec == PaletteInit /\ [][PaletteNext /\ Steady]_paletteVars

Symmetry == Permutations(Events) \cup Permutations(Categories) \cup Permutations(StaffRequests)
=============================================================================
