------------------------- MODULE MCDiscoveryOutcomes -------------------------
(***************************************************************************)
(* One discovery run with several counts in its report, and the            *)
(* collection on the server, which shares no variable with it: each part   *)
(* is checked while the other is at rest.                                  *)
(***************************************************************************)
EXTENDS MCDiscoveryRuns, Collecting

CONSTANTS c1, c2, h1, h2

VARIABLE part

MCTypeOf == <<"rss", "html">>

\* A feed with links twice, and a page with a link that is not followed;
\* both list one URL.
Link(url, kind) == [url |-> url, kind |-> kind]
Feed == <<Link(c1, "page"), Link(c2, "own"), Link(c2, "page"), Link(c1, "page")>>
Board == <<Link(c2, "social"), Link(c1, "page")>>
MCPage == <<Feed, Board>>

\* The listings are on a host of their own.
MCHostOf == [x \in {1, 2, c1, c2} |-> IF x \in {1, 2} THEN h1 ELSE h2]

OutcomesInit == part \in {"run", "collect"} /\ Init /\ CollectInit
OutcomesNext ==
    \/ part = "run" /\ Next /\ UNCHANGED <<part, collectVars>>
    \/ part = "collect" /\ CollectNext /\ UNCHANGED <<part, vars>>

OutcomesSpec == OutcomesInit /\ [][OutcomesNext]_<<part, vars, collectVars>>

AllSymmetry == Symmetry \cup Permutations(Buttons)
=============================================================================
