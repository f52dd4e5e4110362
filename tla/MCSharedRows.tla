----------------------------- MODULE MCSharedRows -----------------------------
(***************************************************************************)
(* Rows that many requests and workers share: discovery runs and their      *)
(* leases, palette slots, and error groups. The parts share no variable,    *)
(* and each is checked while the others are at rest.                        *)
(*                                                                         *)
(* The runs are the server's half of the discovery protocol: one run that   *)
(* two submissions and two leases share, and a second run that follows it   *)
(* while there is one URL and one submission at a time; it is leased once,  *)
(* and its runner does not go offline.                                      *)
(***************************************************************************)
EXTENDS DiscoveryRuns, PaletteSlots, ErrorGroups, TLC

VARIABLE part

rowVars == <<part, vars, paletteVars, groupVars>>

\* At rest, the palette has one initial state.
RowsInit ==
    /\ part \in {"runs", "slots", "errors"}
    /\ Init /\ PaletteInit /\ GroupsInit
    /\ part # "slots" => \A c \in Categories : category[c].state = "absent"

\* The URLs that are used anywhere.
Used ==
    sources \cup drafts \cup UNION {CandidatesOf(r) : r \in Runs}
    \cup {worker[w].url : w \in {v \in Workers : Working(v)}}

\* Bound: one URL, one submission at a time, one lease of the second run, and a
\* runner that stays.
Narrow ==
    /\ ~offline /\ leaseCount[2] <= 1
    /\ Cardinality(Used) <= 1
    /\ Cardinality({w \in Workers : worker[w] # Idle}) <= 1

RunNext ==
    part = "runs" /\ Next /\ (created' <= 1 \/ Narrow') /\ UNCHANGED <<part, paletteVars, groupVars>>

\* Bound: users keep records while there is at most one event and one change of
\* it under way.
Recorded ==
    referenced # {} =>
        /\ Cardinality({e \in Events : Exists(e)}) <= 1
        /\ \E q \in StaffRequests : change[q] = NoChange

SlotNext == part = "slots" /\ PaletteNext /\ Recorded' /\ UNCHANGED <<part, vars, groupVars>>
ErrorNext == part = "errors" /\ GroupsNext /\ UNCHANGED <<part, vars, paletteVars>>

RowsSpec == RowsInit /\ [][RunNext \/ SlotNext \/ ErrorNext]_rowVars

\* The parts share their model values, and with them the symmetry.
Symmetry ==
    Permutations(Urls \cup Events) \cup Permutations(Workers \cup Categories)
    \cup Permutations(StaffRequests)
===============================================================================
