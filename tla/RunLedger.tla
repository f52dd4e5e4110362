------------------------------ MODULE RunLedger ------------------------------
(***************************************************************************)
(* What source discovery promises about its runs, without leases that run  *)
(* out, submissions in two transactions or heartbeats: exploration is done *)
(* one run at a time, each grant of a run goes to a holder of its own, an  *)
(* entry is recorded only while its run is held, and a closed run keeps    *)
(* for ever the entries and the verdict it was closed with.                *)
(***************************************************************************)
EXTENDS Integers, FiniteSets

CONSTANTS Runs, Urls, MaxGrants, MaxCandidates, MaxEvents

VARIABLES
    phase,      \* run -> "unopened", "waiting", "held" or "closed"
    holder,     \* run -> the holder's token, 0 when nobody holds it
    grants,     \* run -> how often it was granted
    lastGrant,  \* the newest token
    promoted,   \* run -> URLs recorded as promoted sources
    failed,     \* run -> URLs recorded as failed candidates
    events,     \* run -> URLs recorded as event drafts
    verdict     \* run -> the verdict of a closed run, "none" before

vars == <<phase, holder, grants, lastGrant, promoted, failed, events, verdict>>
entries == <<promoted, failed, events>>

Open == {r \in Runs : phase[r] \in {"waiting", "held"}}

Init ==
    /\ phase = [r \in Runs |-> "unopened"]
    /\ holder = [r \in Runs |-> 0]
    /\ grants = [r \in Runs |-> 0]
    /\ lastGrant = 0
    /\ promoted = [r \in Runs |-> {}]
    /\ failed = [r \in Runs |-> {}]
    /\ events = [r \in Runs |-> {}]
    /\ verdict = [r \in Runs |-> "none"]

OpenRun(r) ==
    /\ Open = {}
    /\ phase[r] = "unopened"
    /\ phase' = [phase EXCEPT ![r] = "waiting"]
    /\ UNCHANGED <<holder, grants, lastGrant, entries, verdict>>

\* a run that waits, or whose holder lost it, goes to a new holder
Grant(r) ==
    /\ r \in Open
    /\ grants[r] < MaxGrants
    /\ phase' = [phase EXCEPT ![r] = "held"]
    /\ lastGrant' = lastGrant + 1
    /\ holder' = [holder EXCEPT ![r] = lastGrant + 1]
    /\ grants' = [grants EXCEPT ![r] = @ + 1]
    /\ UNCHANGED <<entries, verdict>>

RecordPromoted(r, u) ==
    /\ phase[r] = "held"
    /\ u \notin promoted[r] \cup failed[r]
    /\ Cardinality(promoted[r] \cup failed[r]) < MaxCandidates
    /\ promoted' = [promoted EXCEPT ![r] = @ \cup {u}]
    /\ UNCHANGED <<phase, holder, grants, lastGrant, failed, events, verdict>>

RecordFailed(r, u) ==
    /\ phase[r] = "held"
    /\ u \notin promoted[r] \cup failed[r]
    /\ Cardinality(promoted[r] \cup failed[r]) < MaxCandidates
    /\ failed' = [failed EXCEPT ![r] = @ \cup {u}]
    /\ UNCHANGED <<phase, holder, grants, lastGrant, promoted, events, verdict>>

RecordEvent(r, u) ==
    /\ phase[r] = "held"
    /\ \A q \in Runs : u \notin events[q]
    /\ Cardinality(events[r]) < MaxEvents
    /\ events' = [events EXCEPT ![r] = @ \cup {u}]
    /\ UNCHANGED <<phase, holder, grants, lastGrant, promoted, failed, verdict>>

\* a verdict the entries of the run bear out
Fits(v, r) ==
    \/ v = "succeeded" /\ failed[r] = {}
    \/ v = "failed" /\ promoted[r] = {}
    \/ v = "partially_failed" /\ promoted[r] \cup failed[r] \cup events[r] # {}
    \/ v = "expired" /\ grants[r] = MaxGrants

Close(r, v) ==
    /\ phase[r] = "held"
    /\ Fits(v, r)
    /\ phase' = [phase EXCEPT ![r] = "closed"]
    /\ holder' = [holder EXCEPT ![r] = 0]
    /\ verdict' = [verdict EXCEPT ![r] = v]
    /\ UNCHANGED <<grants, lastGrant, entries>>

Next ==
    \E r \in Runs :
        \/ OpenRun(r)
        \/ Grant(r)
        \/ \E u \in Urls : RecordPromoted(r, u) \/ RecordFailed(r, u) \/ RecordEvent(r, u)
        \/ \E v \in {"succeeded", "failed", "partially_failed", "expired"} : Close(r, v)

Spec == Init /\ [][Next]_vars
=============================================================================
