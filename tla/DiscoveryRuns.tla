---------------------------- MODULE DiscoveryRuns ----------------------------
(***************************************************************************)
(* The server's half of the source-discovery protocol: exploration runs,   *)
(* their leases, the runner's heartbeat row and everything a runner writes *)
(* under a lease (drafts/discovery_runs.py, drafts/candidate_validation.py,*)
(* drafts/agent_drafts.py).  A submission is two transactions with network *)
(* checks between them, so each one is a worker that first checks the      *)
(* lease and later saves.  A request may present any token issued so far:  *)
(* that covers delayed, repeated and reordered requests, and old runners.  *)
(*                                                                         *)
(* Every transaction that touches a run holds its row lock, so one         *)
(* transaction is one step.  Times are kept relative to the present:       *)
(* leaseLeft is lease_expires_at - now, and hbAge is now -                 *)
(* last_heartbeat_at.                                                      *)
(***************************************************************************)
EXTENDS Integers, FiniteSets

CONSTANTS
    MaxRuns,        \* bound: how many runs are ever created
    Urls,           \* source and event URLs
    Workers,        \* bound: submissions in flight at the same time
    MaxLeases,      \* MAX_LEASES
    LeaseTicks,     \* LEASE_SECONDS in ticks
    FreshTicks,     \* HEARTBEAT_FRESH_SECONDS in ticks
    MaxCandidates,  \* MAX_CANDIDATES_PER_RUN
    MaxEvents,      \* MAX_EVENTS_PER_RUN
    Reported        \* the counts a runner may report

ASSUME RunsAssumption ==
    /\ MaxRuns \in Nat \ {0}
    /\ MaxLeases \in Nat \ {0}
    /\ LeaseTicks \in Nat \ {0}
    /\ FreshTicks \in Nat
    /\ MaxCandidates \in Nat
    /\ MaxEvents \in Nat
    /\ Reported \subseteq Int
    /\ IsFiniteSet(Urls)

VARIABLES
    status,      \* SourceDiscoveryRun.status, "absent" before creation
    leaseToken,  \* lease_token, 0 standing for ""
    leaseLeft,   \* ticks until lease_expires_at; -1 when over or never leased
    leaseCount,  \* lease_count
    candidates,  \* run -> url -> the SourceCandidate's status, if there is one
    events,      \* run -> source_urls of the drafts linked to it
    report,      \* run -> [attempted, failed] stored by complete_run
    sources,     \* DraftSource.url, unique
    drafts,      \* EventDraft.source_url, unique
    created,     \* runs created so far; run ids follow created_at
    issued,      \* tokens issued so far; a uuid4 is a number never used before
    hbAge,       \* ticks since the last heartbeat, saturating when stale
    offline,     \* offline_at >= last_heartbeat_at
    worker       \* submissions in flight

runVars == <<status, leaseToken, leaseLeft, leaseCount, report, created, issued>>
savedVars == <<candidates, events, sources, drafts>>
runnerVars == <<hbAge, offline>>
vars == <<runVars, savedVars, runnerVars, worker>>

Runs == 1..MaxRuns
NoToken == 0

ActiveStatuses == {"pending", "claimed"}
FinishedStatuses == {"succeeded", "partially_failed", "failed", "expired"}
Statuses == {"absent"} \cup ActiveStatuses \cup FinishedStatuses

Kinds == {"listing", "account", "event"}
Idle == [phase |-> "idle"]
Crashed == [phase |-> "crashed"]    \* ended in a server error
Checks == [phase : {"checked"}, kind : Kinds, run : Runs, token : Nat, url : Urls]

RunsTypeOK ==
    /\ status \in [Runs -> Statuses]
    /\ leaseToken \in [Runs -> Nat]
    /\ leaseLeft \in [Runs -> -1..LeaseTicks]
    /\ leaseCount \in [Runs -> 0..MaxLeases]
    /\ report \in [Runs -> [attempted : 0..MaxEvents, failed : 0..MaxEvents]]
    /\ created \in 0..MaxRuns
    /\ issued \in Nat

SavedTypeOK ==
    /\ candidates \in [Runs -> [Urls -> {"none", "promoted", "failed"}]]
    /\ events \in [Runs -> SUBSET Urls]
    /\ sources \in SUBSET Urls
    /\ drafts \in SUBSET Urls

RunnerTypeOK == hbAge \in 0..(FreshTicks + 1) /\ offline \in BOOLEAN

WorkerTypeOK == worker \in [Workers -> Checks \cup {Idle, Crashed}]

TypeOK == RunsTypeOK /\ SavedTypeOK /\ RunnerTypeOK /\ WorkerTypeOK

Init ==
    /\ status = [r \in Runs |-> "absent"]
    /\ leaseToken = [r \in Runs |-> NoToken]
    /\ leaseLeft = [r \in Runs |-> -1]
    /\ leaseCount = [r \in Runs |-> 0]
    /\ candidates = [r \in Runs |-> [u \in Urls |-> "none"]]
    /\ events = [r \in Runs |-> {}]
    /\ report = [r \in Runs |-> [attempted |-> 0, failed |-> 0]]
    /\ sources = {}
    /\ drafts = {}
    /\ created = 0
    /\ issued = 0
    /\ hbAge = FreshTicks + 1      \* no heartbeat row yet
    /\ offline = FALSE
    /\ worker = [w \in Workers |-> Idle]

-----------------------------------------------------------------------------
\* The runner's heartbeat row.

\* mutant: a runner is online until it says otherwise
OnlineUntilGoodbye == ~offline

\* runner_is_online
RunnerIsOnline == hbAge <= FreshTicks /\ ~offline

\* record_heartbeat; the progress phase and detail it also stores are for display
Heartbeat ==
    /\ hbAge' = 0
    /\ offline' = FALSE
    /\ UNCHANGED <<runVars, savedVars, worker>>

\* record_offline
RecordOffline ==
    /\ offline' = TRUE
    /\ UNCHANGED <<hbAge, runVars, savedVars, worker>>

-----------------------------------------------------------------------------
\* Creating and leasing runs.

\* mutant: create_run looks for pending runs only
ActivePending == {r \in Runs : status[r] = "pending"}

\* the runs create_run looks for
Active == {r \in Runs : status[r] \in ActiveStatuses}

\* create_run, under the lock of the heartbeat row
CreateRun ==
    /\ created < MaxRuns
    /\ RunnerIsOnline
    /\ Active = {}
    /\ created' = created + 1
    /\ status' = [status EXCEPT ![created + 1] = "pending"]
    /\ UNCHANGED <<leaseToken, leaseLeft, leaseCount, report, issued>>
    /\ UNCHANGED <<savedVars, runnerVars, worker>>

\* mutant: the sweep does not look at the status of the run
LapsedAnyStatus == {r \in Runs : status[r] # "absent" /\ leaseLeft[r] < 0}

\* mutant: the sweep looks for runs that wait instead of runs that are leased
LapsedWaiting == {r \in Runs : status[r] = "pending" /\ leaseLeft[r] < 0}

\* the lease_expires_at < now() filter of claim: a lease that ends now is not
\* yet swept, although it no longer authorises anything
Lapsed == {r \in Runs : status[r] = "claimed" /\ leaseLeft[r] < 0}

\* mutant: a lapsed run is offered again however often it was leased
SweptAlwaysRetried(r) == IF r \in Lapsed THEN "pending" ELSE status[r]

Swept(r) ==
    IF r \notin Lapsed THEN status[r]
    ELSE IF leaseCount[r] >= MaxLeases THEN "expired" ELSE "pending"

SweptToken(r) == IF r \in Lapsed THEN NoToken ELSE leaseToken[r]

Waiting == {r \in Runs : Swept(r) = "pending"}

\* claim when no run waits: it still sweeps the lapsed leases
ClaimNothing ==
    /\ Waiting = {}
    /\ status' = [r \in Runs |-> Swept(r)]
    /\ leaseToken' = [r \in Runs |-> SweptToken(r)]
    /\ UNCHANGED <<leaseLeft, leaseCount, report, created, issued>>
    /\ UNCHANGED <<savedVars, runnerVars, worker>>

\* claim of the oldest waiting run, in the same transaction as the sweep
ClaimRun ==
    \E r \in Waiting :
        /\ \A q \in Waiting : r <= q
        /\ status' = [q \in Runs |-> IF q = r THEN "claimed" ELSE Swept(q)]
        /\ leaseToken' = [q \in Runs |-> IF q = r THEN issued + 1 ELSE SweptToken(q)]
        /\ leaseLeft' = [leaseLeft EXCEPT ![r] = LeaseTicks]
        /\ leaseCount' = [leaseCount EXCEPT ![r] = @ + 1]
        /\ issued' = issued + 1
        /\ UNCHANGED <<report, created>>
        /\ UNCHANGED <<savedVars, runnerVars, worker>>

\* locked_run_with_valid_lease
ValidLease(r, t) ==
    /\ status[r] = "claimed"
    /\ leaseToken[r] = t
    /\ leaseLeft[r] > 0

\* renew_lease
Renew(r) == leaseLeft' = [leaseLeft EXCEPT ![r] = LeaseTicks]

-----------------------------------------------------------------------------
\* Submitting candidates and events.

CandidatesOf(r) == {u \in Urls : candidates[r][u] # "none"}
HasRoom(r) == Cardinality(CandidatesOf(r)) < MaxCandidates

StartWork(w, kind, r, t, u) ==
    /\ worker[w] = Idle
    /\ worker' = [worker EXCEPT ![w] =
           [phase |-> "checked", kind |-> kind, run |-> r, token |-> t, url |-> u]]
    /\ UNCHANGED <<runVars, savedVars, runnerVars>>

EndWork(w) == worker' = [worker EXCEPT ![w] = Idle]

\* first lock of submit_candidate; a known URL is answered at once, and so is a
\* full run, without a change of state
CheckListing(w, r, t, u) ==
    /\ ValidLease(r, t)
    /\ candidates[r][u] = "none"
    /\ HasRoom(r)
    /\ StartWork(w, "listing", r, t, u)

\* register_account_source takes no first lock
CheckAccount(w, r, t, u) == StartWork(w, "account", r, t, u)

\* first lock of submit_agent_draft
CheckEvent(w, r, t, u) ==
    /\ ValidLease(r, t)
    /\ StartWork(w, "event", r, t, u)

Working(w) == worker[w].phase = "checked"

\* mutant: the second look at the lease forgets that it may have run out
WorkerHasToken(w) ==
    status[worker[w].run] = "claimed" /\ leaseToken[worker[w].run] = worker[w].token

WorkerHasLease(w) == ValidLease(worker[w].run, worker[w].token)
Submits(w, kinds) == Working(w) /\ WorkerHasLease(w) /\ worker[w].kind \in kinds

\* mutant: the cap is checked before the network checks only
RoomUnchecked(w) == TRUE

\* the count under the last lock, renewal included in the same transaction
RoomToSave(w) == HasRoom(worker[w].run)

\* _save_failed_candidate, for a check that failed or a URL that DraftSource
\* already has: an existing row of the run is kept
SaveFailed(w) ==
    LET r == worker[w].run
        u == worker[w].url
    IN  /\ Submits(w, {"listing", "account"})
        /\ RoomToSave(w)
        /\ candidates' = [candidates EXCEPT ![r][u] = IF @ = "none" THEN "failed" ELSE @]
        /\ Renew(r)
        /\ EndWork(w)
        /\ UNCHANGED <<status, leaseToken, leaseCount, report, created, issued>>
        /\ UNCHANGED <<events, sources, drafts, runnerVars>>

\* last lock of submit_candidate and of register_account_source
Promote(w) ==
    LET r == worker[w].run
        u == worker[w].url
    IN  /\ Submits(w, {"listing", "account"})
        /\ RoomToSave(w)
        /\ u \notin sources
        /\ candidates[r][u] = "none"
        /\ sources' = sources \cup {u}
        /\ candidates' = [candidates EXCEPT ![r][u] = "promoted"]
        /\ Renew(r)
        /\ EndWork(w)
        /\ UNCHANGED <<status, leaseToken, leaseCount, report, created, issued>>
        /\ UNCHANGED <<events, drafts, runnerVars>>

\* the same lock when the run already has a row for the URL: the unique
\* constraint (run, url) is violated outside any savepoint, the whole
\* transaction is rolled back and the request ends in a server error
PromoteCollides(w) ==
    /\ Submits(w, {"listing", "account"})
    /\ RoomToSave(w)
    /\ worker[w].url \notin sources
    /\ candidates[worker[w].run][worker[w].url] # "none"
    /\ worker' = [worker EXCEPT ![w] = Crashed]
    /\ UNCHANGED <<runVars, savedVars, runnerVars>>

\* mutant: the URL is looked up among the drafts of the run only
KnownToRun(r, u) == u \in events[r]

\* the source_url lookup of submit_agent_draft, over every draft
DraftKnown(r, u) == u \in drafts

\* last lock of submit_agent_draft
SaveEvent(w) ==
    LET r == worker[w].run
        u == worker[w].url
    IN  /\ Submits(w, {"event"})
        /\ DraftKnown(r, u) \/ Cardinality(events[r]) < MaxEvents
        /\ events' = [events EXCEPT ![r] = IF DraftKnown(r, u) THEN @ ELSE @ \cup {u}]
        /\ drafts' = drafts \cup {u}
        /\ Renew(r)
        /\ EndWork(w)
        /\ UNCHANGED <<status, leaseToken, leaseCount, report, created, issued>>
        /\ UNCHANGED <<candidates, sources, runnerVars>>

\* the answers that roll the last transaction back: lease lost (409), run full
\* (400); also a request that dies with its process, and the end of a crashed one
Abandon(w) ==
    /\ worker[w] # Idle
    /\ EndWork(w)
    /\ UNCHANGED <<runVars, savedVars, runnerVars>>

-----------------------------------------------------------------------------
\* Completing a run.

Clean(n, high) == IF n < 0 THEN 0 ELSE IF n > high THEN high ELSE n

\* mutant: one promoted candidate is enough
CandidateOutcomeAnyPromoted(r) ==
    LET found == {candidates[r][u] : u \in CandidatesOf(r)}
    IN  IF found = {} THEN "none"
        ELSE IF "promoted" \in found THEN "succeeded" ELSE "failed"

\* _classify_candidate_outcome
CandidateOutcome(r) ==
    LET found == {candidates[r][u] : u \in CandidatesOf(r)}
    IN  IF found = {} THEN "none"
        ELSE IF found = {"promoted"} THEN "succeeded"
        ELSE IF found = {"failed"} THEN "failed"
        ELSE "partial"

\* _classify_event_outcome
EventOutcome(attempted, failed, saved) ==
    IF attempted = 0 THEN "none"
    ELSE IF failed = 0 THEN "succeeded"
    ELSE IF saved = {} THEN "failed"
    ELSE "partial"

\* _combine_outcomes
Combined(candidateOutcome, eventOutcome) ==
    LET existing == {candidateOutcome, eventOutcome} \ {"none"}
    IN  IF existing \subseteq {"succeeded"} THEN "succeeded"
        ELSE IF existing = {"failed"} THEN "failed"
        ELSE "partially_failed"

\* the final status complete_run computes
FinalStatus(r, ok, attempted, failed) ==
    IF ok THEN Combined(CandidateOutcome(r), EventOutcome(attempted, failed, events[r]))
    ELSE IF \E u \in Urls : candidates[r][u] = "promoted" THEN "partially_failed"
    ELSE "failed"

\* complete_run
Complete(r, t, ok, reportedAttempted, reportedFailed) ==
    LET attempted == Clean(reportedAttempted, MaxEvents)
        failed == Clean(reportedFailed, attempted)
    IN  /\ ValidLease(r, t)
        /\ status' = [status EXCEPT ![r] = FinalStatus(r, ok, attempted, failed)]
        /\ leaseToken' = [leaseToken EXCEPT ![r] = NoToken]
        /\ report' = [report EXCEPT ![r] = [attempted |-> attempted, failed |-> failed]]
        /\ UNCHANGED <<leaseLeft, leaseCount, created, issued>>
        /\ UNCHANGED <<savedVars, runnerVars, worker>>

-----------------------------------------------------------------------------
\* Staff, collection, the admin site and time.

\* A source or a draft made outside the protocol: staff add drafts by URL,
\* discover_drafts and the initial drafts of a promoted source collect them,
\* and DraftSource rows are edited in the admin site.
OthersAddSource(u) ==
    /\ sources' = sources \cup {u}
    /\ UNCHANGED <<candidates, events, drafts, runVars, runnerVars, worker>>

OthersRemoveSource(u) ==
    /\ sources' = sources \ {u}
    /\ UNCHANGED <<candidates, events, drafts, runVars, runnerVars, worker>>

OthersAddDraft(u) ==
    /\ drafts' = drafts \cup {u}
    /\ UNCHANGED <<candidates, events, sources, runVars, runnerVars, worker>>

\* timezone.now(): leases run down and heartbeats age
Tick ==
    /\ leaseLeft' = [r \in Runs |-> IF leaseLeft[r] < 0 THEN -1 ELSE leaseLeft[r] - 1]
    /\ hbAge' = IF hbAge > FreshTicks THEN hbAge ELSE hbAge + 1
    /\ UNCHANGED <<status, leaseToken, leaseCount, report, created, issued>>
    /\ UNCHANGED <<offline, savedVars, worker>>

Submit ==
    \E w \in Workers :
        \/ \E r \in 1..created, t \in 0..issued, u \in Urls :
               \/ CheckListing(w, r, t, u)
               \/ CheckAccount(w, r, t, u)
               \/ CheckEvent(w, r, t, u)
        \/ SaveFailed(w)
        \/ Promote(w)
        \/ PromoteCollides(w)
        \/ SaveEvent(w)
        \/ Abandon(w)

CompleteRun ==
    \E r \in 1..created, t \in 0..issued, ok \in BOOLEAN, a \in Reported, f \in Reported :
        Complete(r, t, ok, a, f)

Others ==
    \E u \in Urls : OthersAddSource(u) \/ OthersRemoveSource(u) \/ OthersAddDraft(u)

Next ==
    \/ Heartbeat
    \/ RecordOffline
    \/ CreateRun
    \/ ClaimNothing
    \/ ClaimRun
    \/ Submit
    \/ CompleteRun
    \/ Others
    \/ Tick

Spec == Init /\ [][Next]_vars

-----------------------------------------------------------------------------
(***************************************************************************)
(* Safety.                                                                 *)
(***************************************************************************)

\* Exploration is single-file: create_run refuses while a run waits or is
\* leased, and no sweep, late request or re-lease ever makes a second one.
AtMostOneActive ==
    \A r, q \in Runs :
        status[r] \in ActiveStatuses /\ status[q] \in ActiveStatuses => r = q

\* A run carries a token exactly while it is leased, the token is the newest
\* one issued, and a run that waits for claim has a lease left to give.
LeaseWellFormed ==
    \A r \in Runs :
        /\ status[r] = "claimed" <=> leaseToken[r] # NoToken
        /\ status[r] = "claimed" => leaseToken[r] = issued /\ leaseCount[r] > 0
        /\ status[r] = "pending" => leaseCount[r] < MaxLeases
        /\ status[r] = "expired" => leaseCount[r] = MaxLeases

\* The caps of a run hold for the run, not for a lease or a request: several
\* submissions that all passed the early check, or a second lease, cannot
\* together save more than MAX_CANDIDATES_PER_RUN and MAX_EVENTS_PER_RUN.
WithinCaps ==
    \A r \in Runs :
        /\ Cardinality(CandidatesOf(r)) <= MaxCandidates
        /\ Cardinality(events[r]) <= MaxEvents

\* The status staff see on a finished run is borne out by what the run left
\* behind, whatever order submissions, crashes and the completion report came
\* in: a success has no failed candidate and no failed event, a failure has
\* promoted nothing, and a partial failure has something to show.
OutcomeMatchesRecords ==
    \A r \in Runs :
        /\ status[r] = "succeeded" =>
               /\ \A u \in Urls : candidates[r][u] # "failed"
               /\ report[r].failed = 0
        /\ status[r] = "failed" => \A u \in Urls : candidates[r][u] # "promoted"
        /\ status[r] = "partially_failed" => CandidatesOf(r) # {} \/ events[r] # {}

\* A draft is credited to one run at most, also when two runs, or two leases
\* of a run, find the same event.
DraftsCreditedOnce ==
    /\ \A r, q \in Runs : r # q => events[r] \cap events[q] = {}
    /\ \A r \in Runs : events[r] \subseteq drafts

\* A finished run is closed for good: a submission that was still in its
\* network checks, a completion sent twice or an old token leaves its status,
\* its candidates, its drafts and its counts as they are.
FinishedIsFinal ==
    [][\A r \in Runs :
           status[r] \in FinishedStatuses =>
               /\ status'[r] = status[r]
               /\ candidates'[r] = candidates[r]
               /\ events'[r] = events[r]
               /\ report'[r] = report[r]]_vars

\* Losing a lease is for ever: once a token that was issued does not open its
\* run any more, no renewal, no re-lease and no late save revives it.
TokenNeverRevives ==
    [][\A r \in Runs, t \in 0..issued : ~ValidLease(r, t) => ~ValidLease(r, t)']_vars

\* What the comment in _save_failed_candidate says of a URL that is submitted
\* again: it is answered with the row the run already has.  No submission ends
\* in a server error.
NoServerError == \A w \in Workers : worker[w] # Crashed

-----------------------------------------------------------------------------
(***************************************************************************)
(* The runs implement the ledger.                                          *)
(***************************************************************************)

LedgerPhase(r) ==
    CASE status[r] = "absent" -> "unopened"
      [] status[r] = "pending" -> "waiting"
      [] status[r] = "claimed" -> "held"
      [] OTHER -> "closed"

Phase == [r \in Runs |-> LedgerPhase(r)]
PromotedOf == [r \in Runs |-> {u \in Urls : candidates[r][u] = "promoted"}]
FailedOf == [r \in Runs |-> {u \in Urls : candidates[r][u] = "failed"}]
Verdict == [r \in Runs |-> IF status[r] \in FinishedStatuses THEN status[r] ELSE "none"]

Ledger == INSTANCE RunLedger WITH
    MaxGrants <- MaxLeases,
    phase <- Phase,
    holder <- leaseToken,
    grants <- leaseCount,
    lastGrant <- issued,
    promoted <- PromotedOf,
    failed <- FailedOf,
    verdict <- Verdict

\* The server implements the ledger: with leases that lapse, saves that come
\* long after their check, repeated and stale requests, what it records is
\* what a single holder at a time would have recorded.
ImplementsLedger == Ledger!Spec
=============================================================================
