----------------------------- MODULE RunnerLoop -----------------------------
(***************************************************************************)
(* The local runner (local_runner/runner.py, exploration_flow.py,          *)
(* progress.py, client.py) together with the discovery server: one process *)
(* that polls, claims a run, explores, submits and reports, its heartbeat  *)
(* ticker thread, its shutdown, and the messages that get lost between the *)
(* two.  Every step of the server is an action of DiscoveryRuns; sources   *)
(* and drafts made by others are left to that module.                      *)
(*                                                                         *)
(* A call is answered (the server acts, the runner goes on), unsent (only  *)
(* the runner acts, on an httpx.HTTPError) or unanswered (the server acts  *)
(* and the runner sees an HTTPError).                                      *)
(***************************************************************************)
EXTENDS DiscoveryRuns

CONSTANTS
    MaxFaults,   \* bound: lost messages, signals and crashes
    MaxSubmits,  \* EXPLORATION_MAX_EVENTS + EXPLORATION_MAX_SOURCES
    MaxBeats     \* bound: heartbeats of the ticker in flight

ASSUME LoopAssumption == MaxFaults \in Nat /\ MaxSubmits \in Nat /\ MaxBeats \in Nat

VARIABLES
    pc,        \* where the main thread is
    held,      \* the run and token of the last claim answered
    progress,  \* ProgressReporter.run_id and lease_token
    outcome,   \* how the exploration went: "ok", "failed", "lost" (409) or "error"
    todo,      \* submissions left
    awaited,   \* the submission whose answer the runner waits for
    ticker,    \* is a _HeartbeatTicker running?
    beats,     \* heartbeats on their way to the server
    reported,  \* has the completion of the held run been sent?
    lost,      \* tokens whose run a fault or a signal took from the runner
    faults     \* faults so far

loopVars == <<pc, held, progress, outcome, todo, awaited, ticker, beats,
              reported, lost, faults>>
allVars == <<vars, loopVars>>

None == [run |-> 0, token |-> NoToken]
NoWorker == "none"

ASSUME NoWorkerAssumption == NoWorker \notin Workers

Leases == [run : Runs, token : Nat] \cup {None}
Outcomes == {"ok", "failed", "lost", "error"}
Places == {"off", "poll", "claim", "begin", "explore", "flow", "completing", "complete",
           "idle", "translate", "shutdown", "goodbye"}

LoopTypeOK ==
    /\ TypeOK
    /\ pc \in Places
    /\ held \in Leases
    /\ progress \in Leases
    /\ outcome \in Outcomes
    /\ todo \in 0..MaxSubmits
    /\ awaited \in Workers \cup {NoWorker}
    /\ ticker \in BOOLEAN
    /\ beats \in 0..MaxBeats
    /\ reported \in BOOLEAN
    /\ lost \in SUBSET Nat
    /\ faults \in 0..MaxFaults

LoopInit ==
    /\ Init
    /\ pc = "off"
    /\ held = None
    /\ progress = None
    /\ outcome = "ok"
    /\ todo = 0
    /\ awaited = NoWorker
    /\ ticker = FALSE
    /\ beats = 0
    /\ reported = FALSE
    /\ lost = {}
    /\ faults = 0

NoServerStep == UNCHANGED vars
Fault == faults < MaxFaults /\ faults' = faults + 1
NoFault == faults' = faults
Lose(lease) == lost' = lost \cup {lease.token}

\* a synchronous heartbeat of the main thread, answered or lost
Beat(answered) ==
    IF answered THEN Heartbeat /\ NoFault
    ELSE Fault /\ (Heartbeat \/ NoServerStep)

-----------------------------------------------------------------------------
\* Polling and claiming.

\* main: a new process
Start ==
    /\ pc = "off"
    /\ pc' = "poll"
    /\ held' = None
    /\ progress' = None
    /\ reported' = FALSE
    /\ NoServerStep
    /\ UNCHANGED <<lost, outcome, todo, awaited, ticker, beats, faults>>

\* the heartbeat at the start of _run_once
Poll ==
    /\ pc = "poll"
    /\ \E answered \in BOOLEAN :
        /\ Beat(answered)
        /\ pc' = IF answered THEN "claim" ELSE "poll"
    /\ UNCHANGED <<held, progress, outcome, todo, awaited, ticker, beats,
                   reported, lost>>

\* client.claim without a run to give
PollNothing ==
    /\ pc = "claim"
    /\ ClaimNothing
    /\ pc' = "translate"
    /\ ticker' = TRUE
    /\ UNCHANGED <<held, progress, outcome, todo, awaited, beats, reported,
                   lost, faults>>

\* client.claim with a run; its answer may get lost
PollRun ==
    /\ pc = "claim"
    /\ ClaimRun
    /\ \/ /\ pc' = "begin"
          /\ \E r \in Runs : /\ leaseToken'[r] = issued'
                             /\ held' = [run |-> r, token |-> issued']
          /\ reported' = FALSE
          /\ UNCHANGED <<lost, faults>>
       \/ /\ Fault
          /\ pc' = "poll"
          /\ lost' = lost \cup {issued'}
          /\ UNCHANGED <<held, reported>>
    /\ UNCHANGED <<progress, outcome, todo, awaited, ticker, beats>>

\* client.claim that does not reach the server
PollUnsent ==
    /\ pc = "claim"
    /\ Fault
    /\ pc' = "poll"
    /\ NoServerStep
    /\ UNCHANGED <<held, progress, outcome, todo, awaited, ticker, beats,
                   reported, lost>>

\* progress.begin_run and progress.set("exploring"), before the try block: when
\* the heartbeat fails the run is left to its lease
Begin ==
    /\ pc = "begin"
    /\ progress' = held
    /\ \E answered \in BOOLEAN :
        /\ Beat(answered)
        /\ pc' = IF answered THEN "explore" ELSE "poll"
        /\ ticker' = answered
        /\ IF answered THEN UNCHANGED lost ELSE Lose(held)
        /\ outcome' = IF answered THEN "ok" ELSE "error"
    /\ UNCHANGED <<held, todo, awaited, beats, reported>>

-----------------------------------------------------------------------------
\* Exploring and submitting.

\* _run_exploration_agent: an output to work on, or an AdapterOutputError
Explore ==
    /\ pc = "explore"
    /\ \/ /\ pc' = "flow"
          /\ todo' \in 0..MaxSubmits
          /\ UNCHANGED outcome
       \/ /\ pc' = "completing"
          /\ outcome' = "failed"
          /\ UNCHANGED todo
    /\ NoServerStep
    /\ UNCHANGED <<held, progress, awaited, ticker, beats, reported, lost, faults>>

\* LeaseLostError: no completion report
LoseLease == outcome' = "lost" /\ pc' = "idle"

\* a submission reaches the server and passes its first look at the lease; the
\* runner waits for the answer
SubmitStarts ==
    /\ pc = "flow"
    /\ todo > 0
    /\ awaited = NoWorker
    /\ \E w \in Workers, u \in Urls :
        /\ \/ CheckListing(w, held.run, held.token, u)
           \/ CheckAccount(w, held.run, held.token, u)
           \/ CheckEvent(w, held.run, held.token, u)
        /\ awaited' = w
    /\ UNCHANGED <<pc, held, progress, outcome, todo, ticker, beats, reported,
                   lost, faults>>

\* a submission that is answered by its first transaction: lease lost (409),
\* known URL or full run
SubmitAnswered ==
    /\ pc = "flow"
    /\ todo > 0
    /\ awaited = NoWorker
    /\ todo' = todo - 1
    /\ IF ValidLease(held.run, held.token) THEN UNCHANGED <<pc, outcome>> ELSE LoseLease
    /\ NoServerStep
    /\ UNCHANGED <<held, progress, awaited, ticker, beats, reported, lost, faults>>

\* the server ends a submission: saved, refused or, for lack of a valid lease, 409
WorkerEnds(w) ==
    \/ SaveFailed(w)
    \/ Promote(w)
    \/ PromoteCollides(w)
    \/ SaveEvent(w)
    \/ Abandon(w)

SubmitEnds ==
    /\ awaited # NoWorker
    /\ Working(awaited)
    /\ WorkerEnds(awaited)
    /\ awaited' = NoWorker
    /\ todo' = todo - 1
    /\ IF WorkerHasLease(awaited) THEN UNCHANGED <<pc, outcome>> ELSE LoseLease
    /\ UNCHANGED <<held, progress, ticker, beats, reported, lost, faults>>

\* a submission nobody waits for any more, and the end of a crashed one
OrphanEnds ==
    /\ \E w \in Workers : w # awaited /\ WorkerEnds(w)
    /\ UNCHANGED loopVars

\* mutant: the exception is swallowed and the run goes on as if nothing happened
FailureIgnored == "ok"

\* what _process_run reports after an exception in the flow
FailureOutcome == "failed"

\* an exception that is not an HTTPStatusError: the answer times out (the
\* server goes on), known_urls or a progress heartbeat fails, an item of the
\* agent's output is malformed
FlowFails ==
    /\ pc = "flow"
    /\ IF awaited = NoWorker THEN NoFault ELSE Fault
    /\ awaited' = NoWorker
    /\ outcome' = FailureOutcome
    /\ pc' = "completing"
    /\ NoServerStep
    /\ UNCHANGED <<held, progress, todo, ticker, beats, reported, lost>>

FlowEnds ==
    /\ pc = "flow"
    /\ todo = 0
    /\ awaited = NoWorker
    /\ pc' = "completing"
    /\ NoServerStep
    /\ UNCHANGED <<held, progress, outcome, todo, awaited, ticker, beats, reported,
                   lost, faults>>

-----------------------------------------------------------------------------
\* Reporting back.

\* progress.set("completing") right before client.complete: when its heartbeat
\* fails, the HTTPError leaves the function and the report is never sent
Completing ==
    /\ pc = "completing"
    /\ \E answered \in BOOLEAN :
        /\ Beat(answered)
        /\ pc' = IF answered THEN "complete" ELSE "idle"
        /\ outcome' = IF answered THEN outcome ELSE "error"
        /\ IF answered THEN UNCHANGED lost ELSE Lose(held)
    /\ UNCHANGED <<held, progress, todo, awaited, ticker, beats, reported>>

\* the server gets a completion report, or refuses it with 409
Report(lease, ok) ==
    \/ /\ ValidLease(lease.run, lease.token)
       /\ \E a \in Reported, f \in Reported : Complete(lease.run, lease.token, ok, a, f)
    \/ /\ ~ValidLease(lease.run, lease.token)
       /\ NoServerStep

\* client.complete
Completes ==
    /\ pc = "complete"
    /\ pc' = "idle"
    /\ reported' = TRUE
    /\ \/ /\ Report(held, outcome = "ok")
          /\ NoFault
          /\ outcome' = IF ValidLease(held.run, held.token) THEN outcome ELSE "error"
          /\ UNCHANGED lost
       \/ /\ Report(held, outcome = "ok")
          /\ Fault
          /\ outcome' = "error"
          /\ UNCHANGED lost
       \/ /\ NoServerStep
          /\ Fault
          /\ outcome' = "error"
          /\ Lose(held)
    /\ UNCHANGED <<held, progress, todo, awaited, ticker, beats>>

\* the finally block of _run_once: ticker.stop, progress.end_run and
\* progress.set("idle"); a failed poll skips the translations
EndRun ==
    /\ pc = "idle"
    /\ progress' = None
    /\ \E answered \in BOOLEAN :
        /\ Beat(answered)
        /\ pc' = IF answered /\ outcome # "error" THEN "translate" ELSE "poll"
        /\ ticker' = (answered /\ outcome # "error")
    /\ UNCHANGED <<held, outcome, todo, awaited, beats, reported, lost>>

\* _safe_translate runs under a ticker of its own, then main sleeps and polls
Translated ==
    /\ pc = "translate"
    /\ pc' = "poll"
    /\ ticker' = FALSE
    /\ NoServerStep
    /\ UNCHANGED <<held, progress, outcome, todo, awaited, beats, reported, lost,
                   faults>>

-----------------------------------------------------------------------------
\* The ticker thread and its requests.

TickerSends ==
    /\ ticker
    /\ beats < MaxBeats
    /\ beats' = beats + 1
    /\ NoServerStep
    /\ UNCHANGED <<pc, held, progress, outcome, todo, awaited, ticker, reported,
                   lost, faults>>

BeatArrives ==
    /\ beats > 0
    /\ beats' = beats - 1
    /\ Heartbeat
    /\ UNCHANGED <<pc, held, progress, outcome, todo, awaited, ticker, reported,
                   lost, faults>>

-----------------------------------------------------------------------------
\* Signals, shutdown and crashes.

\* mutant: the finally block forgets the run although the signal ended it
ProgressForgotten == None

\* what the shutdown handler finds in progress
ProgressAfterSignal == progress

\* KeyboardInterrupt in the main thread.  The finally blocks stop the ticker;
\* a claim or a completion that is interrupted may have reached the server.
Interrupt ==
    /\ pc \notin {"off", "shutdown", "goodbye"}
    /\ Fault
    /\ pc' = "shutdown"
    /\ ticker' = FALSE
    /\ awaited' = NoWorker
    /\ progress' = ProgressAfterSignal
    /\ \/ NoServerStep /\ IF pc = "begin" THEN Lose(held) ELSE UNCHANGED lost
       \/ pc = "claim" /\ ClaimRun /\ lost' = lost \cup {issued'}
       \/ pc = "complete" /\ Report(held, outcome = "ok") /\ UNCHANGED lost
    /\ UNCHANGED <<held, outcome, todo, beats, reported>>

\* _report_shutdown, its first half
ReportShutdown ==
    /\ pc = "shutdown"
    /\ pc' = "goodbye"
    /\ \/ /\ progress = None
          /\ NoServerStep
          /\ NoFault
          /\ UNCHANGED lost
       \/ /\ progress # None
          /\ Report(progress, FALSE)
          /\ NoFault \/ Fault
          /\ UNCHANGED lost
       \/ /\ progress # None
          /\ NoServerStep
          /\ Fault
          /\ Lose(progress)
    /\ UNCHANGED <<held, progress, outcome, todo, awaited, ticker, beats, reported>>

\* its second half, send_offline; the process ends
SayGoodbye ==
    /\ pc = "goodbye"
    /\ pc' = "off"
    /\ \/ RecordOffline /\ (NoFault \/ Fault)
       \/ NoServerStep /\ Fault
    /\ UNCHANGED <<held, progress, outcome, todo, awaited, ticker, beats, reported, lost>>

\* a crash, or a second signal during the shutdown; a claim may be on its way
Die ==
    /\ pc # "off"
    /\ Fault
    /\ pc' = "off"
    /\ ticker' = FALSE
    /\ awaited' = NoWorker
    /\ \/ NoServerStep /\ Lose(held)
       \/ pc = "claim" /\ ClaimRun /\ lost' = lost \cup {issued'}
    /\ UNCHANGED <<held, progress, outcome, todo, beats, reported>>

-----------------------------------------------------------------------------
StaffCreatesRun == CreateRun /\ UNCHANGED loopVars

TimePasses == Tick /\ UNCHANGED loopVars

RunnerStep ==
    \/ Start \/ Poll \/ PollNothing \/ PollRun \/ PollUnsent \/ Begin
    \/ Explore \/ SubmitStarts \/ SubmitAnswered \/ SubmitEnds \/ FlowFails \/ FlowEnds
    \/ Completing \/ Completes \/ EndRun \/ Translated
    \/ ReportShutdown \/ SayGoodbye

LoopNext ==
    \/ RunnerStep
    \/ OrphanEnds
    \/ TickerSends
    \/ BeatArrives
    \/ Interrupt
    \/ Die
    \/ StaffCreatesRun
    \/ TimePasses

LoopSpec == LoopInit /\ [][LoopNext]_allVars

\* Requests end, messages arrive and time passes.  Nothing obliges staff to
\* create a run or a message to be lost.
LoopFairness ==
    /\ WF_allVars(OrphanEnds)
    /\ WF_allVars(BeatArrives)
    /\ WF_allVars(TimePasses)

\* launchd restarts the runner, and its calls return
RunnerKeepsRunning == WF_allVars(RunnerStep)

-----------------------------------------------------------------------------
(***************************************************************************)
(* Properties.                                                             *)
(***************************************************************************)

\* A process that is gone leaves no run leased behind it, so that staff can
\* start the next exploration at once, unless a message about that lease or the
\* process itself was lost: whenever a signal comes after the run has begun,
\* the shutdown report closes it.
NoOrphanWithoutLoss ==
    pc = "off" => \A r \in Runs : ValidLease(r, leaseToken[r]) => leaseToken[r] \in lost

\* A run is reported as a success only when the server has dealt with every
\* submission made under its lease: an answer that timed out while the server
\* went on makes the run a failure, so that a success is never short of what
\* is still being saved.
SuccessIsWhole ==
    [][\A r \in Runs :
           status[r] = "claimed" /\ status'[r] = "succeeded" =>
               \A w \in Workers :
                   ~(Working(w) /\ worker[w].run = r /\ worker[w].token = leaseToken[r])]_allVars

\* As long as the runner is restarted, every requested run comes to an end,
\* however messages and processes are lost: it is completed, or its last lease
\* lapses and a later claim expires it.
RunsFinish ==
    RunnerKeepsRunning =>
        \A r \in Runs : status[r] = "pending" ~> status[r] \in FinishedStatuses

\* A runner that is gone for good does not stay online for ever, whether it
\* said goodbye or crashed, and whatever heartbeats were still on their way.
AbsenceShows == <>[](pc = "off") => <>[](~RunnerIsOnline)

\* What the comment in _process_run says: whatever goes wrong in the flow, the
\* completion is reported, so that the run does not block the next exploration.
AlwaysReports ==
    pc \in {"poll", "translate"} /\ held # None /\ progress = None /\ outcome # "lost"
        => reported
=============================================================================
