-------------------------- MODULE Discovery_proofs --------------------------
(***************************************************************************)
(* Proofs about DiscoveryRuns, for every number of runs, leases, workers,  *)
(* URLs and ticks; about RunnerLoop, for every number of faults,           *)
(* submissions and heartbeats besides; and about Collecting, for every     *)
(* number of sources, listings, buttons and scheduled runs.                *)
(***************************************************************************)
EXTENDS RunnerLoop, Collecting, FiniteSetTheorems, TLAPS

\* A run that was never created was never leased either, and runs are created
\* in the order of their ids.
Unborn ==
    \A r \in Runs : /\ status[r] = "absent" <=> r > created
                    /\ status[r] = "absent" => leaseCount[r] = 0

\* The inductive invariant.  LeaseWellFormed needs AtMostOneActive (the sweep
\* of claim touches every run, its grant one), TypeOK needs LeaseWellFormed
\* (lease_count stays below its cap), and creation needs Unborn.
IInv == TypeOK /\ AtMostOneActive /\ LeaseWellFormed /\ Unborn

USE DEF Statuses, ActiveStatuses, FinishedStatuses, NoToken, Runs

-----------------------------------------------------------------------------
(***************************************************************************)
(* Lemmas about the constants and the operators.                           *)
(***************************************************************************)

LEMMA ConstantTypes ==
    /\ MaxRuns \in Nat /\ MaxLeases \in Nat /\ LeaseTicks \in Nat
    /\ FreshTicks \in Nat /\ MaxCandidates \in Nat /\ MaxEvents \in Nat
    /\ MaxRuns > 0 /\ MaxLeases > 0 /\ LeaseTicks > 0
BY RunsAssumption

LEMMA LeaseTicksRange == LeaseTicks \in -1..LeaseTicks
BY ConstantTypes

\* Counts a runner reports are clamped into their range.
LEMMA CleanRange ==
    ASSUME NEW n \in Int, NEW high \in Nat
    PROVE  Clean(n, high) \in 0..high
BY DEF Clean

\* The status complete_run computes is never "expired" or an active one.
LEMMA FinalStatusFinished ==
    ASSUME NEW r, NEW ok, NEW a, NEW f
    PROVE  FinalStatus(r, ok, a, f) \in {"succeeded", "partially_failed", "failed"}
BY DEF FinalStatus, Combined

\* What the sweep of claim does to the status of a run.
LEMMA SweptCases ==
    ASSUME NEW r \in Runs
    PROVE  \/ Swept(r) = status[r] /\ r \notin Lapsed
           \/ Swept(r) = "expired" /\ r \in Lapsed /\ leaseCount[r] >= MaxLeases
           \/ Swept(r) = "pending" /\ r \in Lapsed /\ ~(leaseCount[r] >= MaxLeases)
BY DEF Swept

-----------------------------------------------------------------------------
(***************************************************************************)
(* The invariant holds.                                                    *)
(***************************************************************************)

LEMMA InitIInv == Init => IInv
<1> SUFFICES ASSUME Init PROVE IInv
    OBVIOUS
<1> USE ConstantTypes DEF Init
<1>1. RunsTypeOK
  <2>1. report \in [Runs -> [attempted : 0..MaxEvents, failed : 0..MaxEvents]]
    OBVIOUS
  <2> QED
    BY <2>1 DEF RunsTypeOK
<1>2. SavedTypeOK
    BY DEF SavedTypeOK
<1>3. RunnerTypeOK
  <2>1. hbAge \in 0..(FreshTicks + 1)
    OBVIOUS
  <2>2. offline \in BOOLEAN
    OBVIOUS
  <2> QED
    BY <2>1, <2>2 DEF RunnerTypeOK
<1>4. WorkerTypeOK
    BY DEF WorkerTypeOK
<1>5. AtMostOneActive /\ LeaseWellFormed /\ Unborn
    BY DEF AtMostOneActive, LeaseWellFormed, Unborn
<1> QED
    BY <1>1, <1>2, <1>3, <1>4, <1>5 DEF IInv, TypeOK

\* What a step leaves alone stays well typed.
LEMMA SameTypes ==
    /\ RunsTypeOK /\ UNCHANGED runVars => RunsTypeOK'
    /\ SavedTypeOK /\ UNCHANGED savedVars => SavedTypeOK'
    /\ RunnerTypeOK /\ UNCHANGED runnerVars => RunnerTypeOK'
    /\ WorkerTypeOK /\ UNCHANGED worker => WorkerTypeOK'
BY DEF RunsTypeOK, SavedTypeOK, RunnerTypeOK, WorkerTypeOK, runVars, savedVars, runnerVars

\* A step that leaves the runs alone, lease renewal aside, keeps what relates
\* their fields.
LEMMA SameRuns ==
    ASSUME IInv, UNCHANGED <<status, leaseToken, leaseCount, created, issued>>
    PROVE  (AtMostOneActive /\ LeaseWellFormed /\ Unborn)'
BY DEF IInv, AtMostOneActive, LeaseWellFormed, Unborn

LEMMA HeartbeatStep == IInv /\ (Heartbeat \/ RecordOffline) => IInv'
<1> SUFFICES ASSUME IInv, Heartbeat \/ RecordOffline PROVE IInv'
    OBVIOUS
<1>1. UNCHANGED <<runVars, savedVars, worker>>
    BY DEF Heartbeat, RecordOffline
<1>2. RunnerTypeOK'
  <2>1. hbAge' \in 0..(FreshTicks + 1)
    BY ConstantTypes DEF IInv, TypeOK, RunnerTypeOK, Heartbeat, RecordOffline
  <2>2. offline' \in BOOLEAN
    BY DEF Heartbeat, RecordOffline
  <2> QED
    BY <2>1, <2>2 DEF RunnerTypeOK
<1>3. (AtMostOneActive /\ LeaseWellFormed /\ Unborn)'
    BY <1>1, SameRuns DEF runVars
<1> QED
    BY <1>1, <1>2, <1>3, SameTypes DEF IInv, TypeOK

LEMMA CreateRunStep == IInv /\ CreateRun => IInv'
<1> SUFFICES ASSUME IInv, CreateRun PROVE IInv'
    OBVIOUS
<1> USE ConstantTypes DEF CreateRun, Active
<1>1. RunsTypeOK
    BY DEF IInv, TypeOK
<1>2. RunsTypeOK'
  <2>1. status' \in [Runs -> Statuses] /\ created' \in 0..MaxRuns
    BY <1>1 DEF RunsTypeOK
  <2> QED
    BY <1>1, <2>1 DEF RunsTypeOK
<1>3. AtMostOneActive'
    BY <1>1 DEF IInv, AtMostOneActive, RunsTypeOK
<1>4. LeaseWellFormed' /\ Unborn'
  <2>1. created + 1 \in Runs
    BY <1>1 DEF RunsTypeOK
  <2>2. status[created + 1] = "absent"
    BY <1>1, <2>1 DEF IInv, Unborn, RunsTypeOK
  <2>3. \A q \in Runs : q # created + 1 => status'[q] = status[q]
    BY <1>1 DEF RunsTypeOK
  <2>4. status'[created + 1] = "pending" /\ leaseToken[created + 1] = 0
        /\ leaseCount[created + 1] = 0
    BY <1>1, <2>1, <2>2 DEF IInv, RunsTypeOK, LeaseWellFormed, Unborn
  <2>5. LeaseWellFormed'
    BY <2>3, <2>4 DEF IInv, LeaseWellFormed
  <2>6. Unborn'
    <3>1. created \in Nat /\ \A q \in Runs : q \in Nat
      BY <1>1 DEF RunsTypeOK
    <3> QED
      BY <2>3, <2>4, <3>1 DEF IInv, Unborn
  <2> QED
    BY <2>5, <2>6
<1> QED
    BY <1>2, <1>3, <1>4, SameTypes DEF IInv, TypeOK

LEMMA ClaimNothingStep == IInv /\ ClaimNothing => IInv'
<1> SUFFICES ASSUME IInv, ClaimNothing PROVE IInv'
    OBVIOUS
<1>1. RunsTypeOK
    BY DEF IInv, TypeOK
<1>2. /\ status' = [r \in Runs |-> Swept(r)]
      /\ leaseToken' = [r \in Runs |-> SweptToken(r)]
      /\ UNCHANGED <<leaseLeft, leaseCount, report, created, issued>>
      /\ UNCHANGED <<savedVars, runnerVars, worker>>
    BY DEF ClaimNothing
<1>3. \A r \in Runs : \/ r \notin Lapsed /\ status'[r] = status[r]
                                         /\ leaseToken'[r] = leaseToken[r]
                      \/ /\ r \in Lapsed /\ status'[r] = "expired"
                         /\ leaseToken'[r] = 0 /\ leaseCount[r] >= MaxLeases
    BY <1>2, SweptCases DEF SweptToken, ClaimNothing, Waiting
<1>4. RunsTypeOK'
  <2>1. "expired" \in Statuses
    BY DEF Statuses
  <2>2. \A r \in Runs : status'[r] \in Statuses
    BY <1>1, <1>3, <2>1 DEF RunsTypeOK
  <2>3. \A r \in Runs : leaseToken'[r] \in Nat
    BY <1>1, <1>3 DEF RunsTypeOK
  <2>4. status' \in [Runs -> Statuses]
    BY <1>2, <2>2
  <2>5. leaseToken' \in [Runs -> Nat]
    BY <1>2, <2>3
  <2> QED
    BY <1>1, <1>2, <2>4, <2>5 DEF RunsTypeOK
<1>5. AtMostOneActive'
    BY <1>3 DEF IInv, AtMostOneActive
<1>6. LeaseWellFormed'
  <2>1. \A r \in Runs : leaseCount[r] \in 0..MaxLeases
    BY <1>1 DEF RunsTypeOK
  <2>2. \A r \in Runs : leaseCount[r] >= MaxLeases => leaseCount[r] = MaxLeases
    BY <2>1, ConstantTypes
  <2> QED
    BY <1>2, <1>3, <2>2 DEF IInv, LeaseWellFormed
<1>7. Unborn'
    BY <1>2, <1>3 DEF IInv, Unborn, Lapsed
<1> QED
    BY <1>2, <1>4, <1>5, <1>6, <1>7, SameTypes DEF IInv, TypeOK

LEMMA ClaimRunStep == IInv /\ ClaimRun => IInv'
<1> SUFFICES ASSUME IInv, ClaimRun PROVE IInv'
    OBVIOUS
<1>1. PICK r \in Waiting :
        /\ status' = [q \in Runs |-> IF q = r THEN "claimed" ELSE Swept(q)]
        /\ leaseToken' = [q \in Runs |-> IF q = r THEN issued + 1 ELSE SweptToken(q)]
        /\ leaseLeft' = [leaseLeft EXCEPT ![r] = LeaseTicks]
        /\ leaseCount' = [leaseCount EXCEPT ![r] = @ + 1]
        /\ issued' = issued + 1
        /\ UNCHANGED <<report, created>>
        /\ UNCHANGED <<savedVars, runnerVars, worker>>
    BY DEF ClaimRun
<1>2. RunsTypeOK
    BY DEF IInv, TypeOK
<1>3. r \in Runs /\ status[r] \in ActiveStatuses /\ leaseCount[r] < MaxLeases
  <2>1. r \in Runs /\ Swept(r) = "pending"
    BY <1>1 DEF Waiting
  <2>2. leaseCount[r] \in 0..MaxLeases
    BY <1>2, <2>1 DEF RunsTypeOK
  <2> QED
    BY <2>1, <2>2, SweptCases, ConstantTypes DEF IInv, Lapsed, LeaseWellFormed
<1>4. \A q \in Runs : q # r => /\ status[q] \notin ActiveStatuses
                               /\ status'[q] = status[q]
                               /\ leaseToken'[q] = leaseToken[q]
                               /\ leaseCount'[q] = leaseCount[q]
  <2> SUFFICES ASSUME NEW q \in Runs, q # r
               PROVE  /\ status[q] \notin ActiveStatuses
                      /\ status'[q] = status[q]
                      /\ leaseToken'[q] = leaseToken[q]
                      /\ leaseCount'[q] = leaseCount[q]
    OBVIOUS
  <2>1. status[q] \notin ActiveStatuses
    BY <1>3 DEF IInv, AtMostOneActive
  <2>2. q \notin Lapsed
    BY <2>1 DEF Lapsed
  <2> QED
    BY <1>1, <1>2, <2>1, <2>2, SweptCases DEF SweptToken, RunsTypeOK
<1>5. /\ status'[r] = "claimed" /\ leaseToken'[r] = issued + 1
      /\ leaseCount'[r] = leaseCount[r] + 1
    BY <1>1, <1>2, <1>3 DEF RunsTypeOK
<1>6. RunsTypeOK'
  <2>1. status' \in [Runs -> Statuses]
    BY <1>1, <1>2, <1>4, <1>5 DEF RunsTypeOK
  <2>2. leaseToken' \in [Runs -> Nat] /\ issued' \in Nat
    BY <1>1, <1>2, <1>4, <1>5 DEF RunsTypeOK
  <2>3. leaseCount' \in [Runs -> 0..MaxLeases]
    <3>1. leaseCount[r] \in 0..MaxLeases /\ leaseCount \in [Runs -> 0..MaxLeases]
      BY <1>2, <1>3 DEF RunsTypeOK
    <3>2. leaseCount[r] + 1 \in 0..MaxLeases
      BY <1>3, <3>1, ConstantTypes
    <3> QED
      BY <1>1, <3>1, <3>2
  <2>4. leaseLeft' \in [Runs -> -1..LeaseTicks]
    BY <1>1, <1>2, LeaseTicksRange DEF RunsTypeOK
  <2> QED
    BY <1>1, <1>2, <2>1, <2>2, <2>3, <2>4 DEF RunsTypeOK
<1>7. AtMostOneActive'
    BY <1>4 DEF AtMostOneActive
<1>8. LeaseWellFormed'
  <2> SUFFICES ASSUME NEW q \in Runs
               PROVE  /\ status'[q] = "claimed" <=> leaseToken'[q] # NoToken
                      /\ status'[q] = "claimed" =>
                             leaseToken'[q] = issued' /\ leaseCount'[q] > 0
                      /\ status'[q] = "pending" => leaseCount'[q] < MaxLeases
                      /\ status'[q] = "expired" => leaseCount'[q] = MaxLeases
    BY DEF LeaseWellFormed
  <2>1. CASE q = r
    BY <1>1, <1>2, <1>3, <1>5, <2>1 DEF RunsTypeOK
  <2>2. CASE q # r
    BY <1>4, <2>2 DEF IInv, LeaseWellFormed
  <2> QED
    BY <2>1, <2>2
<1>9. Unborn'
    BY <1>1, <1>3, <1>4, <1>5 DEF IInv, Unborn
<1> QED
    BY <1>1, <1>6, <1>7, <1>8, <1>9, SameTypes DEF IInv, TypeOK

\* A worker whose request is in its network checks.
LEMMA WorkingTypes ==
    ASSUME WorkerTypeOK, NEW w \in Workers, Working(w)
    PROVE  worker[w].run \in Runs /\ worker[w].url \in Urls
<1>1. worker[w] \in Checks
    BY DEF WorkerTypeOK, Working, Idle, Crashed
<1> QED
    BY <1>1 DEF Checks

LEMMA StartWorkTypes ==
    ASSUME TypeOK, NEW w \in Workers, NEW kind \in Kinds, NEW r \in 1..created,
           NEW t \in 0..issued, NEW u \in Urls, StartWork(w, kind, r, t, u)
    PROVE  TypeOK'
<1>1. r \in Runs /\ t \in Nat
    BY ConstantTypes DEF TypeOK, RunsTypeOK
<1>2. WorkerTypeOK'
    BY <1>1 DEF StartWork, Checks, TypeOK, WorkerTypeOK
<1> QED
    BY <1>2, SameTypes DEF TypeOK, StartWork

LEMMA SaveTypes ==
    ASSUME TypeOK, NEW w \in Workers, SaveFailed(w) \/ Promote(w) \/ SaveEvent(w)
    PROVE  TypeOK'
<1>1. worker[w].run \in Runs /\ worker[w].url \in Urls
    BY WorkingTypes DEF TypeOK, SaveFailed, Promote, SaveEvent, Submits
<1>2. WorkerTypeOK'
    BY DEF TypeOK, WorkerTypeOK, SaveFailed, Promote, SaveEvent, EndWork
<1>3. leaseLeft' \in [Runs -> -1..LeaseTicks]
  <2>1. leaseLeft' = [leaseLeft EXCEPT ![worker[w].run] = LeaseTicks]
    BY DEF SaveFailed, Promote, SaveEvent, Renew
  <2> QED
    BY <2>1, LeaseTicksRange DEF TypeOK, RunsTypeOK
<1>4. RunsTypeOK'
    BY <1>3 DEF TypeOK, RunsTypeOK, SaveFailed, Promote, SaveEvent
<1>5. SavedTypeOK'
  <2>1. CASE SaveFailed(w)
    BY <1>1, <2>1 DEF TypeOK, SavedTypeOK, SaveFailed
  <2>2. CASE Promote(w)
    BY <1>1, <2>2 DEF TypeOK, SavedTypeOK, Promote
  <2>3. CASE SaveEvent(w)
    BY <1>1, <2>3 DEF TypeOK, SavedTypeOK, SaveEvent
  <2> QED
    BY <2>1, <2>2, <2>3
<1>6. UNCHANGED runnerVars
    BY DEF SaveFailed, Promote, SaveEvent
<1> QED
    BY <1>2, <1>4, <1>5, <1>6, SameTypes DEF TypeOK

LEMMA EndTypes ==
    ASSUME TypeOK, NEW w \in Workers, PromoteCollides(w) \/ Abandon(w)
    PROVE  TypeOK'
<1>1. WorkerTypeOK'
    BY DEF TypeOK, WorkerTypeOK, PromoteCollides, Abandon, EndWork
<1>2. UNCHANGED <<runVars, savedVars, runnerVars>>
    BY DEF PromoteCollides, Abandon
<1> QED
    BY <1>1, <1>2, SameTypes DEF TypeOK

LEMMA SubmitStep == IInv /\ Submit => IInv'
<1> SUFFICES ASSUME IInv, Submit PROVE IInv'
    OBVIOUS
<1>1. UNCHANGED <<status, leaseToken, leaseCount, created, issued>>
    BY DEF Submit, CheckListing, CheckAccount, CheckEvent, StartWork, SaveFailed,
           Promote, PromoteCollides, SaveEvent, Abandon, runVars
<1>2. \E w \in Workers :
        \/ \E r \in 1..created, t \in 0..issued, u \in Urls, kind \in Kinds :
               StartWork(w, kind, r, t, u)
        \/ SaveFailed(w) \/ Promote(w) \/ SaveEvent(w)
        \/ PromoteCollides(w) \/ Abandon(w)
    BY DEF Submit, CheckListing, CheckAccount, CheckEvent, Kinds
<1>3. TypeOK
    BY DEF IInv
<1>4. TypeOK'
    BY <1>2, <1>3, StartWorkTypes, SaveTypes, EndTypes
<1> QED
    BY <1>1, <1>4, SameRuns DEF IInv

LEMMA CompleteStep == IInv /\ CompleteRun => IInv'
<1> SUFFICES ASSUME IInv,
                    NEW r \in 1..created, NEW t \in 0..issued, NEW ok \in BOOLEAN,
                    NEW a \in Reported, NEW f \in Reported, Complete(r, t, ok, a, f)
             PROVE  IInv'
    BY DEF CompleteRun
<1> DEFINE attempted == Clean(a, MaxEvents)
           failed == Clean(f, attempted)
           final == FinalStatus(r, ok, attempted, failed)
<1>1. attempted \in 0..MaxEvents /\ failed \in 0..MaxEvents
  <2>1. attempted \in 0..MaxEvents
    BY CleanRange, ConstantTypes, RunsAssumption
  <2>2. failed \in 0..attempted
    BY <2>1, CleanRange, ConstantTypes, RunsAssumption
  <2> HIDE DEF attempted, failed
  <2> QED
    BY <2>1, <2>2, ConstantTypes
<1>2. final \in {"succeeded", "partially_failed", "failed"}
    BY FinalStatusFinished
<1>3. /\ status[r] = "claimed"
      /\ status' = [status EXCEPT ![r] = final]
      /\ leaseToken' = [leaseToken EXCEPT ![r] = 0]
      /\ report' = [report EXCEPT ![r] = [attempted |-> attempted, failed |-> failed]]
      /\ UNCHANGED <<leaseLeft, leaseCount, created, issued>>
      /\ UNCHANGED <<savedVars, runnerVars, worker>>
    BY DEF Complete, ValidLease
<1> HIDE DEF attempted, failed, final
<1>4. RunsTypeOK /\ r \in Runs
  <2>1. RunsTypeOK
    BY DEF IInv, TypeOK
  <2>2. created \in 0..MaxRuns
    BY <2>1 DEF RunsTypeOK
  <2> QED
    BY <2>1, <2>2, ConstantTypes
<1>5. RunsTypeOK'
  <2>1. report' \in [Runs -> [attempted : 0..MaxEvents, failed : 0..MaxEvents]]
    BY <1>1, <1>3, <1>4 DEF RunsTypeOK
  <2> QED
    BY <1>2, <1>3, <1>4, <2>1 DEF RunsTypeOK
<1>6. AtMostOneActive'
    BY <1>2, <1>3, <1>4 DEF IInv, RunsTypeOK, AtMostOneActive
<1>7. LeaseWellFormed' /\ Unborn'
    BY <1>2, <1>3, <1>4 DEF IInv, RunsTypeOK, LeaseWellFormed, Unborn
<1> QED
    BY <1>3, <1>5, <1>6, <1>7, SameTypes DEF IInv, TypeOK

LEMMA EnvironmentStep == IInv /\ (Others \/ Tick) => IInv'
<1> SUFFICES ASSUME IInv, Others \/ Tick PROVE IInv'
    OBVIOUS
<1>1. UNCHANGED <<status, leaseToken, leaseCount, created, issued, report>>
    BY DEF Others, OthersAddSource, OthersRemoveSource, OthersAddDraft, Tick, runVars
<1>2. CASE Others
  <2>1. UNCHANGED <<runVars, runnerVars, worker>>
    BY <1>2 DEF Others, OthersAddSource, OthersRemoveSource, OthersAddDraft
  <2>2. SavedTypeOK'
    BY <1>2 DEF IInv, TypeOK, SavedTypeOK, Others, OthersAddSource, OthersRemoveSource,
                OthersAddDraft
  <2> QED
    BY <1>1, <2>1, <2>2, SameTypes, SameRuns DEF IInv, TypeOK
<1>3. CASE Tick
  <2>1. leaseLeft' \in [Runs -> -1..LeaseTicks]
    <3>1. leaseLeft \in [Runs -> -1..LeaseTicks]
      BY DEF IInv, TypeOK, RunsTypeOK
    <3>2. leaseLeft' = [r \in Runs |-> IF leaseLeft[r] < 0 THEN -1 ELSE leaseLeft[r] - 1]
      BY <1>3 DEF Tick
    <3> QED
      BY <3>1, <3>2, ConstantTypes
  <2>2. RunsTypeOK'
    BY <1>1, <2>1 DEF IInv, TypeOK, RunsTypeOK
  <2>3. RunnerTypeOK'
    BY <1>3, ConstantTypes DEF IInv, TypeOK, RunnerTypeOK, Tick
  <2>4. UNCHANGED <<savedVars, worker>>
    BY <1>3 DEF Tick
  <2> QED
    BY <1>1, <2>2, <2>3, <2>4, SameTypes, SameRuns DEF IInv, TypeOK
<1> QED
    BY <1>2, <1>3

LEMMA StepIInv == IInv /\ [Next]_vars => IInv'
<1> SUFFICES ASSUME IInv, [Next]_vars PROVE IInv'
    OBVIOUS
<1>1. CASE Next
    BY <1>1, HeartbeatStep, CreateRunStep, ClaimNothingStep, ClaimRunStep, SubmitStep,
       CompleteStep, EnvironmentStep DEF Next
<1>2. CASE UNCHANGED vars
    BY <1>2, SameTypes, SameRuns DEF IInv, TypeOK, vars, runVars
<1> QED
    BY <1>1, <1>2

LEMMA Invariance == Spec => []IInv
BY InitIInv, StepIInv, PTL DEF Spec

\* Every variable of the discovery server keeps its type; in particular no run
\* is leased more than MAX_LEASES times.
THEOREM TypeCorrect == Spec => []TypeOK
BY Invariance, PTL DEF IInv

\* No interleaving of create_run, claim, submissions, completions and lapsing
\* leases leaves two runs waiting or leased.
THEOREM SingleFile == Spec => []AtMostOneActive
BY Invariance, PTL DEF IInv

\* Tokens, lease counts and statuses agree, so a token identifies its lease.
THEOREM LeasesAgree == Spec => []LeaseWellFormed
BY Invariance, PTL DEF IInv

-----------------------------------------------------------------------------
(***************************************************************************)
(* What a step may do to one run.                                          *)
(***************************************************************************)

\* The records of a run change only under a valid lease on it, and so does its
\* report.
LEMMA RecordsNeedLease ==
    ASSUME IInv, [Next]_vars, NEW r \in Runs
    PROVE  \/ /\ candidates'[r] = candidates[r]
              /\ events'[r] = events[r]
              /\ report'[r] = report[r]
           \/ status[r] = "claimed"
<1> SUFFICES ASSUME status[r] # "claimed"
             PROVE  /\ candidates'[r] = candidates[r]
                    /\ events'[r] = events[r]
                    /\ report'[r] = report[r]
    OBVIOUS
<1> USE DEF IInv, TypeOK, RunsTypeOK, SavedTypeOK
<1>1. CASE Heartbeat \/ RecordOffline \/ CreateRun \/ ClaimNothing \/ ClaimRun
           \/ Others \/ Tick \/ UNCHANGED vars
    BY <1>1 DEF Heartbeat, RecordOffline, CreateRun, ClaimNothing, ClaimRun, Others,
                OthersAddSource, OthersRemoveSource, OthersAddDraft, Tick, vars, runVars,
                savedVars
<1>2. CASE Submit
  <2>1. PICK w \in Workers :
            \/ UNCHANGED <<candidates, events, report>>
            \/ SaveFailed(w) \/ Promote(w) \/ SaveEvent(w)
    BY <1>2 DEF Submit, CheckListing, CheckAccount, CheckEvent, StartWork,
                PromoteCollides, Abandon, runVars, savedVars
  <2>2. CASE SaveFailed(w) \/ Promote(w) \/ SaveEvent(w)
    <3>1. worker[w].run \in Runs /\ status[worker[w].run] = "claimed"
      BY <2>2, WorkingTypes DEF SaveFailed, Promote, SaveEvent, Submits, WorkerHasLease,
                                ValidLease
    <3>2. worker[w].run # r
      BY <3>1
    <3>3. CASE SaveFailed(w)
      BY <3>1, <3>2, <3>3 DEF SaveFailed
    <3>4. CASE Promote(w)
      BY <3>1, <3>2, <3>4 DEF Promote
    <3>5. CASE SaveEvent(w)
      BY <3>1, <3>2, <3>5 DEF SaveEvent
    <3> QED
      BY <2>2, <3>3, <3>4, <3>5
  <2> QED
    BY <2>1, <2>2
<1>3. CASE CompleteRun
    BY <1>3 DEF CompleteRun, Complete, ValidLease, savedVars
<1> QED
    BY <1>1, <1>2, <1>3 DEF Next

\* How the status of a run moves.
LEMMA StatusMoves ==
    ASSUME IInv, [Next]_vars, NEW r \in Runs, status'[r] # status[r]
    PROVE  status[r] \notin FinishedStatuses
<1> USE DEF IInv, TypeOK, RunsTypeOK
<1>1. CASE CreateRun
  <2>1. r = created + 1
    BY <1>1 DEF CreateRun
  <2> QED
    BY <2>1 DEF Unborn
<1>2. CASE ClaimNothing
    BY <1>2, SweptCases DEF ClaimNothing, Lapsed
<1>3. CASE ClaimRun
  <2>1. r \in Waiting \/ status'[r] = Swept(r)
    BY <1>3 DEF ClaimRun
  <2> QED
    BY <2>1, SweptCases DEF Waiting, Lapsed
<1>4. CASE CompleteRun
    BY <1>4 DEF CompleteRun, Complete, ValidLease
<1>5. CASE Submit
  <2>1. UNCHANGED status
    BY <1>5 DEF Submit, CheckListing, CheckAccount, CheckEvent, StartWork, SaveFailed,
                Promote, PromoteCollides, SaveEvent, Abandon, runVars
  <2> QED
    BY <2>1
<1>6. CASE Heartbeat \/ RecordOffline \/ Others \/ Tick \/ UNCHANGED vars
  <2>1. UNCHANGED status
    BY <1>6 DEF Heartbeat, RecordOffline, Others, OthersAddSource, OthersRemoveSource,
                OthersAddDraft, Tick, vars, runVars
  <2> QED
    BY <2>1
<1> QED
    BY <1>1, <1>2, <1>3, <1>4, <1>5, <1>6 DEF Next

\* A finished run keeps its status, its records and its counts for ever.
THEOREM FinishedStays == Spec => FinishedIsFinal
<1>1. IInv /\ [Next]_vars =>
        [\A r \in Runs :
            status[r] \in FinishedStatuses =>
                /\ status'[r] = status[r]
                /\ candidates'[r] = candidates[r]
                /\ events'[r] = events[r]
                /\ report'[r] = report[r]]_vars
    BY RecordsNeedLease, StatusMoves
<1> QED
    BY <1>1, Invariance, PTL DEF Spec, FinishedIsFinal

\* A lease that is over, because it ran out, was given to another claim or its
\* run ended, cannot be used or renewed again.
THEOREM LostLeasesStayLost == Spec => TokenNeverRevives
<1>1. ASSUME IInv, [Next]_vars, NEW r \in Runs, NEW t \in 0..issued,
             ~ValidLease(r, t)
      PROVE  ~ValidLease(r, t)'
  <2> USE <1>1 DEF IInv, TypeOK, RunsTypeOK, ValidLease
  <2>1. CASE CreateRun
    BY <2>1 DEF CreateRun
  <2>2. CASE ClaimNothing
    BY <2>2, SweptCases DEF ClaimNothing, SweptToken
  <2>3. CASE ClaimRun
    <3>1. PICK q \in Waiting :
            /\ status' = [s \in Runs |-> IF s = q THEN "claimed" ELSE Swept(s)]
            /\ leaseToken' = [s \in Runs |-> IF s = q THEN issued + 1 ELSE SweptToken(s)]
            /\ leaseLeft' = [leaseLeft EXCEPT ![q] = LeaseTicks]
      BY <2>3 DEF ClaimRun
    <3>2. CASE q = r
      BY <3>1, <3>2
    <3>3. CASE q # r
      BY <3>1, <3>3, SweptCases DEF SweptToken
    <3> QED
      BY <3>2, <3>3
  <2>4. CASE Submit
    <3>1. PICK w \in Workers :
              \/ UNCHANGED <<status, leaseToken, leaseLeft>>
              \/ SaveFailed(w) \/ Promote(w) \/ SaveEvent(w)
      BY <2>4 DEF Submit, CheckListing, CheckAccount, CheckEvent, StartWork,
                  PromoteCollides, Abandon, runVars
    <3>2. CASE SaveFailed(w) \/ Promote(w) \/ SaveEvent(w)
      <4>1. /\ UNCHANGED <<status, leaseToken>>
            /\ leaseLeft' = [leaseLeft EXCEPT ![worker[w].run] = LeaseTicks]
            /\ WorkerHasLease(w)
        BY <3>2 DEF SaveFailed, Promote, SaveEvent, Submits, Renew
      <4> QED
        BY <4>1 DEF WorkerHasLease
    <3> QED
      BY <3>1, <3>2
  <2>5. CASE CompleteRun
    <3>1. PICK q \in 1..created :
            \E s \in {"succeeded", "partially_failed", "failed"} :
                /\ status' = [status EXCEPT ![q] = s]
                /\ leaseToken' = [leaseToken EXCEPT ![q] = NoToken]
                /\ UNCHANGED leaseLeft
      <4>1. PICK q \in 1..created, u \in 0..issued, ok \in BOOLEAN,
                 a \in Reported, f \in Reported : Complete(q, u, ok, a, f)
        BY <2>5 DEF CompleteRun
      <4> DEFINE attempted == Clean(a, MaxEvents)
                 final == FinalStatus(q, ok, attempted, Clean(f, attempted))
      <4>2. final \in {"succeeded", "partially_failed", "failed"}
        BY FinalStatusFinished
      <4>3. /\ status' = [status EXCEPT ![q] = final]
            /\ leaseToken' = [leaseToken EXCEPT ![q] = NoToken]
            /\ UNCHANGED leaseLeft
        BY <4>1 DEF Complete
      <4> QED
        BY <4>2, <4>3
    <3> QED
      BY <3>1
  <2>6. CASE Tick
    BY <2>6 DEF Tick
  <2>7. CASE Heartbeat \/ RecordOffline \/ Others \/ UNCHANGED vars
    BY <2>7 DEF Heartbeat, RecordOffline, Others, OthersAddSource, OthersRemoveSource,
                OthersAddDraft, vars, runVars
  <2> QED
    BY <2>1, <2>2, <2>3, <2>4, <2>5, <2>6, <2>7 DEF Next
<1>2. IInv /\ [Next]_vars =>
        [\A r \in Runs, t \in 0..issued : ~ValidLease(r, t) => ~ValidLease(r, t)']_vars
    BY <1>1
<1> QED
    BY <1>2, Invariance, PTL DEF Spec, TokenNeverRevives
-----------------------------------------------------------------------------
(***************************************************************************)
(* What the records of a run are worth.                                    *)
(***************************************************************************)

\* The ways in which a step touches the records: a save, a completion, or not
\* at all (a draft made by others takes no part in a run).
LEMMA RecordSteps ==
    ASSUME [Next]_vars
    PROVE  \/ UNCHANGED <<candidates, events, drafts>>
           \/ UNCHANGED <<candidates, events>> /\ drafts \subseteq drafts'
           \/ \E w \in Workers : SaveFailed(w) \/ Promote(w) \/ SaveEvent(w)
<1>1. CASE Submit
    BY <1>1 DEF Submit, CheckListing, CheckAccount, CheckEvent, StartWork,
                PromoteCollides, Abandon, savedVars
<1>2. CASE Others
    BY <1>2 DEF Others, OthersAddSource, OthersRemoveSource, OthersAddDraft
<1>3. CASE Heartbeat \/ RecordOffline \/ CreateRun \/ ClaimNothing \/ ClaimRun
           \/ CompleteRun \/ Tick \/ UNCHANGED vars
    BY <1>3 DEF Heartbeat, RecordOffline, CreateRun, ClaimNothing, ClaimRun, CompleteRun,
                Complete, Tick, vars, savedVars
<1> QED
    BY <1>1, <1>2, <1>3 DEF Next

\* No draft is ever credited to two runs, nor to a run without being a draft,
\* because the lookup that credits it runs over all drafts and drafts stay.
THEOREM CreditIsUnique == Spec => []DraftsCreditedOnce
<1>1. Init => DraftsCreditedOnce
    BY DEF Init, DraftsCreditedOnce
<1>2. IInv /\ DraftsCreditedOnce /\ [Next]_vars => DraftsCreditedOnce'
  <2> SUFFICES ASSUME IInv, DraftsCreditedOnce, [Next]_vars
               PROVE  DraftsCreditedOnce'
    OBVIOUS
  <2>1. CASE UNCHANGED events /\ drafts \subseteq drafts'
    BY <2>1 DEF DraftsCreditedOnce
  <2>2. ASSUME NEW w \in Workers, SaveEvent(w)
        PROVE  DraftsCreditedOnce'
    <3> DEFINE r == worker[w].run
               u == worker[w].url
    <3>1. r \in Runs
      BY <2>2, WorkingTypes DEF IInv, TypeOK, SaveEvent, Submits
    <3>2. events \in [Runs -> SUBSET Urls]
      BY DEF IInv, TypeOK, SavedTypeOK
    <3>3. /\ events' = [events EXCEPT ![r] = IF u \in drafts THEN @ ELSE @ \cup {u}]
          /\ drafts' = drafts \cup {u}
      BY <2>2 DEF SaveEvent, DraftKnown
    <3> HIDE DEF r, u
    <3>4. /\ \A q \in Runs : q # r => events'[q] = events[q]
          /\ events'[r] = events[r] \/ (u \notin drafts /\ events'[r] = events[r] \cup {u})
      BY <3>1, <3>2, <3>3
    <3> QED
      BY <3>1, <3>3, <3>4 DEF DraftsCreditedOnce
  <2>3. ASSUME NEW w \in Workers, SaveFailed(w) \/ Promote(w)
        PROVE  UNCHANGED <<events, drafts>>
    BY <2>3 DEF SaveFailed, Promote
  <2> QED
    BY <2>1, <2>2, <2>3, RecordSteps
<1> QED
    BY <1>1, <1>2, Invariance, PTL DEF Spec

\* Adding one element to a set below its cap keeps it within the cap.
LEMMA OneMore ==
    ASSUME NEW S, NEW T, NEW x, NEW cap \in Nat, IsFiniteSet(S),
           T \subseteq S \cup {x}, Cardinality(S) < cap
    PROVE  Cardinality(T) <= cap
<1>1. /\ IsFiniteSet(S \cup {x}) /\ Cardinality(S) \in Nat
      /\ Cardinality(S \cup {x}) <= Cardinality(S) + 1
    BY FS_AddElement, FS_CardinalityType
<1>2. /\ IsFiniteSet(T) /\ Cardinality(T) \in Nat
      /\ Cardinality(S \cup {x}) \in Nat /\ Cardinality(T) <= Cardinality(S \cup {x})
    BY <1>1, FS_Subset, FS_CardinalityType
<1> QED
    BY <1>1, <1>2

\* However many submissions passed their first check together, and over all
\* the leases of a run, its candidates and events stay within their caps.
THEOREM CapsHold == Spec => []WithinCaps
<1> USE ConstantTypes
<1>1. Init => WithinCaps
  <2> SUFFICES ASSUME Init, NEW r \in Runs
               PROVE  /\ Cardinality(CandidatesOf(r)) <= MaxCandidates
                      /\ Cardinality(events[r]) <= MaxEvents
    BY DEF WithinCaps
  <2>1. CandidatesOf(r) = {} /\ events[r] = {}
    BY DEF Init, CandidatesOf
  <2> QED
    BY <2>1, FS_EmptySet
<1>2. IInv /\ WithinCaps /\ [Next]_vars => WithinCaps'
  <2> SUFFICES ASSUME IInv, WithinCaps, [Next]_vars, NEW r \in Runs
               PROVE  /\ Cardinality(CandidatesOf(r)') <= MaxCandidates
                      /\ Cardinality(events'[r]) <= MaxEvents
    BY DEF WithinCaps
  <2>1. /\ Cardinality(CandidatesOf(r)) <= MaxCandidates
        /\ Cardinality(events[r]) <= MaxEvents
    BY DEF WithinCaps
  <2>2. /\ candidates \in [Runs -> [Urls -> {"none", "promoted", "failed"}]]
        /\ events \in [Runs -> SUBSET Urls]
    BY DEF IInv, TypeOK, SavedTypeOK
  <2>3. IsFiniteSet(CandidatesOf(r)) /\ IsFiniteSet(events[r])
    BY <2>2, RunsAssumption, FS_Subset DEF CandidatesOf
  <2>4. CASE UNCHANGED <<candidates, events>>
    BY <2>1, <2>4 DEF CandidatesOf
  <2>5. ASSUME NEW w \in Workers, SaveFailed(w) \/ Promote(w)
        PROVE  /\ Cardinality(CandidatesOf(r)') <= MaxCandidates
               /\ Cardinality(events'[r]) <= MaxEvents
    <3>1. worker[w].run \in Runs /\ worker[w].url \in Urls
      BY <2>5, WorkingTypes DEF IInv, TypeOK, SaveFailed, Promote, Submits
    <3>2. /\ Cardinality(CandidatesOf(worker[w].run)) < MaxCandidates
          /\ UNCHANGED events
      BY <2>5 DEF SaveFailed, Promote, RoomToSave, HasRoom
    <3>3. CASE r = worker[w].run
      <4>1. CandidatesOf(r)' \subseteq CandidatesOf(r) \cup {worker[w].url}
        <5>1. \A x \in Urls : x # worker[w].url => candidates'[r][x] = candidates[r][x]
          BY <2>2, <2>5, <3>1, <3>3 DEF SaveFailed, Promote
        <5> QED
          BY <5>1 DEF CandidatesOf
      <4> QED
        BY <2>1, <2>3, <3>2, <3>3, <4>1, OneMore
    <3>4. CASE r # worker[w].run
      <4>1. candidates'[r] = candidates[r]
        BY <2>2, <2>5, <3>1, <3>4 DEF SaveFailed, Promote
      <4> QED
        BY <2>1, <3>2, <4>1 DEF CandidatesOf
    <3> QED
      BY <3>3, <3>4
  <2>6. ASSUME NEW w \in Workers, SaveEvent(w)
        PROVE  /\ Cardinality(CandidatesOf(r)') <= MaxCandidates
               /\ Cardinality(events'[r]) <= MaxEvents
    <3> DEFINE q == worker[w].run
               u == worker[w].url
    <3>1. q \in Runs
      BY <2>6, WorkingTypes DEF IInv, TypeOK, SaveEvent, Submits
    <3>2. /\ u \in drafts \/ Cardinality(events[q]) < MaxEvents
          /\ events' = [events EXCEPT ![q] = IF u \in drafts THEN @ ELSE @ \cup {u}]
          /\ UNCHANGED candidates
      BY <2>6 DEF SaveEvent, DraftKnown
    <3> HIDE DEF q, u
    <3>3. \/ events'[r] = events[r]
          \/ events'[r] = events[r] \cup {u} /\ Cardinality(events[r]) < MaxEvents
      BY <2>2, <3>1, <3>2
    <3>4. Cardinality(events'[r]) <= MaxEvents
      BY <2>1, <2>3, <3>3, OneMore
    <3> QED
      BY <2>1, <3>2, <3>4 DEF CandidatesOf
  <2> QED
    BY <2>4, <2>5, <2>6, RecordSteps
<1> QED
    BY <1>1, <1>2, Invariance, PTL DEF Spec

\* A run reaches a verdict through a completion only.
LEMMA VerdictByCompletion ==
    ASSUME IInv, [Next]_vars, NEW r \in Runs, status'[r] # status[r],
           status'[r] \in {"succeeded", "partially_failed", "failed"}
    PROVE  CompleteRun
<1> USE DEF IInv, TypeOK, RunsTypeOK
<1>1. ~CreateRun
    BY DEF CreateRun
<1>2. ~ClaimNothing
    BY SweptCases DEF ClaimNothing
<1>3. ~ClaimRun
  <2>1. ClaimRun => status'[r] \in {"claimed", Swept(r)}
    BY DEF ClaimRun
  <2> QED
    BY <2>1, SweptCases
<1>4. ~Submit
  <2>1. Submit => UNCHANGED status
    BY DEF Submit, CheckListing, CheckAccount, CheckEvent, StartWork, SaveFailed,
           Promote, PromoteCollides, SaveEvent, Abandon, runVars
  <2> QED
    BY <2>1
<1>5. ~(Heartbeat \/ RecordOffline \/ Others \/ Tick \/ UNCHANGED vars)
    BY DEF Heartbeat, RecordOffline, Others, OthersAddSource, OthersRemoveSource,
           OthersAddDraft, Tick, vars, runVars
<1> QED
    BY <1>1, <1>2, <1>3, <1>4, <1>5 DEF Next

\* What each verdict of complete_run says about the records it was computed
\* from.
LEMMA VerdictFits ==
    ASSUME SavedTypeOK, NEW r \in Runs, NEW ok \in BOOLEAN,
           NEW attempted \in Nat, NEW failed \in 0..attempted
    PROVE  LET verdict == FinalStatus(r, ok, attempted, failed)
           IN  /\ verdict = "succeeded" =>
                      (\A u \in Urls : candidates[r][u] # "failed") /\ failed = 0
               /\ verdict = "failed" => \A u \in Urls : candidates[r][u] # "promoted"
               /\ verdict = "partially_failed" => CandidatesOf(r) # {} \/ events[r] # {}
<1> DEFINE found == {candidates[r][u] : u \in CandidatesOf(r)}
           candidateOutcome == CandidateOutcome(r)
           eventOutcome == EventOutcome(attempted, failed, events[r])
<1>1. \A u \in Urls : candidates[r][u] # "none" => candidates[r][u] \in found
    BY DEF CandidatesOf
<1>2. /\ candidateOutcome = "none" => found = {}
      /\ candidateOutcome = "succeeded" => found = {"promoted"}
      /\ candidateOutcome = "failed" => found = {"failed"}
      /\ candidateOutcome \in {"none", "succeeded", "failed", "partial"}
      /\ candidateOutcome # "none" => found # {}
    BY DEF CandidateOutcome
<1>3. /\ eventOutcome \in {"none", "succeeded"} => failed = 0
      /\ eventOutcome \in {"none", "succeeded", "failed", "partial"}
      /\ eventOutcome = "partial" => events[r] # {}
    BY DEF EventOutcome
<1>4. found # {} => CandidatesOf(r) # {}
    OBVIOUS
<1>5. CASE ok = FALSE
  <2>1. FinalStatus(r, ok, attempted, failed)
        = IF \E u \in Urls : candidates[r][u] = "promoted" THEN "partially_failed"
          ELSE "failed"
    BY <1>5 DEF FinalStatus
  <2> QED
    BY <1>1, <1>4, <2>1
<1>6. CASE ok = TRUE
  <2>1. FinalStatus(r, ok, attempted, failed) = Combined(candidateOutcome, eventOutcome)
    BY <1>6 DEF FinalStatus
  <2> HIDE DEF found, candidateOutcome, eventOutcome
  <2>2. /\ Combined(candidateOutcome, eventOutcome) = "succeeded" =>
               /\ candidateOutcome \in {"none", "succeeded"}
               /\ eventOutcome \in {"none", "succeeded"}
        /\ Combined(candidateOutcome, eventOutcome) = "failed" =>
               candidateOutcome \in {"none", "failed"}
        /\ Combined(candidateOutcome, eventOutcome) = "partially_failed" =>
               candidateOutcome # "none" \/ eventOutcome = "partial"
    BY <1>2, <1>3 DEF Combined
  <2> QED
    BY <1>1, <1>2, <1>3, <1>4, <2>1, <2>2
<1> QED
    BY <1>5, <1>6

\* The verdict staff see is borne out by the records, and stays so: late saves
\* and stale requests find the run closed.
THEOREM VerdictIsTrue == Spec => []OutcomeMatchesRecords
<1>1. Init => OutcomeMatchesRecords
    BY DEF Init, OutcomeMatchesRecords
<1>2. IInv /\ OutcomeMatchesRecords /\ [Next]_vars => OutcomeMatchesRecords'
  <2> DEFINE Fits(r, s, c, e, p) ==
                 /\ s = "succeeded" => (\A u \in Urls : c[u] # "failed") /\ p.failed = 0
                 /\ s = "failed" => \A u \in Urls : c[u] # "promoted"
                 /\ s = "partially_failed" => {u \in Urls : c[u] # "none"} # {} \/ e # {}
  <2> SUFFICES ASSUME IInv, OutcomeMatchesRecords, [Next]_vars, NEW r \in Runs
               PROVE  Fits(r, status'[r], candidates'[r], events'[r], report'[r])
    BY DEF OutcomeMatchesRecords, CandidatesOf
  <2>1. Fits(r, status[r], candidates[r], events[r], report[r])
    BY DEF OutcomeMatchesRecords, CandidatesOf
  <2>2. CASE status'[r] \notin {"succeeded", "failed", "partially_failed"}
    BY <2>2
  <2>3. CASE status'[r] \in {"succeeded", "failed", "partially_failed"}
             /\ status'[r] = status[r]
    <3>1. UNCHANGED <<candidates[r], events[r], report[r]>>
      BY <2>3, RecordsNeedLease
    <3> QED
      BY <2>1, <2>3, <3>1
  <2>4. CASE status'[r] \in {"succeeded", "failed", "partially_failed"}
             /\ status'[r] # status[r]
    <3>1. PICK q \in 1..created, t \in 0..issued, ok \in BOOLEAN, a \in Reported,
               f \in Reported : Complete(q, t, ok, a, f)
      BY <2>4, VerdictByCompletion DEF CompleteRun
    <3> DEFINE attempted == Clean(a, MaxEvents)
               failed == Clean(f, attempted)
               final == FinalStatus(q, ok, attempted, failed)
    <3>2. /\ status' = [status EXCEPT ![q] = final]
          /\ report' = [report EXCEPT ![q] = [attempted |-> attempted, failed |-> failed]]
          /\ UNCHANGED <<candidates, events>>
      BY <3>1 DEF Complete, savedVars
    <3>3. q = r
      <4>1. status \in [Runs -> Statuses]
        BY DEF IInv, TypeOK, RunsTypeOK
      <4> HIDE DEF final
      <4> QED
        BY <2>4, <3>2, <4>1
    <3>4. attempted \in Nat /\ failed \in 0..attempted
      <4>1. attempted \in 0..MaxEvents
        BY CleanRange, ConstantTypes, RunsAssumption
      <4>2. attempted \in Nat
        BY <4>1, ConstantTypes
      <4> HIDE DEF attempted
      <4> QED
        BY <4>2, CleanRange, RunsAssumption
    <3>5. SavedTypeOK /\ status \in [Runs -> Statuses]
          /\ report \in [Runs -> [attempted : 0..MaxEvents, failed : 0..MaxEvents]]
      BY DEF IInv, TypeOK, RunsTypeOK
    <3>6. /\ final = "succeeded" =>
                 (\A u \in Urls : candidates[r][u] # "failed") /\ failed = 0
          /\ final = "failed" => \A u \in Urls : candidates[r][u] # "promoted"
          /\ final = "partially_failed" => CandidatesOf(r) # {} \/ events[r] # {}
      BY <3>3, <3>4, <3>5, VerdictFits
    <3> HIDE DEF attempted, failed, final
    <3>7. status'[r] = final /\ report'[r].failed = failed
      BY <3>2, <3>3, <3>5
    <3> QED
      BY <3>2, <3>6, <3>7 DEF CandidatesOf
  <2> QED
    BY <2>2, <2>3, <2>4
<1> QED
    BY <1>1, <1>2, Invariance, PTL DEF Spec
-----------------------------------------------------------------------------
(***************************************************************************)
(* The runs implement the ledger.                                          *)
(***************************************************************************)

\* The ledger's variables, seen from the server.
ledgerVars ==
    <<Phase, leaseToken, leaseCount, issued, PromotedOf, FailedOf, events, Verdict>>

\* The ledger counts as the server does.
LEMMA SameCardinality == \A S : Ledger!Cardinality(S) = Cardinality(S)
BY DEF Ledger!Cardinality, Cardinality

LEMMA SameEntries ==
    UNCHANGED candidates => UNCHANGED <<PromotedOf, FailedOf>>
BY DEF PromotedOf, FailedOf

LEMMA SamePhases ==
    UNCHANGED status => UNCHANGED <<Phase, Verdict>>
BY DEF Phase, Verdict, LedgerPhase

\* A step that changes the status of one run only.
LEMMA PhaseOfOne ==
    ASSUME NEW r \in Runs, NEW phase, NEW verdict,
           \A q \in Runs : q # r => status'[q] = status[q],
           LedgerPhase(r)' = phase,
           (IF status'[r] \in FinishedStatuses THEN status'[r] ELSE "none") = verdict
    PROVE  /\ Phase' = [Phase EXCEPT ![r] = phase]
           /\ Verdict' = [Verdict EXCEPT ![r] = verdict]
<1>1. \A q \in Runs : q # r => LedgerPhase(q)' = LedgerPhase(q)
    BY DEF LedgerPhase
<1>2. Phase' = [Phase EXCEPT ![r] = phase]
    BY <1>1 DEF Phase
<1>3. Verdict' = [Verdict EXCEPT ![r] = verdict]
    BY DEF Verdict
<1> QED
    BY <1>2, <1>3

LEMMA InitLedger == Init => Ledger!Init
<1> SUFFICES ASSUME Init PROVE Ledger!Init
    OBVIOUS
<1>1. /\ Phase = [r \in Runs |-> "unopened"]
      /\ PromotedOf = [r \in Runs |-> {}]
      /\ FailedOf = [r \in Runs |-> {}]
      /\ Verdict = [r \in Runs |-> "none"]
    BY DEF Init, Phase, LedgerPhase, PromotedOf, FailedOf, Verdict
<1> QED
    BY <1>1 DEF Init, Ledger!Init

LEMMA CreateOpens == IInv /\ CreateRun => \E r \in Runs : Ledger!OpenRun(r)
<1> SUFFICES ASSUME IInv, CreateRun PROVE \E r \in Runs : Ledger!OpenRun(r)
    OBVIOUS
<1>1. RunsTypeOK
    BY DEF IInv, TypeOK
<1>2. PICK r \in Runs : r = created + 1 /\ status[r] = "absent"
    BY <1>1, ConstantTypes DEF CreateRun, RunsTypeOK, IInv, Unborn
<1>3. /\ status' = [status EXCEPT ![r] = "pending"]
      /\ UNCHANGED <<leaseToken, leaseCount, issued, candidates, events>>
    BY <1>2 DEF CreateRun, savedVars
<1>4. status'[r] = "pending" /\ \A q \in Runs : q # r => status'[q] = status[q]
    BY <1>1, <1>2, <1>3 DEF RunsTypeOK
<1>5. Phase' = [Phase EXCEPT ![r] = "waiting"] /\ Verdict' = [Verdict EXCEPT ![r] = "none"]
  <2>1. LedgerPhase(r)' = "waiting"
    BY <1>4 DEF LedgerPhase
  <2> QED
    BY <1>2, <1>4, <2>1, PhaseOfOne
<1>6. Phase[r] = "unopened" /\ Verdict' = Verdict
  <2>1. Phase[r] = "unopened"
    BY <1>2 DEF Phase, LedgerPhase
  <2>2. \A q \in Runs : (IF status'[q] \in FinishedStatuses THEN status'[q] ELSE "none")
                        = (IF status[q] \in FinishedStatuses THEN status[q] ELSE "none")
    BY <1>2, <1>4
  <2>3. Verdict' = Verdict
    BY <2>2 DEF Verdict
  <2> QED
    BY <2>1, <2>3
<1>7. \A q \in Runs : Phase[q] \notin {"waiting", "held"}
  <2>1. \A q \in Runs : status[q] \notin {"pending", "claimed"}
    BY DEF CreateRun, Active
  <2> QED
    BY <2>1 DEF Phase, LedgerPhase
<1>8. UNCHANGED <<PromotedOf, FailedOf>>
    BY <1>3, SameEntries
<1>9. Ledger!OpenRun(r)
    BY <1>3, <1>5, <1>6, <1>7, <1>8
       DEF Ledger!OpenRun, Ledger!Open, Ledger!entries
<1> QED
    BY <1>9
\* A sweep that grants nothing closes the one run whose last lease lapsed, or
\* does nothing.
LEMMA SweepCloses ==
    IInv /\ ClaimNothing =>
        UNCHANGED ledgerVars \/ \E r \in Runs : Ledger!Close(r, "expired")
<1> SUFFICES ASSUME IInv, ClaimNothing
             PROVE  UNCHANGED ledgerVars \/ \E r \in Runs : Ledger!Close(r, "expired")
    OBVIOUS
<1>1. RunsTypeOK
    BY DEF IInv, TypeOK
<1>2. /\ status' = [r \in Runs |-> Swept(r)]
      /\ leaseToken' = [r \in Runs |-> SweptToken(r)]
      /\ UNCHANGED <<leaseCount, issued, candidates, events, PromotedOf, FailedOf>>
    BY SameEntries DEF ClaimNothing, savedVars
<1>3. \A r \in Runs : \/ r \notin Lapsed /\ status'[r] = status[r]
                                         /\ leaseToken'[r] = leaseToken[r]
                      \/ /\ r \in Lapsed /\ status'[r] = "expired"
                         /\ leaseToken'[r] = 0 /\ leaseCount[r] >= MaxLeases
    BY <1>2, SweptCases DEF SweptToken, ClaimNothing, Waiting
<1>4. CASE Lapsed = {}
  <2>1. \A r \in Runs : status'[r] = status[r] /\ leaseToken'[r] = leaseToken[r]
    BY <1>3, <1>4
  <2>2. UNCHANGED <<status, leaseToken>>
    BY <1>1, <1>2, <2>1 DEF RunsTypeOK
  <2> QED
    BY <1>2, <2>2, SamePhases DEF ledgerVars
<1>5. CASE Lapsed # {}
  <2>1. PICK r \in Runs : r \in Lapsed /\ status[r] = "claimed"
    BY <1>5 DEF Lapsed
  <2>2. \A q \in Runs : q # r => q \notin Lapsed
    BY <2>1 DEF Lapsed, IInv, AtMostOneActive
  <2>3. /\ status'[r] = "expired" /\ leaseToken'[r] = 0 /\ leaseCount[r] >= MaxLeases
        /\ \A q \in Runs : q # r => /\ status'[q] = status[q]
                                    /\ leaseToken'[q] = leaseToken[q]
    BY <1>3, <2>1, <2>2
  <2>4. /\ Phase' = [Phase EXCEPT ![r] = "closed"]
        /\ Verdict' = [Verdict EXCEPT ![r] = "expired"]
    <3>1. LedgerPhase(r)' = "closed"
      BY <2>3 DEF LedgerPhase
    <3> QED
      BY <2>3, <3>1, PhaseOfOne
  <2>5. leaseToken' = [leaseToken EXCEPT ![r] = 0]
    <3>1. leaseToken \in [Runs -> Nat] /\ DOMAIN leaseToken' = Runs
      BY <1>1, <1>2 DEF RunsTypeOK
    <3>2. leaseToken' = [q \in Runs |-> leaseToken'[q]]
      BY <1>2
    <3> QED
      BY <2>3, <3>1, <3>2
  <2>6. leaseCount[r] = MaxLeases
    <3>1. leaseCount[r] \in 0..MaxLeases
      BY <1>1 DEF RunsTypeOK
    <3> QED
      BY <2>3, <3>1, ConstantTypes
  <2>7. Phase[r] = "held"
    BY <2>1 DEF Phase, LedgerPhase
  <2>8. Ledger!Close(r, "expired")
    BY <1>2, <2>4, <2>5, <2>6, <2>7
       DEF Ledger!Close, Ledger!Fits, Ledger!entries
  <2> QED
    BY <2>8
<1> QED
    BY <1>4, <1>5

\* A claim that gets a run, waiting or lapsed, is a grant.
LEMMA ClaimGrants == IInv /\ ClaimRun => \E r \in Runs : Ledger!Grant(r)
<1> SUFFICES ASSUME IInv, ClaimRun PROVE \E r \in Runs : Ledger!Grant(r)
    OBVIOUS
<1>1. PICK r \in Waiting :
        /\ status' = [q \in Runs |-> IF q = r THEN "claimed" ELSE Swept(q)]
        /\ leaseToken' = [q \in Runs |-> IF q = r THEN issued + 1 ELSE SweptToken(q)]
        /\ leaseCount' = [leaseCount EXCEPT ![r] = @ + 1]
        /\ issued' = issued + 1
        /\ UNCHANGED <<candidates, events>>
    BY DEF ClaimRun, savedVars
<1>2. RunsTypeOK
    BY DEF IInv, TypeOK
<1>3. r \in Runs /\ status[r] \in ActiveStatuses /\ leaseCount[r] < MaxLeases
  <2>1. r \in Runs /\ Swept(r) = "pending"
    BY <1>1 DEF Waiting
  <2>2. leaseCount[r] \in 0..MaxLeases
    BY <1>2, <2>1 DEF RunsTypeOK
  <2> QED
    BY <2>1, <2>2, SweptCases, ConstantTypes DEF IInv, Lapsed, LeaseWellFormed
<1>4. \A q \in Runs : q # r => /\ status'[q] = status[q]
                               /\ leaseToken'[q] = leaseToken[q]
  <2> SUFFICES ASSUME NEW q \in Runs, q # r
               PROVE  status'[q] = status[q] /\ leaseToken'[q] = leaseToken[q]
    OBVIOUS
  <2>1. q \notin Lapsed
    BY <1>3 DEF IInv, AtMostOneActive, Lapsed
  <2> QED
    BY <1>1, <2>1, SweptCases DEF SweptToken
<1>5. status'[r] = "claimed"
    BY <1>1, <1>3
<1>6. Phase' = [Phase EXCEPT ![r] = "held"] /\ Verdict' = [Verdict EXCEPT ![r] = "none"]
  <2>1. LedgerPhase(r)' = "held"
    BY <1>5 DEF LedgerPhase
  <2> QED
    BY <1>3, <1>4, <1>5, <2>1, PhaseOfOne
<1>7. Verdict' = Verdict
  <2>1. Verdict[r] = "none"
    BY <1>3 DEF Verdict
  <2> QED
    BY <1>6, <2>1 DEF Verdict
<1>8. leaseToken' = [leaseToken EXCEPT ![r] = issued + 1]
    BY <1>1, <1>2, <1>3, <1>4 DEF RunsTypeOK
<1>9. Phase[r] \in {"waiting", "held"}
    BY <1>3 DEF Phase, LedgerPhase
<1>10. UNCHANGED <<PromotedOf, FailedOf>>
    BY <1>1, SameEntries
<1>11. Ledger!Grant(r)
    BY <1>1, <1>3, <1>6, <1>7, <1>8, <1>9, <1>10
       DEF Ledger!Grant, Ledger!Open, Ledger!entries
<1> QED
    BY <1>3, <1>11

\* What is recorded of a run, as the ledger counts it.
LEMMA EntriesAreCandidates ==
    ASSUME SavedTypeOK, NEW r \in Runs
    PROVE  PromotedOf[r] \cup FailedOf[r] = CandidatesOf(r)
BY DEF SavedTypeOK, PromotedOf, FailedOf, CandidatesOf

\* A failed check is recorded once, or is already there.
LEMMA FailedRecorded ==
    ASSUME IInv, NEW w \in Workers, SaveFailed(w)
    PROVE  UNCHANGED ledgerVars \/ \E r \in Runs, u \in Urls : Ledger!RecordFailed(r, u)
<1>1. PICK r \in Runs, u \in Urls : r = worker[w].run /\ u = worker[w].url
    BY WorkingTypes DEF IInv, TypeOK, SaveFailed, Submits
<1>2. /\ status[r] = "claimed"
      /\ Cardinality(CandidatesOf(r)) < MaxCandidates
      /\ candidates' =
             [candidates EXCEPT ![r][u] = IF @ = "none" THEN "failed" ELSE @]
      /\ UNCHANGED <<status, leaseToken, leaseCount, issued, events, Phase, Verdict>>
    BY <1>1, SamePhases DEF SaveFailed, Submits, WorkerHasLease, ValidLease, RoomToSave, HasRoom
<1>3. SavedTypeOK /\ candidates \in [Runs -> [Urls -> {"none", "promoted", "failed"}]]
    BY DEF IInv, TypeOK, SavedTypeOK
<1>4. CASE candidates[r][u] # "none"
  <2>1. UNCHANGED candidates
    BY <1>2, <1>3, <1>4
  <2> QED
    BY <1>2, <2>1, SameEntries DEF ledgerVars
<1>5. CASE candidates[r][u] = "none"
  <2>1. /\ \A q \in Runs : q # r => candidates'[q] = candidates[q]
        /\ \A v \in Urls : v # u => candidates'[r][v] = candidates[r][v]
        /\ candidates'[r][u] = "failed"
    BY <1>2, <1>3, <1>5
  <2>2. PromotedOf' = PromotedOf
    BY <1>5, <2>1 DEF PromotedOf
  <2>3. FailedOf' = [FailedOf EXCEPT ![r] = @ \cup {u}]
    BY <1>5, <2>1 DEF FailedOf
  <2>4. u \notin PromotedOf[r] \cup FailedOf[r]
    BY <1>5 DEF PromotedOf, FailedOf
  <2>5. Cardinality(PromotedOf[r] \cup FailedOf[r]) < MaxCandidates
    BY <1>2, <1>3, EntriesAreCandidates
  <2>6. Phase[r] = "held"
    BY <1>2 DEF Phase, LedgerPhase
  <2>7. Ledger!RecordFailed(r, u)
    BY <1>2, <2>2, <2>3, <2>4, <2>5, <2>6, SameCardinality
       DEF Ledger!RecordFailed
  <2> QED
    BY <2>7
<1> QED
    BY <1>4, <1>5

LEMMA PromotedRecorded ==
    ASSUME IInv, NEW w \in Workers, Promote(w)
    PROVE  \E r \in Runs, u \in Urls : Ledger!RecordPromoted(r, u)
<1>1. PICK r \in Runs, u \in Urls : r = worker[w].run /\ u = worker[w].url
    BY WorkingTypes DEF IInv, TypeOK, Promote, Submits
<1>2. /\ status[r] = "claimed"
      /\ Cardinality(CandidatesOf(r)) < MaxCandidates
      /\ candidates[r][u] = "none"
      /\ candidates' = [candidates EXCEPT ![r][u] = "promoted"]
      /\ UNCHANGED <<status, leaseToken, leaseCount, issued, events, Phase, Verdict>>
    BY <1>1, SamePhases DEF Promote, Submits, WorkerHasLease, ValidLease, RoomToSave, HasRoom
<1>3. SavedTypeOK /\ candidates \in [Runs -> [Urls -> {"none", "promoted", "failed"}]]
    BY DEF IInv, TypeOK, SavedTypeOK
<1>4. /\ \A q \in Runs : q # r => candidates'[q] = candidates[q]
      /\ \A v \in Urls : v # u => candidates'[r][v] = candidates[r][v]
      /\ candidates'[r][u] = "promoted"
    BY <1>2, <1>3
<1>5. FailedOf' = FailedOf
    BY <1>2, <1>4 DEF FailedOf
<1>6. PromotedOf' = [PromotedOf EXCEPT ![r] = @ \cup {u}]
  <2>1. {v \in Urls : candidates'[r][v] = "promoted"}
        = {v \in Urls : candidates[r][v] = "promoted"} \cup {u}
    BY <1>4
  <2> QED
    BY <1>4, <2>1 DEF PromotedOf
<1>7. u \notin PromotedOf[r] \cup FailedOf[r]
    BY <1>2 DEF PromotedOf, FailedOf
<1>8. Cardinality(PromotedOf[r] \cup FailedOf[r]) < MaxCandidates
    BY <1>2, <1>3, EntriesAreCandidates
<1>9. Phase[r] = "held"
    BY <1>2 DEF Phase, LedgerPhase
<1>10. Ledger!RecordPromoted(r, u)
    BY <1>2, <1>5, <1>6, <1>7, <1>8, <1>9, SameCardinality
       DEF Ledger!RecordPromoted
<1> QED
    BY <1>10

\* A draft that others or another run made first is credited to nobody anew.
LEMMA EventRecorded ==
    ASSUME IInv, DraftsCreditedOnce, NEW w \in Workers, SaveEvent(w)
    PROVE  UNCHANGED ledgerVars \/ \E r \in Runs, u \in Urls : Ledger!RecordEvent(r, u)
<1>1. PICK r \in Runs, u \in Urls : r = worker[w].run /\ u = worker[w].url
    BY WorkingTypes DEF IInv, TypeOK, SaveEvent, Submits
<1>2. /\ status[r] = "claimed"
      /\ u \in drafts \/ Cardinality(events[r]) < MaxEvents
      /\ events' = [events EXCEPT ![r] = IF u \in drafts THEN @ ELSE @ \cup {u}]
      /\ UNCHANGED <<status, leaseToken, leaseCount, issued, candidates>>
    BY <1>1 DEF SaveEvent, Submits, WorkerHasLease, ValidLease, DraftKnown
<1>3. UNCHANGED <<Phase, Verdict, PromotedOf, FailedOf>>
    BY <1>2, SamePhases, SameEntries
<1>4. events \in [Runs -> SUBSET Urls]
    BY DEF IInv, TypeOK, SavedTypeOK
<1>5. CASE u \in drafts
  <2>1. UNCHANGED events
    BY <1>2, <1>4, <1>5
  <2> QED
    BY <1>2, <1>3, <2>1 DEF ledgerVars
<1>6. CASE u \notin drafts
  <2>1. \A q \in Runs : u \notin events[q]
    BY <1>6 DEF DraftsCreditedOnce
  <2>2. events' = [events EXCEPT ![r] = @ \cup {u}] /\ Cardinality(events[r]) < MaxEvents
    BY <1>2, <1>6
  <2>3. Phase[r] = "held"
    BY <1>2 DEF Phase, LedgerPhase
  <2>4. Ledger!RecordEvent(r, u)
    BY <1>2, <1>3, <2>1, <2>2, <2>3, SameCardinality
       DEF Ledger!RecordEvent
  <2> QED
    BY <2>4
<1> QED
    BY <1>5, <1>6
\* A completion closes its run with a verdict the entries bear out.
LEMMA CompletionCloses ==
    IInv /\ CompleteRun =>
        \E r \in Runs, v \in {"succeeded", "failed", "partially_failed"} : Ledger!Close(r, v)
<1> SUFFICES ASSUME IInv,
                    NEW r \in 1..created, NEW t \in 0..issued, NEW ok \in BOOLEAN,
                    NEW a \in Reported, NEW f \in Reported, Complete(r, t, ok, a, f)
             PROVE  \E q \in Runs, v \in {"succeeded", "failed", "partially_failed"} :
                        Ledger!Close(q, v)
    BY DEF CompleteRun
<1> DEFINE attempted == Clean(a, MaxEvents)
           failures == Clean(f, attempted)
           final == FinalStatus(r, ok, attempted, failures)
<1>1. /\ status[r] = "claimed"
      /\ status' = [status EXCEPT ![r] = final]
      /\ leaseToken' = [leaseToken EXCEPT ![r] = 0]
      /\ UNCHANGED <<leaseCount, issued, candidates, events, PromotedOf, FailedOf>>
    BY SameEntries DEF Complete, ValidLease, savedVars
<1>2. RunsTypeOK /\ SavedTypeOK /\ r \in Runs
  <2>1. RunsTypeOK /\ SavedTypeOK
    BY DEF IInv, TypeOK
  <2>2. created \in 0..MaxRuns
    BY <2>1 DEF RunsTypeOK
  <2> QED
    BY <2>1, <2>2, ConstantTypes
<1>3. attempted \in Nat /\ failures \in 0..attempted
  <2>1. attempted \in 0..MaxEvents
    BY CleanRange, ConstantTypes, RunsAssumption
  <2>2. attempted \in Nat
    BY <2>1, ConstantTypes
  <2> HIDE DEF attempted
  <2> QED
    BY <2>2, CleanRange, RunsAssumption
<1>4. final \in {"succeeded", "failed", "partially_failed"}
    BY FinalStatusFinished
<1>5. /\ final = "succeeded" => \A u \in Urls : candidates[r][u] # "failed"
      /\ final = "failed" => \A u \in Urls : candidates[r][u] # "promoted"
      /\ final = "partially_failed" => CandidatesOf(r) # {} \/ events[r] # {}
    BY <1>2, <1>3, VerdictFits
<1> HIDE DEF attempted, failures, final
<1>6. PICK v \in {"succeeded", "failed", "partially_failed"} : v = final
    BY <1>4
<1>7. /\ v = "succeeded" => FailedOf[r] = {}
      /\ v = "failed" => PromotedOf[r] = {}
    BY <1>2, <1>5, <1>6 DEF FailedOf, PromotedOf
<1>8. v = "partially_failed" => PromotedOf[r] \cup FailedOf[r] \cup events[r] # {}
    BY <1>2, <1>5, <1>6, EntriesAreCandidates
<1>9. status'[r] = v /\ \A q \in Runs : q # r => status'[q] = status[q]
    BY <1>1, <1>2, <1>6 DEF RunsTypeOK
<1>10. Phase' = [Phase EXCEPT ![r] = "closed"] /\ Verdict' = [Verdict EXCEPT ![r] = v]
  <2>1. LedgerPhase(r)' = "closed"
    BY <1>6, <1>9 DEF LedgerPhase
  <2> QED
    BY <1>2, <1>9, <2>1, PhaseOfOne
<1>11. Phase[r] = "held"
    BY <1>1, <1>2 DEF Phase, LedgerPhase
<1>12. Ledger!Close(r, v)
    BY <1>1, <1>7, <1>8, <1>10, <1>11 DEF Ledger!Close, Ledger!Fits, Ledger!entries
<1> QED
    BY <1>2, <1>12

\* Everything else is nothing to the ledger.
LEMMA LedgerStutters ==
    ASSUME UNCHANGED <<status, leaseToken, leaseCount, issued, candidates, events>>
    PROVE  UNCHANGED ledgerVars
BY SamePhases, SameEntries DEF ledgerVars

LEMMA SubmitRecords ==
    IInv /\ DraftsCreditedOnce /\ Submit =>
        \/ UNCHANGED ledgerVars
        \/ \E r \in Runs, u \in Urls :
               \/ Ledger!RecordPromoted(r, u)
               \/ Ledger!RecordFailed(r, u)
               \/ Ledger!RecordEvent(r, u)
<1> SUFFICES ASSUME IInv, DraftsCreditedOnce, Submit
             PROVE  \/ UNCHANGED ledgerVars
                    \/ \E r \in Runs, u \in Urls :
                           \/ Ledger!RecordPromoted(r, u)
                           \/ Ledger!RecordFailed(r, u)
                           \/ Ledger!RecordEvent(r, u)
    OBVIOUS
<1>1. \/ UNCHANGED <<runVars, savedVars>>
      \/ \E w \in Workers : SaveFailed(w) \/ Promote(w) \/ SaveEvent(w)
    BY DEF Submit, CheckListing, CheckAccount, CheckEvent, StartWork, PromoteCollides, Abandon
<1>2. CASE UNCHANGED <<runVars, savedVars>>
    BY <1>2, LedgerStutters DEF runVars, savedVars
<1> QED
    BY <1>1, <1>2, FailedRecorded, PromotedRecorded, EventRecorded

\* The server implements the ledger: leases that lapse, saves long after their
\* check, repeated and stale requests leave behind what one holder at a time
\* would have recorded.
THEOREM LedgerImplemented == Spec => ImplementsLedger
<1>1. IInv /\ DraftsCreditedOnce /\ [Next]_vars => [Ledger!Next]_ledgerVars
  <2> SUFFICES ASSUME IInv, DraftsCreditedOnce, [Next]_vars
               PROVE  Ledger!Next \/ UNCHANGED ledgerVars
    OBVIOUS
  <2>1. CASE CreateRun
    BY <2>1, CreateOpens DEF Ledger!Next
  <2>2. CASE ClaimNothing
    BY <2>2, SweepCloses DEF Ledger!Next
  <2>3. CASE ClaimRun
    BY <2>3, ClaimGrants DEF Ledger!Next
  <2>4. CASE Submit
    BY <2>4, SubmitRecords DEF Ledger!Next
  <2>5. CASE CompleteRun
    BY <2>5, CompletionCloses DEF Ledger!Next
  <2>6. CASE Heartbeat \/ RecordOffline \/ Others \/ Tick \/ UNCHANGED vars
    <3>1. UNCHANGED <<status, leaseToken, leaseCount, issued, candidates, events>>
      BY <2>6 DEF Heartbeat, RecordOffline, Others, OthersAddSource, OthersRemoveSource,
                  OthersAddDraft, Tick, vars, runVars, savedVars
    <3> QED
      BY <3>1, LedgerStutters
  <2> QED
    BY <2>1, <2>2, <2>3, <2>4, <2>5, <2>6 DEF Next
<1>2. [Ledger!Next]_ledgerVars => [Ledger!Next]_(Ledger!vars)
    BY DEF ledgerVars, Ledger!vars
<1> QED
    BY <1>1, <1>2, InitLedger, Invariance, CreditIsUnique, PTL
       DEF Spec, ImplementsLedger, Ledger!Spec

-----------------------------------------------------------------------------
(***************************************************************************)
(* The runner.                                                             *)
(***************************************************************************)

\* A run that somebody may still write under.
Live(r) == status[r] = "claimed" /\ leaseLeft[r] > 0

\* The places where the main thread has a run in hand.
Busy == {"begin", "explore", "flow", "completing", "complete"}

\* What the runner knows was issued to it, and the submission it waits for is
\* one of its own lease.
LeasesKnown ==
    /\ held # None => held.run \in 1..created /\ held.token \in 1..issued
    /\ progress # None => progress.run \in 1..created /\ progress.token \in 1..issued
    /\ pc \in Busy => held # None
    /\ pc \in Busy \ {"begin"} => progress = held
    /\ pc \in {"explore", "flow"} => outcome = "ok"
    /\ awaited # NoWorker =>
        /\ pc = "flow" /\ awaited \in Workers /\ Working(awaited)
        /\ worker[awaited].run = held.run /\ worker[awaited].token = held.token

\* Tokens of submissions were issued, and what is still under way of the lease
\* in hand is waited for, or the run is no success.
OthersElsewhere ==
    /\ \A w \in Workers : Working(w) => worker[w].token <= issued
    /\ pc \in {"begin", "explore", "flow"} =>
        \A w \in Workers : Working(w) /\ w # awaited => worker[w].token # held.token
    /\ pc \in {"completing", "complete"} /\ outcome = "ok" =>
        \A w \in Workers : Working(w) => worker[w].token # held.token

\* Has the runner the lease of this run in hand, and will it report on it?
InHand(r) ==
    /\ held = [run |-> r, token |-> leaseToken[r]]
    /\ pc \in Busy \/ (pc = "shutdown" /\ progress = held)

NoneForgotten == \A r \in Runs : Live(r) /\ leaseToken[r] \notin lost => InHand(r)

LoopInv == IInv /\ LeasesKnown /\ OthersElsewhere /\ NoneForgotten

LEMMA LiveIsValid == \A r \in Runs : ValidLease(r, leaseToken[r]) <=> Live(r)
BY DEF ValidLease, Live

-----------------------------------------------------------------------------
\* Steps of the server that lease nothing, and those that begin no submission.
NoNewLease ==
    /\ issued' = issued
    /\ created' \in Nat /\ created <= created'
    /\ \A r \in Runs : Live(r)' => Live(r) /\ leaseToken'[r] = leaseToken[r]

NoNewWork == \A w \in Workers : Working(w)' => Working(w) /\ worker'[w] = worker[w]

LEMMA StutterIsQuiet == IInv /\ UNCHANGED vars => NoNewLease /\ NoNewWork
BY DEF IInv, TypeOK, RunsTypeOK, NoNewLease, NoNewWork, Live, Working, vars, runVars

LEMMA BeatIsQuiet == IInv /\ (Heartbeat \/ RecordOffline) => NoNewLease /\ NoNewWork
<1> SUFFICES ASSUME IInv, Heartbeat \/ RecordOffline
             PROVE  NoNewLease /\ NoNewWork
    OBVIOUS
<1>1. UNCHANGED <<runVars, worker>>
    BY DEF Heartbeat, RecordOffline
<1>2. created \in Nat
    BY DEF IInv, TypeOK, RunsTypeOK
<1> QED
    BY <1>1, <1>2 DEF NoNewLease, NoNewWork, Live, Working, runVars

LEMMA CreationIsQuiet == IInv /\ CreateRun => NoNewLease /\ NoNewWork
BY DEF IInv, TypeOK, RunsTypeOK, NoNewLease, NoNewWork, Live, Working, CreateRun

LEMMA TickIsQuiet == IInv /\ Tick => NoNewLease /\ NoNewWork
BY DEF IInv, TypeOK, RunsTypeOK, NoNewLease, NoNewWork, Live, Working, Tick

LEMMA SweepIsQuiet == IInv /\ ClaimNothing => NoNewLease /\ NoNewWork
<1> SUFFICES ASSUME IInv, ClaimNothing
             PROVE  NoNewLease /\ NoNewWork
    OBVIOUS
<1>1. ASSUME NEW r \in Runs, Live(r)'
      PROVE  Live(r) /\ leaseToken'[r] = leaseToken[r]
    <2>1. Swept(r) = "claimed" /\ leaseLeft'[r] = leaseLeft[r] /\ leaseToken'[r] = SweptToken(r)
        BY <1>1 DEF Live, ClaimNothing
    <2>2. r \notin Lapsed /\ status[r] = "claimed"
        BY <2>1, SweptCases
    <2> QED
        BY <1>1, <2>1, <2>2 DEF Live, SweptToken
<1>2. NoNewWork
    BY DEF NoNewWork, Working, ClaimNothing
<1> QED
    BY <1>1, <1>2 DEF NoNewLease, ClaimNothing, IInv, TypeOK, RunsTypeOK

LEMMA CompletionIsQuiet ==
    ASSUME IInv, NEW r \in Runs, NEW t, NEW ok, NEW a, NEW f, Complete(r, t, ok, a, f)
    PROVE  NoNewLease /\ NoNewWork /\ ~ Live(r)'
<1>1. status'[r] # "claimed"
    BY FinalStatusFinished DEF Complete, IInv, TypeOK, RunsTypeOK
<1> QED
    BY <1>1 DEF IInv, TypeOK, RunsTypeOK, NoNewLease, NoNewWork, Live, Working, Complete

LEMMA WorkEndsQuietly ==
    ASSUME IInv, NEW w \in Workers, WorkerEnds(w)
    PROVE  NoNewLease /\ NoNewWork /\ ~ Working(w)'
<1>1. worker' = [worker EXCEPT ![w] = Idle] \/ worker' = [worker EXCEPT ![w] = Crashed]
    BY DEF WorkerEnds, SaveFailed, Promote, PromoteCollides, SaveEvent, Abandon, EndWork
<1>2. NoNewWork /\ ~ Working(w)'
    BY <1>1 DEF NoNewWork, Working, Idle, Crashed, IInv, TypeOK, WorkerTypeOK
<1>3. CASE PromoteCollides(w) \/ Abandon(w)
    <2>1. UNCHANGED runVars
        BY <1>3 DEF PromoteCollides, Abandon
    <2> QED
        BY <1>2, <2>1 DEF NoNewLease, Live, runVars, IInv, TypeOK, RunsTypeOK
<1>4. CASE SaveFailed(w) \/ Promote(w) \/ SaveEvent(w)
    <2>1. /\ Renew(worker[w].run) /\ Working(w) /\ WorkerHasLease(w)
          /\ UNCHANGED <<status, leaseToken, created, issued>>
        BY <1>4 DEF SaveFailed, Promote, SaveEvent, Submits
    <2>2. worker[w].run \in Runs /\ Live(worker[w].run)
        BY <2>1, WorkingTypes DEF WorkerHasLease, ValidLease, Live, IInv, TypeOK
    <2>3. \A r \in Runs : leaseLeft'[r] = leaseLeft[r] \/ r = worker[w].run
        BY <2>1, <2>2 DEF Renew, IInv, TypeOK, RunsTypeOK
    <2>4. \A r \in Runs : Live(r)' => Live(r)
        BY <2>1, <2>2, <2>3 DEF Live
    <2> QED
        BY <1>2, <2>1, <2>4 DEF NoNewLease, IInv, TypeOK, RunsTypeOK
<1> QED
    BY <1>2, <1>3, <1>4 DEF WorkerEnds

-----------------------------------------------------------------------------
\* A step of the server, or none, that leases nothing and begins nothing.
Quiet == [Next]_vars /\ NoNewLease /\ NoNewWork

LEMMA QuietSteps ==
    ASSUME IInv
    PROVE  /\ Heartbeat \/ RecordOffline \/ CreateRun \/ Tick \/ ClaimNothing => Quiet
           /\ NoServerStep => Quiet
           /\ \A w \in Workers : WorkerEnds(w) => Quiet /\ ~ Working(w)'
<1>1. Heartbeat \/ RecordOffline \/ CreateRun \/ Tick \/ ClaimNothing => Next
    BY DEF Next
<1>2. \A w \in Workers : WorkerEnds(w) => Next
    BY DEF Next, Submit, WorkerEnds
<1>3. Heartbeat \/ RecordOffline \/ CreateRun \/ Tick \/ ClaimNothing => Quiet
    BY <1>1, BeatIsQuiet, CreationIsQuiet, TickIsQuiet, SweepIsQuiet DEF Quiet
<1>4. NoServerStep => Quiet
    BY StutterIsQuiet DEF Quiet, NoServerStep
<1>5. \A w \in Workers : WorkerEnds(w) => Quiet /\ ~ Working(w)'
    BY <1>2, WorkEndsQuietly DEF Quiet
<1> QED
    BY <1>3, <1>4, <1>5

LEMMA ReportIsServerStep ==
    ASSUME LoopInv, NEW lease \in {held, progress}, lease # None, NEW ok \in BOOLEAN,
           Report(lease, ok)
    PROVE  /\ Quiet
           /\ \A r \in Runs : lease = [run |-> r, token |-> leaseToken[r]] => ~ Live(r)'
<1>1. /\ lease.run \in 1..created /\ lease.run \in Runs /\ lease.token \in 0..issued
    <2>1. lease.run \in 1..created /\ lease.token \in 1..issued
        BY DEF LoopInv, LeasesKnown
    <2>2. created \in 0..MaxRuns /\ issued \in Nat
        BY DEF LoopInv, IInv, TypeOK, RunsTypeOK
    <2>3. 1..created \subseteq Runs /\ 1..issued \subseteq 0..issued
        BY <2>2, ConstantTypes
    <2> QED
        BY <2>1, <2>3, Zenon
<1>2. IInv
    BY DEF LoopInv
<1>3. CASE ValidLease(lease.run, lease.token)
    <2>1. PICK a \in Reported, f \in Reported : Complete(lease.run, lease.token, ok, a, f)
        BY <1>3 DEF Report
    <2>2. Next
        BY <1>1, <2>1 DEF Next, CompleteRun
    <2>3. NoNewLease /\ NoNewWork /\ ~ Live(lease.run)'
        BY <1>1, <1>2, <2>1, CompletionIsQuiet
    <2> QED
        BY <2>2, <2>3 DEF Quiet
<1>4. CASE ~ ValidLease(lease.run, lease.token)
    <2>1. UNCHANGED vars
        BY <1>4 DEF Report, NoServerStep
    <2>2. NoNewLease /\ NoNewWork
        BY <1>2, <2>1, StutterIsQuiet
    <2>3. ASSUME NEW r \in Runs, lease = [run |-> r, token |-> leaseToken[r]]
          PROVE  ~ Live(r)'
        BY <1>4, <2>2, <2>3 DEF NoNewLease, ValidLease, Live
    <2> QED
        BY <2>1, <2>2, <2>3 DEF Quiet
<1> QED
    BY <1>3, <1>4

\* A beat is a heartbeat, or nothing.
LEMMA BeatIsServerStep ==
    ASSUME IInv, NEW answered \in BOOLEAN, Beat(answered)
    PROVE  Quiet
<1>1. Heartbeat \/ NoServerStep
    BY DEF Beat
<1> QED
    BY <1>1, QuietSteps

\* What is claimed is the only run in progress, under the newest token.
LEMMA ClaimLeases ==
    ASSUME IInv, IInv', ClaimRun
    PROVE  /\ issued' = issued + 1 /\ created' = created /\ UNCHANGED worker
           /\ \A r \in Runs : Live(r)' => leaseToken'[r] = issued'
           /\ \A r, q \in Runs : leaseToken'[r] = issued' /\ Live(q)' => r = q
           /\ \A r \in Runs : leaseToken'[r] = issued' => r \in 1..created
<1>1. issued' = issued + 1 /\ created' = created /\ UNCHANGED worker /\ issued \in Nat
    BY DEF ClaimRun, IInv, TypeOK, RunsTypeOK
<1>2. AtMostOneActive' /\ LeaseWellFormed' /\ Unborn' /\ TypeOK'
    BY DEF IInv
<1>3. \A r \in Runs : Live(r)' => leaseToken'[r] = issued'
    BY <1>2 DEF Live, LeaseWellFormed
<1>4. ASSUME NEW r \in Runs, leaseToken'[r] = issued'
      PROVE  status'[r] = "claimed"
    <2>1. issued' # NoToken
        BY <1>1
    <2> QED
        BY <1>2, <1>4, <2>1, Zenon DEF LeaseWellFormed
<1>5. ASSUME NEW r \in Runs, NEW q \in Runs, leaseToken'[r] = issued', Live(q)'
      PROVE  r = q
    <2>1. status'[r] = "claimed" /\ status'[q] = "claimed"
        BY <1>4, <1>5 DEF Live
    <2> QED
        BY <1>2, <1>5, <2>1, Zenon DEF AtMostOneActive
<1>6. \A r \in Runs : leaseToken'[r] = issued' => r \in 1..created
    <2>1. ASSUME NEW r \in Runs, leaseToken'[r] = issued'
          PROVE  r \in 1..created
        <3>1. ~ (r > created')
            BY <1>2, <1>4, <2>1 DEF Unborn
        <3>2. created' \in Nat
            BY <1>2 DEF TypeOK, RunsTypeOK
        <3>3. r \in Nat /\ r >= 1
            OBVIOUS
        <3> QED
            BY <1>1, <3>1, <3>2, <3>3
    <2> QED
        BY <2>1
<1> QED
    BY <1>1, <1>3, <1>5, <1>6

-----------------------------------------------------------------------------
\* What a step of the runner has to keep of a run in hand, of the submission it
\* waits for and of those it does not, when the server leases nothing.
KeepsHold ==
    /\ held' = held
    /\ progress' \in {progress, held, None}
    /\ lost \subseteq lost'
    /\ pc' \in Busy => pc \in Busy
    /\ pc' \in Busy \ {"begin"} => progress' = held
    /\ pc' \in {"explore", "flow"} => outcome' = "ok"
    /\ awaited' # NoWorker => awaited' = awaited /\ pc' = "flow" /\ Working(awaited)'
    /\ pc' \in {"begin", "explore", "flow"} =>
           /\ pc \in {"begin", "explore", "flow"}
           /\ awaited \in {awaited', NoWorker} \/ worker'[awaited].phase # "checked"
    /\ pc' \in {"completing", "complete"} /\ outcome' = "ok" =>
           \/ pc \in {"completing", "complete"} /\ outcome = "ok"
           \/ pc \in {"explore", "flow"} /\ awaited = NoWorker
    /\ \A r \in Runs :
           Live(r)' /\ InHand(r) /\ leaseToken[r] \notin lost' =>
               pc' \in Busy \/ (pc' = "shutdown" /\ progress' = held)

LEMMA QuietKeepsLeases ==
    ASSUME LoopInv, Quiet, KeepsHold
    PROVE  LeasesKnown'
<1>1. /\ held # None => held.run \in 1..created' /\ held.token \in 1..issued'
      /\ progress # None => progress.run \in 1..created' /\ progress.token \in 1..issued'
    <2>1. created \in Nat /\ created' \in Nat /\ created <= created' /\ issued' = issued
        BY DEF Quiet, NoNewLease, LoopInv, IInv, TypeOK, RunsTypeOK
    <2>2. 1..created \subseteq 1..created' /\ 1..issued' = 1..issued
        BY <2>1
    <2> QED
        BY <2>2, Zenon DEF LoopInv, LeasesKnown
<1>2. /\ held' # None => held'.run \in 1..created' /\ held'.token \in 1..issued'
      /\ progress' # None => progress'.run \in 1..created' /\ progress'.token \in 1..issued'
    BY <1>1, Zenon DEF KeepsHold
<1>3. /\ pc' \in Busy => held' # None
      /\ pc' \in Busy \ {"begin"} => progress' = held'
      /\ pc' \in {"explore", "flow"} => outcome' = "ok"
    BY DEF KeepsHold, LoopInv, LeasesKnown
<1>4. ASSUME awaited' # NoWorker
      PROVE  /\ pc' = "flow" /\ awaited' \in Workers /\ Working(awaited)'
             /\ worker'[awaited'].run = held'.run /\ worker'[awaited'].token = held'.token
    <2>1. awaited' = awaited /\ pc' = "flow" /\ Working(awaited)' /\ held' = held
        BY <1>4 DEF KeepsHold
    <2>2. /\ awaited \in Workers
          /\ worker[awaited].run = held.run /\ worker[awaited].token = held.token
        BY <1>4, <2>1 DEF LoopInv, LeasesKnown
    <2>3. worker'[awaited] = worker[awaited]
        BY <2>1, <2>2 DEF Quiet, NoNewWork, Working
    <2> QED
        BY <2>1, <2>2, <2>3
<1> QED
    BY <1>2, <1>3, <1>4 DEF LeasesKnown, Busy

LEMMA QuietKeepsOthers ==
    ASSUME LoopInv, Quiet, KeepsHold
    PROVE  OthersElsewhere'
<1>1. ASSUME NEW w \in Workers, Working(w)'
      PROVE  /\ Working(w) /\ worker'[w] = worker[w] /\ w # NoWorker
             /\ worker'[w].token <= issued'
    BY <1>1, NoWorkerAssumption
       DEF Quiet, NoNewWork, NoNewLease, LoopInv, OthersElsewhere
<1>2. ASSUME NEW w \in Workers, Working(w)', pc' \in {"begin", "explore", "flow"}, w # awaited'
      PROVE  worker'[w].token # held'.token
    <2>1. Working(w) /\ worker'[w] = worker[w] /\ w # NoWorker
        BY <1>1, <1>2
    <2>2. /\ pc \in {"begin", "explore", "flow"} /\ held' = held
          /\ awaited \in {awaited', NoWorker} \/ worker'[awaited].phase # "checked"
        BY <1>2 DEF KeepsHold
    <2>3. worker'[w].phase = "checked"
        BY <1>2 DEF Working
    <2>4. w # awaited
        BY <1>2, <2>1, <2>2, <2>3
    <2> QED
        BY <2>1, <2>2, <2>4 DEF LoopInv, OthersElsewhere
<1>3. ASSUME NEW w \in Workers, Working(w)', pc' \in {"completing", "complete"}, outcome' = "ok"
      PROVE  worker'[w].token # held'.token
    <2>1. Working(w) /\ worker'[w] = worker[w] /\ w # NoWorker
        BY <1>1, <1>3
    <2>2. held' = held
        BY DEF KeepsHold
    <2>3. \/ pc \in {"completing", "complete"} /\ outcome = "ok"
          \/ pc \in {"explore", "flow"} /\ awaited = NoWorker
        BY <1>3 DEF KeepsHold
    <2> QED
        BY <2>1, <2>2, <2>3 DEF LoopInv, OthersElsewhere
<1> QED
    BY <1>1, <1>2, <1>3 DEF OthersElsewhere

LEMMA QuietStep ==
    ASSUME LoopInv, Quiet, KeepsHold
    PROVE  LoopInv'
<1>1. IInv'
    BY StepIInv DEF LoopInv, Quiet
<1>2. ASSUME NEW r \in Runs, Live(r)', leaseToken'[r] \notin lost'
      PROVE  InHand(r)'
    <2>1. Live(r) /\ leaseToken'[r] = leaseToken[r]
        BY <1>2 DEF Quiet, NoNewLease
    <2>2. leaseToken[r] \notin lost' /\ leaseToken[r] \notin lost
        BY <1>2, <2>1 DEF KeepsHold
    <2>3. InHand(r)
        BY <2>1, <2>2 DEF LoopInv, NoneForgotten
    <2>4. pc' \in Busy \/ (pc' = "shutdown" /\ progress' = held)
        BY <1>2, <2>2, <2>3 DEF KeepsHold
    <2> QED
        BY <2>1, <2>3, <2>4 DEF InHand, KeepsHold, Busy
<1>3. NoneForgotten'
    BY <1>2 DEF NoneForgotten
<1> QED
    BY <1>1, <1>3, QuietKeepsLeases, QuietKeepsOthers DEF LoopInv
-----------------------------------------------------------------------------
\* The steps of the runner, one by one.

\* Nothing is in hand before and nothing after.
LEMMA AwayStep ==
    ASSUME LoopInv, Quiet, pc \notin Busy \cup {"shutdown"}, pc' \notin Busy,
           held' = held, progress' \in {progress, None}, awaited' = awaited, lost' = lost
    PROVE  LoopInv'
<1>1. awaited = NoWorker
    BY DEF LoopInv, LeasesKnown, Busy
<1>2. KeepsHold
    BY <1>1 DEF KeepsHold, InHand, Busy
<1> QED
    BY <1>2, QuietStep

\* The main thread waits or is elsewhere.
LEMMA BystanderStep ==
    ASSUME LoopInv, Quiet, UNCHANGED <<pc, held, progress, outcome, awaited, lost>>,
           awaited # NoWorker => worker'[awaited].phase = "checked"
    PROVE  LoopInv'
<1>1. KeepsHold
    BY DEF KeepsHold, InHand, Busy, LoopInv, LeasesKnown, Working
<1> QED
    BY <1>1, QuietStep

LEMMA AwaySteps ==
    ASSUME LoopInv, Poll \/ PollNothing \/ PollUnsent \/ EndRun \/ Translated \/ SayGoodbye
    PROVE  LoopInv'
<1>1. pc \notin Busy \cup {"shutdown"} /\ pc' \notin Busy
    BY DEF Poll, PollNothing, PollUnsent, EndRun, Translated, SayGoodbye, Busy
<1>2. held' = held /\ progress' \in {progress, None} /\ awaited' = awaited /\ lost' = lost
    BY DEF Poll, PollNothing, PollUnsent, EndRun, Translated, SayGoodbye
<1>3. \/ \E answered \in BOOLEAN : Beat(answered)
      \/ ClaimNothing
      \/ NoServerStep
      \/ RecordOffline
    BY DEF Poll, PollNothing, PollUnsent, EndRun, Translated, SayGoodbye
<1>4. Quiet
    BY <1>3, BeatIsServerStep, QuietSteps DEF LoopInv
<1> QED
    BY <1>1, <1>2, <1>4, AwayStep

LEMMA BystanderSteps ==
    ASSUME LoopInv,
           TickerSends \/ BeatArrives \/ StaffCreatesRun \/ TimePasses \/ OrphanEnds
    PROVE  LoopInv'
<1>1. UNCHANGED <<pc, held, progress, outcome, awaited, lost>>
    BY DEF TickerSends, BeatArrives, StaffCreatesRun, TimePasses, OrphanEnds, loopVars
<1>2. awaited # NoWorker => awaited \in Workers /\ worker[awaited].phase = "checked"
    BY DEF LoopInv, LeasesKnown, Working
<1>3. CASE TickerSends \/ BeatArrives \/ StaffCreatesRun \/ TimePasses
    <2>1. NoServerStep \/ Heartbeat \/ CreateRun \/ Tick
        BY <1>3 DEF TickerSends, BeatArrives, StaffCreatesRun, TimePasses
    <2>2. Quiet
        BY <2>1, QuietSteps DEF LoopInv
    <2>3. worker' = worker
        BY <2>1 DEF NoServerStep, Heartbeat, CreateRun, Tick, vars
    <2> QED
        BY <1>1, <1>2, <2>2, <2>3, BystanderStep
<1>4. CASE OrphanEnds
    <2>1. PICK w \in Workers : w # awaited /\ WorkerEnds(w)
        BY <1>4 DEF OrphanEnds
    <2>2. Quiet
        BY <2>1, QuietSteps DEF LoopInv
    <2>3. worker' = [worker EXCEPT ![w] = Idle] \/ worker' = [worker EXCEPT ![w] = Crashed]
        BY <2>1 DEF WorkerEnds, SaveFailed, Promote, PromoteCollides, SaveEvent, Abandon,
                    EndWork
    <2>4. awaited # NoWorker => worker'[awaited].phase = "checked"
        BY <1>2, <2>1, <2>3 DEF LoopInv, IInv, TypeOK, WorkerTypeOK
    <2> QED
        BY <1>1, <2>2, <2>4, BystanderStep
<1> QED
    BY <1>3, <1>4

\* A new process knows nothing of the runs of the last one.
LEMMA StartStep ==
    ASSUME LoopInv, Start
    PROVE  LoopInv'
<1>1. Quiet
    BY QuietSteps DEF LoopInv, Start
<1>2. IInv'
    BY <1>1, StepIInv DEF LoopInv, Quiet
<1>3. awaited = NoWorker /\ awaited' = awaited
    BY DEF LoopInv, LeasesKnown, Start
<1>4. LeasesKnown'
    BY <1>3 DEF LeasesKnown, Start, Busy
<1>5. OthersElsewhere'
    BY <1>1 DEF OthersElsewhere, Start, Quiet, NoNewLease, NoNewWork, LoopInv
<1>6. NoneForgotten'
    BY <1>1 DEF NoneForgotten, InHand, Start, Quiet, NoNewLease, LoopInv, Busy
<1> QED
    BY <1>2, <1>4, <1>5, <1>6 DEF LoopInv

LEMMA BeginStep ==
    ASSUME LoopInv, Begin
    PROVE  LoopInv'
<1>1. PICK answered \in BOOLEAN :
        /\ Beat(answered)
        /\ pc' = IF answered THEN "explore" ELSE "poll"
        /\ IF answered THEN UNCHANGED lost ELSE Lose(held)
        /\ outcome' = IF answered THEN "ok" ELSE "error"
    BY DEF Begin
<1>2. Quiet
    BY <1>1, BeatIsServerStep DEF LoopInv
<1>3. awaited = NoWorker /\ pc = "begin"
    BY DEF LoopInv, LeasesKnown, Begin
<1>4. KeepsHold
    BY <1>1, <1>3 DEF KeepsHold, Begin, Busy, InHand, Lose
<1> QED
    BY <1>2, <1>4, QuietStep

LEMMA ExploreStep ==
    ASSUME LoopInv, Explore
    PROVE  LoopInv'
<1>1. Quiet
    BY QuietSteps DEF LoopInv, Explore
<1>2. awaited = NoWorker
    BY DEF LoopInv, LeasesKnown, Explore
<1>3. KeepsHold
    BY <1>2 DEF KeepsHold, Explore, Busy, LoopInv, LeasesKnown
<1> QED
    BY <1>1, <1>3, QuietStep

LEMMA FlowSteps ==
    ASSUME LoopInv, FlowFails \/ FlowEnds
    PROVE  LoopInv'
<1>1. Quiet
    BY QuietSteps DEF LoopInv, FlowFails, FlowEnds
<1>2. KeepsHold
    BY DEF KeepsHold, FlowFails, FlowEnds, FailureOutcome, Busy, LoopInv, LeasesKnown
<1> QED
    BY <1>1, <1>2, QuietStep
\* The run in hand is the one the runner holds a token of.
LEMMA HeldRun ==
    ASSUME LoopInv, NEW r \in Runs, InHand(r)
    PROVE  /\ held # None /\ held.run = r /\ held.token = leaseToken[r]
           /\ Live(r) <=> ValidLease(held.run, held.token)
<1>1. r # 0
    BY ConstantTypes
<1> QED
    BY <1>1 DEF InHand, None, ValidLease, Live

LEMMA SubmitAnsweredStep ==
    ASSUME LoopInv, SubmitAnswered
    PROVE  LoopInv'
<1>1. Quiet /\ UNCHANGED vars
    BY QuietSteps DEF LoopInv, SubmitAnswered, NoServerStep
<1>2. CASE ValidLease(held.run, held.token)
    <2>1. UNCHANGED <<pc, held, progress, outcome, awaited, lost>>
        BY <1>2 DEF SubmitAnswered
    <2>2. awaited = NoWorker
        BY DEF SubmitAnswered
    <2> QED
        BY <1>1, <2>1, <2>2, BystanderStep
<1>3. CASE ~ ValidLease(held.run, held.token)
    <2>1. pc' = "idle" /\ UNCHANGED <<held, progress, awaited, lost>> /\ awaited = NoWorker
        BY <1>3 DEF SubmitAnswered, LoseLease
    <2>2. \A r \in Runs : InHand(r) => ~ Live(r)
        BY <1>3, HeldRun
    <2>3. \A r \in Runs : InHand(r) => ~ Live(r)'
        BY <1>1, <2>2 DEF Quiet, NoNewLease
    <2>4. KeepsHold
        BY <2>1, <2>3 DEF KeepsHold, Busy
    <2> QED
        BY <1>1, <2>4, QuietStep
<1> QED
    BY <1>2, <1>3

LEMMA SubmitEndsStep ==
    ASSUME LoopInv, SubmitEnds
    PROVE  LoopInv'
<1>1. /\ awaited \in Workers /\ pc = "flow" /\ outcome = "ok" /\ progress = held
      /\ worker[awaited].run = held.run /\ worker[awaited].token = held.token
    BY DEF SubmitEnds, LoopInv, LeasesKnown, Busy
<1>2. PICK w \in Workers : w = awaited /\ WorkerEnds(w)
    BY <1>1 DEF SubmitEnds
<1>3. Quiet /\ worker'[w].phase # "checked"
    BY <1>2, QuietSteps DEF LoopInv, Working
<1>4. UNCHANGED <<held, progress, lost>> /\ awaited' = NoWorker
    BY DEF SubmitEnds
<1>5. CASE WorkerHasLease(awaited)
    <2>1. UNCHANGED <<pc, outcome>>
        BY <1>5 DEF SubmitEnds
    <2>2. KeepsHold
        BY <1>1, <1>2, <1>3, <1>4, <2>1 DEF KeepsHold, Busy
    <2> QED
        BY <1>3, <2>2, QuietStep
<1>6. CASE ~ WorkerHasLease(awaited)
    <2>1. pc' = "idle"
        BY <1>6 DEF SubmitEnds, LoseLease
    <2>2. \A r \in Runs : InHand(r) => ~ Live(r)
        BY <1>1, <1>6, HeldRun DEF WorkerHasLease
    <2>3. \A r \in Runs : InHand(r) => ~ Live(r)'
        BY <1>3, <2>2 DEF Quiet, NoNewLease
    <2>4. KeepsHold
        BY <1>1, <1>4, <2>1, <2>3 DEF KeepsHold, Busy
    <2> QED
        BY <1>3, <2>4, QuietStep
<1> QED
    BY <1>5, <1>6

LEMMA CompletingStep ==
    ASSUME LoopInv, Completing
    PROVE  LoopInv'
<1>1. PICK answered \in BOOLEAN :
        /\ Beat(answered)
        /\ pc' = IF answered THEN "complete" ELSE "idle"
        /\ outcome' = IF answered THEN outcome ELSE "error"
        /\ IF answered THEN UNCHANGED lost ELSE Lose(held)
    BY DEF Completing
<1>2. Quiet
    BY <1>1, BeatIsServerStep DEF LoopInv
<1>3. awaited = NoWorker /\ pc = "completing" /\ progress = held
    BY DEF LoopInv, LeasesKnown, Completing, Busy
<1>4. UNCHANGED <<held, progress, awaited>> /\ lost \subseteq lost'
    BY <1>1 DEF Completing, Lose
<1>5. KeepsHold
    <2>1. CASE answered
        BY <1>1, <1>3, <1>4, <2>1 DEF KeepsHold, Busy
    <2>2. CASE ~ answered
        <3>1. pc' = "idle" /\ held.token \in lost'
            BY <1>1, <2>2 DEF Lose
        <3>2. \A r \in Runs : InHand(r) => leaseToken[r] \in lost'
            BY <3>1, HeldRun
        <3> QED
            BY <1>3, <1>4, <3>1, <3>2 DEF KeepsHold, Busy
    <2> QED
        BY <2>1, <2>2
<1> QED
    BY <1>2, <1>5, QuietStep

\* Whatever becomes of the report, the run is closed or known to be lost.
LEMMA CompletesStep ==
    ASSUME LoopInv, Completes
    PROVE  LoopInv'
<1>1. /\ pc = "complete" /\ pc' = "idle" /\ awaited = NoWorker /\ held # None
      /\ UNCHANGED <<held, progress, awaited>> /\ lost \subseteq lost'
    BY DEF LoopInv, LeasesKnown, Completes, Busy, Lose
<1>2. CASE Report(held, outcome = "ok")
    <2>1. PICK lease \in {held, progress}, ok \in BOOLEAN :
            lease = held /\ Report(lease, ok)
        BY <1>2
    <2>2. Quiet /\ \A r \in Runs : held = [run |-> r, token |-> leaseToken[r]] => ~ Live(r)'
        BY <1>1, <2>1, ReportIsServerStep
    <2>3. KeepsHold
        BY <1>1, <2>2 DEF KeepsHold, Busy, InHand
    <2> QED
        BY <2>2, <2>3, QuietStep
<1>3. CASE NoServerStep /\ Lose(held)
    <2>1. Quiet
        BY <1>3, QuietSteps DEF LoopInv
    <2>2. \A r \in Runs : InHand(r) => leaseToken[r] \in lost'
        BY <1>3, HeldRun DEF Lose
    <2>3. KeepsHold
        BY <1>1, <2>2 DEF KeepsHold, Busy
    <2> QED
        BY <2>1, <2>3, QuietStep
<1> QED
    BY <1>2, <1>3 DEF Completes

\* The shutdown report closes the run progress knows of.
LEMMA ReportShutdownStep ==
    ASSUME LoopInv, ReportShutdown
    PROVE  LoopInv'
<1>1. /\ pc = "shutdown" /\ pc' = "goodbye" /\ awaited = NoWorker
      /\ UNCHANGED <<held, progress, awaited>> /\ lost \subseteq lost'
    BY DEF LoopInv, LeasesKnown, ReportShutdown, Lose
<1>2. \A r \in Runs : InHand(r) => progress = held /\ progress # None
    BY <1>1, HeldRun DEF InHand, Busy
<1>3. CASE progress = None /\ NoServerStep
    <2>1. Quiet
        BY <1>3, QuietSteps DEF LoopInv
    <2>2. KeepsHold
        BY <1>1, <1>2, <1>3 DEF KeepsHold, Busy
    <2> QED
        BY <2>1, <2>2, QuietStep
<1>4. CASE progress # None /\ Report(progress, FALSE)
    <2>1. PICK lease \in {held, progress}, ok \in BOOLEAN :
            lease = progress /\ Report(lease, ok)
        BY <1>4
    <2>2. Quiet /\ \A r \in Runs : progress = [run |-> r, token |-> leaseToken[r]] => ~ Live(r)'
        BY <1>4, <2>1, ReportIsServerStep
    <2>3. KeepsHold
        BY <1>1, <1>2, <2>2 DEF KeepsHold, Busy, InHand
    <2> QED
        BY <2>2, <2>3, QuietStep
<1>5. CASE NoServerStep /\ Lose(progress)
    <2>1. Quiet
        BY <1>5, QuietSteps DEF LoopInv
    <2>2. \A r \in Runs : InHand(r) => leaseToken[r] \in lost'
        BY <1>2, <1>5, HeldRun DEF Lose
    <2>3. KeepsHold
        BY <1>1, <2>2 DEF KeepsHold, Busy
    <2> QED
        BY <2>1, <2>3, QuietStep
<1> QED
    BY <1>3, <1>4, <1>5 DEF ReportShutdown
\* A claim whose answer nobody reads: its token is known to be lost.
LEMMA ClaimLostStep ==
    ASSUME LoopInv, ClaimRun, pc = "claim", pc' \in {"poll", "shutdown", "off"},
           UNCHANGED <<held, progress>>, awaited' = NoWorker, lost' = lost \cup {issued'}
    PROVE  LoopInv'
<1>1. [Next]_vars
    BY DEF Next
<1>2. IInv'
    BY <1>1, StepIInv DEF LoopInv
<1>3. /\ issued' = issued + 1 /\ created' = created /\ UNCHANGED worker
      /\ \A r \in Runs : Live(r)' => leaseToken'[r] = issued'
    BY <1>2, ClaimLeases DEF LoopInv
<1>4. issued \in Nat /\ issued' \in Nat /\ issued <= issued' /\ 1..issued \subseteq 1..issued'
    BY <1>3 DEF LoopInv, IInv, TypeOK, RunsTypeOK
<1>5. LeasesKnown'
    <2>1. /\ held # None => held.run \in 1..created' /\ held.token \in 1..issued'
          /\ progress # None => progress.run \in 1..created' /\ progress.token \in 1..issued'
        BY <1>3, <1>4, Zenon DEF LoopInv, LeasesKnown
    <2> QED
        BY <2>1 DEF LeasesKnown, Busy
<1>6. \A w \in Workers : Working(w)' => worker'[w].token <= issued'
    <2>1. ASSUME NEW w \in Workers, Working(w)'
          PROVE  worker'[w].token <= issued'
        <3>1. Working(w) /\ worker'[w] = worker[w]
            BY <1>3, <2>1 DEF Working
        <3>2. worker[w].token <= issued /\ worker[w].token \in Nat
            BY <3>1 DEF LoopInv, OthersElsewhere, IInv, TypeOK, WorkerTypeOK, Working,
                        Checks, Idle, Crashed
        <3> QED
            BY <1>4, <3>1, <3>2
    <2> QED
        BY <2>1
<1>7. OthersElsewhere'
    BY <1>6 DEF OthersElsewhere
<1>8. NoneForgotten'
    BY <1>3 DEF NoneForgotten
<1> QED
    BY <1>2, <1>5, <1>7, <1>8 DEF LoopInv

LEMMA PollRunStep ==
    ASSUME LoopInv, PollRun
    PROVE  LoopInv'
<1>1. ClaimRun /\ pc = "claim" /\ awaited = NoWorker /\ UNCHANGED <<progress, awaited>>
    BY DEF LoopInv, LeasesKnown, PollRun
<1>2. CASE pc' = "poll" /\ lost' = lost \cup {issued'} /\ UNCHANGED held
    BY <1>1, <1>2, ClaimLostStep
<1>3. CASE /\ pc' = "begin"
           /\ \E r \in Runs : /\ leaseToken'[r] = issued'
                              /\ held' = [run |-> r, token |-> issued']
           /\ UNCHANGED lost
    <2>1. IInv'
        BY <1>1, StepIInv DEF LoopInv, Next
    <2>2. /\ issued' = issued + 1 /\ created' = created /\ UNCHANGED worker
          /\ \A r, q \in Runs : leaseToken'[r] = issued' /\ Live(q)' => r = q
          /\ \A r \in Runs : leaseToken'[r] = issued' => r \in 1..created
          /\ \A r \in Runs : Live(r)' => leaseToken'[r] = issued'
        BY <1>1, <2>1, ClaimLeases DEF LoopInv
    <2>3. /\ issued \in Nat /\ issued' \in Nat /\ issued < issued'
          /\ 1..issued \subseteq 1..issued' /\ issued' \in 1..issued'
        BY <2>2 DEF LoopInv, IInv, TypeOK, RunsTypeOK
    <2>4. PICK r \in Runs : leaseToken'[r] = issued' /\ held' = [run |-> r, token |-> issued']
        BY <1>3
    <2>5. r \in 1..created' /\ held'.run = r /\ held'.token = issued' /\ held' # None
        <3>1. r \in 1..created' /\ r # 0
            BY <2>2, <2>4, ConstantTypes
        <3> QED
            BY <2>4, <3>1 DEF None
    <2>6. LeasesKnown'
        <3>1. progress # None => progress.run \in 1..created' /\ progress.token \in 1..issued'
            BY <2>2, <2>3, Zenon DEF LoopInv, LeasesKnown
        <3>2. held'.run \in 1..created' /\ held'.token \in 1..issued'
            BY <2>3, <2>5
        <3>3. awaited' = NoWorker /\ progress' = progress /\ pc' = "begin"
            BY <1>1, <1>3
        <3> QED
            BY <2>5, <3>1, <3>2, <3>3 DEF LeasesKnown, Busy
    <2>7. ASSUME NEW w \in Workers, Working(w)'
          PROVE  worker'[w].token <= issued' /\ worker'[w].token # held'.token
        <3>1. Working(w) /\ worker'[w] = worker[w]
            BY <2>2, <2>7 DEF Working
        <3>2. worker[w].token <= issued /\ worker[w].token \in Nat
            BY <3>1 DEF LoopInv, OthersElsewhere, IInv, TypeOK, WorkerTypeOK, Working,
                        Checks, Idle, Crashed
        <3>3. worker[w].token < issued'
            BY <2>3, <3>2
        <3> QED
            BY <2>3, <2>5, <3>1, <3>2, <3>3
    <2>8. OthersElsewhere'
        BY <1>3, <2>7 DEF OthersElsewhere
    <2>9. NoneForgotten'
        BY <1>3, <2>2, <2>4 DEF NoneForgotten, InHand, Busy
    <2> QED
        BY <2>1, <2>6, <2>8, <2>9 DEF LoopInv
<1> QED
    BY <1>2, <1>3 DEF PollRun

LEMMA SubmitIsServerStep ==
    ASSUME LoopInv, SubmitStarts
    PROVE  [Next]_vars
<1>1. PICK w \in Workers, u \in Urls :
        \/ CheckListing(w, held.run, held.token, u)
        \/ CheckAccount(w, held.run, held.token, u)
        \/ CheckEvent(w, held.run, held.token, u)
    BY DEF SubmitStarts
<1>2. held.run \in 1..created /\ held.token \in 1..issued
    BY DEF SubmitStarts, LoopInv, LeasesKnown, Busy
<1>3. 1..issued \subseteq 0..issued
    BY DEF LoopInv, IInv, TypeOK, RunsTypeOK
<1>4. held.token \in 0..issued
    BY <1>2, <1>3, Zenon
<1> QED
    BY <1>1, <1>2, <1>4 DEF Next, Submit

LEMMA SubmitStartsStep ==
    ASSUME LoopInv, SubmitStarts
    PROVE  LoopInv'
<1>1. PICK w \in Workers, u \in Urls :
        /\ \/ CheckListing(w, held.run, held.token, u)
           \/ CheckAccount(w, held.run, held.token, u)
           \/ CheckEvent(w, held.run, held.token, u)
        /\ awaited' = w
    BY DEF SubmitStarts
<1>2. pc = "flow" /\ awaited = NoWorker /\ held # None /\ progress = held /\ outcome = "ok"
    BY DEF SubmitStarts, LoopInv, LeasesKnown, Busy
<1>3. UNCHANGED <<pc, held, progress, outcome, lost>>
    BY DEF SubmitStarts
<1>4. held.run \in 1..created /\ held.token \in 1..issued
    BY <1>2 DEF LoopInv, LeasesKnown
<1>5. [Next]_vars
    BY SubmitIsServerStep
<1>6. IInv'
    BY <1>5, StepIInv DEF LoopInv
<1>7. PICK kind \in Kinds : StartWork(w, kind, held.run, held.token, u)
    BY <1>1 DEF CheckListing, CheckAccount, CheckEvent, Kinds
<1>8. /\ UNCHANGED runVars
      /\ worker'[w] = [phase |-> "checked", kind |-> kind, run |-> held.run,
                       token |-> held.token, url |-> u]
      /\ \A v \in Workers : v # w => worker'[v] = worker[v]
    BY <1>7 DEF StartWork, LoopInv, IInv, TypeOK, WorkerTypeOK
<1>9. /\ Working(w)' /\ worker'[w].run = held.run /\ worker'[w].token = held.token
    BY <1>8 DEF Working
<1>10. LeasesKnown'
    <2>1. /\ held' = held /\ progress' = held /\ pc' = "flow" /\ outcome' = "ok"
          /\ created' = created /\ issued' = issued /\ awaited' = w
        BY <1>1, <1>2, <1>3, <1>8 DEF runVars
    <2>2. worker'[w].phase = "checked"
        BY <1>8
    <2> QED
        BY <1>2, <1>4, <1>9, <2>1, <2>2 DEF LeasesKnown, Busy, Working
<1>11. ASSUME NEW v \in Workers, Working(v)'
       PROVE  worker'[v].token <= issued' /\ (v # w => worker'[v].token # held.token)
    <2>1. CASE v = w
        <3>1. held.token <= issued
            BY <1>4 DEF LoopInv, IInv, TypeOK, RunsTypeOK
        <3> QED
            BY <1>8, <1>9, <2>1, <3>1 DEF runVars
    <2>2. CASE v # w
        <3>1. Working(v) /\ worker'[v] = worker[v] /\ v # NoWorker
            BY <1>8, <1>11, <2>2, NoWorkerAssumption DEF Working
        <3> QED
            BY <1>2, <1>8, <3>1 DEF LoopInv, OthersElsewhere, runVars
    <2> QED
        BY <2>1, <2>2
<1>12. OthersElsewhere'
    BY <1>1, <1>2, <1>3, <1>11 DEF OthersElsewhere
<1>13. NoneForgotten'
    BY <1>2, <1>3, <1>8 DEF NoneForgotten, InHand, Live, runVars, LoopInv, Busy
<1> QED
    BY <1>6, <1>10, <1>12, <1>13 DEF LoopInv

\* A signal comes: what was in hand is left to progress, or known to be lost.
LEMMA InterruptStep ==
    ASSUME LoopInv, Interrupt
    PROVE  LoopInv'
<1>1. /\ pc' = "shutdown" /\ awaited' = NoWorker /\ pc # "shutdown"
      /\ UNCHANGED <<held, progress, outcome>> /\ progress' = progress
    BY DEF Interrupt, ProgressAfterSignal
<1>2. CASE NoServerStep /\ IF pc = "begin" THEN Lose(held) ELSE UNCHANGED lost
    <2>1. Quiet
        BY <1>2, QuietSteps DEF LoopInv
    <2>2. \A r \in Runs : InHand(r) => leaseToken[r] \in lost' \/ progress = held
        <3>1. CASE pc = "begin"
            BY <1>2, <3>1, HeldRun DEF Lose
        <3>2. CASE pc # "begin"
            BY <1>1, <3>2 DEF InHand, LoopInv, LeasesKnown, Busy
        <3> QED
            BY <3>1, <3>2
    <2>3. lost \subseteq lost'
        BY <1>2 DEF Lose
    <2>4. KeepsHold
        BY <1>1, <2>2, <2>3 DEF KeepsHold, Busy
    <2> QED
        BY <2>1, <2>4, QuietStep
<1>3. CASE pc = "claim" /\ ClaimRun /\ lost' = lost \cup {issued'}
    BY <1>1, <1>3, ClaimLostStep
<1>4. CASE pc = "complete" /\ Report(held, outcome = "ok") /\ UNCHANGED lost
    <2>1. held # None
        BY <1>4 DEF LoopInv, LeasesKnown, Busy
    <2>2. PICK lease \in {held, progress}, ok \in BOOLEAN :
            lease = held /\ Report(lease, ok)
        BY <1>4
    <2>3. Quiet /\ \A r \in Runs : held = [run |-> r, token |-> leaseToken[r]] => ~ Live(r)'
        BY <2>1, <2>2, ReportIsServerStep
    <2>4. KeepsHold
        BY <1>1, <1>4, <2>3 DEF KeepsHold, Busy, InHand
    <2> QED
        BY <2>3, <2>4, QuietStep
<1> QED
    BY <1>2, <1>3, <1>4 DEF Interrupt

LEMMA DieStep ==
    ASSUME LoopInv, Die
    PROVE  LoopInv'
<1>1. pc' = "off" /\ awaited' = NoWorker /\ UNCHANGED <<held, progress>>
    BY DEF Die
<1>2. CASE NoServerStep /\ Lose(held)
    <2>1. Quiet
        BY <1>2, QuietSteps DEF LoopInv
    <2>2. \A r \in Runs : InHand(r) => leaseToken[r] \in lost'
        BY <1>2, HeldRun DEF Lose
    <2>3. KeepsHold
        BY <1>1, <1>2, <2>2 DEF KeepsHold, Busy, Lose
    <2> QED
        BY <2>1, <2>3, QuietStep
<1>3. CASE pc = "claim" /\ ClaimRun /\ lost' = lost \cup {issued'}
    BY <1>1, <1>3, ClaimLostStep
<1> QED
    BY <1>2, <1>3 DEF Die
-----------------------------------------------------------------------------
LEMMA InitLoopInv == LoopInit => LoopInv
<1> SUFFICES ASSUME LoopInit
             PROVE  LoopInv
    OBVIOUS
<1>1. Init /\ pc = "off" /\ held = None /\ progress = None /\ awaited = NoWorker
    BY DEF LoopInit
<1>2. IInv
    BY <1>1, InitIInv
<1>3. LeasesKnown
    BY <1>1 DEF LeasesKnown, Busy
<1>4. \A w \in Workers : ~ Working(w)
    BY <1>1 DEF Init, Working, Idle
<1>5. \A r \in Runs : ~ Live(r)
    BY <1>1 DEF Init, Live
<1> QED
    BY <1>2, <1>3, <1>4, <1>5 DEF LoopInv, OthersElsewhere, NoneForgotten

LEMMA StepLoopInv == LoopInv /\ [LoopNext]_allVars => LoopInv'
<1> SUFFICES ASSUME LoopInv, [LoopNext]_allVars
             PROVE  LoopInv'
    OBVIOUS
<1>1. CASE RunnerStep
    BY <1>1, AwaySteps, StartStep, PollRunStep, BeginStep, ExploreStep, SubmitStartsStep,
       SubmitAnsweredStep, SubmitEndsStep, FlowSteps, CompletingStep, CompletesStep,
       ReportShutdownStep DEF RunnerStep
<1>2. CASE OrphanEnds \/ TickerSends \/ BeatArrives \/ StaffCreatesRun \/ TimePasses
    BY <1>2, BystanderSteps
<1>3. CASE Interrupt
    BY <1>3, InterruptStep
<1>4. CASE Die
    BY <1>4, DieStep
<1>5. CASE UNCHANGED allVars
    <2>1. NoServerStep /\ UNCHANGED <<pc, held, progress, outcome, awaited, lost>>
        BY <1>5 DEF allVars, loopVars, NoServerStep
    <2>2. Quiet /\ worker' = worker
        BY <2>1, QuietSteps DEF LoopInv, NoServerStep, vars
    <2>3. awaited # NoWorker => worker[awaited].phase = "checked"
        BY DEF LoopInv, LeasesKnown, Working
    <2> QED
        BY <2>1, <2>2, <2>3, BystanderStep
<1> QED
    BY <1>1, <1>2, <1>3, <1>4, <1>5 DEF LoopNext

LEMMA LoopInvariance == LoopSpec => []LoopInv
BY InitLoopInv, StepLoopInv, PTL DEF LoopSpec

\* A process that is gone leaves no leased run behind, unless a message about
\* the lease, or the process itself, was lost: every way out of an exploration
\* closes the run, hands it to the shutdown report or loses it for good.
THEOREM NoRunForgotten == LoopSpec => []NoOrphanWithoutLoss
<1>1. LoopInv => NoOrphanWithoutLoss
    <2> SUFFICES ASSUME LoopInv, pc = "off", NEW r \in Runs, ValidLease(r, leaseToken[r])
                 PROVE  leaseToken[r] \in lost
        BY DEF NoOrphanWithoutLoss
    <2>1. Live(r)
        BY LiveIsValid
    <2>2. ~ InHand(r)
        BY DEF InHand, Busy
    <2> QED
        BY <2>1, <2>2 DEF LoopInv, NoneForgotten
<1> QED
    BY <1>1, LoopInvariance, PTL

-----------------------------------------------------------------------------
\* Only a completion report makes a run a success.
LEMMA OthersDoNotSucceed ==
    ASSUME IInv, NEW r \in Runs, status[r] = "claimed", status'[r] = "succeeded"
    PROVE  /\ ~ Heartbeat /\ ~ RecordOffline /\ ~ CreateRun /\ ~ Tick
           /\ ~ ClaimNothing /\ ~ ClaimRun /\ ~ NoServerStep
           /\ \A w \in Workers : ~ WorkerEnds(w)
           /\ \A w, k, q, t, u : ~ StartWork(w, k, q, t, u)
<1>1. ~ Heartbeat /\ ~ RecordOffline /\ ~ Tick /\ ~ NoServerStep
    BY DEF Heartbeat, RecordOffline, Tick, NoServerStep, vars, runVars
<1>2. ~ CreateRun
    BY DEF CreateRun, IInv, TypeOK, RunsTypeOK
<1>3. Swept(r) # "succeeded"
    BY SweptCases
<1>4. ~ ClaimNothing /\ ~ ClaimRun
    BY <1>3 DEF ClaimNothing, ClaimRun
<1>5. \A w \in Workers : ~ WorkerEnds(w)
    BY DEF WorkerEnds, SaveFailed, Promote, PromoteCollides, SaveEvent, Abandon, runVars
<1>6. \A w, k, q, t, u : ~ StartWork(w, k, q, t, u)
    BY DEF StartWork, runVars
<1> QED
    BY <1>1, <1>2, <1>4, <1>5, <1>6

\* The report that does is a good one, and it is about that run and its lease.
LEMMA ReportSucceeds ==
    ASSUME IInv, NEW lease, NEW ok \in BOOLEAN, Report(lease, ok),
           NEW r \in Runs, status[r] = "claimed", status'[r] = "succeeded"
    PROVE  ok /\ lease.run = r /\ lease.token = leaseToken[r]
<1>1. ~ NoServerStep
    BY OthersDoNotSucceed
<1>2. PICK a \in Reported, f \in Reported : Complete(lease.run, lease.token, ok, a, f)
    BY <1>1 DEF Report
<1>3. lease.run = r
    BY <1>2 DEF Complete, IInv, TypeOK, RunsTypeOK
<1>4. lease.token = leaseToken[r]
    BY <1>2, <1>3 DEF Complete, ValidLease
<1>5. ok
    <2>1. SUFFICES ASSUME ~ ok
                   PROVE  FALSE
        OBVIOUS
    <2>2. \A x, y : FinalStatus(r, ok, x, y) # "succeeded"
        BY <2>1 DEF FinalStatus
    <2> QED
        BY <1>2, <1>3, <2>2 DEF Complete, IInv, TypeOK, RunsTypeOK
<1> QED
    BY <1>3, <1>4, <1>5

\* No run is called a success while a submission of its lease is still under
\* way: the runner waits for each answer, and an answer that never came makes
\* the report a failure.
THEOREM SuccessesAreWhole == LoopSpec => SuccessIsWhole
<1>1. ASSUME LoopInv, [LoopNext]_allVars, NEW r \in Runs,
             status[r] = "claimed", status'[r] = "succeeded", NEW w \in Workers
      PROVE  ~(Working(w) /\ worker[w].run = r /\ worker[w].token = leaseToken[r])
    <2>1. /\ ~ Heartbeat /\ ~ RecordOffline /\ ~ CreateRun /\ ~ Tick
          /\ ~ ClaimNothing /\ ~ ClaimRun /\ ~ NoServerStep
          /\ \A v \in Workers : ~ WorkerEnds(v)
          /\ \A v, k, q, t, u : ~ StartWork(v, k, q, t, u)
        BY <1>1, OthersDoNotSucceed DEF LoopInv
    <2>2. \A answered \in BOOLEAN : ~ Beat(answered)
        BY <2>1 DEF Beat
    <2>3. awaited \in Workers => ~ WorkerEnds(awaited)
        BY <2>1
    <2>4. awaited # NoWorker => awaited \in Workers
        BY <1>1 DEF LoopInv, LeasesKnown
    <2>5. status' # status
        BY <1>1
    <2>6. ~ SubmitStarts
        BY <2>1 DEF SubmitStarts, CheckListing, CheckAccount, CheckEvent
    <2>7. ~ SubmitEnds
        BY <2>3, <2>4 DEF SubmitEnds
    <2>8. ~ (Start \/ Poll \/ PollNothing \/ PollRun \/ PollUnsent \/ Begin \/ Explore)
        BY <2>1, <2>2 DEF Start, Poll, PollNothing, PollRun, PollUnsent, Begin, Explore
    <2>9. ~ (SubmitAnswered \/ FlowFails \/ FlowEnds \/ Completing \/ EndRun)
        BY <2>1, <2>2 DEF SubmitAnswered, FlowFails, FlowEnds, Completing, EndRun
    <2>10. ~ (Translated \/ SayGoodbye \/ OrphanEnds \/ TickerSends \/ BeatArrives)
        BY <2>1 DEF Translated, SayGoodbye, OrphanEnds, TickerSends, BeatArrives
    <2>11. ~ (Die \/ StaffCreatesRun \/ TimePasses)
        BY <2>1 DEF Die, StaffCreatesRun, TimePasses
    <2>12. Completes \/ Interrupt \/ ReportShutdown
        BY <1>1, <2>5, <2>6, <2>7, <2>8, <2>9, <2>10, <2>11
           DEF LoopNext, RunnerStep, allVars, vars, runVars
    <2>13. ~ ReportShutdown
        <3>1. ~ Report(progress, FALSE)
            BY <1>1, ReportSucceeds DEF LoopInv
        <3> QED
            BY <2>1, <3>1 DEF ReportShutdown
    <2>14. pc = "complete" /\ Report(held, outcome = "ok")
        BY <2>1, <2>12, <2>13 DEF Completes, Interrupt
    <2>15. outcome = "ok" /\ held.token = leaseToken[r]
        <3>1. (outcome = "ok") \in BOOLEAN
            OBVIOUS
        <3> QED
            BY <1>1, <2>14, <3>1, ReportSucceeds DEF LoopInv
    <2> QED
        BY <1>1, <2>14, <2>15 DEF LoopInv, OthersElsewhere
<1>2. LoopInv /\ [LoopNext]_allVars =>
        [\A r \in Runs :
             status[r] = "claimed" /\ status'[r] = "succeeded" =>
                 \A w \in Workers :
                     ~(Working(w) /\ worker[w].run = r
                       /\ worker[w].token = leaseToken[r])]_allVars
    BY <1>1
<1> QED
    BY <1>2, LoopInvariance, PTL DEF LoopSpec, SuccessIsWhole
-----------------------------------------------------------------------------
\* Every step of the runner, of its ticker, of staff and of time is a step of the
\* discovery server or none.
LEMMA LoopStepsAreSteps ==
    ASSUME LoopInv, [LoopNext]_allVars
    PROVE  [Next]_vars
<1> USE DEF LoopInv
<1>1. /\ Heartbeat \/ RecordOffline \/ CreateRun \/ Tick \/ ClaimNothing => [Next]_vars
      /\ ClaimRun \/ NoServerStep => [Next]_vars
      /\ \A w \in Workers : WorkerEnds(w) => [Next]_vars
      /\ \A answered \in BOOLEAN : Beat(answered) => [Next]_vars
    BY QuietSteps, BeatIsServerStep DEF Quiet, Next
<1>2. CASE pc = "complete" /\ Report(held, outcome = "ok")
    <2>1. held # None
        BY <1>2 DEF LeasesKnown, Busy
    <2>2. PICK lease \in {held, progress}, ok \in BOOLEAN :
            lease = held /\ Report(lease, ok)
        BY <1>2
    <2> QED
        BY <2>1, <2>2, ReportIsServerStep DEF Quiet
<1>3. CASE progress # None /\ Report(progress, FALSE)
    <2>1. PICK lease \in {held, progress}, ok \in BOOLEAN :
            lease = progress /\ Report(lease, ok)
        BY <1>3
    <2> QED
        BY <1>3, <2>1, ReportIsServerStep DEF Quiet
<1>4. CASE Start \/ Poll \/ PollNothing \/ PollRun \/ PollUnsent \/ Begin \/ Explore
    BY <1>1, <1>4 DEF Start, Poll, PollNothing, PollRun, PollUnsent, Begin, Explore
<1>5. CASE SubmitAnswered \/ FlowFails \/ FlowEnds \/ Completing \/ EndRun
    BY <1>1, <1>5 DEF SubmitAnswered, FlowFails, FlowEnds, Completing, EndRun
<1>6. CASE Translated \/ SayGoodbye \/ OrphanEnds \/ TickerSends \/ BeatArrives
    BY <1>1, <1>6 DEF Translated, SayGoodbye, OrphanEnds, TickerSends, BeatArrives
<1>7. CASE Die \/ StaffCreatesRun \/ TimePasses \/ UNCHANGED allVars
    BY <1>1, <1>7 DEF Die, StaffCreatesRun, TimePasses, allVars, NoServerStep
<1>8. CASE SubmitStarts
    BY <1>8, SubmitIsServerStep
<1>9. CASE SubmitEnds
    <2>1. awaited \in Workers
        BY <1>9 DEF SubmitEnds, LeasesKnown
    <2> QED
        BY <1>1, <1>9, <2>1 DEF SubmitEnds
<1>10. CASE Completes \/ Interrupt \/ ReportShutdown
    <2>1. \/ NoServerStep \/ ClaimRun
          \/ pc = "complete" /\ Report(held, outcome = "ok")
          \/ progress # None /\ Report(progress, FALSE)
        BY <1>10 DEF Completes, Interrupt, ReportShutdown
    <2> QED
        BY <1>1, <1>2, <1>3, <2>1
<1> QED
    BY <1>4, <1>5, <1>6, <1>7, <1>8, <1>9, <1>10 DEF LoopNext, RunnerStep

\* The runner and the server together do nothing the server's protocol does not
\* allow, so that whatever is proved of the protocol for every caller holds of
\* this one.
THEOREM RunnerKeepsProtocol == LoopSpec => Spec
<1>1. LoopInit => Init
    BY DEF LoopInit
<1>2. LoopInv /\ [LoopNext]_allVars => [Next]_vars
    BY LoopStepsAreSteps
<1> QED
    BY <1>1, <1>2, LoopInvariance, PTL DEF LoopSpec, Spec
-----------------------------------------------------------------------------
OwnTypes ==
    /\ pc \in Places
    /\ held \in Leases /\ progress \in Leases
    /\ outcome \in Outcomes
    /\ todo \in 0..MaxSubmits
    /\ awaited \in Workers \cup {NoWorker}
    /\ ticker \in BOOLEAN
    /\ beats \in 0..MaxBeats
    /\ reported \in BOOLEAN
    /\ lost \in SUBSET Nat
    /\ faults \in 0..MaxFaults
    /\ awaited # NoWorker => todo > 0

LEMMA FaultTypes ==
    ASSUME OwnTypes, Fault \/ NoFault
    PROVE  faults' \in 0..MaxFaults
BY LoopAssumption DEF OwnTypes, Fault, NoFault

LEMMA LoseTypes ==
    ASSUME OwnTypes, NEW lease \in {held, progress}, Lose(lease) \/ UNCHANGED lost
    PROVE  lost' \in SUBSET Nat
<1>1. lease.token \in Nat
    BY DEF OwnTypes, Leases, None
<1> QED
    BY <1>1 DEF Lose, OwnTypes

LEMMA PollingTypes ==
    ASSUME LoopInv, LoopInv', OwnTypes,
           Start \/ Poll \/ PollNothing \/ PollRun \/ PollUnsent \/ Begin
    PROVE  OwnTypes'
<1>1. None \in Leases
    BY DEF Leases
<1>2. CASE Start \/ Poll \/ PollNothing \/ PollUnsent
    <2>1. Fault \/ NoFault
        BY <1>2 DEF Start, Poll, PollNothing, PollUnsent, Beat, NoFault
    <2>2. faults' \in 0..MaxFaults
        BY <2>1, FaultTypes
    <2> QED
        BY <1>1, <1>2, <2>2 DEF OwnTypes, Places, Start, Poll, PollNothing, PollUnsent
<1>3. CASE PollRun
    <2>1. issued' \in Nat
        BY DEF LoopInv, IInv, TypeOK, RunsTypeOK
    <2>2. held' \in Leases
        BY <1>3, <2>1 DEF PollRun, OwnTypes, Leases
    <2>3. faults' \in 0..MaxFaults /\ lost' \in SUBSET Nat
        BY <1>3, <2>1, FaultTypes DEF PollRun, NoFault, OwnTypes
    <2> QED
        BY <1>3, <2>2, <2>3 DEF OwnTypes, Places, PollRun
<1>4. CASE Begin
    <2>1. Fault \/ NoFault
        BY <1>4 DEF Begin, Beat
    <2>2. faults' \in 0..MaxFaults
        BY <2>1, FaultTypes
    <2>3. lost' \in SUBSET Nat
        BY <1>4, LoseTypes DEF Begin
    <2>4. pc' \in Places /\ ticker' \in BOOLEAN /\ outcome' \in Outcomes
        BY <1>4 DEF Begin, Places, Outcomes
    <2> QED
        BY <1>4, <2>2, <2>3, <2>4 DEF OwnTypes, Begin
<1> QED
    BY <1>2, <1>3, <1>4

LEMMA FlowTypes ==
    ASSUME LoopInv, OwnTypes,
           \/ Explore \/ SubmitStarts \/ SubmitAnswered \/ SubmitEnds
           \/ FlowFails \/ FlowEnds
    PROVE  OwnTypes'
<1>1. Fault \/ NoFault
    BY DEF Explore, SubmitStarts, SubmitAnswered, SubmitEnds, FlowFails, FlowEnds, NoFault
<1>2. faults' \in 0..MaxFaults
    BY <1>1, FaultTypes
<1>3. UNCHANGED <<held, progress, ticker, beats, reported, lost>>
    BY DEF Explore, SubmitStarts, SubmitAnswered, SubmitEnds, FlowFails, FlowEnds
<1>4. pc' \in Places /\ outcome' \in Outcomes
    BY DEF OwnTypes, Places, Outcomes, Explore, SubmitStarts, SubmitAnswered, SubmitEnds,
           FlowFails, FlowEnds, LoseLease, FailureOutcome
<1>5. awaited' \in Workers \cup {NoWorker}
    BY DEF OwnTypes, Explore, SubmitStarts, SubmitAnswered, SubmitEnds, FlowFails, FlowEnds
<1>6. todo' \in 0..MaxSubmits
    <2>1. CASE todo' = todo \/ todo' \in 0..MaxSubmits
        BY <2>1 DEF OwnTypes
    <2>2. CASE SubmitAnswered
        BY <2>2, LoopAssumption DEF OwnTypes, SubmitAnswered
    <2>3. CASE SubmitEnds
        <3>1. todo' = todo - 1 /\ todo \in 0..MaxSubmits /\ todo > 0
            BY <2>3 DEF SubmitEnds, OwnTypes
        <3> QED
            BY <3>1, LoopAssumption
    <2> QED
        BY <2>1, <2>2, <2>3
           DEF Explore, SubmitStarts, FlowFails, FlowEnds
<1>7. awaited' # NoWorker => todo' > 0
    <2>1. CASE SubmitStarts
        BY <2>1 DEF SubmitStarts
    <2>2. CASE Explore
        BY <2>2 DEF Explore, LoopInv, LeasesKnown
    <2>3. CASE SubmitAnswered \/ SubmitEnds \/ FlowFails \/ FlowEnds
        BY <2>3 DEF SubmitAnswered, SubmitEnds, FlowFails, FlowEnds
    <2> QED
        BY <2>1, <2>2, <2>3
<1> QED
    BY <1>2, <1>3, <1>4, <1>5, <1>6, <1>7 DEF OwnTypes

LEMMA ClosingTypes ==
    ASSUME OwnTypes, Completing \/ Completes \/ EndRun \/ Translated
    PROVE  OwnTypes'
<1>1. Fault \/ NoFault
    BY DEF Completing, Completes, EndRun, Translated, Beat, NoFault
<1>2. faults' \in 0..MaxFaults
    BY <1>1, FaultTypes
<1>3. lost' \in SUBSET Nat
    BY LoseTypes DEF Completing, Completes, EndRun, Translated
<1>4. pc' \in Places /\ outcome' \in Outcomes
    BY DEF OwnTypes, Places, Outcomes, Completing, Completes, EndRun, Translated
<1>5. held' \in Leases /\ progress' \in Leases
    BY DEF OwnTypes, Leases, Completing, Completes, EndRun, Translated
<1>6. ticker' \in BOOLEAN /\ reported' \in BOOLEAN /\ UNCHANGED <<todo, awaited, beats>>
    BY DEF OwnTypes, Completing, Completes, EndRun, Translated
<1> QED
    BY <1>2, <1>3, <1>4, <1>5, <1>6 DEF OwnTypes

LEMMA LeavingTypes ==
    ASSUME LoopInv', OwnTypes, Interrupt \/ Die \/ ReportShutdown \/ SayGoodbye
    PROVE  OwnTypes'
<1>1. Fault \/ NoFault
    BY DEF Interrupt, Die, ReportShutdown, SayGoodbye
<1>2. faults' \in 0..MaxFaults
    BY <1>1, FaultTypes
<1>3. issued' \in Nat
    BY DEF LoopInv, IInv, TypeOK, RunsTypeOK
<1>4. \A lease \in {held, progress} : Lose(lease) \/ UNCHANGED lost => lost' \in SUBSET Nat
    BY LoseTypes
<1>5. lost' \in SUBSET Nat
    BY <1>3, <1>4 DEF OwnTypes, Interrupt, Die, ReportShutdown, SayGoodbye
<1>6. /\ UNCHANGED <<held, progress, outcome, todo, beats, reported>>
      /\ pc' \in Places /\ ticker' \in BOOLEAN
      /\ awaited' = NoWorker \/ awaited' = awaited
    BY DEF OwnTypes, Places, Interrupt, Die, ReportShutdown, SayGoodbye, ProgressAfterSignal
<1> QED
    BY <1>2, <1>5, <1>6 DEF OwnTypes

LEMMA AsideTypes ==
    ASSUME OwnTypes,
           \/ TickerSends \/ BeatArrives \/ OrphanEnds \/ StaffCreatesRun
           \/ TimePasses \/ UNCHANGED allVars
    PROVE  OwnTypes'
<1>1. UNCHANGED <<pc, held, progress, outcome, todo, awaited, ticker, reported, lost, faults>>
    BY DEF TickerSends, BeatArrives, OrphanEnds, StaffCreatesRun, TimePasses, loopVars, allVars
<1>2. beats' \in 0..MaxBeats
    BY LoopAssumption DEF OwnTypes, TickerSends, BeatArrives, OrphanEnds, StaffCreatesRun,
       TimePasses, loopVars, allVars
<1> QED
    BY <1>1, <1>2 DEF OwnTypes

\* Every variable of the runner keeps its type, next to those of the server: the
\* submissions left are never fewer than none, whatever ends them.
THEOREM LoopTypeCorrect == LoopSpec => []LoopTypeOK
<1>1. LoopInit => OwnTypes
    <2>1. 0 \in 0..MaxSubmits /\ 0 \in 0..MaxBeats /\ 0 \in 0..MaxFaults
        BY LoopAssumption
    <2>2. None \in Leases /\ "off" \in Places /\ "ok" \in Outcomes
        BY DEF Leases, Places, Outcomes
    <2> QED
        BY <2>1, <2>2 DEF LoopInit, OwnTypes
<1>2. LoopInv /\ LoopInv' /\ OwnTypes /\ [LoopNext]_allVars => OwnTypes'
    <2> SUFFICES ASSUME LoopInv, LoopInv', OwnTypes, [LoopNext]_allVars
                 PROVE  OwnTypes'
        OBVIOUS
    <2> QED
        BY PollingTypes, FlowTypes, ClosingTypes, LeavingTypes, AsideTypes
           DEF LoopNext, RunnerStep
<1>3. LoopInv /\ OwnTypes => LoopTypeOK
    BY DEF LoopInv, IInv, OwnTypes, LoopTypeOK
<1> QED
    BY <1>1, <1>2, <1>3, LoopInvariance, PTL DEF LoopSpec
-----------------------------------------------------------------------------
(***************************************************************************)
(* The collection on the server.                                           *)
(***************************************************************************)

Fields == {"state", "sources", "found", "closed", "open", "known", "created", "budget"}

\* A run that lists or decides, as far as the lock is concerned.
Bare(c) == DOMAIN c = Fields /\ c.state \in {"listing", "deciding", "storing"}

\* Only buttons add a lock or release one.
RunsShaped ==
    /\ DOMAIN run = Collections
    /\ \A r \in Collections :
        \/ run[r] = Resting
        \/ run[r] \in {Adding, Ending} /\ r \in Buttons
        \/ Bare(run[r])

\* Unless a lock was left behind, none is expired and nobody is after an expired
\* one, and the lock is held by the one run there is.
LockKept ==
    \/ left
    \/ /\ \A b \in Buttons : run[b] # Adding
       /\ \A b, c \in Alive : b = c
       /\ lock # "expired"
       /\ lock = "held" <=> Alive # {}

LockInv == RunsShaped /\ LockKept

LEMMA StatesDiffer == \A c : Bare(c) => c \notin {Resting, Adding, Ending}
BY DEF Bare, Resting, Adding, Ending

LEMMA RestsDiffer == Resting # Adding /\ Resting # Ending /\ Adding # Ending
BY DEF Resting, Adding, Ending

LEMMA BegunIsBare == Bare(Begun)
BY DEF Bare, Begun, Fields

LEMMA ReadIsBare ==
    ASSUME NEW r \in Collections, NEW x, NEW c \in ReadRobots(r, x), Bare(run[r])
    PROVE  Bare(c) /\ c.state = run[r].state
BY DEF ReadRobots, Bare, Fields

LEMMA DoneIsBare ==
    ASSUME NEW c, Bare(c), NEW fetched \in BOOLEAN
    PROVE  Bare(Done(c, fetched))
BY DEF Done, Bare, Fields

\* A step within a run: the run goes on.
Goes(r) ==
    /\ Bare(run[r])
    /\ \E c : Bare(c) /\ run' = [run EXCEPT ![r] = c]
    /\ UNCHANGED <<lock, left>>

LEMMA RunGoesOn ==
    ASSUME LockInv, NEW r \in Collections,
           \/ ListSource(r) \/ LookUpDrafts(r) \/ PassOver(r) \/ Fetch(r) \/ Store(r)
    PROVE  Goes(r)
<1>1. Bare(run[r])
    <2>1. run[r].state \in {"listing", "deciding", "storing"}
        BY DEF ListSource, LookUpDrafts, PassOver, Fetch, Store
    <2>2. run[r] \notin {Resting, Adding, Ending}
        BY <2>1 DEF Resting, Adding, Ending
    <2> QED
        BY <2>2 DEF LockInv, RunsShaped
<1>2. CASE ListSource(r)
    <2>1. PICK c \in ReadRobots(r, Head(run[r].sources)), failed \in BOOLEAN :
            run' = [run EXCEPT ![r] =
                      [c EXCEPT !.sources = Tail(@),
                                !.found = IF failed THEN @
                                          ELSE @ \o Candidates(Head(run[r].sources))]]
        BY <1>2 DEF ListSource
    <2>2. Bare(c)
        BY <1>1, ReadIsBare
    <2>3. \A x, y : Bare([c EXCEPT !.sources = x, !.found = y])
        BY <2>2 DEF Bare, Fields
    <2> QED
        BY <1>1, <1>2, <2>1, <2>3 DEF Goes, ListSource
<1>3. CASE LookUpDrafts(r)
    <2>1. \A x : Bare([run[r] EXCEPT !.state = "deciding", !.known = x])
        BY <1>1 DEF Bare, Fields
    <2> QED
        BY <1>1, <1>3, <2>1 DEF Goes, LookUpDrafts
<1>4. CASE PassOver(r)
    <2>1. Bare(Done(run[r], FALSE))
        BY <1>1, DoneIsBare
    <2> QED
        BY <1>1, <1>4, <2>1 DEF Goes, PassOver
<1>5. CASE Fetch(r)
    <2>1. PICK c \in ReadRobots(r, Head(run[r].found).url) :
            \/ run' = [run EXCEPT ![r] = Done(c, TRUE)]
            \/ run' = [run EXCEPT ![r] = [c EXCEPT !.state = "storing"]]
        BY <1>5 DEF Fetch
    <2>2. Bare(c)
        BY <1>1, ReadIsBare
    <2>3. Bare(Done(c, TRUE)) /\ Bare([c EXCEPT !.state = "storing"])
        BY <2>2, DoneIsBare DEF Bare, Fields
    <2> QED
        BY <1>1, <1>5, <2>1, <2>3 DEF Goes, Fetch
<1>6. CASE Store(r)
    <2>1. Bare(Done(run[r], TRUE))
        BY <1>1, DoneIsBare
    <2>2. \A x : Bare([Done(run[r], TRUE) EXCEPT !.created = x])
        BY <2>1 DEF Bare, Fields
    <2>3. PICK x : run' = [run EXCEPT ![r] = [Done(run[r], TRUE) EXCEPT !.created = x]]
        BY <1>6 DEF Store
    <2> QED
        BY <1>1, <1>6, <2>2, <2>3 DEF Goes, Store
<1> QED
    BY <1>2, <1>3, <1>4, <1>5, <1>6

LEMMA EndsUnlessIdle == \A r \in Collections : Ended(r) \in {Resting, Ending}
BY DEF Ended

\* The run of a button goes on or comes to its end, and it is alive either way.
LEMMA AliveGoesOn ==
    ASSUME LockInv, NEW r \in Collections, Bare(run[r]),
           NEW c, Bare(c) \/ c = Ended(r), run' = [run EXCEPT ![r] = c],
           UNCHANGED <<lock, left>>
    PROVE  LockInv'
<1>1. DOMAIN run = Collections /\ DOMAIN run' = Collections
    BY DEF LockInv, RunsShaped
<1>2. run'[r] = c /\ \A q \in Collections \ {r} : run'[q] = run[q]
    BY <1>1
<1>3. RunsShaped'
    BY <1>1, <1>2 DEF LockInv, RunsShaped, Ended
<1>4. r \in Buttons => c \notin {Resting, Adding} /\ run[r] \notin {Resting, Adding}
    BY StatesDiffer, RestsDiffer DEF Ended
<1>5. Buttons \subseteq Collections
    BY DEF Collections
<1>6. \A b \in Buttons : run'[b] = Adding <=> run[b] = Adding
    BY <1>2, <1>4, <1>5
<1>7. Alive' = Alive
    BY <1>2, <1>4, <1>5 DEF Alive
<1>8. LockKept'
    BY <1>6, <1>7 DEF LockInv, LockKept
<1> QED
    BY <1>3, <1>8 DEF LockInv

LEMMA WithinARun ==
    ASSUME LockInv, NEW r \in Collections,
           \/ ListSource(r) \/ LookUpDrafts(r) \/ PassOver(r) \/ Fetch(r) \/ Store(r)
           \/ SourceGone(r) \/ Finish(r) \/ Break(r)
    PROVE  LockInv'
<1>1. CASE \/ ListSource(r) \/ LookUpDrafts(r) \/ PassOver(r) \/ Fetch(r) \/ Store(r)
    <2>1. Goes(r)
        BY <1>1, RunGoesOn
    <2> QED
        BY <2>1, AliveGoesOn DEF Goes
<1>2. CASE SourceGone(r) \/ Finish(r) \/ Break(r)
    <2>1. run[r].state \in {"listing", "deciding", "storing"}
        BY <1>2 DEF SourceGone, Finish, Break, Underway
    <2>2. run[r] \notin {Resting, Adding, Ending}
        BY <2>1 DEF Resting, Adding, Ending
    <2>3. Bare(run[r])
        BY <2>2 DEF LockInv, RunsShaped
    <2>4. run' = [run EXCEPT ![r] = Ended(r)] /\ UNCHANGED <<lock, left>>
        BY <1>2 DEF SourceGone, Finish, Break
    <2> QED
        BY <2>3, <2>4, AliveGoesOn
<1> QED
    BY <1>1, <1>2

\* A scheduled run has nothing to do with the lock.
LEMMA CommandMoves ==
    ASSUME LockInv, NEW r \in Commands, NEW c, c = Resting \/ Bare(c),
           run' = [run EXCEPT ![r] = c], lock' = lock, left' <=> left
    PROVE  LockInv'
<1>1. r \in Collections /\ r \notin Buttons /\ Buttons \subseteq Collections
    BY CollectingAssumption DEF Collections
<1>2. DOMAIN run = Collections /\ DOMAIN run' = Collections
    BY DEF LockInv, RunsShaped
<1>3. run'[r] = c /\ \A q \in Collections \ {r} : run'[q] = run[q]
    BY <1>1, <1>2
<1>4. RunsShaped'
    BY <1>2, <1>3 DEF LockInv, RunsShaped
<1>5. \A b \in Buttons : run'[b] = run[b]
    BY <1>1, <1>3
<1>6. Alive' = Alive
    BY <1>5 DEF Alive
<1>7. LockKept'
    BY <1>5, <1>6 DEF LockInv, LockKept
<1> QED
    BY <1>4, <1>7 DEF LockInv

\* The button takes the lock when nobody has it, so that nobody is alive.
LEMMA ButtonStarts ==
    ASSUME LockInv, NEW r \in Collections, StartButton(r)
    PROVE  LockInv'
<1>1. /\ r \in Buttons /\ run[r] = Resting /\ lock = "free" /\ lock' = "held"
      /\ run' = [run EXCEPT ![r] = Begun] /\ left' = left
    BY DEF StartButton, CanStart
<1>2. DOMAIN run = Collections /\ DOMAIN run' = Collections
    BY <1>1 DEF LockInv, RunsShaped
<1>3. run'[r] = Begun /\ \A q \in Collections \ {r} : run'[q] = run[q]
    BY <1>1, <1>2
<1>4. Bare(Begun) /\ Begun \notin {Resting, Adding, Ending}
    BY BegunIsBare, StatesDiffer
<1>5. RunsShaped'
    BY <1>2, <1>3, <1>4 DEF LockInv, RunsShaped
<1>6. ASSUME ~ left
      PROVE  /\ \A b \in Buttons : run'[b] # Adding
             /\ Alive' = {r}
    <2>1. Alive = {} /\ \A b \in Buttons : run[b] # Adding
        BY <1>1, <1>6 DEF LockInv, LockKept
    <2> QED
        BY <1>1, <1>3, <1>4, <2>1 DEF Alive, Collections
<1>7. LockKept'
    BY <1>1, <1>6 DEF LockKept
<1> QED
    BY <1>5, <1>7 DEF LockInv

\* An expired lock was left behind by somebody.
LEMMA ExpiredIsTaken ==
    ASSUME LockInv, NEW r \in Collections, FindExpired(r) \/ TakeExpired(r)
    PROVE  LockInv'
<1>1. left /\ left' = left
    BY DEF LockInv, LockKept, RunsShaped, FindExpired, TakeExpired, Resting, Adding,
           Ending, Bare, Fields
<1>2. PICK c : run' = [run EXCEPT ![r] = c] /\ (Bare(c) \/ (c = Adding /\ r \in Buttons))
    BY BegunIsBare DEF FindExpired, TakeExpired
<1>3. DOMAIN run = Collections /\ DOMAIN run' = Collections
    BY <1>2 DEF LockInv, RunsShaped
<1>4. RunsShaped'
    BY <1>2, <1>3 DEF LockInv, RunsShaped
<1> QED
    BY <1>1, <1>4 DEF LockInv, LockKept

\* A release leaves no lock, and the only run that had one is over.
LEMMA ReleaseFrees ==
    ASSUME LockInv, NEW r \in Collections, Release(r)
    PROVE  LockInv'
<1>1. /\ run[r] = Ending /\ lock' = "free" /\ left' = (left /\ OtherButtons(r) # {})
      /\ run' = [run EXCEPT ![r] = Resting]
    BY DEF Release, Released
<1>2. DOMAIN run = Collections /\ DOMAIN run' = Collections
    BY <1>1 DEF LockInv, RunsShaped
<1>3. run'[r] = Resting /\ \A q \in Collections \ {r} : run'[q] = run[q]
    BY <1>1, <1>2
<1>4. RunsShaped'
    BY <1>2, <1>3 DEF LockInv, RunsShaped
<1>5. r \in Buttons
    BY <1>1, RestsDiffer, StatesDiffer DEF LockInv, RunsShaped
<1>6. ASSUME ~ left'
      PROVE  \A b \in Buttons : run'[b] = Resting \/ (run'[b] # Adding /\ b \notin Alive')
    <2>1. CASE left
        BY <1>1, <1>3, <1>6, <2>1 DEF OtherButtons, Collections
    <2>2. CASE ~ left
        <3>1. r \in Alive
            BY <1>1, <1>5, RestsDiffer DEF Alive
        <3>2. \A b \in Buttons \ {r} : run[b] = Resting
            BY <2>2, <3>1 DEF LockInv, LockKept, Alive
        <3> QED
            BY <1>3, <3>2 DEF Collections
    <2> QED
        BY <2>1, <2>2
<1>7. ASSUME ~ left'
      PROVE  Alive' = {} /\ \A b \in Buttons : run'[b] # Adding
    BY <1>6, <1>7, RestsDiffer DEF Alive
<1>8. LockKept'
    BY <1>1, <1>7 DEF LockKept
<1> QED
    BY <1>4, <1>8 DEF LockInv

LEMMA KillLeaves ==
    ASSUME LockInv, NEW r \in Collections, Kill(r)
    PROVE  LockInv'
<1>1. /\ run' = [run EXCEPT ![r] = Resting] /\ lock' = lock
      /\ left' = (left \/ (r \in Buttons /\ run[r] # Adding))
    BY DEF Kill
<1>2. CASE r \in Buttons
    <2>1. left'
        BY <1>1, <1>2 DEF LockInv, LockKept
    <2>2. DOMAIN run = Collections /\ DOMAIN run' = Collections
        BY <1>1 DEF LockInv, RunsShaped
    <2>3. RunsShaped'
        BY <1>1, <2>2 DEF LockInv, RunsShaped
    <2> QED
        BY <2>1, <2>3 DEF LockInv, LockKept
<1>3. CASE r \notin Buttons
    <2>1. r \in Commands /\ lock' = lock /\ (left' <=> left)
        BY <1>1, <1>3 DEF Collections
    <2> QED
        BY <1>1, <2>1, CommandMoves
<1> QED
    BY <1>2, <1>3

\* Only a lock that was left behind lives long enough to expire.
LEMMA ExpiryWasLeft ==
    ASSUME LockInv, LockExpires
    PROVE  LockInv'
<1>1. UNCHANGED <<run, left>> /\ lock = "held" /\ Alive = {}
    BY DEF LockExpires, MayExpire, Alive
<1>2. left
    BY <1>1 DEF LockInv, LockKept
<1> QED
    BY <1>1, <1>2 DEF LockInv, LockKept, RunsShaped

LEMMA StepLockInv == LockInv /\ [CollectNext]_collectVars => LockInv'
<1> SUFFICES ASSUME LockInv, [CollectNext]_collectVars
             PROVE  LockInv'
    OBVIOUS
<1>1. CASE \E r \in Collections :
               \/ ListSource(r) \/ LookUpDrafts(r) \/ PassOver(r) \/ Fetch(r) \/ Store(r)
               \/ SourceGone(r) \/ Finish(r) \/ Break(r)
    BY <1>1, WithinARun
<1>2. CASE \E r \in Collections : StartCommand(r)
    <2>1. PICK r \in Commands : /\ run' = [run EXCEPT ![r] = Begun]
                               /\ UNCHANGED <<lock, left>>
        BY <1>2 DEF StartCommand
    <2>2. PICK c : c = Begun
        OBVIOUS
    <2>3. Bare(c) /\ run' = [run EXCEPT ![r] = c]
        BY <2>1, <2>2, BegunIsBare
    <2>4. lock' = lock /\ (left' <=> left)
        BY <2>1, Zenon
    <2> QED
        BY <2>1, <2>3, <2>4, CommandMoves
<1>3. CASE \E r \in Collections : StartButton(r)
    BY <1>3, ButtonStarts
<1>4. CASE \E r \in Collections : FindExpired(r) \/ TakeExpired(r)
    BY <1>4, ExpiredIsTaken
<1>5. CASE \E r \in Collections : Release(r)
    BY <1>5, ReleaseFrees
<1>6. CASE \E r \in Collections : Kill(r)
    BY <1>6, KillLeaves
<1>7. CASE LockExpires
    BY <1>7, ExpiryWasLeft
<1>8. CASE UNCHANGED <<run, lock, left>>
    BY <1>8 DEF LockInv, RunsShaped, LockKept, Alive
<1>9. (\E s \in Sources : Switch(s) \/ RemoveSource(s)) \/ (\E url \in PageUrls : Register(url))
        => UNCHANGED <<run, lock, left>>
    BY DEF Switch, RemoveSource, Register
<1>10. UNCHANGED collectVars => UNCHANGED <<run, lock, left>>
    BY DEF collectVars
<1> QED
    BY <1>1, <1>2, <1>3, <1>4, <1>5, <1>6, <1>7, <1>8, <1>9, <1>10 DEF CollectNext

\* Unless a killed run left its lock behind, the button runs one collection at
\* a time, whichever worker serves it and however the run ends, and the lock is
\* held exactly as long.
THEOREM ButtonsTakeTurns == CollectSpec => []OneButtonRun
<1>1. CollectInit => LockInv
    BY RestsDiffer DEF CollectInit, LockInv, RunsShaped, LockKept, Alive, Collections
<1>2. LockInv => OneButtonRun
    <2> SUFFICES ASSUME LockInv, ~ left
                 PROVE  Cardinality(Alive) <= 1 /\ (lock = "held" <=> Alive # {})
        BY DEF OneButtonRun
    <2>1. /\ \A b, c \in Alive : b = c
          /\ lock = "held" <=> Alive # {}
        BY DEF LockInv, LockKept
    <2>2. Alive = {} \/ \E b : Alive = {b}
        BY <2>1
    <2>3. Cardinality(Alive) <= 1
        <3>1. CASE Alive = {}
            BY <3>1, FS_EmptySet
        <3>2. CASE \E b : Alive = {b}
            BY <3>2, FS_Singleton
        <3> QED
            BY <2>2, <3>1, <3>2
    <2> QED
        BY <2>1, <2>3
<1> QED
    BY <1>1, <1>2, StepLockInv, PTL DEF CollectSpec

\* Whoever stores a draft counts it, and nobody counts one that is there: the
\* look-up before the fetch decides nothing, the unique URL does.
THEOREM DraftsClaimedOnce == CollectSpec => []ClaimedOnce
<1> DEFINE Counted == IsFiniteSet(collected) /\ claimed = Cardinality(collected)
<1>1. CollectInit => Counted
    BY FS_EmptySet DEF CollectInit
<1>2. Counted /\ [CollectNext]_collectVars => Counted'
    <2> SUFFICES ASSUME Counted, [CollectNext]_collectVars
                 PROVE  Counted'
        OBVIOUS
    <2>1. CASE UNCHANGED <<collected, claimed>>
        BY <2>1
    <2>2. ASSUME NEW url, collected' = collected \cup {url}, url \notin collected,
                 claimed' = claimed + 1
          PROVE  Counted'
        BY <2>2, FS_AddElement
    <2>3. CASE \E r \in Collections : Store(r)
        <3>1. PICK url : /\ collected' = collected \cup {url}
                         /\ claimed' = IF Creates(url) THEN claimed + 1 ELSE claimed
            BY <2>3 DEF Store
        <3>2. CASE url \in collected
            BY <2>1, <3>1, <3>2 DEF Creates
        <3>3. CASE url \notin collected
            BY <2>2, <3>1, <3>3 DEF Creates
        <3> QED
            BY <3>2, <3>3
    <2>4. CASE \E url \in PageUrls : Register(url)
        BY <2>2, <2>4 DEF Register
    <2>5. CASE \E r \in Collections :
                   \/ StartCommand(r) \/ StartButton(r) \/ FindExpired(r) \/ TakeExpired(r)
                   \/ ListSource(r) \/ SourceGone(r) \/ LookUpDrafts(r)
                   \/ PassOver(r) \/ Fetch(r) \/ Finish(r)
                   \/ Break(r) \/ Release(r) \/ Kill(r)
        BY <2>1, <2>5
           DEF StartCommand, StartButton, FindExpired, TakeExpired, ListSource, SourceGone,
               LookUpDrafts, PassOver, Fetch, Finish, Break, Release, Kill
    <2>6. CASE \/ LockExpires
               \/ \E s \in Sources : Switch(s) \/ RemoveSource(s)
               \/ UNCHANGED collectVars
        BY <2>1, <2>6 DEF LockExpires, Switch, RemoveSource, collectVars
    <2> QED
        BY <2>3, <2>4, <2>5, <2>6 DEF CollectNext
<1>3. Counted => ClaimedOnce
    BY DEF ClaimedOnce
<1> QED
    BY <1>1, <1>2, <1>3, PTL DEF CollectSpec

\* Only staff switch a source, however long ago a run has read it.
THEOREM ChoicesAreKept == CollectSpec => []StaffChoiceKept
<1> DEFINE Chosen == /\ source \in [Sources -> [exists : BOOLEAN, enabled : BOOLEAN]]
                     /\ wanted \in [Sources -> BOOLEAN]
                     /\ StaffChoiceKept
<1>1. CollectInit => Chosen
    <2>1. /\ [exists |-> TRUE, enabled |-> TRUE] \in [exists : BOOLEAN, enabled : BOOLEAN]
          /\ [exists |-> TRUE, enabled |-> TRUE].enabled = TRUE
        OBVIOUS
    <2> QED
        BY <2>1 DEF CollectInit, StaffChoiceKept
<1>2. Chosen /\ [CollectNext]_collectVars => Chosen'
    <2> SUFFICES ASSUME Chosen, [CollectNext]_collectVars
                 PROVE  Chosen'
        OBVIOUS
    <2>1. CASE UNCHANGED <<source, wanted>>
        BY <2>1 DEF StaffChoiceKept
    <2>2. CASE \E s \in Sources : Switch(s)
        <3>1. PICK s \in Sources : Switch(s)
            BY <2>2
        <3>2. source[s] \in [exists : BOOLEAN, enabled : BOOLEAN]
            OBVIOUS
        <3>3. /\ source' = [source EXCEPT ![s] = [source[s] EXCEPT !.enabled = ~@]]
              /\ wanted' = [wanted EXCEPT ![s] = ~source[s].enabled]
            BY <3>1 DEF Switch
        <3> QED
            BY <3>2, <3>3 DEF StaffChoiceKept
    <2>3. CASE \E s \in Sources : RemoveSource(s)
        <3>1. /\ [exists |-> FALSE, enabled |-> FALSE] \in [exists : BOOLEAN, enabled : BOOLEAN]
              /\ [exists |-> FALSE, enabled |-> FALSE].enabled = FALSE
            OBVIOUS
        <3> QED
            BY <2>3, <3>1 DEF RemoveSource, StaffChoiceKept
    <2>4. CASE \E r \in Collections :
                   \/ StartCommand(r) \/ StartButton(r) \/ FindExpired(r) \/ TakeExpired(r)
                   \/ ListSource(r) \/ SourceGone(r) \/ LookUpDrafts(r)
                   \/ PassOver(r) \/ Fetch(r) \/ Store(r) \/ Finish(r)
                   \/ Break(r) \/ Release(r) \/ Kill(r)
        BY <2>1, <2>4
           DEF StartCommand, StartButton, FindExpired, TakeExpired, ListSource, SavesMark,
               SourceGone, LookUpDrafts, PassOver, Fetch, Store, Finish, Break, Release, Kill
    <2>5. CASE \/ LockExpires \/ UNCHANGED collectVars
               \/ \E url \in PageUrls : Register(url)
        BY <2>1, <2>5 DEF LockExpires, Register, collectVars
    <2> QED
        BY <2>2, <2>3, <2>4, <2>5 DEF CollectNext
<1>3. Chosen => StaffChoiceKept
    OBVIOUS
<1> QED
    BY <1>1, <1>2, <1>3, PTL DEF CollectSpec
=============================================================================
