-------------------------- MODULE TranslationQueue --------------------------
(***************************************************************************)
(* The translation of published events: the queue and the submissions of   *)
(* the server (events/translation_queue.py, events/runner_views.py), the   *)
(* batches of the local runner (local_runner/translation_flow.py), and the *)
(* staff and operators who change the same rows meanwhile.                 *)
(*                                                                         *)
(* The four translated fields of an event are one text.  Equal texts have  *)
(* equal hashes and nothing else is read off a hash, so a text is its own  *)
(* hash here.  A translation is the text it was made from and the set of   *)
(* languages that passed the server's checks; the others are quarantined.  *)
(***************************************************************************)
EXTENDS Integers, FiniteSets

CONSTANTS
    NumEvents,
    Texts,
    Languages,
    PendingLimit,   \* PENDING_LIMIT: events one answer lists
    BatchLimit,     \* TRANSLATION_BATCH_LIMIT: events tried in one batch
    MaxAttempts,    \* TRANSLATION_MAX_ATTEMPTS
    MaxChanges,     \* bound: changes made by staff and operators
    MaxQueueFaults   \* bound: lost calls, error answers, timeouts, restarts

\* the hash of a translation that was never made
NoText == "none"

ASSUME TranslationAssumption ==
    /\ NoText \notin Texts
    /\ NumEvents \in Nat
    /\ PendingLimit \in Nat \ {0}
    /\ BatchLimit \in Nat \ {0}
    /\ MaxAttempts \in Nat \ {0}
    /\ MaxChanges \in Nat
    /\ MaxQueueFaults \in Nat

VARIABLES
    publication,  \* event -> published, unpublished or deleted
    text,         \* event -> its present text
    stored,       \* event -> its text_translations
    working,      \* whether the runner is in a batch
    batch,        \* events of the answer that the runner has not come to yet
    tried,        \* attempted_count of the batch
    attempts,     \* event, text -> failures this runner process has counted
    late,         \* submissions the runner gave up waiting for
    changes,
    queueFaults

server == <<publication, text, stored>>
runner == <<working, batch, tried, attempts>>
bounds == <<changes, queueFaults>>
queueVars == <<publication, text, stored, working, batch, tried, attempts, late, changes, queueFaults>>

Events == 1..NumEvents
\* the default of the column, which is also what an operator resets it to
Nothing == [hash |-> NoText, from |-> NoText, kept |-> {}, manual |-> FALSE]
Translations ==
    [hash : Texts \cup {NoText}, from : Texts \cup {NoText}, kept : SUBSET Languages,
     manual : BOOLEAN]
Tasks == [event : Events, text : Texts]

QueueTypeOK ==
    /\ publication \in [Events -> {"published", "unpublished", "deleted"}]
    /\ text \in [Events -> Texts]
    /\ stored \in [Events -> Translations]
    /\ working \in BOOLEAN
    /\ batch \in SUBSET Tasks
    /\ tried \in 0..BatchLimit
    /\ attempts \in [Tasks -> 0..MaxAttempts]
    /\ late \in SUBSET Tasks
    /\ changes \in 0..MaxChanges
    /\ queueFaults \in 0..MaxQueueFaults

\* The column is added to a catalogue that exists.  Texts of different events
\* are never compared, so that all events may start with the same one.
QueueInit ==
    /\ publication \in [Events -> {"published", "unpublished"}]
    /\ \E t \in Texts : text = [e \in Events |-> t]
    /\ stored = [e \in Events |-> Nothing]
    /\ working = FALSE
    /\ batch = {}
    /\ tried = 0
    /\ attempts = [t \in Tasks |-> 0]
    /\ late = {}
    /\ changes = 0
    /\ queueFaults = 0

-----------------------------------------------------------------------------
\* The server.

Published(e) == publication[e] = "published"

\* what pending_events selects, before the limit
Pending(e) == Published(e) /\ ~stored[e].manual /\ stored[e].hash # text[e]

\* the oldest PendingLimit of them
Listed ==
    {e \in Events : Pending(e) /\ Cardinality({d \in 1..(e - 1) : Pending(d)}) < PendingLimit}

\* mutant: the text may have changed since it was listed
AcceptsAnyText(t) == Published(t.event) /\ ~stored[t.event].manual

\* mutant: a translation an operator locked is overwritten
AcceptsOverManual(t) == Published(t.event) /\ t.text = text[t.event]

\* not_found, manual_locked and stale_source are the rejections
Accepts(t) ==
    /\ Published(t.event)
    /\ ~stored[t.event].manual
    /\ t.text = text[t.event]

\* submit_translation for an accepted task: what is current already stays, and
\* any set of languages may pass the checks
Stores(t) ==
    IF stored[t.event].hash = text[t.event] THEN UNCHANGED stored
    ELSE \E kept \in SUBSET Languages :
             stored' = [stored EXCEPT ![t.event] =
                 [hash |-> text[t.event], from |-> t.text, kept |-> kept, manual |-> FALSE]]

-----------------------------------------------------------------------------
\* The runner.

GivenUp(t) == attempts[t] >= MaxAttempts

\* pending(), when the polling loop has nothing else to do
Fetch ==
    /\ ~working
    /\ Listed # {}
    /\ working' = TRUE
    /\ batch' = {[event |-> e, text |-> text[e]] : e \in Listed}
    /\ tried' = 0
    /\ UNCHANGED <<server, attempts, late, bounds>>

\* the answer lists the events by id
IsNext(t) == \A u \in batch : t.event <= u.event

\* nothing is left of the answer, or the limit of the batch is reached
BatchOver == batch = {} \/ tried >= BatchLimit

Idles ==
    /\ working' = FALSE
    /\ batch' = {}
    /\ tried' = 0

EndBatch ==
    /\ working
    /\ BatchOver
    /\ Idles
    /\ UNCHANGED <<server, attempts, late, bounds>>

SkipGivenUp(t) ==
    /\ working
    /\ ~BatchOver
    /\ IsNext(t)
    /\ GivenUp(t)
    /\ batch' = batch \ {t}
    /\ UNCHANGED <<server, working, tried, attempts, late, bounds>>

Tries(t) ==
    /\ working
    /\ ~BatchOver
    /\ IsNext(t)
    /\ ~GivenUp(t)

\* the task is done with, the batch goes on
GoesOn(t) ==
    /\ tried' = tried + 1
    /\ batch' = batch \ {t}
    /\ UNCHANGED working

\* mutant: a failure is not counted
FailureUncounted(t) == UNCHANGED attempts

CountsFailure(t) == attempts' = [attempts EXCEPT ![t] = @ + 1]

\* the agent's answer has the wrong shape twice, or the call fails
TranslationFails(t) ==
    /\ Tries(t)
    /\ GoesOn(t)
    /\ CountsFailure(t)
    /\ UNCHANGED <<server, late, bounds>>

\* the translation is submitted, and accepted
Submitted(t) ==
    /\ Tries(t)
    /\ Accepts(t)
    /\ Stores(t)
    /\ GoesOn(t)
    /\ attempts' = [attempts EXCEPT ![t] = 0]
    /\ UNCHANGED <<publication, text, late, bounds>>

\* 404 and 409 count like failures of the translation
Rejected(t) ==
    /\ Tries(t)
    /\ ~Accepts(t)
    /\ GoesOn(t)
    /\ CountsFailure(t)
    /\ UNCHANGED <<server, late, bounds>>

\* Anything else ends the batch and is not counted: 429, 5xx, no connection.
QueueFault ==
    /\ queueFaults < MaxQueueFaults
    /\ queueFaults' = queueFaults + 1
    /\ UNCHANGED changes

\* the submission never reaches the server, or ends there in an error
SubmissionLost(t) ==
    /\ Tries(t)
    /\ QueueFault
    /\ Idles
    /\ UNCHANGED <<server, attempts, late>>

\* it is processed, and the answer gets lost
AnswerLost(t) ==
    /\ Tries(t)
    /\ QueueFault
    /\ Accepts(t)
    /\ Stores(t)
    /\ Idles
    /\ UNCHANGED <<publication, text, attempts, late>>

\* the client's timeout is over and the submission is still on its way
SubmissionDelayed(t) ==
    /\ Tries(t)
    /\ QueueFault
    /\ Idles
    /\ late' = late \cup {t}
    /\ UNCHANGED <<server, attempts>>

LateArrives(t) ==
    /\ t \in late
    /\ IF Accepts(t) THEN Stores(t) ELSE UNCHANGED stored
    /\ late' = late \ {t}
    /\ UNCHANGED <<publication, text, runner, bounds>>

\* the process ends and another one starts with an empty memory
Restart ==
    /\ QueueFault
    /\ Idles
    /\ attempts' = [t \in Tasks |-> 0]
    /\ UNCHANGED <<server, late>>

-----------------------------------------------------------------------------
\* Staff and operators.

Change ==
    /\ changes < MaxChanges
    /\ changes' = changes + 1
    /\ UNCHANGED <<runner, late, queueFaults>>

\* update_published_event saves the fields of the form and leaves the
\* translations alone
Edit(e, new) ==
    /\ Change
    /\ publication[e] # "deleted"
    /\ new # text[e]
    /\ text' = [text EXCEPT ![e] = new]
    /\ UNCHANGED <<publication, stored>>

Publish(e) ==
    /\ Change
    /\ publication[e] = "unpublished"
    /\ publication' = [publication EXCEPT ![e] = "published"]
    /\ UNCHANGED <<text, stored>>

Unpublish(e) ==
    /\ Change
    /\ Published(e)
    /\ publication' = [publication EXCEPT ![e] = "unpublished"]
    /\ UNCHANGED <<text, stored>>

Delete(e) ==
    /\ Change
    /\ publication[e] # "deleted"
    /\ publication' = [publication EXCEPT ![e] = "deleted"]
    /\ UNCHANGED <<text, stored>>

\* an operator locks what is stored, outdated or empty as it may be, or a
\* translation written by hand for the present text
LockManually(e) ==
    /\ Change
    /\ publication[e] # "deleted"
    /\ \/ stored' = [stored EXCEPT ![e].manual = TRUE]
       \/ stored' = [stored EXCEPT ![e] =
              [hash |-> text[e], from |-> text[e], kept |-> Languages, manual |-> TRUE]]
    /\ UNCHANGED <<publication, text>>

\* an operator resets the column, so that the event is translated again
Requeue(e) ==
    /\ Change
    /\ publication[e] # "deleted"
    /\ stored[e] # Nothing
    /\ stored' = [stored EXCEPT ![e] = Nothing]
    /\ UNCHANGED <<publication, text>>

OperatorActs == \E e \in Events : LockManually(e) \/ Requeue(e)

RunnerActs ==
    \/ Fetch
    \/ EndBatch
    \/ \E t \in batch : SkipGivenUp(t) \/ TranslationFails(t) \/ Submitted(t) \/ Rejected(t)

FaultHappens ==
    \/ \E t \in batch : SubmissionLost(t) \/ AnswerLost(t) \/ SubmissionDelayed(t)
    \/ Restart

StaffActs ==
    \E e \in Events :
        (\E new \in Texts : Edit(e, new)) \/ Publish(e) \/ Unpublish(e) \/ Delete(e)

QueueNext ==
    \/ RunnerActs
    \/ FaultHappens
    \/ \E t \in Tasks : LateArrives(t)
    \/ StaffActs
    \/ OperatorActs

QueueSpec == QueueInit /\ [][QueueNext]_queueVars

\* A runner that is started again after it ended keeps polling.
QueueFairness == WF_queueVars(RunnerActs)

-----------------------------------------------------------------------------
(***************************************************************************)
(* Properties.                                                             *)
(***************************************************************************)

\* What select_display shows in a language: the stored translation as long as
\* its hash is the one of the present text, the original otherwise.
ShownTranslated(e, l) == stored[e].hash = text[e] /\ l \in stored[e].kept

\* A translation that is shown was made from the text the event has now, even
\* when the text was changed and changed back while the runner was translating,
\* or a submission arrived after its sender had stopped waiting.
ShownIsCurrent ==
    \A e \in Events, l \in Languages : ShownTranslated(e, l) => stored[e].from = text[e]

\* Nobody but an operator replaces a translation that was locked by hand, or one
\* that is current (rules 34 and 35 of docs/BE/i18n.md: what is quarantined is
\* not tried again), however late or doubled a submission is.
OnlyOperatorsReplace ==
    [][\A e \in Events :
           (stored[e].manual \/ stored[e].hash = text[e]) /\ stored'[e] # stored[e]
               => OperatorActs]_queueVars

\* the events that keep the others off the list
Blocking == {e \in Listed : GivenUp([event |-> e, text |-> text[e]])}

\* Every event that waits for its translation stops waiting or is given up,
\* unless as many older events as one answer lists have been given up (the known
\* gap of docs/backlog.md): the batch limit, failures, aborted batches, restarts
\* and changes in between starve nobody else.
QueueMoves ==
    \A e \in Events :
        Pending(e) ~> \/ ~Pending(e)
                      \/ GivenUp([event |-> e, text |-> text[e]])
                      \/ e \notin Listed /\ Blocking = Listed
=============================================================================
