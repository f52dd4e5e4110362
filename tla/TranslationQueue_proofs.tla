----------------------- MODULE TranslationQueue_proofs -----------------------
(***************************************************************************)
(* What TranslationQueue guarantees for every number of events, every set  *)
(* of texts and languages and every limit.                                 *)
(***************************************************************************)
EXTENDS TranslationQueue, TLAPS

\* A text cannot be accepted for an event that has another one, so what is
\* stored was made from the text whose hash stands next to it.
StoredAgrees == \A e \in Events : stored[e].hash = stored[e].from

IInv == QueueTypeOK /\ StoredAgrees

USE DEF Events

LEMMA NothingIsTranslation == Nothing \in Translations
BY DEF Nothing, Translations, NoText

LEMMA InitIInv == QueueInit => IInv
<1> SUFFICES ASSUME QueueInit PROVE IInv
  OBVIOUS
<1>1. stored \in [Events -> Translations]
  BY NothingIsTranslation DEF QueueInit
<1>2. StoredAgrees
  BY DEF QueueInit, StoredAgrees, Nothing
<1>3. attempts \in [Tasks -> 0..MaxAttempts]
  BY TranslationAssumption DEF QueueInit
<1>4. publication \in [Events -> {"published", "unpublished", "deleted"}]
  BY DEF QueueInit
<1>5. text \in [Events -> Texts]
  BY DEF QueueInit
<1>6. working \in BOOLEAN /\ batch \in SUBSET Tasks /\ late \in SUBSET Tasks
  BY DEF QueueInit
<1>7. tried \in 0..BatchLimit /\ changes \in 0..MaxChanges /\ queueFaults \in 0..MaxQueueFaults
  BY TranslationAssumption DEF QueueInit
<1> QED
  BY <1>1, <1>2, <1>3, <1>4, <1>5, <1>6, <1>7 DEF IInv, QueueTypeOK

\* What an accepted submission stores keeps the invariant.
LEMMA StoresIInv ==
    ASSUME IInv, NEW t \in Tasks, Accepts(t), Stores(t)
    PROVE  stored' \in [Events -> Translations] /\ StoredAgrees'
<1>0. stored \in [Events -> Translations] /\ text \in [Events -> Texts] /\ StoredAgrees
  BY DEF IInv, QueueTypeOK
<1>1. CASE UNCHANGED stored
  BY <1>0, <1>1 DEF StoredAgrees
<1>2. CASE ~UNCHANGED stored
  <2>1. PICK kept \in SUBSET Languages :
          stored' = [stored EXCEPT ![t.event] =
              [hash |-> text[t.event], from |-> t.text, kept |-> kept, manual |-> FALSE]]
    BY <1>2 DEF Stores
  <2> DEFINE new == [hash |-> text[t.event], from |-> t.text, kept |-> kept, manual |-> FALSE]
  <2>2. t.event \in Events /\ t.text \in Texts /\ t.text = text[t.event]
    BY DEF Tasks, Accepts
  <2>3. new \in Translations /\ new.hash = new.from
    BY <1>0, <2>2 DEF Translations
  <2> HIDE DEF new
  <2>4. stored' = [stored EXCEPT ![t.event] = new]
    BY <2>1 DEF new
  <2>5. stored' \in [Events -> Translations]
    BY <1>0, <2>2, <2>3, <2>4
  <2>6. \A e \in Events : stored'[e] = IF e = t.event THEN new ELSE stored[e]
    BY <1>0, <2>2, <2>4
  <2>7. StoredAgrees'
    BY <1>0, <2>3, <2>6 DEF StoredAgrees
  <2> QED
    BY <2>5, <2>7
<1> QED
  BY <1>1, <1>2

\* Operators lock and requeue with well-typed translations that agree.
LEMMA OperatorsIInv ==
    ASSUME IInv, NEW e \in Events, LockManually(e) \/ Requeue(e)
    PROVE  stored' \in [Events -> Translations] /\ StoredAgrees'
<1>0. stored \in [Events -> Translations] /\ text \in [Events -> Texts] /\ StoredAgrees
  BY DEF IInv, QueueTypeOK
<1> DEFINE locked == [hash |-> text[e], from |-> text[e], kept |-> Languages, manual |-> TRUE]
<1>1. locked \in Translations /\ locked.hash = locked.from
  BY <1>0 DEF Translations
<1>2. Nothing \in Translations /\ Nothing.hash = Nothing.from
  BY NothingIsTranslation DEF Nothing
<1>3. PICK new \in Translations : new.hash = new.from /\ stored' = [stored EXCEPT ![e] = new]
  <2> DEFINE flagged == [stored[e] EXCEPT !.manual = TRUE]
  <2>3. flagged \in Translations /\ flagged.hash = flagged.from
    BY <1>0 DEF Translations, StoredAgrees
  <2>4. CASE stored' = [stored EXCEPT ![e].manual = TRUE]
    <3>1. stored' = [stored EXCEPT ![e] = flagged]
      BY <1>0, <2>4
    <3> HIDE DEF flagged
    <3> QED
      BY <2>3, <3>1
  <2>1. CASE LockManually(e)
    BY <1>1, <2>1, <2>4 DEF LockManually
  <2>2. CASE Requeue(e)
    BY <1>2, <2>2 DEF Requeue
  <2> QED
    BY <2>1, <2>2
<1>4. \A d \in Events : stored'[d] = IF d = e THEN new ELSE stored[d]
  BY <1>0, <1>3
<1>5. stored' \in [Events -> Translations]
  BY <1>0, <1>3
<1>6. StoredAgrees'
  BY <1>0, <1>3, <1>4 DEF StoredAgrees
<1> QED
  BY <1>5, <1>6

\* Whoever moves, what is stored stays typed and keeps agreeing.
LEMMA StoredStep ==
    ASSUME IInv, [QueueNext]_queueVars
    PROVE  stored' \in [Events -> Translations] /\ StoredAgrees'
<1>1. CASE UNCHANGED stored
  BY <1>1 DEF IInv, QueueTypeOK, StoredAgrees
<1>2. ASSUME NEW t \in batch, Submitted(t) \/ AnswerLost(t)
      PROVE  stored' \in [Events -> Translations] /\ StoredAgrees'
  <2>1. t \in Tasks
    BY DEF IInv, QueueTypeOK
  <2>2. Accepts(t) /\ Stores(t)
    BY <1>2 DEF Submitted, AnswerLost
  <2> QED
    BY <2>1, <2>2, StoresIInv
<1>3. ASSUME NEW t \in Tasks, LateArrives(t)
      PROVE  stored' \in [Events -> Translations] /\ StoredAgrees'
  <2>1. CASE Accepts(t)
    BY <1>3, <2>1, StoresIInv DEF LateArrives
  <2>2. CASE ~Accepts(t)
    BY <1>1, <1>3, <2>2 DEF LateArrives
  <2> QED
    BY <2>1, <2>2
<1>4. CASE OperatorActs
  BY <1>4, OperatorsIInv DEF OperatorActs
<1>5. CASE StaffActs
  BY <1>1, <1>5 DEF StaffActs, Edit, Publish, Unpublish, Delete
<1>6. CASE RunnerActs
  BY <1>1, <1>2, <1>6
  DEF RunnerActs, Fetch, EndBatch, SkipGivenUp, TranslationFails, Rejected, server
<1>7. CASE FaultHappens
  BY <1>1, <1>2, <1>7 DEF FaultHappens, SubmissionLost, SubmissionDelayed, Restart, server
<1>8. CASE UNCHANGED queueVars
  BY <1>1, <1>8 DEF queueVars
<1> QED
  BY <1>3, <1>4, <1>5, <1>6, <1>7, <1>8 DEF QueueNext

\* The attempts of a task are counted up to the limit and no further, since a
\* task that was given up is not tried.
LEMMA AttemptsStep ==
    ASSUME IInv, [QueueNext]_queueVars
    PROVE  attempts' \in [Tasks -> 0..MaxAttempts]
<1>0. attempts \in [Tasks -> 0..MaxAttempts] /\ batch \subseteq Tasks /\ MaxAttempts \in Nat \ {0}
  BY TranslationAssumption DEF IInv, QueueTypeOK
<1>1. CASE UNCHANGED attempts
  BY <1>0, <1>1
<1>2. ASSUME NEW t \in batch, TranslationFails(t) \/ Rejected(t)
      PROVE  attempts' \in [Tasks -> 0..MaxAttempts]
  <2>1. attempts' = [attempts EXCEPT ![t] = @ + 1] /\ ~(attempts[t] >= MaxAttempts)
    BY <1>2 DEF TranslationFails, Rejected, CountsFailure, Tries, GivenUp
  <2>2. t \in Tasks /\ attempts[t] \in 0..MaxAttempts
    BY <1>0
  <2>3. attempts[t] + 1 \in 0..MaxAttempts
    BY <1>0, <2>1, <2>2
  <2> QED
    BY <1>0, <2>1, <2>2, <2>3
<1>3. ASSUME NEW t \in batch, Submitted(t)
      PROVE  attempts' \in [Tasks -> 0..MaxAttempts]
  <2>1. attempts' = [attempts EXCEPT ![t] = 0] /\ 0 \in 0..MaxAttempts
    BY <1>0, <1>3 DEF Submitted
  <2> QED
    BY <1>0, <2>1
<1>4. CASE Restart
  BY <1>0, <1>4 DEF Restart
<1>5. CASE RunnerActs
  BY <1>1, <1>2, <1>3, <1>5 DEF RunnerActs, Fetch, EndBatch, SkipGivenUp
<1>6. CASE FaultHappens
  BY <1>1, <1>4, <1>6 DEF FaultHappens, SubmissionLost, AnswerLost, SubmissionDelayed
<1>7. CASE \E t \in Tasks : LateArrives(t)
  BY <1>1, <1>7 DEF LateArrives, runner
<1>8. CASE StaffActs
  BY <1>1, <1>8 DEF StaffActs, Edit, Publish, Unpublish, Delete, Change, runner
<1>9. CASE OperatorActs
  BY <1>1, <1>9 DEF OperatorActs, LockManually, Requeue, Change, runner
<1>10. CASE UNCHANGED queueVars
  BY <1>1, <1>10 DEF queueVars
<1> QED
  BY <1>5, <1>6, <1>7, <1>8, <1>9, <1>10 DEF QueueNext

\* Events keep a publication status and a text.
LEMMA EventsStep ==
    ASSUME IInv, [QueueNext]_queueVars
    PROVE  /\ publication' \in [Events -> {"published", "unpublished", "deleted"}]
           /\ text' \in [Events -> Texts]
<1> USE DEF IInv, QueueTypeOK
<1>1. CASE UNCHANGED <<publication, text>>
  BY <1>1
<1>2. CASE StaffActs
  <2>1. ASSUME NEW e \in Events, NEW new \in Texts, Edit(e, new) PROVE text' \in [Events -> Texts] /\ UNCHANGED publication
    BY <2>1 DEF Edit
  <2>2. ASSUME NEW e \in Events, Publish(e) \/ Unpublish(e) \/ Delete(e)
        PROVE  /\ publication' \in [Events -> {"published", "unpublished", "deleted"}]
               /\ UNCHANGED text
    BY <2>2 DEF Publish, Unpublish, Delete
  <2> QED
    BY <1>2, <2>1, <2>2 DEF StaffActs
<1>3. CASE RunnerActs
  BY <1>1, <1>3 DEF RunnerActs, Fetch, EndBatch, SkipGivenUp, TranslationFails, Submitted, Rejected, server
<1>4. CASE FaultHappens
  BY <1>1, <1>4 DEF FaultHappens, SubmissionLost, AnswerLost, SubmissionDelayed, Restart, server
<1>5. CASE \E t \in Tasks : LateArrives(t)
  BY <1>1, <1>5 DEF LateArrives
<1>6. CASE OperatorActs
  BY <1>1, <1>6 DEF OperatorActs, LockManually, Requeue
<1>7. CASE UNCHANGED queueVars
  BY <1>1, <1>7 DEF queueVars
<1> QED
  BY <1>2, <1>3, <1>4, <1>5, <1>6, <1>7 DEF QueueNext

\* The runner's progress through a batch.
LEMMA BatchStep ==
    ASSUME IInv, [QueueNext]_queueVars
    PROVE  working' \in BOOLEAN /\ batch' \in SUBSET Tasks /\ tried' \in 0..BatchLimit
<1>0. /\ working \in BOOLEAN /\ batch \in SUBSET Tasks /\ tried \in 0..BatchLimit
      /\ BatchLimit \in Nat /\ text \in [Events -> Texts]
  BY TranslationAssumption DEF IInv, QueueTypeOK
<1>1. CASE UNCHANGED <<working, batch, tried>>
  BY <1>0, <1>1
<1>2. CASE Idles
  <2>1. working' = FALSE /\ batch' = {} /\ tried' = 0
    BY <1>2 DEF Idles
  <2>2. tried' \in 0..BatchLimit
    BY <1>0, <2>1
  <2> QED
    BY <2>1, <2>2
<1>3. CASE Fetch
  <2>1. batch' = {[event |-> e, text |-> text[e]] : e \in Listed} /\ Listed \subseteq Events
    BY <1>3 DEF Fetch, Listed
  <2>2. batch' \in SUBSET Tasks
    BY <1>0, <2>1 DEF Tasks
  <2>3. working' = TRUE /\ tried' = 0
    BY <1>3 DEF Fetch
  <2>4. tried' \in 0..BatchLimit
    BY <1>0, <2>3
  <2> QED
    BY <2>2, <2>3, <2>4
<1>4. ASSUME NEW t \in batch, GoesOn(t), ~BatchOver
      PROVE  working' \in BOOLEAN /\ batch' \in SUBSET Tasks /\ tried' \in 0..BatchLimit
  BY <1>0, <1>4 DEF GoesOn, BatchOver
<1>5. ASSUME NEW t \in batch, SkipGivenUp(t)
      PROVE  working' \in BOOLEAN /\ batch' \in SUBSET Tasks /\ tried' \in 0..BatchLimit
  BY <1>0, <1>5 DEF SkipGivenUp
<1>6. CASE RunnerActs
  BY <1>2, <1>3, <1>4, <1>5, <1>6
  DEF RunnerActs, EndBatch, TranslationFails, Submitted, Rejected, Tries
<1>7. CASE FaultHappens
  BY <1>2, <1>7 DEF FaultHappens, SubmissionLost, AnswerLost, SubmissionDelayed, Restart
<1>8. CASE \E t \in Tasks : LateArrives(t)
  BY <1>1, <1>8 DEF LateArrives, runner
<1>9. CASE StaffActs
  BY <1>1, <1>9 DEF StaffActs, Edit, Publish, Unpublish, Delete, Change, runner
<1>10. CASE OperatorActs
  BY <1>1, <1>10 DEF OperatorActs, LockManually, Requeue, Change, runner
<1>11. CASE UNCHANGED queueVars
  BY <1>1, <1>11 DEF queueVars
<1> QED
  BY <1>6, <1>7, <1>8, <1>9, <1>10, <1>11 DEF QueueNext

\* The submissions on their way, and the bounds.
LEMMA RestStep ==
    ASSUME IInv, [QueueNext]_queueVars
    PROVE  late' \in SUBSET Tasks /\ changes' \in 0..MaxChanges /\ queueFaults' \in 0..MaxQueueFaults
<1>0. /\ late \in SUBSET Tasks /\ batch \in SUBSET Tasks
      /\ changes \in 0..MaxChanges /\ queueFaults \in 0..MaxQueueFaults
      /\ MaxChanges \in Nat /\ MaxQueueFaults \in Nat
  BY TranslationAssumption DEF IInv, QueueTypeOK
<1>1. CASE UNCHANGED <<late, changes, queueFaults>>
  BY <1>0, <1>1
<1>2. ASSUME Change PROVE late' = late /\ changes' \in 0..MaxChanges /\ queueFaults' = queueFaults
  BY <1>0, <1>2 DEF Change
<1>3. ASSUME QueueFault PROVE changes' = changes /\ queueFaults' \in 0..MaxQueueFaults
  BY <1>0, <1>3 DEF QueueFault
<1>4. CASE RunnerActs
  BY <1>1, <1>4
  DEF RunnerActs, Fetch, EndBatch, SkipGivenUp, TranslationFails, Submitted, Rejected, bounds
<1>5. ASSUME NEW t \in batch, SubmissionLost(t) \/ AnswerLost(t) \/ SubmissionDelayed(t)
      PROVE  late' \in SUBSET Tasks /\ QueueFault
  BY <1>0, <1>5 DEF SubmissionLost, AnswerLost, SubmissionDelayed
<1>6. CASE FaultHappens
  BY <1>0, <1>3, <1>5, <1>6 DEF FaultHappens, Restart
<1>7. CASE \E t \in Tasks : LateArrives(t)
  BY <1>0, <1>7 DEF LateArrives, bounds
<1>8. CASE StaffActs
  BY <1>0, <1>2, <1>8 DEF StaffActs, Edit, Publish, Unpublish, Delete
<1>9. CASE OperatorActs
  BY <1>0, <1>2, <1>9 DEF OperatorActs, LockManually, Requeue
<1>10. CASE UNCHANGED queueVars
  BY <1>1, <1>10 DEF queueVars
<1> QED
  BY <1>4, <1>6, <1>7, <1>8, <1>9, <1>10 DEF QueueNext

LEMMA NextIInv == IInv /\ [QueueNext]_queueVars => IInv'
BY StoredStep, AttemptsStep, EventsStep, BatchStep, RestStep DEF IInv, QueueTypeOK

\* TranslationTyped: every variable keeps its type; in particular no task is
\* tried more often than TRANSLATION_MAX_ATTEMPTS allows, and no batch tries more
\* than TRANSLATION_BATCH_LIMIT events.
THEOREM TranslationTyped == QueueSpec => []QueueTypeOK
<1>1. IInv => QueueTypeOK
  BY DEF IInv
<1> QED
  BY <1>1, InitIInv, NextIInv, PTL DEF QueueSpec

\* NoStaleDisplay: a translation that is shown was made from the present text.
THEOREM NoStaleDisplay == QueueSpec => []ShownIsCurrent
<1>1. IInv => ShownIsCurrent
  BY DEF IInv, StoredAgrees, ShownIsCurrent, ShownTranslated
<1> QED
  BY <1>1, InitIInv, NextIInv, PTL DEF QueueSpec

\* A submission leaves what is settled alone, whether it is accepted or not.
LEMMA SettledStays ==
    ASSUME IInv, NEW t \in Tasks, Accepts(t), Stores(t),
           NEW e \in Events, stored[e].manual \/ stored[e].hash = text[e]
    PROVE  stored'[e] = stored[e]
<1>1. CASE e = t.event
  BY <1>1 DEF Accepts, Stores
<1>2. CASE e # t.event
  BY <1>2 DEF Stores, IInv, QueueTypeOK
<1> QED
  BY <1>1, <1>2

\* OperatorsOnly: nobody but an operator replaces a locked or a current
\* translation.
THEOREM OperatorsOnly == QueueSpec => OnlyOperatorsReplace
<1>1. ASSUME IInv, [QueueNext]_queueVars, NEW e \in Events,
             stored[e].manual \/ stored[e].hash = text[e],
             stored'[e] # stored[e]
      PROVE  OperatorActs
  <2>1. ~UNCHANGED stored
    BY <1>1
  <2>2. ASSUME NEW t \in batch, Submitted(t) \/ AnswerLost(t) PROVE FALSE
    <3>1. t \in Tasks
      BY <1>1 DEF IInv, QueueTypeOK
    <3>2. Accepts(t) /\ Stores(t)
      BY <2>2 DEF Submitted, AnswerLost
    <3> QED
      BY <1>1, <3>1, <3>2, SettledStays
  <2>3. ASSUME NEW t \in Tasks, LateArrives(t) PROVE FALSE
    BY <1>1, <2>1, <2>3, SettledStays DEF LateArrives
  <2>4. ~StaffActs
    BY <2>1 DEF StaffActs, Edit, Publish, Unpublish, Delete
  <2>5. ~RunnerActs
    BY <2>1, <2>2
    DEF RunnerActs, Fetch, EndBatch, SkipGivenUp, TranslationFails, Rejected, server
  <2>6. ~FaultHappens
    BY <2>1, <2>2 DEF FaultHappens, SubmissionLost, SubmissionDelayed, Restart, server
  <2> QED
    BY <1>1, <2>1, <2>3, <2>4, <2>5, <2>6 DEF QueueNext, queueVars
<1>2. IInv /\ [QueueNext]_queueVars
        => [\A e \in Events :
              (stored[e].manual \/ stored[e].hash = text[e]) /\ stored'[e] # stored[e]
                  => OperatorActs]_queueVars
  BY <1>1
<1> QED
  BY <1>2, InitIInv, NextIInv, PTL DEF QueueSpec, OnlyOperatorsReplace
=============================================================================
