-------------------------- MODULE EventConsole_proofs --------------------------
(***************************************************************************)
(* Proofs about EventConsole, for every number of events, URLs, requests,  *)
(* forms and changes.                                                      *)
(***************************************************************************)
EXTENDS EventConsole, TLAPS

AllStatuses == {"published", "draft", "absent", "deleted"}
EventRow == [status : AllStatuses, url : Urls, verified : BOOLEAN]
LogRow == [status : AllStatuses, verified : BOOLEAN, twice : BOOLEAN]
FormRow == [state : {"open", "saving"}, event : Events, new : BOOLEAN, url : Urls]

\* What the proofs need of the types.
EventType == event \in [Events -> EventRow]
LogType == log \in [Events -> LogRow]
FormType == form \in [Forms -> FormRow \cup {Idle}]
Types == EventType /\ LogType /\ FormType

\* An event that is not there has no mark that its row could start with.
AbsentUnverified == \A e \in Events : event[e].status = "absent" => ~event[e].verified

\* A form for a new event stands for one that is not there, and no two forms
\* for the same.
NewIsAbsent ==
    /\ \A f \in Forms : form[f] # Idle /\ form[f].new =>
           event[form[f].event].status = "absent"
    /\ \A f, g \in Forms :
           /\ form[f] # Idle /\ form[f].new /\ form[g] # Idle /\ form[g].new
           /\ form[f].event = form[g].event
           => f = g

ConsoleInv == Types /\ AbsentUnverified /\ NewIsAbsent /\ LogTellsEvent

-----------------------------------------------------------------------------
(***************************************************************************)
(* One row changes, its log entry with it.                                 *)
(***************************************************************************)

\* A step that changes one event, not an absent one, and tells the log so.
LEMMA OneRow ==
    ASSUME ConsoleInv, NEW e \in Events, NEW row \in EventRow, NEW entry \in LogRow,
           event[e].status # "absent",
           event' = [event EXCEPT ![e] = row], log' = [log EXCEPT ![e] = entry],
           row.status = "absent" => ~row.verified,
           entry.status = row.status, entry.verified = row.verified, ~entry.twice,
           UNCHANGED form
    PROVE  ConsoleInv'
<1> USE DEF ConsoleInv, Types
<1>1. EventType' /\ LogType' /\ FormType'
    BY DEF EventType, LogType, FormType
<1>2. /\ event'[e] = row /\ log'[e] = entry
      /\ \A d \in Events : d # e => event'[d] = event[d] /\ log'[d] = log[d]
    BY DEF EventType, LogType
<1>3. AbsentUnverified' /\ LogTellsEvent'
    BY <1>2 DEF AbsentUnverified, LogTellsEvent
<1>4. NewIsAbsent'
  <2>1. ASSUME NEW f \in Forms, form[f] # Idle, form[f].new
        PROVE  event'[form[f].event].status = "absent"
    <3>1. form[f].event \in Events /\ event[form[f].event].status = "absent"
      BY <2>1 DEF FormType, FormRow, NewIsAbsent
    <3> QED
      BY <1>2, <3>1
  <2> QED
    BY <2>1 DEF NewIsAbsent
<1> QED
    BY <1>1, <1>3, <1>4

LEMMA SetsStatusStep ==
    ASSUME ConsoleInv, NEW e \in Events, NEW status \in {"published", "draft", "deleted"},
           Exists(e), event[e].status # status, SetsStatus(e, status), UNCHANGED form
    PROVE  ConsoleInv'
<1> USE DEF ConsoleInv, Types
<1> DEFINE row == [event[e] EXCEPT !.status = status]
           entry == [log[e] EXCEPT !.status = status,
                                   !.twice = @ \/ log[e].status = status]
<1>1. /\ event' = [event EXCEPT ![e] = row]
      /\ log' = [log EXCEPT ![e] = entry]
    BY DEF SetsStatus, EventType, LogType
<1>2. event[e] \in EventRow /\ log[e] \in LogRow
    BY DEF EventType, LogType
<1>3. row \in EventRow /\ row.status = status /\ row.verified = event[e].verified
    BY <1>2 DEF EventRow, AllStatuses
<1>4. log[e].status = event[e].status /\ log[e].verified = event[e].verified /\ ~log[e].twice
    BY DEF LogTellsEvent
<1>5. entry \in LogRow /\ entry.status = status /\ entry.verified = log[e].verified
      /\ ~entry.twice
    BY <1>2, <1>4 DEF LogRow, AllStatuses
<1>6. event[e].status # "absent"
    BY DEF Exists, Rows
<1> HIDE DEF row, entry
<1> QED
    BY <1>1, <1>3, <1>4, <1>5, <1>6, OneRow
LEMMA SavesMarkStep ==
    ASSUME ConsoleInv, NEW r, NEW e \in Events, Exists(e), SavesMark(r, e), UNCHANGED form
    PROVE  ConsoleInv'
<1> USE DEF ConsoleInv, Types
<1> DEFINE row == [event[e] EXCEPT !.verified = TRUE]
           entry == [log[e] EXCEPT !.verified = TRUE]
<1>1. /\ event' = [event EXCEPT ![e] = row]
      /\ log' = [log EXCEPT ![e] = entry]
    BY DEF SavesMark, EventType, LogType
<1>2. event[e] \in EventRow /\ log[e] \in LogRow
    BY DEF EventType, LogType
<1>3. row \in EventRow /\ row.status = event[e].status /\ row.verified = TRUE
    BY <1>2 DEF EventRow
<1>4. log[e].status = event[e].status /\ ~log[e].twice
    BY DEF LogTellsEvent
<1>5. entry \in LogRow /\ entry.status = log[e].status /\ entry.verified = TRUE
      /\ ~entry.twice
    BY <1>2, <1>4 DEF LogRow
<1>6. event[e].status # "absent"
    BY DEF Exists, Rows
<1> HIDE DEF row, entry
<1> QED
    BY <1>1, <1>3, <1>4, <1>5, <1>6, OneRow

LEMMA SameRows ==
    ASSUME ConsoleInv, UNCHANGED <<event, log, form>>
    PROVE  ConsoleInv'
BY DEF ConsoleInv, Types, EventType, LogType, FormType, AbsentUnverified, NewIsAbsent,
       LogTellsEvent

-----------------------------------------------------------------------------
(***************************************************************************)
(* Forms.                                                                  *)
(***************************************************************************)

\* Forms that close, or go on as they are, do not touch what is known of them.
LEMMA FewerForms ==
    ASSUME ConsoleInv, UNCHANGED <<event, log>>, FormType',
           \A f \in Forms :
               form'[f] # Idle =>
                   /\ form[f] # Idle /\ form'[f].new = form[f].new
                   /\ form'[f].event = form[f].event
    PROVE  ConsoleInv'
BY DEF ConsoleInv, Types, EventType, LogType, AbsentUnverified, NewIsAbsent, LogTellsEvent

LEMMA FormSteps ==
    ASSUME ConsoleInv, NEW f \in Forms, LockForm(f) \/ Abandon(f)
    PROVE  ConsoleInv'
<1> USE DEF ConsoleInv, Types
<1>1. CASE form' = [form EXCEPT ![f] = Idle]
  <2>1. FormType'
    BY <1>1 DEF FormType
  <2>2. UNCHANGED <<event, log>>
    BY DEF LockForm, Abandon
  <2> QED
    BY <1>1, <2>1, <2>2, FewerForms DEF FormType
<1>2. CASE LockForm(f) /\ form' = [form EXCEPT ![f].state = "saving"]
  <2>1. form[f] \in FormRow
    BY <1>2 DEF LockForm, FormType, Idle
  <2> DEFINE saving == [form[f] EXCEPT !.state = "saving"]
  <2>2. /\ saving \in FormRow /\ saving.new = form[f].new
        /\ saving.event = form[f].event
    BY <2>1 DEF FormRow
  <2>3. form' = [form EXCEPT ![f] = saving]
    BY <1>2 DEF FormType
  <2>4. form[f] # Idle
    BY <1>2 DEF LockForm, Idle
  <2>5. UNCHANGED <<event, log>>
    BY <1>2 DEF LockForm
  <2> HIDE DEF saving
  <2>6. FormType'
    BY <2>2, <2>3 DEF FormType
  <2>7. form'[f] = saving /\ \A g \in Forms : g # f => form'[g] = form[g]
    BY <2>3 DEF FormType
  <2> QED
    BY <2>2, <2>4, <2>5, <2>6, <2>7, FewerForms
<1> QED
    BY <1>1, <1>2 DEF LockForm, Abandon

LEMMA OpenFormStep ==
    ASSUME ConsoleInv, NEW f \in Forms, NEW e \in Events, OpenForm(f, e)
    PROVE  ConsoleInv'
<1> USE DEF ConsoleInv, Types
<1>1. PICK u \in Urls :
          form' = [form EXCEPT ![f] = [state |-> "open", event |-> e, new |-> ~Exists(e),
                                       url |-> u]]
    BY DEF OpenForm
<1> DEFINE new == ~Exists(e)
           opened == [state |-> "open", event |-> e, new |-> new, url |-> u]
<1>2. /\ event[e].status \in Rows \cup {"absent"} /\ UNCHANGED <<event, log>>
      /\ \A g \in Forms : form[g] # Idle /\ form[g].new => form[g].event # e
    BY DEF OpenForm
<1>3. new \in BOOLEAN /\ (new => event[e].status = "absent")
    BY <1>2 DEF Exists
<1> HIDE DEF new
<1>4. opened \in FormRow /\ opened.event = e /\ opened.new = new
    BY <1>3 DEF FormRow
<1>5. form' = [form EXCEPT ![f] = opened]
    BY <1>1 DEF new
<1> HIDE DEF opened
<1>6. form'[f] = opened /\ \A g \in Forms : g # f => form'[g] = form[g]
    BY <1>5 DEF FormType
<1>7. FormType'
    BY <1>4, <1>5 DEF FormType
<1>8. NewIsAbsent'
    BY <1>2, <1>3, <1>4, <1>6 DEF NewIsAbsent
<1> QED
    BY <1>2, <1>7, <1>8 DEF EventType, LogType, AbsentUnverified, LogTellsEvent

\* A form writes its row and closes; a new row starts without a mark, as the
\* log has it.
LEMMA SaveFormStep ==
    ASSUME ConsoleInv, NEW f \in Forms, SaveForm(f)
    PROVE  ConsoleInv'
<1> USE DEF ConsoleInv, Types
<1>1. /\ form[f] \in FormRow /\ form[f] # Idle
      /\ form' = [form EXCEPT ![f] = Idle]
    BY DEF SaveForm, FormType, Idle
<1>2. FormType'
    BY <1>1 DEF FormType
<1>3. CASE UNCHANGED <<event, log>>
    BY <1>1, <1>2, <1>3, FewerForms DEF FormType
<1>4. CASE ~UNCHANGED <<event, log>>
  <2>1. PICK e \in Events : e = form[f].event
    BY <1>1 DEF FormRow
  <2> DEFINE row == Written(f)
             entry == [log[e] EXCEPT !.status = event'[e].status]
  <2>2. event' = [event EXCEPT ![e] = row] /\ log' = [log EXCEPT ![e] = entry]
    BY <1>4, <2>1 DEF SaveForm, LogType
  <2>3. event[e] \in EventRow /\ log[e] \in LogRow
    BY DEF EventType, LogType
  <2>4. /\ row \in EventRow
        /\ \/ row.status = "published" /\ row.verified = FALSE /\ form[f].new
           \/ row.status = event[e].status /\ row.verified = event[e].verified
              /\ ~form[f].new
    <3>1. CASE form[f].new
      BY <1>1, <2>1, <2>3, <3>1 DEF Written, EventRow, AllStatuses, FormRow
    <3>2. CASE ~form[f].new
      BY <1>1, <2>1, <2>3, <3>2 DEF Written, EventRow, FormRow
    <3> QED
      BY <3>1, <3>2
  <2> HIDE DEF row
  <2>5. event'[e] = row /\ \A d \in Events : d # e => event'[d] = event[d]
    BY <2>2 DEF EventType
  <2>6. /\ entry \in LogRow /\ entry.status = row.status
        /\ entry.verified = log[e].verified /\ entry.twice = log[e].twice
    BY <2>3, <2>4, <2>5 DEF LogRow, EventRow
  <2> HIDE DEF entry
  <2>7. log'[e] = entry /\ \A d \in Events : d # e => log'[d] = log[d]
    BY <2>2 DEF LogType
  <2>8. EventType' /\ LogType'
    BY <2>2, <2>4, <2>6 DEF EventType, LogType
  <2>9. log[e].verified = row.verified /\ ~log[e].twice
    <3>1. CASE form[f].new
      <4>1. event[e].status = "absent"
        BY <1>1, <2>1, <3>1 DEF NewIsAbsent
      <4>2. ~event[e].verified /\ event[e].verified \in BOOLEAN
        BY <2>3, <4>1 DEF AbsentUnverified, EventRow
      <4> QED
        BY <2>4, <3>1, <4>2 DEF LogTellsEvent
    <3>2. CASE ~form[f].new
      BY <2>4, <3>2 DEF LogTellsEvent
    <3> QED
      BY <3>1, <3>2
  <2>10. LogTellsEvent'
    BY <2>5, <2>6, <2>7, <2>9 DEF LogTellsEvent
  <2>11. AbsentUnverified'
    BY <2>4, <2>5 DEF AbsentUnverified
  <2>12. NewIsAbsent'
    <3>1. form'[f] = Idle /\ \A g \in Forms : g # f => form'[g] = form[g]
      BY <1>1 DEF FormType
    <3>2. ASSUME NEW g \in Forms, form'[g] # Idle, form'[g].new
          PROVE  event'[form'[g].event].status = "absent"
      <4>1. /\ g # f /\ form'[g] = form[g] /\ form[g].event \in Events
            /\ event[form[g].event].status = "absent"
        BY <3>1, <3>2 DEF NewIsAbsent, FormType, FormRow
      <4>2. CASE form[g].event # e
        BY <2>5, <4>1, <4>2
      <4>3. CASE form[g].event = e
        <5>1. ~form[f].new
          BY <1>1, <2>1, <3>2, <4>1, <4>3 DEF NewIsAbsent
        <5> QED
          BY <2>4, <2>5, <4>1, <4>3, <5>1
      <4> QED
        BY <4>2, <4>3
    <3> QED
      BY <3>1, <3>2 DEF NewIsAbsent
  <2> QED
    BY <1>2, <2>8, <2>10, <2>11, <2>12
<1> QED
    BY <1>3, <1>4
-----------------------------------------------------------------------------
(***************************************************************************)
(* The log of the events.                                                  *)
(***************************************************************************)

LEMMA ServeStep ==
    ASSUME ConsoleInv, NEW r \in Requests, NEW e \in Events,
           ServeStatus(r, e) \/ SaveVerify(r, e)
    PROVE  ConsoleInv'
<1>1. CASE ServeStatus(r, e)
  <2> DEFINE status == IF request[r].kind = "republish" THEN "published" ELSE "draft"
  <2>1. UNCHANGED form /\ (UNCHANGED <<event, log>> \/ (Exists(e) /\ Reaches(e, status)))
    BY <1>1 DEF ServeStatus
  <2>2. status \in {"published", "draft", "deleted"}
    OBVIOUS
  <2> HIDE DEF status
  <2>3. CASE UNCHANGED <<event, log>>
    BY <2>1, <2>3, SameRows
  <2>4. CASE Exists(e) /\ event[e].status # status /\ SetsStatus(e, status)
    BY <2>1, <2>2, <2>4, SetsStatusStep
  <2> QED
    BY <2>1, <2>3, <2>4 DEF Reaches
<1>2. CASE SaveVerify(r, e)
  <2>1. UNCHANGED form /\ (UNCHANGED <<event, log>> \/ (Exists(e) /\ SavesMark(r, e)))
    BY <1>2 DEF SaveVerify
  <2> QED
    BY <2>1, SameRows, SavesMarkStep
<1> QED
    BY <1>1, <1>2

LEMMA OtherStaffStep ==
    ASSUME ConsoleInv, NEW e \in Events, Toggle(e) \/ Delete(e)
    PROVE  ConsoleInv'
<1>1. CASE Toggle(e)
  <2> DEFINE status == IF event[e].status = "draft" THEN "published" ELSE "draft"
  <2>1. UNCHANGED form /\ Exists(e) /\ SetsStatus(e, status)
    BY <1>1 DEF Toggle
  <2>2. status \in {"published", "draft", "deleted"} /\ event[e].status # status
    BY <2>1 DEF Exists, Rows
  <2> HIDE DEF status
  <2> QED
    BY <2>1, <2>2, SetsStatusStep
<1>2. CASE Delete(e)
  <2>1. UNCHANGED form /\ Exists(e) /\ SetsStatus(e, "deleted") /\ event[e].status # "deleted"
    BY <1>2 DEF Delete, Exists, Rows
  <2> QED
    BY <2>1, SetsStatusStep
<1> QED
    BY <1>1, <1>2

LEMMA StepConsole == ConsoleInv /\ [Next]_vars => ConsoleInv'
<1> SUFFICES ASSUME ConsoleInv, [Next]_vars PROVE ConsoleInv'
    OBVIOUS
<1>1. CASE UNCHANGED vars
    BY <1>1, SameRows DEF vars
<1>2. CASE \E e \in Events : Toggle(e) \/ Delete(e)
    BY <1>2, OtherStaffStep
<1>3. ASSUME NEW f \in Forms,
             \/ LockForm(f) \/ SaveForm(f) \/ Abandon(f)
             \/ \E e \in Events : OpenForm(f, e)
      PROVE  ConsoleInv'
    BY <1>3, FormSteps, SaveFormStep, OpenFormStep
<1>4. CASE (\E filter \in {"all", "published", "draft", "unverified"} : OpenPage(filter)) \/ Return
  <2>1. UNCHANGED <<event, log, form>>
    BY <1>4 DEF OpenPage, Return
  <2> QED
    BY <2>1, SameRows
<1>5. ASSUME NEW r \in Requests,
             \/ Confirm(r) \/ Dismiss(r) \/ Answer(r) \/ LoseAnswer(r)
             \/ \E es \in SUBSET Events : ClickBulk(r, es)
      PROVE  ConsoleInv'
  <2>1. UNCHANGED <<event, log, form>>
    BY <1>5 DEF Confirm, Dismiss, Answer, LoseAnswer, ClickBulk
  <2> QED
    BY <2>1, SameRows
<1>6. ASSUME NEW r \in Requests, NEW e \in Events,
             \/ VerifyElsewhere(r, e) \/ ServeStatus(r, e) \/ LoadVerify(r, e)
             \/ SaveVerify(r, e) \/ Fail(r, e)
             \/ \E kind \in Kinds : ClickRow(r, kind, e)
      PROVE  ConsoleInv'
  <2>1. CASE ServeStatus(r, e) \/ SaveVerify(r, e)
    BY <2>1, ServeStep
  <2>2. CASE \/ VerifyElsewhere(r, e) \/ LoadVerify(r, e) \/ Fail(r, e)
             \/ \E kind \in Kinds : ClickRow(r, kind, e)
    <3>1. UNCHANGED <<event, log, form>>
      BY <2>2 DEF VerifyElsewhere, LoadVerify, Fail, ClickRow
    <3> QED
      BY <3>1, SameRows
  <2> QED
    BY <1>6, <2>1, <2>2
<1> QED
    BY <1>1, <1>2, <1>3, <1>4, <1>5, <1>6 DEF Next

LEMMA InitConsole == Init => ConsoleInv
<1> SUFFICES ASSUME Init PROVE ConsoleInv
    OBVIOUS
<1>1. PICK there \in SUBSET Events, u \in [Events -> Urls] :
          event = [e \in Events |->
                    [status |-> IF e \in there THEN "published" ELSE "absent",
                     url |-> u[e], verified |-> FALSE]]
    BY DEF Init
<1>2. EventType
    BY <1>1 DEF EventType, EventRow, AllStatuses
<1>3. log = [e \in Events |-> [status |-> event[e].status, verified |-> FALSE,
                               twice |-> FALSE]]
    BY DEF Init
<1>4. \A e \in Events : event[e].status \in AllStatuses /\ event[e].verified = FALSE
    BY <1>1 DEF AllStatuses
<1>5. LogType
    BY <1>3, <1>4 DEF LogType, LogRow
<1>6. FormType /\ \A f \in Forms : form[f] = Idle
    BY DEF Init, FormType
<1>7. AbsentUnverified /\ NewIsAbsent
    BY <1>4, <1>6 DEF AbsentUnverified, NewIsAbsent
<1>8. LogTellsEvent
    BY <1>3, <1>4 DEF LogTellsEvent
<1> QED
    BY <1>2, <1>5, <1>6, <1>7, <1>8 DEF ConsoleInv, Types

\* Requests of the list, the switch on the page of an event, verifications and
\* forms may all be about one event at the same time: the staff log tells its
\* status and its mark, and no change that was none.
THEOREM EventLogIsTrue == Spec => []LogTellsEvent
<1>1. ConsoleInv => LogTellsEvent
    BY DEF ConsoleInv
<1> QED
    BY <1>1, InitConsole, StepConsole, PTL DEF Spec

-----------------------------------------------------------------------------
(***************************************************************************)
(* Locked rows.                                                            *)
(***************************************************************************)

RequestRow ==
    [state : {"asked", "sent", "loaded", "answered"}, kind : Kinds, listed : BOOLEAN,
     targets : SUBSET Events, left : SUBSET Events, ok : SUBSET Events,
     gone : SUBSET Events, row : {Idle} \cup EventRow]

RequestsType == request \in [Requests -> RequestRow \cup {Idle}]
PageType ==
    \E filter, shown, locked :
        /\ page = [filter |-> filter, shown |-> shown, locked |-> locked]
        /\ locked \subseteq Events

\* Only a request of the list is confirmed first.
AskedIsListed == \A r \in Requests : request[r].state = "asked" => request[r].listed

\* What unlocks the row of an event: a request whose answer the page awaits.
Unlocks(q, e) ==
    /\ q # Idle /\ q.listed /\ q.kind # "bulk" /\ q.state # "asked" /\ e \in q.targets

RowsInv == EventType /\ RequestsType /\ PageType /\ AskedIsListed /\ NoDeadRow

\* A request that is served stays one that unlocks its rows, until it is
\* answered; only one that nobody awaits is forgotten.
LEMMA FinishedUnlocks ==
    ASSUME NEW q \in RequestRow, q.state # "asked", NEW e \in Events
    PROVE  LET done == Finished(q, e)
           IN  /\ done.state # "asked"
               /\ done.state # "over" => done \in RequestRow
               /\ q.listed => /\ done.state # "over" /\ done \in RequestRow
                              /\ \A d \in Events : Unlocks(q, d) => Unlocks(done, d)
<1> DEFINE left == q.left \ {e}
           state == IF left # {} THEN "sent" ELSE IF q.listed THEN "answered" ELSE "over"
           done == [q EXCEPT !.left = left, !.state = state]
<1>1. left \in SUBSET Events
    BY DEF RequestRow
<1>2. state \in {"sent", "answered", "over"} /\ (q.listed => state # "over")
    OBVIOUS
<1>3. Finished(q, e) = done
    BY DEF Finished
<1> HIDE DEF left, state
<1>4. /\ done.state = state /\ done.listed = q.listed /\ done.kind = q.kind
      /\ done.targets = q.targets
      /\ state # "over" => done \in RequestRow
    BY <1>1, <1>2 DEF RequestRow
<1>5. done # Idle
  <2>1. q.listed => done.state # "idle"
    BY <1>2, <1>4
  <2>2. done.state # "idle"
    BY <1>2, <1>4
  <2> QED
    BY <2>2 DEF Idle
<1> HIDE DEF done
<1> QED
    BY <1>2, <1>3, <1>4, <1>5 DEF Unlocks

LEMMA LockedType == PageType => page.locked \in SUBSET Events
BY DEF PageType

\* The page after its rows were shown anew and some of them unlocked.
LEMMA PageShape ==
    ASSUME PageType, NEW locked \in SUBSET Events, NEW shown, NEW filter,
           \/ page' = [page EXCEPT !.locked = locked]
           \/ page' = [page EXCEPT !.shown = shown, !.locked = locked]
           \/ page' = [filter |-> filter, shown |-> shown, locked |-> locked]
    PROVE  PageType' /\ page'.locked = locked
<1>1. PICK f, s, l : page = [filter |-> f, shown |-> s, locked |-> l]
    BY DEF PageType
<1>2. \/ page' = [filter |-> f, shown |-> s, locked |-> locked]
      \/ page' = [filter |-> f, shown |-> shown, locked |-> locked]
      \/ page' = [filter |-> filter, shown |-> shown, locked |-> locked]
    BY <1>1
<1> QED
    BY <1>2 DEF PageType

\* A step that changes one request, which goes on unlocking what it unlocked,
\* and locks no row.
LEMMA OneRequest ==
    ASSUME RowsInv, EventType', NEW r \in Requests, NEW q \in RequestRow \cup {Idle},
           request' = [request EXCEPT ![r] = q],
           \A e \in Events : Unlocks(request[r], e) => Unlocks(q, e),
           q.state = "asked" => q.listed,
           UNCHANGED page
    PROVE  RowsInv'
<1> USE DEF RowsInv
<1>1. request'[r] = q /\ \A p \in Requests : p # r => request'[p] = request[p]
    BY DEF RequestsType
<1>2. RequestsType' /\ AskedIsListed'
    BY <1>1 DEF RequestsType, AskedIsListed
<1>4. PageType'
    BY DEF PageType
<1>3. NoDeadRow'
  <2> SUFFICES ASSUME NEW e \in page.locked
               PROVE  \E p \in Requests : Unlocks(request'[p], e)
    BY DEF NoDeadRow, Unlocks
  <2>1. PICK p \in Requests : Unlocks(request[p], e)
    BY DEF NoDeadRow, Unlocks
  <2>2. e \in Events
    BY DEF PageType
  <2> QED
    BY <1>1, <2>1, <2>2
<1> QED
    BY <1>2, <1>3, <1>4

\* What serving one event of a request does to it, whatever became of it.
LEMMA ItemServed ==
    ASSUME RowsInv, EventType', NEW r \in Requests, NEW e \in Events,
           request[r].state \in {"sent", "loaded"},
           request' \in {Good(r, e), Gone(r, e), Bad(r, e)}, UNCHANGED page
    PROVE  RowsInv'
<1>1. request[r] \in RequestRow /\ request[r] # Idle
    BY DEF RowsInv, RequestsType, Idle
<1> DEFINE good == [request[r] EXCEPT !.ok = @ \cup {e}]
           gone == [request[r] EXCEPT !.gone = @ \cup {e}]
<1>2. PICK q \in {good, gone, request[r]} : request' = After(r, Finished(q, e))
    BY DEF Good, Gone, Bad
<1>3. /\ q \in RequestRow /\ q.state = request[r].state /\ q.listed = request[r].listed
      /\ q.kind = request[r].kind /\ q.targets = request[r].targets
    BY <1>1 DEF RequestRow
<1> HIDE DEF good, gone
<1>4. \A d \in Events : Unlocks(request[r], d) => Unlocks(q, d)
  <2>1. q # Idle
    BY <1>3 DEF Idle
  <2> QED
    BY <1>3, <2>1 DEF Unlocks
<1> DEFINE done == Finished(q, e)
<1>5. /\ done.state # "over" => done \in RequestRow
      /\ q.listed => /\ done.state # "over" /\ done \in RequestRow
                     /\ \A d \in Events : Unlocks(q, d) => Unlocks(done, d)
    BY <1>3, FinishedUnlocks
<1>6. request' = [request EXCEPT ![r] = IF done.state = "over" THEN Idle ELSE done]
    BY <1>2 DEF After
<1>9. done.state # "asked"
    BY <1>3, FinishedUnlocks
<1> HIDE DEF done
<1>7. CASE q.listed
  <2>1. \A d \in Events : Unlocks(request[r], d) => Unlocks(done, d)
    BY <1>4, <1>5, <1>7
  <2>2. request' = [request EXCEPT ![r] = done] /\ done \in RequestRow
    BY <1>5, <1>6, <1>7
  <2> QED
    BY <1>9, <2>1, <2>2, OneRequest
<1>8. CASE ~q.listed
  <2>1. \A d \in Events : ~Unlocks(request[r], d)
    BY <1>3, <1>8 DEF Unlocks
  <2>2. Idle.state # "asked"
    BY DEF Idle
  <2>3. CASE done.state = "over"
    <3>1. request' = [request EXCEPT ![r] = Idle]
      BY <1>6, <2>3
    <3> QED
      BY <2>1, <2>2, <3>1, OneRequest
  <2>4. CASE done.state # "over"
    <3>1. request' = [request EXCEPT ![r] = done] /\ done \in RequestRow
      BY <1>5, <1>6, <2>4
    <3> QED
      BY <1>9, <2>1, <3>1, OneRequest
  <2> QED
    BY <2>3, <2>4
<1> QED
    BY <1>7, <1>8

LEMMA ServeRows ==
    ASSUME RowsInv, EventType', NEW r \in Requests, NEW e \in Events,
           ServeStatus(r, e) \/ LoadVerify(r, e) \/ SaveVerify(r, e) \/ Fail(r, e)
    PROVE  RowsInv'
<1>1. CASE LoadVerify(r, e) /\ Exists(e)
  <2>1. request[r] \in RequestRow /\ request[r].state = "sent"
    BY <1>1 DEF LoadVerify, RowsInv, RequestsType, Idle
  <2> DEFINE loaded == [request[r] EXCEPT !.state = "loaded", !.row = event[e]]
  <2>2. request' = [request EXCEPT ![r] = loaded] /\ UNCHANGED page
    BY <1>1, <2>1 DEF LoadVerify, RowsInv, RequestsType
  <2>3. event[e] \in EventRow
    BY DEF RowsInv, EventType
  <2>4. /\ loaded \in RequestRow /\ loaded.state = "loaded"
        /\ loaded.listed = request[r].listed /\ loaded.kind = request[r].kind
        /\ loaded.targets = request[r].targets
    BY <2>1, <2>3 DEF RequestRow
  <2> HIDE DEF loaded
  <2>5. loaded # Idle
    BY <2>4 DEF Idle
  <2>6. \A d \in Events : Unlocks(request[r], d) => Unlocks(loaded, d)
    BY <2>4, <2>5 DEF Unlocks
  <2> QED
    BY <2>2, <2>4, <2>6, OneRequest
<1>2. CASE ~(LoadVerify(r, e) /\ Exists(e))
  <2>1. /\ request[r].state \in {"sent", "loaded"}
        /\ request' \in {Good(r, e), Gone(r, e), Bad(r, e)}
        /\ UNCHANGED page
    BY <1>2 DEF ServeStatus, LoadVerify, SaveVerify, Fail
  <2> QED
    BY <2>1, ItemServed
<1> QED
    BY <1>1, <1>2

LEMMA NewRequestType ==
    ASSUME NEW state \in {"asked", "sent"}, NEW kind \in Kinds, NEW listed \in BOOLEAN,
           NEW es \in SUBSET Events
    PROVE  LET new == NewRequest(state, kind, listed, es)
           IN  /\ new \in RequestRow /\ new.state = state /\ new.kind = kind
               /\ new.listed = listed /\ new.targets = es /\ new # Idle
BY DEF NewRequest, RequestRow, Idle

\* A request that takes a free slot locks its row at once, or when it is
\* confirmed.
LEMMA MadeRows ==
    ASSUME RowsInv, EventType', NEW r \in Requests,
           \/ \E es \in SUBSET Events : ClickBulk(r, es)
           \/ \E e \in Events : VerifyElsewhere(r, e)
           \/ \E e \in Events, kind \in Kinds : ClickRow(r, kind, e)
    PROVE  RowsInv'
<1>1. \A e \in Events : ~Unlocks(Idle, e)
    BY DEF Unlocks
<1>2. request[r] = Idle
    BY DEF ClickBulk, VerifyElsewhere, ClickRow
<1>3. ASSUME NEW state \in {"asked", "sent"}, NEW kind \in Kinds, NEW listed \in BOOLEAN,
             NEW es \in SUBSET Events, UNCHANGED page, state = "asked" => listed,
             request' = [request EXCEPT ![r] = NewRequest(state, kind, listed, es)]
      PROVE  RowsInv'
  <2> DEFINE new == NewRequest(state, kind, listed, es)
  <2>1. new \in RequestRow /\ new.state = state /\ new.listed = listed
    BY NewRequestType
  <2> HIDE DEF new
  <2> QED
    BY <1>1, <1>2, <1>3, <2>1, OneRequest DEF new
<1>4. ASSUME NEW es \in SUBSET Events, ClickBulk(r, es) PROVE RowsInv'
  <2>1. request' = [request EXCEPT ![r] = NewRequest("asked", "bulk", TRUE, es)]
        /\ UNCHANGED page /\ "bulk" \in Kinds
    BY <1>4 DEF ClickBulk, Kinds
  <2> QED
    BY <1>3, <2>1
<1>5. ASSUME NEW e \in Events, VerifyElsewhere(r, e) PROVE RowsInv'
  <2>1. request' = [request EXCEPT ![r] = NewRequest("sent", "verify", FALSE, {e})]
        /\ UNCHANGED page /\ "verify" \in Kinds /\ {e} \in SUBSET Events
    BY <1>5 DEF VerifyElsewhere, Kinds
  <2> QED
    BY <1>3, <2>1
<1>6. ASSUME NEW e \in Events, NEW kind \in Kinds, ClickRow(r, kind, e) PROVE RowsInv'
  <2>1. CASE kind = "verify"
    <3>1. request' = [request EXCEPT ![r] = NewRequest("asked", kind, TRUE, {e})]
          /\ UNCHANGED page /\ {e} \in SUBSET Events
      BY <1>6, <2>1 DEF ClickRow
    <3> QED
      BY <1>3, <3>1
  <2>2. CASE kind # "verify"
    <3>0. PICK listed \in BOOLEAN, state \in {"asked", "sent"}, es \in SUBSET Events :
              listed = TRUE /\ state = "sent" /\ es = {e}
      OBVIOUS
    <3> DEFINE new == NewRequest(state, kind, listed, es)
    <3>1. /\ request' = [request EXCEPT ![r] = new]
          /\ page' = [page EXCEPT !.locked = @ \cup {e}]
          /\ kind # "bulk"
      BY <1>6, <2>2, <3>0 DEF ClickRow
    <3>8. /\ new \in RequestRow /\ new.state = state /\ new.kind = kind
          /\ new.listed = listed /\ new.targets = es /\ new # Idle
      BY NewRequestType
    <3> HIDE DEF new
    <3>2. /\ new \in RequestRow /\ new.state = "sent" /\ new.kind = kind
          /\ new.listed /\ new.targets = {e} /\ new # Idle
      BY <3>0, <3>8
    <3>3. request'[r] = new /\ \A p \in Requests : p # r => request'[p] = request[p]
      BY <3>1 DEF RowsInv, RequestsType
    <3>4. page'.locked = page.locked \cup {e} /\ PageType'
      <4>1. page.locked \cup {e} \in SUBSET Events
        BY LockedType DEF RowsInv
      <4> QED
        BY <3>1, <4>1, PageShape DEF RowsInv
    <3>5. RequestsType'
      BY <3>1, <3>2 DEF RowsInv, RequestsType
    <3>7. AskedIsListed'
      BY <3>2, <3>3 DEF RowsInv, AskedIsListed
    <3>6. NoDeadRow'
      <4> SUFFICES ASSUME NEW d \in page'.locked
                   PROVE  \E p \in Requests : Unlocks(request'[p], d)
        BY DEF NoDeadRow, Unlocks
      <4>1. CASE d = e
        BY <3>1, <3>2, <3>3, <4>1 DEF Unlocks
      <4>2. CASE d \in page.locked
        <5>1. PICK p \in Requests : Unlocks(request[p], d)
          BY <4>2 DEF RowsInv, NoDeadRow, Unlocks
        <5>2. p # r
          BY <1>2, <5>1 DEF Unlocks
        <5> QED
          BY <3>3, <5>1, <5>2
      <4> QED
        BY <3>4, <4>1, <4>2
    <3> QED
      BY <3>4, <3>5, <3>6, <3>7 DEF RowsInv
  <2> QED
    BY <2>1, <2>2
<1> QED
    BY <1>4, <1>5, <1>6

\* Confirming locks the rows it answers for; dismissing forgets nothing that
\* was awaited.
LEMMA DialogRows ==
    ASSUME RowsInv, EventType', NEW r \in Requests, Confirm(r) \/ Dismiss(r)
    PROVE  RowsInv'
<1>1. /\ request[r] \in RequestRow /\ request[r].state = "asked"
      /\ \A e \in Events : ~Unlocks(request[r], e)
    BY DEF Confirm, Dismiss, RowsInv, RequestsType, Idle, Unlocks
<1>2. CASE Dismiss(r)
  <2>1. request' = [request EXCEPT ![r] = Idle] /\ UNCHANGED page
    BY <1>2 DEF Dismiss
  <2>2. Idle.state # "asked"
    BY DEF Idle
  <2> QED
    BY <1>1, <2>1, <2>2, OneRequest
<1>3. CASE Confirm(r)
  <2> DEFINE sent == [request[r] EXCEPT !.state = "sent"]
             locked == IF request[r].kind = "bulk" THEN page.locked
                       ELSE page.locked \cup request[r].targets
  <2>1. request' = [request EXCEPT ![r] = sent] /\ UNCHANGED event
    BY <1>1, <1>3 DEF Confirm, RowsInv, RequestsType
  <2>2. /\ sent \in RequestRow /\ sent.state = "sent" /\ sent.listed = request[r].listed
        /\ sent.kind = request[r].kind /\ sent.targets = request[r].targets
    BY <1>1 DEF RequestRow
  <2>3. locked \in SUBSET Events
    BY <1>1, LockedType DEF RowsInv, RequestRow
  <2>4. page' = [page EXCEPT !.locked = locked]
    <3>1. \E f, s, l : page = [filter |-> f, shown |-> s, locked |-> l]
      BY DEF RowsInv, PageType
    <3> QED
      BY <1>3, <3>1 DEF Confirm
  <2>5. locked = page.locked
        \/ (request[r].kind # "bulk" /\ locked = page.locked \cup request[r].targets)
    OBVIOUS
  <2> HIDE DEF sent, locked
  <2>6. PageType' /\ page'.locked = locked
    BY <2>3, <2>4, PageShape DEF RowsInv
  <2>7. request'[r] = sent /\ \A p \in Requests : p # r => request'[p] = request[p]
    BY <2>1 DEF RowsInv, RequestsType
  <2>8. RequestsType'
    BY <2>1, <2>2 DEF RowsInv, RequestsType
  <2>9. sent # Idle
    BY <2>2 DEF Idle
  <2>10. NoDeadRow'
    <3> SUFFICES ASSUME NEW d \in locked
                 PROVE  \E p \in Requests : Unlocks(request'[p], d)
      BY <2>6 DEF NoDeadRow, Unlocks
    <3>1. CASE d \in page.locked
      <4>1. PICK p \in Requests : Unlocks(request[p], d)
        BY <3>1 DEF RowsInv, NoDeadRow, Unlocks
      <4>2. p # r
        BY <1>1, <2>3, <4>1 DEF Unlocks
      <4> QED
        BY <2>7, <4>1, <4>2
    <3>2. CASE d \notin page.locked
      <4>1. request[r].kind # "bulk" /\ d \in request[r].targets
        BY <2>5, <3>2
      <4>2. CASE request[r].listed
        BY <2>2, <2>7, <2>9, <4>1, <4>2 DEF Unlocks
      <4> QED
        BY <1>1, <4>2 DEF RowsInv, AskedIsListed
    <3> QED
      BY <3>1, <3>2
  <2>11. AskedIsListed'
    BY <2>2, <2>7 DEF RowsInv, AskedIsListed
  <2> QED
    BY <2>6, <2>8, <2>10, <2>11 DEF RowsInv
<1> QED
    BY <1>2, <1>3

\* An answer, read or lost, unlocks the row of its request and of no other;
\* a bulk request locked none.
LEMMA AnswerRows ==
    ASSUME RowsInv, EventType', NEW r \in Requests, Answer(r) \/ LoseAnswer(r)
    PROVE  RowsInv'
<1> DEFINE locked == Unlocked(request[r])
           shown == [e \in Events |-> Applies(request[r], e)]
<1>1. /\ request' = [request EXCEPT ![r] = Idle]
      /\ \/ page' = [page EXCEPT !.shown = shown, !.locked = locked]
         \/ page' = [page EXCEPT !.locked = locked]
    BY DEF Answer, LoseAnswer
<1>2. locked \subseteq page.locked /\ (request[r].kind = "bulk" \/ locked \cap request[r].targets = {})
    BY DEF Unlocked
<1>3. locked \in SUBSET Events
    BY <1>2, LockedType DEF RowsInv
<1> HIDE DEF locked, shown
<1>4. PageType' /\ page'.locked = locked
    BY <1>1, <1>3, PageShape DEF RowsInv
<1>5. /\ RequestsType' /\ request'[r] = Idle
      /\ \A p \in Requests : p # r => request'[p] = request[p]
    BY <1>1 DEF RowsInv, RequestsType
<1>6. Idle.state # "asked"
    BY DEF Idle
<1>7. AskedIsListed'
    BY <1>5, <1>6 DEF RowsInv, AskedIsListed
<1>8. NoDeadRow'
  <2> SUFFICES ASSUME NEW d \in locked
               PROVE  \E p \in Requests : Unlocks(request'[p], d)
    BY <1>4 DEF NoDeadRow, Unlocks
  <2>1. PICK p \in Requests : Unlocks(request[p], d)
    BY <1>2 DEF RowsInv, NoDeadRow, Unlocks
  <2>2. p # r
    BY <1>2, <2>1 DEF Unlocks
  <2> QED
    BY <1>5, <2>1, <2>2
<1> QED
    BY <1>4, <1>5, <1>7, <1>8 DEF RowsInv

\* Loading the list or coming back to it leaves no row locked.  The requests
\* it forgets may go on without it.
LEMMA PageRows ==
    ASSUME RowsInv, EventType',
           \/ \E filter \in {"all", "published", "draft", "unverified"} : OpenPage(filter)
           \/ Return
    PROVE  RowsInv'
<1>1. PageType' /\ page'.locked = {}
  <2>1. CASE Return
    <3>1. page' = [page EXCEPT !.locked = {}]
      BY <2>1 DEF Return, LockedOnReturn
    <3> QED
      BY <3>1, PageShape DEF RowsInv
  <2>2. ASSUME NEW filter \in {"all", "published", "draft", "unverified"}, OpenPage(filter)
        PROVE  PageType' /\ page'.locked = {}
    <3>1. PICK shown : shown = ShownIn(filter)
      OBVIOUS
    <3>2. page' = [filter |-> filter, shown |-> shown, locked |-> {}]
      BY <2>2, <3>1 DEF OpenPage
    <3> QED
      BY <3>2, PageShape DEF RowsInv
  <2> QED
    BY <2>1, <2>2
<1>2. \A r \in Requests :
        \/ request'[r] = Idle
        \/ request'[r] = request[r] /\ ~request[r].listed
        \/ /\ request[r] # Idle /\ ~(request[r].listed /\ request[r].state = "asked")
           /\ request'[r] = [request[r] EXCEPT !.listed = FALSE]
    BY DEF OpenPage, Return
<1>3. request' = [r \in Requests |-> request'[r]]
    BY DEF OpenPage, Return
<1>4. ASSUME NEW r \in Requests
      PROVE  /\ request'[r] \in RequestRow \cup {Idle}
             /\ request'[r].state # "asked"
  <2>1. CASE request'[r] = Idle
    BY <2>1 DEF Idle
  <2>2. CASE request'[r] = request[r] /\ ~request[r].listed
    BY <2>2 DEF RowsInv, RequestsType, AskedIsListed
  <2>3. CASE /\ request[r] # Idle /\ ~(request[r].listed /\ request[r].state = "asked")
             /\ request'[r] = [request[r] EXCEPT !.listed = FALSE]
    <3>1. request[r] \in RequestRow /\ request[r].state # "asked"
      BY <2>3 DEF RowsInv, RequestsType, AskedIsListed
    <3> QED
      BY <2>3, <3>1 DEF RequestRow
  <2> QED
    BY <1>2, <2>1, <2>2, <2>3
<1>5. RequestsType'
    BY <1>3, <1>4 DEF RequestsType
<1>6. AskedIsListed' /\ NoDeadRow'
    BY <1>1, <1>4 DEF AskedIsListed, NoDeadRow
<1> QED
    BY <1>1, <1>5, <1>6 DEF RowsInv

LEMMA SameRequests == RowsInv /\ EventType' /\ UNCHANGED <<request, page>> => RowsInv'
BY DEF RowsInv, RequestsType, PageType, AskedIsListed, NoDeadRow

LEMMA StepRows == ConsoleInv /\ RowsInv /\ [Next]_vars => RowsInv'
<1> SUFFICES ASSUME ConsoleInv, RowsInv, [Next]_vars PROVE RowsInv'
    OBVIOUS
<1>1. EventType'
    BY StepConsole DEF ConsoleInv, Types
<1>2. CASE UNCHANGED vars
    BY <1>1, <1>2, SameRequests DEF vars
<1>3. CASE \E e \in Events : Toggle(e) \/ Delete(e)
  <2>1. UNCHANGED <<request, page>>
    BY <1>3 DEF Toggle, Delete
  <2> QED
    BY <1>1, <2>1, SameRequests
<1>4. ASSUME NEW f \in Forms,
             \/ LockForm(f) \/ SaveForm(f) \/ Abandon(f)
             \/ \E e \in Events : OpenForm(f, e)
      PROVE  RowsInv'
  <2>1. UNCHANGED <<request, page>>
    BY <1>4 DEF LockForm, SaveForm, Abandon, OpenForm
  <2> QED
    BY <1>1, <2>1, SameRequests
<1>5. CASE (\E filter \in {"all", "published", "draft", "unverified"} : OpenPage(filter)) \/ Return
    BY <1>1, <1>5, PageRows
<1>6. ASSUME NEW r \in Requests,
             \/ Confirm(r) \/ Dismiss(r) \/ Answer(r) \/ LoseAnswer(r)
             \/ \E es \in SUBSET Events : ClickBulk(r, es)
      PROVE  RowsInv'
    BY <1>1, <1>6, DialogRows, AnswerRows, MadeRows
<1>7. ASSUME NEW r \in Requests, NEW e \in Events,
             \/ VerifyElsewhere(r, e) \/ ServeStatus(r, e) \/ LoadVerify(r, e)
             \/ SaveVerify(r, e) \/ Fail(r, e)
             \/ \E kind \in Kinds : ClickRow(r, kind, e)
      PROVE  RowsInv'
    BY <1>1, <1>7, ServeRows, MadeRows
<1> QED
    BY <1>2, <1>3, <1>4, <1>5, <1>6, <1>7 DEF Next

LEMMA InitRows == Init => RowsInv
<1> SUFFICES ASSUME Init PROVE RowsInv
    OBVIOUS
<1>1. EventType
    BY InitConsole DEF ConsoleInv, Types
<1>2. page = [filter |-> "all", shown |-> ShownIn("all"), locked |-> {}]
      /\ request = [r \in Requests |-> Idle]
    BY DEF Init
<1>3. PageType /\ NoDeadRow
  <2>1. PICK shown : shown = ShownIn("all")
    OBVIOUS
  <2>2. PICK filter : filter = "all"
    OBVIOUS
  <2>3. PICK locked \in SUBSET Events : locked = {}
    OBVIOUS
  <2>4. page = [filter |-> filter, shown |-> shown, locked |-> locked]
    BY <1>2, <2>1, <2>2, <2>3
  <2>5. PageType
    BY <2>3, <2>4 DEF PageType
  <2> QED
    BY <2>3, <2>4, <2>5 DEF NoDeadRow
<1>4. Idle.state # "asked"
    BY DEF Idle
<1>5. RequestsType /\ AskedIsListed
    BY <1>2, <1>4 DEF RequestsType, AskedIsListed
<1> QED
    BY <1>1, <1>3, <1>5 DEF RowsInv

\* However answers, lost answers, reloads and returns to a kept page follow one
\* another, a locked row has a request on its way that will unlock it.
THEOREM NoRowStaysDead == Spec => []NoDeadRow
<1>1. RowsInv => NoDeadRow
    BY DEF RowsInv
<1>2. ConsoleInv /\ RowsInv /\ [Next]_vars => ConsoleInv' /\ RowsInv'
    BY StepConsole, StepRows
<1> QED
    BY <1>1, <1>2, InitConsole, InitRows, PTL DEF Spec

-----------------------------------------------------------------------------
(***************************************************************************)
(* What the rows of the list show.                                         *)
(***************************************************************************)

\* A request that changed the status of an event, or found it changed, and
\* whose answer has still to tell the row so.
Waits(q, e) == q # Idle /\ q.listed /\ e \in q.ok /\ q.kind # "verify"
Wanted(q) == IF q.kind = "republish" THEN "published" ELSE "draft"

\* What is done or left of a request is among its targets, nothing is done
\* before it is confirmed; only a verification loads its event first, and only a
\* request of the list is answered.
Fits(q) ==
    q # Idle =>
        /\ q.ok \subseteq q.targets /\ q.left \subseteq q.targets
        /\ q.state = "asked" => q.ok = {}
        /\ q.state = "loaded" => q.kind = "verify"
        /\ q.state = "answered" => q.listed

RequestsFit == \A r \in Requests : Fits(request[r])

\* What an answer on its way will show is what the event has.
AnswersTrue ==
    \A r \in Requests, e \in Events \ excused :
        Waits(request[r], e) => event[e].status = Wanted(request[r])

Wrong(e) == page.shown[e] # "none" /\ page.shown[e] # event[e].status

\* A row that shows another status than its event has will be told.
WrongIsAwaited ==
    \A e \in Events \ excused : Wrong(e) => \E r \in Requests : Waits(request[r], e)

TellInv == RequestsFit /\ AnswersTrue /\ WrongIsAwaited

LEMMA TellsStatus == TellInv => RowTellsStatus
<1> SUFFICES ASSUME TellInv, NEW e \in Events \ excused, page.shown[e] # "none",
                    \A r \in Requests :
                        request[r] # Idle /\ request[r].listed /\ request[r].state # "asked"
                        => e \notin request[r].targets
             PROVE  page.shown[e] = event[e].status
    BY DEF RowTellsStatus
<1>1. \A r \in Requests : ~Waits(request[r], e)
    BY DEF TellInv, RequestsFit, Fits, Waits
<1> QED
    BY <1>1 DEF TellInv, WrongIsAwaited, Wrong

\* A step that touches no request: whose status it changes is excused.
LEMMA NoRequestTold ==
    ASSUME TellInv, UNCHANGED <<request, page>>, excused \subseteq excused',
           \A d \in Events \ excused' : event'[d].status = event[d].status
    PROVE  TellInv'
BY DEF TellInv, RequestsFit, Fits, AnswersTrue, WrongIsAwaited, Wrong, Waits, Wanted

\* A step that changes one request.  Where it changes a status its own answer
\* is the only one on its way; elsewhere no row becomes wrong, and no answer
\* that a wrong row waits for is forgotten.
LEMMA OneRequestTold ==
    ASSUME TellInv, RequestsType, NEW r \in Requests, NEW q \in RequestRow \cup {Idle},
           request' = [request EXCEPT ![r] = q], Fits(q), excused \subseteq excused',
           \A d \in Events \ excused' :
               /\ Waits(q, d) => event'[d].status = Wanted(q)
               /\ \/ /\ event'[d].status = event[d].status
                     /\ Wrong(d)' => Wrong(d) /\ (Waits(request[r], d) => Waits(q, d))
                  \/ /\ Waits(q, d)
                     /\ \A p \in Requests \ {r} : ~Waits(request[p], d)
    PROVE  TellInv'
<1>1. request'[r] = q /\ \A p \in Requests \ {r} : request'[p] = request[p]
    BY DEF RequestsType
<1>2. RequestsFit'
  <2>1. \A p \in Requests : Fits(request'[p])
    BY <1>1 DEF TellInv, RequestsFit
  <2> QED
    BY <2>1 DEF RequestsFit, Fits
<1>3. ASSUME NEW d \in Events \ excused', NEW p \in Requests, Waits(request'[p], d)
      PROVE  event'[d].status = Wanted(request'[p])
  <2>1. CASE p = r
    BY <1>1, <1>3, <2>1
  <2>2. CASE p # r
    <3>1. request'[p] = request[p] /\ Waits(request[p], d)
      BY <1>1, <1>3, <2>2
    <3>2. event'[d].status = event[d].status
      BY <2>2, <3>1
    <3> QED
      BY <3>1, <3>2 DEF TellInv, AnswersTrue
  <2> QED
    BY <2>1, <2>2
<1>4. AnswersTrue'
    BY <1>3 DEF AnswersTrue, Waits, Wanted
<1>5. ASSUME NEW d \in Events \ excused', Wrong(d)'
      PROVE  \E p \in Requests : Waits(request'[p], d)
  <2>1. CASE Waits(q, d)
    BY <1>1, <2>1
  <2>2. CASE ~Waits(q, d)
    <3>1. Wrong(d) /\ ~Waits(request[r], d)
      BY <1>5, <2>2
    <3>2. PICK p \in Requests : Waits(request[p], d)
      BY <3>1 DEF TellInv, WrongIsAwaited
    <3>3. p # r
      BY <3>1, <3>2
    <3> QED
      BY <1>1, <3>2, <3>3
  <2> QED
    BY <2>1, <2>2
<1>6. WrongIsAwaited'
    BY <1>5 DEF WrongIsAwaited, Waits
<1> QED
    BY <1>2, <1>4, <1>6 DEF TellInv

\* What serving one of its events leaves of a request: its answer tells what
\* the request has reached, unless nobody awaits it.
LEMMA ServedTells ==
    ASSUME RequestsType, NEW r \in Requests, NEW e \in Events, NEW item \in RequestRow,
           Fits(item), item.state # "asked", request' = After(r, Finished(item, e))
    PROVE  \E q \in RequestRow \cup {Idle} :
               /\ request' = [request EXCEPT ![r] = q]
               /\ Fits(q)
               /\ \A d \in Events : Waits(q, d) <=> Waits(item, d)
               /\ \A d \in Events : Waits(q, d) => Wanted(q) = Wanted(item)
<1> DEFINE left == item.left \ {e}
           state == IF left # {} THEN "sent" ELSE IF item.listed THEN "answered" ELSE "over"
           done == [item EXCEPT !.left = left, !.state = state]
<1>1. left \in SUBSET Events /\ left \subseteq item.left
    BY DEF RequestRow
<1>2. /\ state \in {"sent", "answered", "over"} /\ (item.listed => state # "over")
      /\ state = "answered" => item.listed
    OBVIOUS
<1>3. request' = [request EXCEPT ![r] = IF done.state = "over" THEN Idle ELSE done]
    BY DEF After, Finished
<1> HIDE DEF left, state
<1>4. /\ done.state = state /\ done.listed = item.listed /\ done.kind = item.kind
      /\ done.targets = item.targets /\ done.ok = item.ok /\ done.left = left
      /\ state # "over" => done \in RequestRow
    BY <1>1, <1>2 DEF RequestRow
<1> HIDE DEF done
<1>5. item # Idle /\ done # Idle
  <2>1. item.state # "idle" /\ done.state # "idle"
    BY <1>2, <1>4 DEF RequestRow
  <2> QED
    BY <2>1 DEF Idle
<1>6. CASE state = "over"
  <2>1. ~item.listed /\ request' = [request EXCEPT ![r] = Idle]
    BY <1>2, <1>3, <1>4, <1>6
  <2>2. \A d \in Events : ~Waits(Idle, d) /\ ~Waits(item, d)
    BY <2>1 DEF Waits
  <2>3. Fits(Idle)
    BY DEF Fits
  <2> QED
    BY <2>1, <2>2, <2>3
<1>7. CASE state # "over"
  <2>1. done \in RequestRow /\ request' = [request EXCEPT ![r] = done]
    BY <1>3, <1>4, <1>7
  <2>2. Fits(done)
    BY <1>1, <1>2, <1>4, <1>5 DEF Fits
  <2>3. \A d \in Events : /\ Waits(done, d) <=> Waits(item, d)
                          /\ Wanted(done) = Wanted(item)
    BY <1>4, <1>5 DEF Waits, Wanted
  <2> QED
    BY <2>1, <2>2, <2>3
<1> QED
    BY <1>6, <1>7
\* Serving an event without a change of its status, or of what the answer will
\* tell about a status.
LEMMA UntouchedTold ==
    ASSUME TellInv, RequestsType, NEW r \in Requests, NEW e \in Events,
           NEW item \in RequestRow, request[r] \in RequestRow, item.state # "asked",
           item.state = request[r].state,
           item.listed = request[r].listed, item.kind = request[r].kind,
           item.targets = request[r].targets, item.left = request[r].left,
           \/ item.ok = request[r].ok
           \/ /\ item.kind = "verify" /\ e \in item.targets
              /\ item.ok = request[r].ok \cup {e},
           request' = After(r, Finished(item, e)),
           UNCHANGED <<page, excused>>,
           \A d \in Events : event'[d].status = event[d].status
    PROVE  TellInv'
<1>1. item # Idle /\ request[r] # Idle
    BY DEF RequestRow, Idle
<1>2. Fits(item)
  <2>1. Fits(request[r])
    BY DEF TellInv, RequestsFit
  <2>2. /\ request[r].ok \subseteq item.targets /\ item.left \subseteq item.targets
        /\ item.state = "loaded" => item.kind = "verify"
        /\ item.state = "answered" => item.listed
    BY <1>1, <2>1 DEF Fits
  <2>3. item.ok \subseteq item.targets
    BY <2>2
  <2> QED
    BY <2>2, <2>3 DEF Fits
<1>3. PICK q \in RequestRow \cup {Idle} :
          /\ request' = [request EXCEPT ![r] = q] /\ Fits(q)
          /\ \A d \in Events : Waits(q, d) <=> Waits(item, d)
          /\ \A d \in Events : Waits(q, d) => Wanted(q) = Wanted(item)
    BY <1>2, ServedTells
<1>4. /\ Wanted(item) = Wanted(request[r])
      /\ \A d \in Events : Waits(request[r], d) <=> Waits(item, d)
    BY <1>1 DEF Waits, Wanted
<1>5. ASSUME NEW d \in Events \ excused'
      PROVE  /\ Waits(q, d) => event'[d].status = Wanted(q)
             /\ event'[d].status = event[d].status
             /\ Wrong(d)' => Wrong(d) /\ (Waits(request[r], d) => Waits(q, d))
    BY <1>3, <1>4 DEF TellInv, AnswersTrue, Wrong
<1>6. excused \subseteq excused'
    OBVIOUS
<1> QED
    BY <1>3, <1>5, <1>6, OneRequestTold

\* Serving an event of a request.  A change of its status is told by this very
\* request, or excused.
LEMMA ServeTold ==
    ASSUME TellInv, EventType, RequestsType, NEW r \in Requests, NEW e \in Events,
           ServeStatus(r, e)
    PROVE  TellInv'
<1>1. /\ request[r].state = "sent" /\ e \in request[r].left /\ request[r].kind # "verify"
      /\ UNCHANGED page
    BY DEF ServeStatus
<1>2. request[r] \in RequestRow /\ request[r] # Idle /\ Fits(request[r])
    BY <1>1 DEF RequestsType, Idle, TellInv, RequestsFit
<1>3. CASE /\ Exists(e) /\ request' = Good(r, e) /\ excused' = excused \cup Excuses(r, e)
           /\ Reaches(e, Wanted(request[r]))
  <2> DEFINE good == [request[r] EXCEPT !.ok = @ \cup {e}]
  <2>1. /\ good \in RequestRow /\ good.state = "sent" /\ good.listed = request[r].listed
        /\ good.kind = request[r].kind /\ good.targets = request[r].targets
        /\ good.ok = request[r].ok \cup {e} /\ good.left = request[r].left
    BY <1>1, <1>2 DEF RequestRow
  <2>2. PICK item \in RequestRow : item = good
    BY <2>1
  <2>3. request' = After(r, Finished(item, e))
    BY <1>3, <2>2 DEF Good
  <2> HIDE DEF good
  <2>4. item # Idle /\ item.state # "asked"
    BY <2>1, <2>2 DEF Idle
  <2>5. Fits(item)
    BY <1>1, <1>2, <2>1, <2>2 DEF Fits
  <2>6. PICK q \in RequestRow \cup {Idle} :
            /\ request' = [request EXCEPT ![r] = q] /\ Fits(q)
            /\ \A d \in Events : Waits(q, d) <=> Waits(item, d)
            /\ \A d \in Events : Waits(q, d) => Wanted(q) = Wanted(item)
    BY <2>3, <2>4, <2>5, ServedTells
  <2>7. /\ Wanted(item) = Wanted(request[r])
        /\ \A d \in Events : Waits(request[r], d) => Waits(item, d)
        /\ \A d \in Events : Waits(item, d) => d = e \/ Waits(request[r], d)
        /\ request[r].listed => Waits(item, e)
    BY <1>1, <1>2, <2>1, <2>2, <2>4 DEF Waits, Wanted
  <2>8. /\ event'[e].status = Wanted(request[r])
        /\ \A d \in Events \ {e} : event'[d] = event[d]
    BY <1>3 DEF Reaches, SetsStatus, EventType, EventRow
  <2>9. ASSUME NEW d \in Events \ excused'
        PROVE  /\ Waits(q, d) => event'[d].status = Wanted(q)
               /\ \/ /\ event'[d].status = event[d].status
                     /\ Wrong(d)' => Wrong(d) /\ (Waits(request[r], d) => Waits(q, d))
                  \/ /\ Waits(q, d)
                     /\ \A p \in Requests \ {r} : ~Waits(request[p], d)
    <3>1. d \notin excused
      BY <1>3
    <3>2. Waits(q, d) => event'[d].status = Wanted(q)
      BY <2>6, <2>7, <2>8, <3>1 DEF TellInv, AnswersTrue
    <3>3. CASE event'[d].status = event[d].status
      <4>1. Wrong(d)' => Wrong(d)
        BY <1>1, <3>3 DEF Wrong
      <4>2. Waits(request[r], d) => Waits(q, d)
        BY <2>6, <2>7
      <4> QED
        BY <3>2, <3>3, <4>1, <4>2
    <3>4. CASE event'[d].status # event[d].status
      <4>1. d = e
        BY <2>8, <3>4
      <4>2. request[r].listed /\ ~Overlapping(r, e)
        BY <1>3, <3>4, <4>1 DEF Excuses
      <4>3. Waits(q, d)
        BY <2>6, <2>7, <4>1, <4>2
      <4>4. \A p \in Requests \ {r} : ~Waits(request[p], d)
        BY <4>1, <4>2 DEF Overlapping, Waits, TellInv, RequestsFit, Fits
      <4> QED
        BY <3>2, <4>3, <4>4
    <3> QED
      BY <3>3, <3>4
  <2> QED
    BY <1>3, <2>6, <2>9, OneRequestTold
<1>4. CASE request' = Gone(r, e) /\ UNCHANGED <<event, log, excused>>
  <2> DEFINE gone == [request[r] EXCEPT !.gone = @ \cup {e}]
  <2>1. /\ gone \in RequestRow /\ gone.state = "sent" /\ gone.listed = request[r].listed
        /\ gone.kind = request[r].kind /\ gone.targets = request[r].targets
        /\ gone.ok = request[r].ok /\ gone.left = request[r].left
    BY <1>1, <1>2 DEF RequestRow
  <2>2. PICK item \in RequestRow : item = gone
    BY <2>1
  <2>3. request' = After(r, Finished(item, e))
    BY <1>4, <2>2 DEF Gone
  <2> HIDE DEF gone
  <2>4. item # Idle /\ item.state # "asked"
    BY <2>1, <2>2 DEF Idle
  <2> QED
    BY <1>1, <1>2, <1>4, <2>1, <2>2, <2>3, <2>4, UntouchedTold
<1> QED
    BY <1>3, <1>4 DEF ServeStatus, Wanted
\* A verification, and an event that could not be served: no status changes.
LEMMA VerifyTold ==
    ASSUME TellInv, EventType, RequestsType, NEW r \in Requests, NEW e \in Events,
           LoadVerify(r, e) \/ SaveVerify(r, e) \/ Fail(r, e)
    PROVE  TellInv'
<1>1. /\ request[r].state \in {"sent", "loaded"} /\ e \in request[r].left
      /\ UNCHANGED <<page, excused>>
    BY DEF LoadVerify, SaveVerify, Fail
<1>2. request[r] \in RequestRow /\ request[r] # Idle /\ Fits(request[r])
    BY <1>1 DEF RequestsType, Idle, TellInv, RequestsFit
<1>3. \A d \in Events : event'[d].status = event[d].status
    BY DEF LoadVerify, SaveVerify, Fail, SavesMark, EventType, EventRow
<1>4. CASE request' \in {Gone(r, e), Bad(r, e)}
  <2> DEFINE gone == [request[r] EXCEPT !.gone = @ \cup {e}]
  <2>1. /\ gone \in RequestRow /\ gone.state = request[r].state
        /\ gone.listed = request[r].listed /\ gone.kind = request[r].kind
        /\ gone.targets = request[r].targets
        /\ gone.ok = request[r].ok /\ gone.left = request[r].left
    BY <1>2 DEF RequestRow
  <2>2. PICK item \in RequestRow :
            item \in {gone, request[r]} /\ request' = After(r, Finished(item, e))
    BY <1>2, <1>4, <2>1 DEF Gone, Bad
  <2> HIDE DEF gone
  <2>3. /\ item.state # "asked" /\ item.state = request[r].state
        /\ item.listed = request[r].listed /\ item.kind = request[r].kind
        /\ item.targets = request[r].targets
        /\ item.ok = request[r].ok /\ item.left = request[r].left
    BY <1>1, <2>1, <2>2
  <2> QED
    BY <1>1, <1>2, <1>3, <2>2, <2>3, UntouchedTold
<1>5. CASE request' = Good(r, e) /\ request[r].kind = "verify"
  <2> DEFINE good == [request[r] EXCEPT !.ok = @ \cup {e}]
  <2>1. /\ good \in RequestRow /\ good.state = request[r].state
        /\ good.listed = request[r].listed /\ good.kind = request[r].kind
        /\ good.targets = request[r].targets
        /\ good.ok = request[r].ok \cup {e} /\ good.left = request[r].left
    BY <1>2 DEF RequestRow
  <2>2. PICK item \in RequestRow : item = good
    BY <2>1
  <2>3. request' = After(r, Finished(item, e))
    BY <1>5, <2>2 DEF Good
  <2> HIDE DEF good
  <2>4. /\ item.state # "asked" /\ item.state = request[r].state
        /\ item.listed = request[r].listed /\ item.kind = request[r].kind
        /\ item.targets = request[r].targets /\ item.left = request[r].left
        /\ item.kind = "verify" /\ item.ok = request[r].ok \cup {e}
    BY <1>1, <1>5, <2>1, <2>2
  <2>5. e \in item.targets
    BY <1>1, <1>2, <2>4 DEF Fits
  <2> QED
    BY <1>1, <1>2, <1>3, <2>3, <2>4, <2>5, UntouchedTold
<1>6. CASE LoadVerify(r, e) /\ Exists(e)
  <2> DEFINE loaded == [request[r] EXCEPT !.state = "loaded", !.row = event[e]]
  <2>1. request' = [request EXCEPT ![r] = loaded]
    BY <1>2, <1>6 DEF LoadVerify, RequestsType
  <2>2. event[e] \in EventRow
    BY DEF EventType
  <2>3. /\ loaded \in RequestRow /\ loaded.state = "loaded"
        /\ loaded.listed = request[r].listed /\ loaded.kind = request[r].kind
        /\ loaded.targets = request[r].targets
        /\ loaded.ok = request[r].ok /\ loaded.left = request[r].left
    BY <1>2, <2>2 DEF RequestRow
  <2>4. PICK q \in RequestRow : q = loaded
    BY <2>3
  <2> HIDE DEF loaded
  <2>5. q # Idle
    BY <2>3, <2>4 DEF Idle
  <2>9. excused \subseteq excused' /\ request[r].kind = "verify"
    BY <1>1, <1>6 DEF LoadVerify
  <2>6. Fits(q)
    BY <1>2, <2>9, <2>3, <2>4, <2>5 DEF Fits
  <2>7. /\ Wanted(q) = Wanted(request[r])
        /\ \A d \in Events : Waits(request[r], d) <=> Waits(q, d)
    BY <1>2, <2>3, <2>4, <2>5 DEF Waits, Wanted
  <2>8. ASSUME NEW d \in Events \ excused'
        PROVE  /\ Waits(q, d) => event'[d].status = Wanted(q)
               /\ event'[d].status = event[d].status
               /\ Wrong(d)' => Wrong(d) /\ (Waits(request[r], d) => Waits(q, d))
    BY <1>1, <1>3, <2>7 DEF TellInv, AnswersTrue, Wrong
  <2> QED
    BY <2>1, <2>4, <2>6, <2>8, <2>9, OneRequestTold
<1>7. CASE SaveVerify(r, e)
  <2>1. request[r].kind = "verify"
    BY <1>2, <1>7 DEF SaveVerify, Fits
  <2> QED
    BY <1>4, <1>5, <1>7, <2>1 DEF SaveVerify
<1> QED
    BY <1>4, <1>6, <1>7 DEF LoadVerify, Fail
\* A request that was not confirmed, or that just took a free slot, has told
\* nothing yet.
LEMMA NewToldNothing ==
    ASSUME TellInv, RequestsType, NEW r \in Requests, NEW q \in RequestRow \cup {Idle},
           request' = [request EXCEPT ![r] = q], q # Idle => q.ok = {} /\ q.left \subseteq q.targets,
           q.state \notin {"loaded", "answered"},
           \A d \in Events : ~Waits(request[r], d),
           UNCHANGED <<event, excused>>, page'.shown = page.shown
    PROVE  TellInv'
<1>1. Fits(q) /\ \A d \in Events : ~Waits(q, d)
    BY DEF Fits, Waits
<1>2. excused \subseteq excused'
    OBVIOUS
<1>3. ASSUME NEW d \in Events \ excused'
      PROVE  event'[d].status = event[d].status /\ (Wrong(d)' => Wrong(d))
    BY DEF Wrong
<1> QED
    BY <1>1, <1>2, <1>3, OneRequestTold

\* The page after its locks changed.
LEMMA LocksShape ==
    ASSUME PageType, NEW locked, page' = [page EXCEPT !.locked = locked]
    PROVE  page'.shown = page.shown /\ page'.filter = page.filter
BY DEF PageType

LEMMA MadeTold ==
    ASSUME TellInv, RequestsType, PageType, NEW r \in Requests,
           \/ \E es \in SUBSET Events : ClickBulk(r, es)
           \/ \E e \in Events : VerifyElsewhere(r, e)
           \/ \E e \in Events, kind \in Kinds : ClickRow(r, kind, e)
    PROVE  TellInv'
<1>1. request[r] = Idle /\ UNCHANGED <<event, excused>>
    BY DEF ClickBulk, VerifyElsewhere, ClickRow
<1>2. \A d \in Events : ~Waits(request[r], d)
    BY <1>1 DEF Waits
<1>3. page'.shown = page.shown
  <2>1. UNCHANGED page \/ \E e \in Events : page' = [page EXCEPT !.locked = @ \cup {e}]
    BY DEF ClickBulk, VerifyElsewhere, ClickRow
  <2> QED
    BY <2>1, LocksShape
<1> DEFINE Made(state, kind, listed, es) ==
               request' = [request EXCEPT ![r] = NewRequest(state, kind, listed, es)]
<1>4. PICK state \in {"asked", "sent"}, kind \in Kinds, listed \in BOOLEAN,
           es \in SUBSET Events : Made(state, kind, listed, es)
  <2>0. PICK yes \in BOOLEAN, no \in BOOLEAN : yes = TRUE /\ no = FALSE
    OBVIOUS
  <2>1. ASSUME NEW es \in SUBSET Events, ClickBulk(r, es)
        PROVE  Made("asked", "bulk", yes, es) /\ "bulk" \in Kinds
    BY <2>0, <2>1 DEF ClickBulk, Kinds
  <2>2. ASSUME NEW e \in Events, VerifyElsewhere(r, e)
        PROVE  Made("sent", "verify", no, {e}) /\ "verify" \in Kinds /\ {e} \in SUBSET Events
    BY <2>0, <2>2 DEF VerifyElsewhere, Kinds
  <2>3. ASSUME NEW e \in Events, NEW kind \in Kinds, ClickRow(r, kind, e)
        PROVE  /\ {e} \in SUBSET Events
               /\ Made("asked", kind, yes, {e}) \/ Made("sent", kind, yes, {e})
    BY <2>0, <2>3 DEF ClickRow
  <2> HIDE DEF Made
  <2> QED
    BY <2>1, <2>2, <2>3
<1> DEFINE new == NewRequest(state, kind, listed, es)
<1>5. new \in RequestRow /\ new.ok = {} /\ new.left = new.targets /\ new.state \notin {"loaded", "answered"}
    BY DEF NewRequest, RequestRow
<1> HIDE DEF new
<1>6. new # Idle => new.ok = {} /\ new.left \subseteq new.targets
    BY <1>5
<1>7. request' = [request EXCEPT ![r] = new]
    BY <1>4 DEF new
<1> QED
    BY <1>1, <1>2, <1>3, <1>5, <1>6, <1>7, NewToldNothing

LEMMA DialogTold ==
    ASSUME TellInv, RequestsType, PageType, NEW r \in Requests, Confirm(r) \/ Dismiss(r)
    PROVE  TellInv'
<1>1. /\ request[r] \in RequestRow /\ request[r] # Idle /\ request[r].state = "asked"
      /\ UNCHANGED <<event, excused>>
    BY DEF Confirm, Dismiss, RequestsType, Idle
<1>2. request[r].ok = {} /\ request[r].left \subseteq request[r].targets
    BY <1>1 DEF TellInv, RequestsFit, Fits
<1>3. \A d \in Events : ~Waits(request[r], d)
    BY <1>2 DEF Waits
<1>4. page'.shown = page.shown
  <2>1. UNCHANGED page \/ page' = [page EXCEPT !.locked = @ \cup request[r].targets]
    BY DEF Confirm, Dismiss
  <2> QED
    BY <2>1, LocksShape
<1>5. CASE Dismiss(r)
  <2>1. request' = [request EXCEPT ![r] = Idle]
    BY <1>5 DEF Dismiss
  <2>2. Idle.state \notin {"loaded", "answered"}
    BY DEF Idle
  <2> QED
    BY <1>1, <1>3, <1>4, <2>1, <2>2, NewToldNothing
<1>6. CASE Confirm(r)
  <2> DEFINE sent == [request[r] EXCEPT !.state = "sent"]
  <2>1. request' = [request EXCEPT ![r] = sent]
    BY <1>1, <1>6 DEF Confirm, RequestsType
  <2>2. /\ sent \in RequestRow /\ sent.state = "sent" /\ sent.ok = {}
        /\ sent.left \subseteq sent.targets
    BY <1>1, <1>2 DEF RequestRow
  <2>3. PICK q \in RequestRow : q = sent
    BY <2>2
  <2> HIDE DEF sent
  <2> QED
    BY <1>1, <1>3, <1>4, <2>1, <2>2, <2>3, NewToldNothing
<1> QED
    BY <1>5, <1>6

\* An answer shows what its request reached; a row whose event is gone is not
\* one that would have become wrong.
LEMMA AnswerTold ==
    ASSUME TellInv, RequestsType, PageType, NEW r \in Requests, Answer(r)
    PROVE  TellInv'
<1>1. /\ request[r] \in RequestRow /\ request[r] # Idle
      /\ request' = [request EXCEPT ![r] = Idle] /\ UNCHANGED <<event, excused>>
    BY DEF Answer, RequestsType, Idle
<1>2. \A d \in Events : page'.shown[d] = Applies(request[r], d)
  <2>1. PICK shown : shown = [e \in Events |-> Applies(request[r], e)]
    OBVIOUS
  <2>2. PICK locked : locked = Unlocked(request[r])
    OBVIOUS
  <2>3. page' = [page EXCEPT !.shown = shown, !.locked = locked]
    BY <2>1, <2>2 DEF Answer
  <2>4. page'.shown = shown
    BY <2>3 DEF PageType
  <2> QED
    BY <2>1, <2>4
<1>3. Fits(Idle) /\ \A d \in Events : ~Waits(Idle, d)
    BY DEF Fits, Waits
<1>4. ASSUME NEW d \in Events \ excused', Wrong(d)'
      PROVE  Wrong(d) /\ ~Waits(request[r], d)
  <2>1. Applies(request[r], d) # "none" /\ Applies(request[r], d) # event[d].status
    BY <1>1, <1>2, <1>4 DEF Wrong
  <2>2. CASE d \in request[r].ok /\ request[r].kind = "verify"
    <3>1. Applies(request[r], d) = page.shown[d]
      BY <2>1, <2>2 DEF Applies, ShowsNow
    <3> QED
      BY <2>1, <2>2, <3>1 DEF Wrong, Waits
  <2>3. CASE d \in request[r].ok /\ request[r].kind # "verify"
    <3>1. Applies(request[r], d) \in {"none", ShowsNow(request[r], d)}
      BY <2>3 DEF Applies
    <3>2. request[r].kind \in Kinds
      BY <1>1 DEF RequestRow
    <3>3. ShowsNow(request[r], d) \in {"none", Wanted(request[r])}
      BY <2>3, <3>2 DEF ShowsNow, Wanted, Kinds
    <3>4. request[r].state = "answered" /\ request[r].listed
      BY <1>1 DEF Answer, TellInv, RequestsFit, Fits
    <3>5. event[d].status = Wanted(request[r])
      BY <1>1, <2>3, <3>4 DEF TellInv, AnswersTrue, Waits
    <3> QED
      BY <2>1, <3>1, <3>3, <3>5
  <2>4. CASE d \notin request[r].ok
    <3>1. Applies(request[r], d) = page.shown[d]
      BY <2>1, <2>4 DEF Applies
    <3> QED
      BY <2>1, <2>4, <3>1 DEF Wrong, Waits
  <2> QED
    BY <2>2, <2>3, <2>4
<1>5. excused \subseteq excused' /\ \A d \in Events : event'[d].status = event[d].status
    BY <1>1
<1> QED
    BY <1>1, <1>3, <1>4, <1>5, OneRequestTold
\* An answer that is lost, or that the list no longer waits for, excuses what it
\* would have told; a list that is loaded shows what is there.
LEMMA LostTold ==
    ASSUME TellInv, RequestsType, PageType, NEW r \in Requests, LoseAnswer(r)
    PROVE  TellInv'
<1>1. /\ request[r] # Idle
      /\ request' = [request EXCEPT ![r] = Idle] /\ UNCHANGED event
      /\ excused' = excused \cup request[r].ok
    BY DEF LoseAnswer, RequestsType, Idle
<1>2. page'.shown = page.shown
    BY LocksShape DEF LoseAnswer
<1>3. Fits(Idle) /\ \A d \in Events : ~Waits(Idle, d)
    BY DEF Fits, Waits
<1>4. ASSUME NEW d \in Events \ excused'
      PROVE  /\ event'[d].status = event[d].status
             /\ Wrong(d)' => Wrong(d)
             /\ ~Waits(request[r], d)
    BY <1>1, <1>2 DEF Wrong, Waits
<1>5. excused \subseteq excused'
    BY <1>1
<1> QED
    BY <1>1, <1>3, <1>4, <1>5, OneRequestTold

\* No request is answered to the list after this.
LEMMA ForgottenFit ==
    ASSUME RequestsFit, RequestsType,
           \A r \in Requests :
               \/ request'[r] = Idle
               \/ request'[r] = request[r] /\ ~request[r].listed
               \/ /\ request[r] # Idle
                  /\ ~(request[r].listed /\ request[r].state \in {"asked", "answered"})
                  /\ request'[r] = [request[r] EXCEPT !.listed = FALSE]
    PROVE  RequestsFit' /\ \A r \in Requests, d \in Events : ~Waits(request'[r], d)
<1>1. ASSUME NEW r \in Requests
      PROVE  Fits(request'[r]) /\ \A d \in Events : ~Waits(request'[r], d)
  <2>1. CASE request'[r] = Idle
    BY <2>1 DEF Fits, Waits
  <2>2. CASE request'[r] = request[r] /\ ~request[r].listed
    BY <2>2 DEF RequestsFit, Waits
  <2>3. CASE /\ request[r] # Idle
             /\ ~(request[r].listed /\ request[r].state \in {"asked", "answered"})
             /\ request'[r] = [request[r] EXCEPT !.listed = FALSE]
    <3>1. request[r] \in RequestRow /\ Fits(request[r])
      BY <2>3 DEF RequestsType, RequestsFit
    <3>2. request[r].state # "answered"
      BY <2>3, <3>1 DEF Fits
    <3>3. /\ ~request'[r].listed /\ request'[r].ok = request[r].ok
          /\ request'[r].left = request[r].left /\ request'[r].targets = request[r].targets
          /\ request'[r].state = request[r].state /\ request'[r].kind = request[r].kind
      BY <2>3, <3>1 DEF RequestRow
    <3> QED
      BY <2>3, <3>1, <3>2, <3>3 DEF Fits, Waits
  <2> QED
    BY <2>1, <2>2, <2>3
<1> QED
    BY <1>1 DEF RequestsFit, Fits

LEMMA PageTold ==
    ASSUME TellInv, RequestsType, PageType,
           \/ \E filter \in {"all", "published", "draft", "unverified"} : OpenPage(filter)
           \/ Return
    PROVE  TellInv'
<1>1. RequestsFit' /\ \A r \in Requests, d \in Events : ~Waits(request'[r], d)
  <2>1. \A r \in Requests :
            \/ request'[r] = Idle
            \/ request'[r] = request[r] /\ ~request[r].listed
            \/ /\ request[r] # Idle
               /\ ~(request[r].listed /\ request[r].state \in {"asked", "answered"})
               /\ request'[r] = [request[r] EXCEPT !.listed = FALSE]
    BY DEF OpenPage, Return
  <2> QED
    BY <2>1, ForgottenFit DEF TellInv
<1>2. AnswersTrue'
    BY <1>1 DEF AnswersTrue, Waits
<1>3. ASSUME NEW d \in Events \ excused' PROVE ~Wrong(d)'
  <2>1. ASSUME NEW filter \in {"all", "published", "draft", "unverified"}, OpenPage(filter)
        PROVE  ~Wrong(d)'
    <3>1. page'.shown[d] \in {"none", event[d].status}
      BY <2>1 DEF OpenPage, ShownIn
    <3>2. UNCHANGED event
      BY <2>1 DEF OpenPage
    <3> QED
      BY <3>1, <3>2 DEF Wrong
  <2>2. CASE Return
    <3>1. page'.shown = page.shown /\ UNCHANGED event
      BY <2>2, LocksShape DEF Return
    <3>2. d \notin excused /\ \A r \in Requests : ~Waits(request[r], d)
      BY <2>2 DEF Return, Waits
    <3>3. ~Wrong(d)
      BY <3>2 DEF TellInv, WrongIsAwaited
    <3> QED
      BY <3>1, <3>3 DEF Wrong
  <2> QED
    BY <2>1, <2>2
<1>4. WrongIsAwaited'
    BY <1>3 DEF WrongIsAwaited
<1> QED
    BY <1>1, <1>2, <1>4 DEF TellInv

\* Changes of other staff are excused; a form that saves keeps the status of an
\* event that was there.
LEMMA OthersTold ==
    ASSUME TellInv, EventType, FormType,
           \/ \E e \in Events : Toggle(e) \/ Delete(e)
           \/ \E f \in Forms : \/ LockForm(f) \/ SaveForm(f) \/ Abandon(f)
                               \/ \E e \in Events : OpenForm(f, e)
           \/ UNCHANGED vars
    PROVE  TellInv'
<1>1. CASE UNCHANGED <<event, request, page, excused>>
    BY <1>1, NoRequestTold
<1>2. ASSUME NEW e \in Events, Toggle(e) \/ Delete(e) PROVE TellInv'
  <2>1. /\ UNCHANGED <<request, page>> /\ excused' = excused \cup {e}
        /\ \A d \in Events : d # e => event'[d] = event[d]
    BY <1>2 DEF Toggle, Delete, SetsStatus, EventType
  <2> QED
    BY <2>1, NoRequestTold
<1>3. ASSUME NEW f \in Forms, SaveForm(f), ~Collides(f) PROVE TellInv'
  <2>1. PICK e \in Events : e = form[f].event
    BY <1>3 DEF SaveForm, FormType, FormRow, Idle
  <2>2. /\ UNCHANGED <<request, page>>
        /\ event' = [event EXCEPT ![e] = Written(f)]
        /\ excused' = IF form[f].new THEN excused \cup {e} ELSE excused
    BY <1>3, <2>1 DEF SaveForm
  <2>3. \A d \in Events : d # e => event'[d] = event[d]
    BY <2>2 DEF EventType
  <2>4. ~form[f].new => event'[e].status = event[e].status
    BY <2>1, <2>2 DEF EventType, EventRow, Written
  <2> QED
    BY <2>2, <2>3, <2>4, NoRequestTold
<1>4. ASSUME NEW f \in Forms,
             \/ LockForm(f) \/ Abandon(f) \/ (SaveForm(f) /\ Collides(f))
             \/ \E e \in Events : OpenForm(f, e)
      PROVE  UNCHANGED <<event, request, page, excused>>
    BY <1>4 DEF LockForm, Abandon, SaveForm, OpenForm
<1>5. CASE UNCHANGED vars
    BY <1>1, <1>5 DEF vars
<1> QED
    BY <1>1, <1>2, <1>3, <1>4, <1>5

LEMMA StepTold == ConsoleInv /\ RowsInv /\ TellInv /\ [Next]_vars => TellInv'
<1> SUFFICES ASSUME ConsoleInv, RowsInv, TellInv, [Next]_vars PROVE TellInv'
    OBVIOUS
<1>1. EventType /\ FormType /\ RequestsType /\ PageType
    BY DEF ConsoleInv, Types, RowsInv
<1>2. CASE \/ UNCHANGED vars
           \/ \E e \in Events : Toggle(e) \/ Delete(e)
           \/ \E f \in Forms : \/ LockForm(f) \/ SaveForm(f) \/ Abandon(f)
                               \/ \E e \in Events : OpenForm(f, e)
    BY <1>1, <1>2, OthersTold
<1>3. CASE (\E filter \in {"all", "published", "draft", "unverified"} : OpenPage(filter)) \/ Return
    BY <1>1, <1>3, PageTold
<1>4. ASSUME NEW r \in Requests,
             \/ Confirm(r) \/ Dismiss(r) \/ Answer(r) \/ LoseAnswer(r)
             \/ \E es \in SUBSET Events : ClickBulk(r, es)
      PROVE  TellInv'
    BY <1>1, <1>4, DialogTold, AnswerTold, LostTold, MadeTold
<1>5. ASSUME NEW r \in Requests, NEW e \in Events,
             \/ VerifyElsewhere(r, e) \/ ServeStatus(r, e) \/ LoadVerify(r, e)
             \/ SaveVerify(r, e) \/ Fail(r, e)
             \/ \E kind \in Kinds : ClickRow(r, kind, e)
      PROVE  TellInv'
    BY <1>1, <1>5, ServeTold, VerifyTold, MadeTold
<1> QED
    BY <1>2, <1>3, <1>4, <1>5 DEF Next

LEMMA InitTold == Init => TellInv
<1> SUFFICES ASSUME Init PROVE TellInv
    OBVIOUS
<1>1. page.shown = ShownIn("all") /\ \A r \in Requests : request[r] = Idle
    BY DEF Init
<1>2. \A d \in Events : ~Wrong(d)
    BY <1>1 DEF Wrong, ShownIn
<1>3. \A d \in Events : ~Waits(Idle, d)
    BY DEF Waits
<1> QED
    BY <1>1, <1>2, <1>3 DEF TellInv, RequestsFit, Fits, AnswersTrue, WrongIsAwaited

\* Whatever answers overlap, get lost or come back to a list that was loaded
\* since: a row that shows another status than its event has waits for an
\* answer, or was changed by others, or an answer about it was lost.
THEOREM RowsTellStatus == Spec => []RowTellsStatus
<1>1. ConsoleInv /\ RowsInv /\ TellInv /\ [Next]_vars => ConsoleInv' /\ RowsInv' /\ TellInv'
    BY StepConsole, StepRows, StepTold
<1> QED
    BY <1>1, InitConsole, InitRows, InitTold, TellsStatus, PTL DEF Spec

\* The rows of the list neither claim what did not happen nor stop working
\* (static/js/staff/event_row_actions.js, event_bulk.js).
THEOREM ListIsSafe == Spec => []ListSafe
<1>1. RowTellsStatus /\ NoDeadRow => ListSafe
    BY DEF ListSafe
<1> QED
    BY <1>1, RowsTellStatus, NoRowStaysDead, PTL

================================================================================
