--------------------------- MODULE VisitCompletion ---------------------------
(***************************************************************************)
(* One user's status rows, visit records and activity log                  *)
(* (archive/services.py, archive/views.py).  Requests run concurrently on  *)
(* PostgreSQL at READ COMMITTED: every statement of a request that can see *)
(* the effect of another transaction is a step of its own, and what a      *)
(* transaction does between taking the lock of a status row (or inserting  *)
(* it) and its commit is one step, because nobody else can see or change   *)
(* the row in between.                                                     *)
(*                                                                         *)
(* A request without a client_token is a request with a token that is      *)
(* never used again.  Only the subject, the status and the token of a row  *)
(* matter here: dates, reviews, photos and analytics are left out.         *)
(***************************************************************************)
EXTENDS Integers, Sequences

CONSTANTS
    VisitSubjects,    \* events and personal entries
    Tokens,      \* client tokens
    Requests,    \* requests in progress at the same time
    Operations,  \* the operations clients use: a subset of RequestKinds
    MaxRequests  \* bound: requests ever made

RequestKinds == {"complete", "create", "patch", "remove", "erase"}

ASSUME VisitAssumption ==
    /\ Operations \subseteq RequestKinds
    /\ MaxRequests \in Nat

VARIABLES
    row,       \* subject -> its UserEventStatus, or NoRow
    records,   \* VisitRecord rows
    activity,  \* subject -> its status_changed and status_removed entries
    logged,    \* operation keys of the visit_record_created entries
    request,   \* requests in progress
    made,      \* requests made so far
    trouble    \* how completions failed: "conflict" (409), "error" (500)

\* History that no request reads.
VARIABLES
    overtaken, \* requests past their check when a record of their subject was saved
    gaps       \* subject -> lengths of its log at which a request wrote to a row
               \* that was not the row it had loaded any more

vars == <<row, records, activity, logged, request, made, trouble, overtaken, gaps>>

RowStatuses == {"planned", "visited", "missed"}
NoRow == [id |-> 0, status |-> "none"]
Rows == [id : 1..MaxRequests, status : RowStatuses] \cup {NoRow}
Free == [op |-> "none"]
NoToken == "none"

Phases == {"start", "absent", "lost", "second", "loaded", "checked"}
RequestType ==
    [number : 1..MaxRequests, op : RequestKinds, phase : Phases, subject : VisitSubjects,
     token : Tokens \cup {NoToken}, target : RowStatuses \cup {"none"}, seen : Rows]

TypeOK ==
    /\ row \in [VisitSubjects -> Rows]
    /\ records \in SUBSET [token : Tokens, subject : VisitSubjects]
    /\ activity \in [VisitSubjects -> Seq([from : RowStatuses \cup {"none"},
                                      to : RowStatuses \cup {"none"}])]
    /\ logged \in SUBSET Tokens
    /\ request \in [Requests -> RequestType \cup {Free}]
    /\ made \in 0..MaxRequests
    /\ trouble \in SUBSET {"conflict", "error"}
    /\ overtaken \in SUBSET Requests
    /\ gaps \in [VisitSubjects -> SUBSET Nat]

Init ==
    /\ row = [s \in VisitSubjects |-> NoRow]
    /\ records = {}
    /\ activity = [s \in VisitSubjects |-> << >>]
    /\ logged = {}
    /\ request = [q \in Requests |-> Free]
    /\ made = 0
    /\ trouble = {}
    /\ overtaken = {}
    /\ gaps = [s \in VisitSubjects |-> {}]

-----------------------------------------------------------------------------
\* Requests.

Arrive(q, op, subject, token, target) ==
    /\ request[q] = Free
    /\ made < MaxRequests
    /\ op \in Operations
    /\ made' = made + 1
    /\ request' = [request EXCEPT ![q] =
           [number |-> made + 1, op |-> op, phase |-> "start", subject |-> subject, token |-> token,
            target |-> target, seen |-> NoRow]]
    /\ UNCHANGED <<row, records, activity, logged, trouble, overtaken, gaps>>

ArriveAny(q) ==
    \E s \in VisitSubjects :
        \/ \E k \in Tokens : Arrive(q, "complete", s, k, "visited")
        \/ \E t \in RowStatuses : Arrive(q, "create", s, NoToken, t)
        \/ \E t \in RowStatuses : Arrive(q, "patch", s, NoToken, t)
        \/ Arrive(q, "remove", s, NoToken, "none")
        \/ Arrive(q, "erase", s, NoToken, "none")

At(q, op, phase) == request[q] # Free /\ request[q].op = op /\ request[q].phase = phase
Goes(q, phase) == request' = [request EXCEPT ![q].phase = phase]
Ends(q) == request' = [request EXCEPT ![q] = Free]
Subject(q) == request[q].subject
RowOf(q) == row[Subject(q)]

HasRecord(s) == \E r \in records : r.subject = s

\* _record_activity of a status change
Logged(s, old, new) == [activity EXCEPT ![s] = Append(@, [from |-> old, to |-> new])]

-----------------------------------------------------------------------------
\* complete_visit_with_record: one transaction.

\* mutant: a row that exists is taken for a visited one
BecomesVisitedIfNew(s, id) ==
    IF row[s] # NoRow THEN UNCHANGED <<row, activity>>
    ELSE /\ row' = [row EXCEPT ![s] = [id |-> id, status |-> "visited"]]
         /\ activity' = Logged(s, "none", "visited")

\* mutant: the row is marked visited and logged again whatever it was
BecomesVisitedAlways(s, id) ==
    /\ row' = [row EXCEPT ![s] = [id |-> id, status |-> "visited"]]
    /\ activity' = Logged(s, row[s].status, "visited")

\* the row is created, or mark_visited under its lock; a row that is visited
\* already is left alone
BecomesVisited(s, id) ==
    IF row[s].status = "visited" THEN UNCHANGED <<row, activity>>
    ELSE /\ row' = [row EXCEPT ![s] = [id |-> id, status |-> "visited"]]
         /\ activity' = Logged(s, row[s].status, "visited")

\* the requests past the VisitRecordExistsError rule that a record of s comes
\* too late for
Overtaken(s) ==
    {p \in Requests : request[p] # Free /\ request[p].phase = "checked"
                      /\ request[p].subject = s /\ request[p].target # "visited"}

\* create_visit_record in its savepoint, and the commit: a token that is taken
\* is answered with its record.  The log entry of a record outlives it: a token
\* whose record is gone violates the unique operation key, the record is not
\* found afterwards, and the request fails as a whole.
SaveRecord(q, id) ==
    LET s == Subject(q)
        k == request[q].token
    IN  \/ /\ \E r \in records : r.token = k
           /\ BecomesVisited(s, id)
           /\ UNCHANGED <<records, logged, trouble, overtaken>>
        \/ /\ k \notin logged
           /\ BecomesVisited(s, id)
           /\ records' = records \cup {[token |-> k, subject |-> s]}
           /\ logged' = logged \cup {k}
           /\ overtaken' = overtaken \cup Overtaken(s)
           /\ UNCHANGED trouble
        \/ /\ k \in logged
           /\ \A r \in records : r.token # k
           /\ trouble' = trouble \cup {"error"}
           /\ UNCHANGED <<row, records, activity, logged, overtaken>>

\* a request inserts one row at most, so that its number serves as the row's id
FreshId(q) == request[q].number

\* the first look, with a row lock
CompleteLook(q) ==
    /\ At(q, "complete", "start")
    /\ \/ /\ RowOf(q) = NoRow
          /\ Goes(q, "absent")
          /\ UNCHANGED <<row, records, activity, logged, trouble, overtaken>>
       \/ /\ RowOf(q) # NoRow
          /\ SaveRecord(q, RowOf(q).id)
          /\ Ends(q)
    /\ UNCHANGED <<made, gaps>>

\* mutant: the loser of the insertion gives up
GivesUpAtOnce == "second"

\* where the loser of the insertion goes on
AfterLoss == "lost"

\* the first insertion; another request may have been faster
CompleteInsert(q) ==
    /\ At(q, "complete", "absent")
    /\ \/ /\ RowOf(q) = NoRow
          /\ SaveRecord(q, FreshId(q))
          /\ Ends(q)
       \/ /\ RowOf(q) # NoRow
          /\ Goes(q, AfterLoss)
          /\ UNCHANGED <<row, records, activity, logged, trouble, overtaken>>
    /\ UNCHANGED <<made, gaps>>

\* the second look, after the lost insertion
CompleteLookAgain(q) ==
    /\ At(q, "complete", "lost")
    /\ \/ /\ RowOf(q) = NoRow
          /\ Goes(q, "second")
          /\ UNCHANGED <<row, records, activity, logged, trouble, overtaken>>
       \/ /\ RowOf(q) # NoRow
          /\ SaveRecord(q, RowOf(q).id)
          /\ Ends(q)
    /\ UNCHANGED <<made, gaps>>

\* the second and last insertion; losing it again is a 409
CompleteInsertAgain(q) ==
    /\ At(q, "complete", "second")
    /\ \/ /\ RowOf(q) = NoRow
          /\ SaveRecord(q, FreshId(q))
       \/ /\ RowOf(q) # NoRow
          /\ trouble' = trouble \cup {"conflict"}
          /\ UNCHANGED <<row, records, activity, logged, overtaken>>
    /\ Ends(q)
    /\ UNCHANGED <<made, gaps>>

-----------------------------------------------------------------------------
\* create_user_event_status as a request of its own.

\* the VisitRecordExistsError rule
StatusFits(s, target) == target = "visited" \/ ~HasRecord(s)

\* the checks: no row yet (409), no contradiction to a record (400)
CreateChecks(q) ==
    /\ At(q, "create", "start")
    /\ IF RowOf(q) = NoRow /\ StatusFits(Subject(q), request[q].target)
       THEN Goes(q, "checked")
       ELSE Ends(q)
    /\ UNCHANGED <<row, records, activity, logged, made, trouble, overtaken, gaps>>

\* the insertion; a row that came in between violates the unique constraint (409)
CreateInserts(q) ==
    LET s == Subject(q)
    IN  /\ At(q, "create", "checked")
        /\ IF row[s] = NoRow
           THEN /\ row' = [row EXCEPT ![s] = [id |-> FreshId(q), status |-> request[q].target]]
                /\ activity' = Logged(s, "none", request[q].target)
           ELSE UNCHANGED <<row, activity>>
        /\ Ends(q)
        /\ overtaken' = overtaken \ {q}
        /\ UNCHANGED <<records, logged, made, trouble, gaps>>

-----------------------------------------------------------------------------
\* PATCH of a status: mark_visited, mark_missed, revert_to_planned.  Nothing is
\* locked between the three steps, and a completion may come in between.

\* history: the row is not the one that was loaded when the request writes
LeavesGaps(q, lengths) ==
    gaps' = IF RowOf(q) = request[q].seen THEN gaps
            ELSE [gaps EXCEPT ![Subject(q)] = @ \cup lengths]

\* get_object; a subject without a row is a 404
PatchLoads(q) ==
    /\ At(q, "patch", "start")
    /\ IF RowOf(q) = NoRow THEN Ends(q)
       ELSE request' = [request EXCEPT ![q].phase = "loaded", ![q].seen = RowOf(q)]
    /\ UNCHANGED <<row, records, activity, logged, made, trouble, overtaken, gaps>>

\* _has_visit_record, which mark_visited does not ask
PatchChecks(q) ==
    /\ At(q, "patch", "loaded")
    /\ IF StatusFits(Subject(q), request[q].target) THEN Goes(q, "checked") ELSE Ends(q)
    /\ UNCHANGED <<row, records, activity, logged, made, trouble, overtaken, gaps>>

\* the update by primary key and the log entry, which compares with the status
\* that was loaded; a row that is gone makes save(update_fields=...) fail
PatchSaves(q) ==
    LET s == Subject(q)
        old == request[q].seen
        new == request[q].target
    IN  /\ At(q, "patch", "checked")
        /\ \/ /\ row[s].id = old.id
              /\ row' = [row EXCEPT ![s].status = new]
              /\ activity' = IF old.status = new THEN activity ELSE Logged(s, old.status, new)
              /\ LeavesGaps(q, {Len(activity[s])})
           \/ /\ row[s].id # old.id
              /\ UNCHANGED <<row, activity, gaps>>
        /\ Ends(q)
        /\ overtaken' = overtaken \ {q}
        /\ UNCHANGED <<records, logged, made, trouble>>

-----------------------------------------------------------------------------
\* Deleting a status row or a record.

RemoveLoads(q) ==
    /\ At(q, "remove", "start")
    /\ IF RowOf(q) = NoRow THEN Ends(q)
       ELSE request' = [request EXCEPT ![q].phase = "loaded", ![q].seen = RowOf(q)]
    /\ UNCHANGED <<row, records, activity, logged, made, trouble, overtaken, gaps>>

\* remove_user_event_status: the entry is written even if the row is gone
RemoveDeletes(q) ==
    LET s == Subject(q)
        old == request[q].seen
    IN  /\ At(q, "remove", "loaded")
        /\ row' = IF row[s].id = old.id THEN [row EXCEPT ![s] = NoRow] ELSE row
        /\ activity' = Logged(s, old.status, "none")
        /\ LeavesGaps(q, {Len(activity[s])} \cup
               IF row[s].id \in {0, old.id} THEN {} ELSE {Len(activity[s]) + 1})
        /\ Ends(q)
        /\ UNCHANGED <<records, logged, made, trouble, overtaken>>

\* DELETE of a visit record; its log entry keeps the operation key
EraseRecord(q) ==
    /\ At(q, "erase", "start")
    /\ \/ \E r \in records : r.subject = Subject(q) /\ records' = records \ {r}
       \/ ~HasRecord(Subject(q)) /\ UNCHANGED records
    /\ Ends(q)
    /\ UNCHANGED <<row, activity, logged, made, trouble, overtaken, gaps>>

Complete(q) ==
    CompleteLook(q) \/ CompleteInsert(q) \/ CompleteLookAgain(q) \/ CompleteInsertAgain(q)
Create(q) == CreateChecks(q) \/ CreateInserts(q)
Patch(q) == PatchLoads(q) \/ PatchChecks(q) \/ PatchSaves(q)
Remove(q) == RemoveLoads(q) \/ RemoveDeletes(q)

Next ==
    \E q \in Requests :
        ArriveAny(q) \/ Complete(q) \/ Create(q) \/ Patch(q) \/ Remove(q) \/ EraseRecord(q)

Spec == Init /\ [][Next]_vars

-----------------------------------------------------------------------------
(***************************************************************************)
(* Properties.                                                             *)
(***************************************************************************)

Contradicted(s) == HasRecord(s) /\ row[s].status \in {"planned", "missed"}

\* What the docstring of complete_visit_with_record says: a visit record never
\* stands next to a status row that says something else than visited.
RecordsNeverContradicted == \A s \in VisitSubjects : ~Contradicted(s)

\* What the code does about it.  Only a PATCH or a creation that was past its
\* check when a record of the subject was saved ever sets a status against the
\* record, and each record that is saved brings the status back to visited.
RecordMeansVisited ==
    [][\A s \in VisitSubjects :
           Contradicted(s)' =>
               /\ \/ Contradicted(s)
                  \/ \E q \in overtaken : Subject(q) = s /\ request'[q] = Free
               /\ \A r \in records' \ records : r.subject # s]_vars

\* The activity calendar tells the history of a subject: each entry starts where
\* the one before ended and the last one ends in the status the row has, so no
\* transition is missing, doubled or invented, however completions, creations,
\* patches and removals interleave.  The one exception is a patch or a removal
\* that writes although the row is not the one it loaded any more: what it
\* writes does not follow from the entry before, and the log is right again from
\* the next entry on.
ActivityTellsHistory ==
    \A s \in VisitSubjects :
        LET log == activity[s]
            EndOf(i) == IF i = 0 THEN "none" ELSE log[i].to
        IN  /\ \A i \in 1..Len(log) :
                   /\ log[i].from # log[i].to
                   /\ i - 1 \notin gaps[s] => log[i].from = EndOf(i - 1)
            /\ Len(log) \notin gaps[s] => row[s].status = EndOf(Len(log))

\* Completing a visit ends in a 409 only if the status was removed meanwhile:
\* whoever loses the insertion of the row finds the winner's row at the second
\* look, so other completions and creations alone never make it fail.
CompletionsSucceed ==
    "conflict" \in trouble =>
        \E s \in VisitSubjects : \E i \in 1..Len(activity[s]) : activity[s][i].to = "none"

\* What the docstring of create_visit_record says: a client token that is sent
\* again is answered as already created.
ResendsAreAnswered == "error" \notin trouble
=============================================================================
