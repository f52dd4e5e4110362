------------------------------ MODULE ArchiveRows ------------------------------
(***************************************************************************)
(* The archive of one user as its pages and its calendar read it: statuses, *)
(* interests, visit records, collection items and the activity log          *)
(* (archive/services.py, archive/views.py, archive/models.py), with the      *)
(* events and private places they are about. ArchivePages and               *)
(* ActivityCalendar add what is shown.                                      *)
(*                                                                         *)
(* A request is one step, but for the one that sets a status: it looks for   *)
(* records in one step and writes in another, and whatever else happens may *)
(* come in between. Bound: one such request at a time; how two of them and  *)
(* the other requests of one user interleave is the matter of               *)
(* VisitCompletion, CollectionItems and PersonalEntries. Tables are sets of *)
(* rows with ids, links that may be null are sets with at most one member,  *)
(* and days are counted from 0.                                             *)
(***************************************************************************)
EXTENDS Integers, FiniteSets, Sequences

CONSTANTS
    Events,
    Places,         \* private places, the personal entries of the user
    EventShapes,    \* what the staff may save of an event
    ItemShapes,     \* what the user may send of an item
    LastDay,        \* bound: the last day
    MaxVisits,      \* bound: visit records ever made
    MaxItems,       \* bound: items ever made
    MaxEntries      \* bound: entries of the activity log

Days == 0..LastDay
NoDay == -1
Subjects == Events \cup Places

\* The period is checked wherever an event is saved; quantities are what a
\* request says, the service has yet to look at them.
ASSUME RowsAssumption ==
    /\ {LastDay, MaxVisits, MaxItems, MaxEntries} \subseteq Nat
    /\ IsFiniteSet(Events) /\ IsFiniteSet(Places) /\ Events \cap Places = {}
    /\ \A s \in EventShapes :
        /\ s.shown \in BOOLEAN
        /\ s.start \in Days \cup {NoDay} /\ s.end \in Days \cup {NoDay}
        /\ s.start # NoDay /\ s.end # NoDay => s.start <= s.end
    /\ \A s \in ItemShapes :
        /\ s.quantity \in Int /\ s.trade \in Int
        /\ s.wanted \in BOOLEAN /\ s.hit \in BOOLEAN
        /\ s.acquired \in Days \cup {NoDay}

VARIABLES
    today,
    there,          \* the subjects that exist
    event,          \* what is saved of every event
    named,          \* subjects whose title holds the searched term
    status,         \* the status row of every subject
    overridden,     \* subjects whose row may not become missed by itself
    interest,       \* the day an interest in the subject was saved
    visits,         \* visit records
    items,          \* collection items
    log,            \* the activity log
    pending,        \* the request past its checks that is about to set a status
    last            \* the last ids that were given away

archiveVars == <<today, there, event, named, status, overridden, interest,
                 visits, items, log, pending, last>>
subjectVars == <<there, event, named>>
statusVars == <<status, overridden>>
otherVars == <<interest, visits, items>>

Statuses == {"planned", "visited", "missed"}
Kinds == {"interest_added", "interest_removed", "status_changed", "status_removed",
          "visit_record_created", "collection_item_created", "collection_item_organized"}

VisitsOf(x) == {v \in visits : v.subject = x}
Open(x) == x \in there /\ (x \in Events => event[x].shown)

ArchiveTypeOK ==
    /\ today \in Days
    /\ there \subseteq Subjects /\ named \subseteq Subjects
    /\ event \in [Events -> EventShapes]
    /\ status \in [Subjects -> Statuses \cup {"none"}] /\ overridden \subseteq Subjects
    /\ interest \in [Subjects -> Days \cup {NoDay}]
    /\ visits \subseteq [id : 1..last.visit, subject : there, day : Days]
    /\ items \subseteq [id : 1..last.item, data : ItemShapes, created : Days]
    /\ log \subseteq [id : 1..last.entry, kind : Kinds, events : SUBSET (Events \cap there),
                      hit : BOOLEAN, day : Days]
    /\ pending \subseteq [subject : there, from : Statuses \cup {"none"}, to : Statuses]
    /\ last \in [visit : 0..MaxVisits, item : 0..MaxItems, entry : 0..MaxEntries]

\* Interests may be older than the activity log.
ArchiveInit ==
    /\ today = 0
    /\ there = Subjects /\ named \in {{}, Subjects}
    /\ event \in [Events -> EventShapes]
    /\ status = [x \in Subjects |-> "none"] /\ overridden = {}
    /\ interest \in [Subjects -> {0, NoDay}]
    /\ visits = {} /\ items = {} /\ log = {} /\ pending = {}
    /\ last = [visit |-> 0, item |-> 0, entry |-> 0]

\* The entries that one request writes.
Entries(kinds, events, hit) ==
    {[id |-> last.entry + i, kind |-> kinds[i], events |-> events, hit |-> hit, day |-> today] :
        i \in DOMAIN kinds}

Logs(kinds, events, hit) ==
    /\ last.entry + Len(kinds) <= MaxEntries
    /\ log' = log \cup Entries(kinds, events, hit)

LogsSubject(kinds, x) == Logs(kinds, {x} \cap Events, x \in named)

(***************************************************************************)
(* Statuses.                                                               *)
(***************************************************************************)
\* A subject with a visit record is neither planned nor missed, as far as the
\* request can see.
Allows(x, s) == s # "visited" => VisitsOf(x) = {}

\* A new status, or a change of the one there is, is checked.
AskStatus(x, s) ==
    /\ pending = {}
    /\ status[x] = "none" => Open(x)
    /\ Allows(x, s)
    /\ pending' = {[subject |-> x, from |-> status[x], to |-> s]}
    /\ UNCHANGED <<today, subjectVars, statusVars, otherVars, log, last>>

\* The row is inserted, unless another request was faster.
CreateStatus(r) ==
    LET x == r.subject
        kinds == IF status[x] = "none" THEN <<"status_changed">> ELSE <<>>
    IN
    /\ r.from = "none"
    /\ pending' = {}
    /\ status' = IF status[x] = "none" THEN [status EXCEPT ![x] = r.to] ELSE status
    /\ LogsSubject(kinds, x)
    /\ last' = [last EXCEPT !.entry = @ + Len(kinds)]
    /\ UNCHANGED <<today, subjectVars, overridden, otherVars>>

\* The entry compares with the status that was loaded.
Changed(r) == IF r.from = r.to THEN <<>> ELSE <<"status_changed">>

\* The row is updated, whatever it says by now. Going back to planned is kept
\* when the event is over.
PatchStatus(r) ==
    LET x == r.subject IN
    /\ r.from # "none"
    /\ pending' = {}
    /\ status' = [status EXCEPT ![x] = r.to]
    /\ overridden' = IF r.to = "planned" THEN overridden \cup {x} ELSE overridden
    /\ LogsSubject(Changed(r), x)
    /\ last' = [last EXCEPT !.entry = @ + Len(Changed(r))]
    /\ UNCHANGED <<today, subjectVars, otherVars>>

\* An update finds no row any more and fails; an insertion is not concerned.
RemoveStatus(x) ==
    /\ status[x] # "none"
    /\ status' = [status EXCEPT ![x] = "none"]
    /\ overridden' = overridden \ {x}
    /\ LogsSubject(<<"status_removed">>, x)
    /\ last' = [last EXCEPT !.entry = @ + 1]
    /\ pending' = {r \in pending : r.subject = x => r.from = "none"}
    /\ UNCHANGED <<today, subjectVars, otherVars>>

(***************************************************************************)
(* Interests.                                                              *)
(***************************************************************************)
\* Row and entry are written in one transaction.
AddInterest(x) ==
    /\ Open(x) /\ interest[x] = NoDay
    /\ interest' = [interest EXCEPT ![x] = today]
    /\ LogsSubject(<<"interest_added">>, x)
    /\ last' = [last EXCEPT !.entry = @ + 1]
    /\ UNCHANGED <<today, subjectVars, statusVars, visits, items, pending>>

RemoveInterest(x) ==
    /\ interest[x] # NoDay
    /\ interest' = [interest EXCEPT ![x] = NoDay]
    /\ LogsSubject(<<"interest_removed">>, x)
    /\ last' = [last EXCEPT !.entry = @ + 1]
    /\ UNCHANGED <<today, subjectVars, statusVars, visits, items, pending>>

(***************************************************************************)
(* Visit records.                                                          *)
(***************************************************************************)
\* The record brings the status along; a row that is there keeps its flag.
CompleteVisit(x, day) ==
    LET kinds == IF status[x] = "visited" THEN <<"visit_record_created">>
                 ELSE <<"status_changed", "visit_record_created">>
    IN
    /\ Open(x) /\ last.visit < MaxVisits
    /\ status' = [status EXCEPT ![x] = "visited"]
    /\ visits' = visits \cup {[id |-> last.visit + 1, subject |-> x, day |-> day]}
    /\ LogsSubject(kinds, x)
    /\ last' = [last EXCEPT !.visit = @ + 1, !.entry = @ + Len(kinds)]
    /\ UNCHANGED <<today, subjectVars, overridden, interest, items, pending>>

EditVisit(v, day) ==
    /\ visits' = (visits \ {v}) \cup {[v EXCEPT !.day = day]}
    /\ UNCHANGED <<today, subjectVars, statusVars, interest, items, log, pending, last>>

\* The status stays what it is.
EraseVisit(v) ==
    /\ visits' = visits \ {v}
    /\ UNCHANGED <<today, subjectVars, statusVars, interest, items, log, pending, last>>

(***************************************************************************)
(* Collection items.                                                       *)
(***************************************************************************)
Fits(shape) == shape.quantity >= 0 /\ shape.trade \in 0..shape.quantity

CreateItem(shape) ==
    /\ Fits(shape) /\ last.item < MaxItems
    /\ items' = items \cup {[id |-> last.item + 1, data |-> shape, created |-> today]}
    /\ Logs(<<"collection_item_created">>, {}, shape.hit)
    /\ last' = [last EXCEPT !.item = @ + 1, !.entry = @ + 1]
    /\ UNCHANGED <<today, subjectVars, statusVars, interest, visits, pending>>

\* Only what tidies the collection is logged.
Organized(old, new) ==
    IF \/ old.quantity # new.quantity \/ old.trade # new.trade
       \/ old.wanted # new.wanted \/ old.acquired # new.acquired
    THEN <<"collection_item_organized">> ELSE <<>>

ChangeItem(i, shape) ==
    LET kinds == Organized(i.data, shape) IN
    /\ Fits(shape)
    /\ items' = (items \ {i}) \cup {[i EXCEPT !.data = shape]}
    /\ Logs(kinds, {}, shape.hit)
    /\ last' = [last EXCEPT !.entry = @ + Len(kinds)]
    /\ UNCHANGED <<today, subjectVars, statusVars, interest, visits, pending>>

DeleteItem(i) ==
    /\ items' = items \ {i}
    /\ UNCHANGED <<today, subjectVars, statusVars, interest, visits, log, pending, last>>

(***************************************************************************)
(* Events and places.                                                      *)
(***************************************************************************)
\* Nothing refers to a place that was deleted, so that it may stand for the
\* next one.
CreatePlace(p, titles) ==
    /\ p \notin there
    /\ there' = there \cup {p}
    /\ named' = (named \ {p}) \cup ({p} \cap titles)
    /\ UNCHANGED <<today, event, statusVars, otherVars, log, pending, last>>

\* Status, interest and records go with the place, and what was to be set.
DeletePlace(p) ==
    /\ p \in there
    /\ there' = there \ {p}
    /\ status' = [status EXCEPT ![p] = "none"] /\ overridden' = overridden \ {p}
    /\ interest' = [interest EXCEPT ![p] = NoDay]
    /\ visits' = visits \ VisitsOf(p)
    /\ pending' = {r \in pending : r.subject # p}
    /\ UNCHANGED <<today, event, named, items, log, last>>

Rename(x, titles) ==
    /\ x \in there
    /\ named' = (named \ {x}) \cup ({x} \cap titles)
    /\ UNCHANGED <<today, there, event, statusVars, otherVars, log, pending, last>>

EditEvent(e, shape) ==
    /\ e \in there
    /\ event' = [event EXCEPT ![e] = shape]
    /\ UNCHANGED <<today, there, named, statusVars, otherVars, log, pending, last>>

Unlinked(entry, e) == [entry EXCEPT !.events = @ \ {e}]

\* Only an event that no archive refers to is deleted; the log stays.
DeleteEvent(e) ==
    /\ e \in there
    /\ status[e] = "none" /\ interest[e] = NoDay /\ VisitsOf(e) = {}
    /\ there' = there \ {e}
    /\ log' = {Unlinked(entry, e) : entry \in log}
    /\ pending' = {r \in pending : r.subject # e}
    /\ UNCHANGED <<today, event, named, statusVars, otherVars, last>>

Midnight ==
    /\ today < LastDay
    /\ today' = today + 1
    /\ UNCHANGED <<subjectVars, statusVars, otherVars, log, pending, last>>

ArchiveNext ==
    \/ Midnight
    \/ \E x \in Subjects :
        \/ RemoveStatus(x) \/ AddInterest(x) \/ RemoveInterest(x)
        \/ \E s \in Statuses : AskStatus(x, s)
        \/ \E day \in Days : CompleteVisit(x, day)
        \/ \E titles \in {{}, Subjects} : Rename(x, titles)
    \/ \E r \in pending : CreateStatus(r) \/ PatchStatus(r)
    \/ \E v \in visits : EraseVisit(v) \/ \E day \in Days : EditVisit(v, day)
    \/ \E shape \in ItemShapes : CreateItem(shape) \/ \E i \in items : ChangeItem(i, shape)
    \/ \E i \in items : DeleteItem(i)
    \/ \E p \in Places :
        DeletePlace(p) \/ \E titles \in {{}, Subjects} : CreatePlace(p, titles)
    \/ \E e \in Events :
        DeleteEvent(e) \/ \E shape \in EventShapes : EditEvent(e, shape)

ArchiveSpec == ArchiveInit /\ [][ArchiveNext]_archiveVars
===============================================================================
