----------------------------- MODULE EventConsole -----------------------------
(***************************************************************************)
(* The staff's console of events: one open list of events                  *)
(* (static/js/staff/event_row_actions.js, event_bulk.js), the requests it  *)
(* sends (staff/views/events_actions.py), and what other staff do with the *)
(* same events through forms (staff/views/events.py, events/services.py).  *)
(*                                                                         *)
(* A transaction is one step from its row lock to its commit, except where *)
(* it reads what others can change meanwhile: a verification loads the     *)
(* event without a lock, and a form looks its official URL up before it    *)
(* writes.  Categories, and records of users, which stop a deletion, are   *)
(* in PaletteSlots.  Texts, badges, focus and announcements are left out.  *)
(***************************************************************************)
EXTENDS Integers, FiniteSets

CONSTANTS
    Events,
    Urls,          \* official URLs
    Requests,      \* requests of the list, and verifications from elsewhere
    Forms,         \* open forms
    MaxMade        \* bound: requests, forms and other changes

ASSUME ConsoleAssumption == MaxMade \in Nat

Idle == [state |-> "idle"]
Rows == {"published", "draft"}
Kinds == {"unpublish", "republish", "verify", "bulk"}

VARIABLES
    event,         \* the committed rows
    log,           \* what the staff log tells of every event
    request,       \* requests on their way
    form,          \* open forms, and the transactions that save them
    page,          \* the list: its filter, the status every row shows, locked rows
    excused,       \* events whose row may be out of date
    made           \* requests, forms and other changes so far

vars == <<event, log, request, form, page, excused, made>>

\* The shape of every variable.
TypeOK ==
    /\ event \in [Events -> [status : Rows \cup {"absent", "deleted"}, url : Urls,
                             verified : BOOLEAN]]
    /\ log \in [Events -> [status : Rows \cup {"absent", "deleted"},
                           verified : BOOLEAN, twice : BOOLEAN]]
    /\ \A r \in Requests : request[r] = Idle \/
        /\ request[r].state \in {"asked", "sent", "loaded", "answered"}
        /\ request[r].kind \in Kinds /\ request[r].listed \in BOOLEAN
        /\ request[r].targets \subseteq Events /\ request[r].left \subseteq request[r].targets
        /\ request[r].ok \subseteq request[r].targets /\ request[r].gone \subseteq request[r].targets
        /\ request[r].kind # "bulk" => Cardinality(request[r].targets) = 1
    /\ \A f \in Forms : form[f] = Idle \/
        /\ form[f].state \in {"open", "saving"} /\ form[f].event \in Events
        /\ form[f].new \in BOOLEAN /\ form[f].url \in Urls
    /\ page.filter \in {"all", "published", "draft", "unverified"}
    /\ page.shown \in [Events -> Rows \cup {"none"}]
    /\ page.locked \subseteq Events
    /\ excused \subseteq Events
    /\ made \in 0..MaxMade

Exists(e) == event[e].status \in Rows

\* A form that saves holds the lock of its row.
Locked(e) == \E f \in Forms : form[f].state = "saving" /\ form[f].event = e

\* What the list shows under a filter.
ShownIn(filter) ==
    [e \in Events |->
        CASE ~Exists(e) -> "none"
          [] filter \in Rows /\ event[e].status # filter -> "none"
          [] filter = "unverified" /\ (event[e].status = "draft" \/ event[e].verified) -> "none"
          [] OTHER -> event[e].status]

Init ==
    /\ \E there \in SUBSET Events, u \in [Events -> Urls] :
        /\ \A d, e \in there : d # e => u[d] # u[e]
        /\ event = [e \in Events |->
                [status |-> IF e \in there THEN "published" ELSE "absent",
                 url |-> u[e], verified |-> FALSE]]
    /\ log = [e \in Events |-> [status |-> event[e].status, verified |-> FALSE, twice |-> FALSE]]
    /\ request = [r \in Requests |-> Idle]
    /\ form = [f \in Forms |-> Idle]
    /\ page = [filter |-> "all", shown |-> ShownIn("all"), locked |-> {}]
    /\ excused = {}
    /\ made = 0

(***************************************************************************)
(* What a transaction does to an event, and what it logs with it.          *)
(***************************************************************************)
SetsStatus(e, status) ==
    /\ event' = [event EXCEPT ![e].status = status]
    /\ log' = [log EXCEPT ![e].status = status, ![e].twice = @ \/ log[e].status = status]

\* A request of the list names the status it wants; an event that has it is
\* left alone.
Reaches(e, status) ==
    IF event[e].status = status THEN UNCHANGED <<event, log>> ELSE SetsStatus(e, status)

\* Mutant: every column is written back as it was loaded.
SavesWhole(r, e) ==
    /\ event' = [event EXCEPT ![e] = [request[r].row EXCEPT !.verified = TRUE]]
    /\ log' = [log EXCEPT ![e].verified = TRUE]

\* Only the mark is written.
SavesMark(r, e) ==
    /\ event' = [event EXCEPT ![e].verified = TRUE]
    /\ log' = [log EXCEPT ![e].verified = TRUE]

\* Other requests of the list about an event that are not answered yet: their
\* answers and this one may come in any order.
Overlapping(r, e) ==
    \E q \in Requests \ {r} :
        /\ request[q] # Idle /\ request[q].listed /\ request[q].state # "asked"
        /\ e \in request[q].targets

\* Whether the row is kept up to date by the answer of the request.
Excuses(r, e) ==
    IF event'[e].status # event[e].status /\ (~request[r].listed \/ Overlapping(r, e))
    THEN {e} ELSE {}

(***************************************************************************)
(* Serving the requests of the list.  The items of a bulk request are      *)
(* transactions of their own, in any order.                                *)
(***************************************************************************)
Finished(q, e) ==
    LET left == q.left \ {e} IN
    [q EXCEPT !.left = left,
              !.state = IF left # {} THEN "sent" ELSE IF q.listed THEN "answered" ELSE "over"]

\* The answer to nobody is forgotten.
After(r, q) == [request EXCEPT ![r] = IF q.state = "over" THEN Idle ELSE q]

Good(r, e) == After(r, Finished([request[r] EXCEPT !.ok = @ \cup {e}], e))
Gone(r, e) == After(r, Finished([request[r] EXCEPT !.gone = @ \cup {e}], e))
Bad(r, e) == After(r, Finished(request[r], e))

ServeStatus(r, e) ==
    LET q == request[r] IN
    /\ q.state = "sent" /\ e \in q.left /\ q.kind # "verify" /\ ~Locked(e)
    /\ \/ /\ Exists(e)
          /\ Reaches(e, IF q.kind = "republish" THEN "published" ELSE "draft")
          /\ request' = Good(r, e)
          /\ excused' = excused \cup Excuses(r, e)
       \/ /\ ~Exists(e)
          /\ request' = Gone(r, e)
          /\ UNCHANGED <<event, log, excused>>
    /\ UNCHANGED <<form, page, made>>

LoadVerify(r, e) ==
    LET q == request[r] IN
    /\ q.state = "sent" /\ e \in q.left /\ q.kind = "verify"
    /\ request' = IF Exists(e)
                  THEN [request EXCEPT ![r].state = "loaded", ![r].row = event[e]]
                  ELSE Gone(r, e)
    /\ UNCHANGED <<event, log, form, page, excused, made>>

\* The update waits for the row; without one it fails.
SaveVerify(r, e) ==
    /\ request[r].state = "loaded" /\ e \in request[r].left /\ ~Locked(e)
    /\ \/ Exists(e) /\ SavesMark(r, e) /\ request' = Good(r, e)
       \/ ~Exists(e) /\ request' = Bad(r, e) /\ UNCHANGED <<event, log>>
    /\ UNCHANGED <<form, page, excused, made>>

\* The database fails, or the process ends; a bulk request goes on.
Fail(r, e) ==
    /\ request[r].state \in {"sent", "loaded"} /\ e \in request[r].left
    /\ request' = Bad(r, e)
    /\ UNCHANGED <<event, log, form, page, excused, made>>

(***************************************************************************)
(* Other staff: the page of one event.                                     *)
(***************************************************************************)
Makes == made < MaxMade /\ made' = made + 1

\* staff_event_toggle_publish switches over what it finds under the lock.
Toggle(e) ==
    /\ Makes /\ Exists(e) /\ ~Locked(e)
    /\ SetsStatus(e, IF event[e].status = "draft" THEN "published" ELSE "draft")
    /\ excused' = excused \cup {e}
    /\ UNCHANGED <<request, form, page>>

\* The log entry is written before the event goes, in the same transaction.
Delete(e) ==
    /\ Makes /\ Exists(e) /\ ~Locked(e)
    /\ SetsStatus(e, "deleted")
    /\ excused' = excused \cup {e}
    /\ UNCHANGED <<request, form, page>>

NewRequest(state, kind, listed, es) ==
    [state |-> state, kind |-> kind, listed |-> listed, targets |-> es, left |-> es,
     ok |-> {}, gone |-> {}, row |-> Idle]

VerifyElsewhere(r, e) ==
    /\ Makes /\ Exists(e) /\ request[r] = Idle
    /\ request' = [request EXCEPT ![r] = NewRequest("sent", "verify", FALSE, {e})]
    /\ UNCHANGED <<event, log, form, page, excused>>

(***************************************************************************)
(* Forms.  A form may have been open for long when it is saved; of what it *)
(* holds, only the URL matters here.                                       *)
(***************************************************************************)
OpenForm(f, e) ==
    /\ Makes /\ form[f] = Idle
    /\ event[e].status \in Rows \cup {"absent"}
    /\ \A g \in Forms : form[g] # Idle /\ form[g].new => form[g].event # e
    /\ \E u \in Urls :
        form' = [form EXCEPT ![f] = [state |-> "open", event |-> e, new |-> ~Exists(e), url |-> u]]
    /\ UNCHANGED <<event, log, request, page, excused>>

TakenBy(others, u) == \E d \in others : Exists(d) /\ event[d].url = u

\* The event is locked, and its URL is looked up among the others; a new event
\* locks nothing that others know of.
LockForm(f) ==
    LET g == form[f] IN
    /\ g.state = "open"
    /\ g.new \/ ~Locked(g.event)
    /\ form' = IF (g.new \/ Exists(g.event)) /\ ~TakenBy(Events \ {g.event}, g.url)
               THEN [form EXCEPT ![f].state = "saving"]
               ELSE [form EXCEPT ![f] = Idle]
    /\ UNCHANGED <<event, log, request, page, excused, made>>

\* The URL is unique in the table.
Collides(f) == TakenBy(Events \ {form[f].event}, form[f].url)

Written(f) ==
    LET g == form[f] IN
    IF g.new THEN [status |-> "published", url |-> g.url, verified |-> FALSE]
    ELSE [event[g.event] EXCEPT !.url = g.url]

\* Every field of the form is written, changed or not.
SaveForm(f) ==
    LET e == form[f].event IN
    /\ form[f].state = "saving"
    /\ IF Collides(f) THEN UNCHANGED <<event, log, excused>>
       ELSE /\ event' = [event EXCEPT ![e] = Written(f)]
            /\ log' = [log EXCEPT ![e].status = event'[e].status]
            /\ excused' = IF form[f].new THEN excused \cup {e} ELSE excused
    /\ form' = [form EXCEPT ![f] = Idle]
    /\ UNCHANGED <<request, page, made>>

Abandon(f) ==
    /\ form[f] # Idle
    /\ form' = [form EXCEPT ![f] = Idle]
    /\ UNCHANGED <<event, log, request, page, excused, made>>

(***************************************************************************)
(* The list.                                                               *)
(***************************************************************************)
\* Loading it shows what is there now and forgets the answers on their way.
OpenPage(filter) ==
    /\ Makes
    /\ page' = [filter |-> filter, shown |-> ShownIn(filter), locked |-> {}]
    /\ excused' = {}
    /\ request' = [r \in Requests |->
                     IF request[r] = Idle THEN Idle
                     ELSE IF request[r].listed /\ request[r].state \in {"asked", "answered"}
                     THEN Idle ELSE [request[r] EXCEPT !.listed = FALSE]]
    /\ UNCHANGED <<event, log, form>>

DialogOpen == \E r \in Requests : request[r].state = "asked"

\* The buttons and the box of a row follow the status it shows.
Offered(kind, e) ==
    page.shown[e] = (IF kind = "republish" THEN "draft" ELSE "published")

\* Verifications and bulk requests are confirmed first; the row is locked when
\* its request is sent.
ClickRow(r, kind, e) ==
    /\ Makes /\ request[r] = Idle /\ ~DialogOpen
    /\ kind # "bulk" /\ Offered(kind, e) /\ e \notin page.locked
    /\ request' = [request EXCEPT ![r] =
            NewRequest(IF kind = "verify" THEN "asked" ELSE "sent", kind, TRUE, {e})]
    /\ page' = IF kind = "verify" THEN page ELSE [page EXCEPT !.locked = @ \cup {e}]
    /\ UNCHANGED <<event, log, form, excused>>

\* A box that was checked before its row was locked still counts.
ClickBulk(r, es) ==
    /\ Makes /\ request[r] = Idle /\ ~DialogOpen
    /\ es # {} /\ \A e \in es : Offered("bulk", e)
    /\ request' = [request EXCEPT ![r] = NewRequest("asked", "bulk", TRUE, es)]
    /\ UNCHANGED <<event, log, form, page, excused>>

Confirm(r) ==
    /\ request[r].state = "asked"
    /\ request' = [request EXCEPT ![r].state = "sent"]
    /\ page' = IF request[r].kind = "bulk" THEN page
               ELSE [page EXCEPT !.locked = @ \cup request[r].targets]
    /\ UNCHANGED <<event, log, form, excused, made>>

Dismiss(r) ==
    /\ request[r].state = "asked"
    /\ request' = [request EXCEPT ![r] = Idle]
    /\ UNCHANGED <<event, log, form, page, excused, made>>

\* What a success leaves of the row under the filter of the list.
ShowsNow(q, e) ==
    CASE page.shown[e] = "none" -> "none"
      [] q.kind \in {"unpublish", "bulk"} ->
            IF page.filter \in {"published", "unverified"} THEN "none" ELSE "draft"
      [] q.kind = "republish" -> IF page.filter = "draft" THEN "none" ELSE "published"
      [] q.kind = "verify" -> IF page.filter = "unverified" THEN "none" ELSE page.shown[e]

\* Mutant: every item of a bulk request is taken for done.
AppliesAll(q, e) == IF e \in q.targets THEN ShowsNow(q, e) ELSE page.shown[e]

\* Only what the answer calls done changes its row; a row whose event is gone
\* is removed, except by a bulk answer, which only says so.
Applies(q, e) ==
    CASE e \in q.ok -> ShowsNow(q, e)
      [] e \in q.gone /\ q.kind # "bulk" -> "none"
      [] OTHER -> page.shown[e]

Unlocked(q) == IF q.kind = "bulk" THEN page.locked ELSE page.locked \ q.targets

Answer(r) ==
    LET q == request[r] IN
    /\ q.state = "answered"
    /\ page' = [page EXCEPT !.shown = [e \in Events |-> Applies(q, e)], !.locked = Unlocked(q)]
    /\ request' = [request EXCEPT ![r] = Idle]
    /\ UNCHANGED <<event, log, form, excused, made>>

\* The row or the toolbar shows an error, and nothing else changes.
LoseAnswer(r) ==
    LET q == request[r] IN
    /\ q.state = "answered"
    /\ page' = [page EXCEPT !.locked = Unlocked(q)]
    /\ excused' = excused \cup q.ok
    /\ request' = [request EXCEPT ![r] = Idle]
    /\ UNCHANGED <<event, log, form, made>>

\* Coming back to a page the browser kept, no row stays locked.
LockedOnReturn == {}

Return ==
    /\ page.locked # {}
    /\ page' = [page EXCEPT !.locked = LockedOnReturn]
    /\ request' = [r \in Requests |->
                     IF request[r] = Idle \/ ~request[r].listed THEN request[r]
                     ELSE IF request[r].state \in {"asked", "answered"} THEN Idle
                     ELSE [request[r] EXCEPT !.listed = FALSE]]
    /\ excused' = excused \cup UNION {request[r].ok : r \in {q \in Requests :
                     request[q] # Idle /\ request[q].listed}}
    /\ UNCHANGED <<event, log, form, made>>

Next ==
    \/ \E e \in Events : Toggle(e) \/ Delete(e)
    \/ \E f \in Forms :
        \/ LockForm(f) \/ SaveForm(f) \/ Abandon(f)
        \/ \E e \in Events : OpenForm(f, e)
    \/ \E filter \in {"all", "published", "draft", "unverified"} : OpenPage(filter)
    \/ \E r \in Requests :
        \/ Confirm(r) \/ Dismiss(r) \/ Answer(r) \/ LoseAnswer(r)
        \/ \E es \in SUBSET Events : ClickBulk(r, es)
        \/ \E e \in Events :
            \/ VerifyElsewhere(r, e) \/ ServeStatus(r, e) \/ LoadVerify(r, e)
            \/ SaveVerify(r, e) \/ Fail(r, e)
            \/ \E kind \in Kinds : ClickRow(r, kind, e)
    \/ Return

Spec == Init /\ [][Next]_vars

(***************************************************************************)
(* Properties.                                                             *)
(***************************************************************************)

\* The staff log tells every event's status and verification, and no change of
\* the status twice in a row: neither a request that is sent again nor one
\* that raced another is logged without its effect or takes effect unlogged.
LogTellsEvent ==
    \A e \in Events :
        /\ log[e].status = event[e].status
        /\ log[e].verified = event[e].verified
        /\ ~log[e].twice

\* Unless others changed the event, an answer was lost or two requests about
\* it were on their way together, its row shows its status.
RowTellsStatus ==
    \A e \in Events \ excused :
        /\ page.shown[e] # "none"
        /\ \A r \in Requests :
            request[r] # Idle /\ request[r].listed /\ request[r].state # "asked"
            => e \notin request[r].targets
        => page.shown[e] = event[e].status

\* A row stays locked only while its own request is on its way: also a page
\* that the browser kept has no row that can never be used again.
NoDeadRow ==
    \A e \in page.locked :
        \E r \in Requests :
            /\ request[r] # Idle /\ request[r].listed /\ request[r].kind # "bulk"
            /\ request[r].state # "asked" /\ e \in request[r].targets

\* The rows of the open list neither claim what did not happen nor stop working.
ListSafe == RowTellsStatus /\ NoDeadRow

===============================================================================
