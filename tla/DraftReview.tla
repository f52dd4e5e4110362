----------------------------- MODULE DraftReview -----------------------------
(***************************************************************************)
(* Drafts of events from their registration to the decision of a reviewer  *)
(* (drafts/services.py, staff/views/drafts.py, staff/views/draft_api.py),  *)
(* and one open page of the review queue (static/js/staff/draft_bulk.js),  *)
(* which answers reach late, out of order or never.                        *)
(*                                                                         *)
(* A draft stands for its source URL, which is unique, and so does the     *)
(* event published from it.  A transaction is one step from its row lock   *)
(* to its commit, except where it reads what others can change meanwhile:  *)
(* approve_draft looks the URL up among the events before it inserts one.  *)
(* Error texts, focus, announcements and the counters of the tabs are left *)
(* out.                                                                    *)
(***************************************************************************)
EXTENDS Integers, FiniteSetsExt

CONSTANTS
    NumDrafts,    \* drafts (source URLs), numbered in the order of the queue
    NumRequests,  \* requests under way at the same time
    Contents,     \* contents of drafts: [title, period, vocab]
    MaxRequests   \* bound: requests ever made

Drafts == 1..NumDrafts
NoDraft == 0
Requests == 1..NumRequests
Titles == {"text", "blank", "url"}
Kinds == {"approve", "reject"}

ASSUME ReviewAssumption ==
    /\ NumDrafts \in Nat /\ NumRequests \in Nat
    /\ Contents \subseteq [title : Titles, ordered : BOOLEAN, known : BOOLEAN]
    /\ Contents # {}
    /\ MaxRequests \in Nat

VARIABLES
    draft,       \* EventDraft.review_status, "absent" while there is no row
    content,     \* what the fields of the draft hold
    event,       \* does an event with the URL of the draft exist?
    log,         \* decisions in StaffActionLog, counted per draft
    request,     \* requests of reviewers
    made,        \* requests made so far
    page         \* the open queue page

vars == <<draft, content, event, log, request, made, page>>

Statuses == {"absent", "pending", "approved", "rejected"}
Decisions == {"approved", "rejected", "reopened"}
Idle == [state |-> "idle"]
RequestType ==
    [state : {"asked", "sent", "holding", "answered"}, kind : Kinds,
     queue : BOOLEAN, targets : SUBSET Drafts, left : SUBSET Drafts,
     ok : SUBSET Drafts, item : Drafts \cup {NoDraft}]

\* The shape of every variable.
TypeOK ==
    /\ draft \in [Drafts -> Statuses]
    /\ content \in [Drafts -> Contents]
    /\ event \in [Drafts -> BOOLEAN]
    /\ log \in [Drafts -> [Decisions -> 0..MaxRequests * NumDrafts]]
    /\ request \in [Requests -> RequestType \cup {Idle}]
    /\ made \in 0..MaxRequests
    /\ page.tab \in {"pending", "all"}
    /\ page.rows \in SUBSET Drafts
    /\ page.chip \in [Drafts -> Statuses]
    /\ page.current \in Drafts \cup {NoDraft}

EmptyPage == [tab |-> "pending", rows |-> {},
              chip |-> [d \in Drafts |-> "absent"], current |-> NoDraft]

Init ==
    /\ draft = [d \in Drafts |-> "absent"]
    /\ content = [d \in Drafts |-> CHOOSE c \in Contents : TRUE]
    /\ event = [d \in Drafts |-> FALSE]
    /\ log = [d \in Drafts |-> [k \in Decisions |-> 0]]
    /\ request = [r \in Requests |-> Idle]
    /\ made = 0
    /\ page = EmptyPage

(***************************************************************************)
(* Registration: by a reviewer, a collector or a runner; the unique URL    *)
(* refuses the second one, whoever it is.                                  *)
(***************************************************************************)
Register(d) ==
    /\ draft[d] = "absent"
    /\ draft' = [draft EXCEPT ![d] = "pending"]
    /\ \E c \in Contents : content' = [content EXCEPT ![d] = c]
    /\ UNCHANGED <<event, log, request, made, page>>

(***************************************************************************)
(* Events with the same URL come and go on other ways: the event console   *)
(* creates, renames and deletes them.                                      *)
(***************************************************************************)
OtherEvent(d) ==
    /\ event' = [event EXCEPT ![d] = ~event[d]]
    /\ UNCHANGED <<draft, content, log, request, made, page>>

(***************************************************************************)
(* The server's side of a request: its drafts are decided one by one, each *)
(* in a transaction of its own (one draft for a request that is not bulk). *)
(***************************************************************************)
Locked(d) == \E r \in Requests : request[r].state = "holding" /\ request[r].item = d

\* What _validate_publish_fields accepts, and what the page shows beforehand.
Publishable(d) ==
    /\ content[d].title = "text"
    /\ ~event[d]
    /\ content[d].ordered
    /\ content[d].known
PublishFieldChecks(d) ==
    [title |-> content[d].title # "blank", title_not_url |-> content[d].title # "url",
     official_url_unique |-> ~event[d], period |-> content[d].ordered,
     vocabulary |-> content[d].known]

\* Mutant: an item that fails stays in the list.
ItemDoneIfGood(r, d, good) ==
    [request EXCEPT ![r].left = IF good THEN @ \ {d} ELSE @,
                    ![r].item = NoDraft,
                    ![r].state = IF good /\ request[r].left = {d} THEN "answered" ELSE "sent"]

\* Item d is done; the answer leaves when it was the last one.  Nobody here
\* waits for the answer to a request from elsewhere.
ItemDone(r, d, good) ==
    LET left == request[r].left \ {d} IN
    IF left = {} /\ ~request[r].queue THEN [request EXCEPT ![r] = Idle]
    ELSE [request EXCEPT ![r].left = left, ![r].item = NoDraft,
                         ![r].ok = IF good THEN @ \cup {d} ELSE @,
                         ![r].state = IF left = {} THEN "answered" ELSE "sent"]

\* _get_draft_for_update: the row is locked, then its status compared.
Takes(r, d, kind) ==
    /\ request[r].state = "sent" /\ request[r].kind = kind
    /\ d \in request[r].left
    /\ ~Locked(d)
    /\ draft[d] = "pending"

\* The draft is missing, was decided meanwhile or cannot be published.
RefuseItem(r, d) ==
    /\ request[r].state = "sent"
    /\ d \in request[r].left
    /\ ~Locked(d)
    /\ \/ draft[d] # "pending"
       \/ request[r].kind = "approve" /\ ~Publishable(d)
    /\ request' = ItemDone(r, d, FALSE)
    /\ UNCHANGED <<draft, content, event, log, made, page>>

StartApproval(r, d) ==
    /\ Takes(r, d, "approve")
    /\ Publishable(d)
    /\ request' = [request EXCEPT ![r].state = "holding", ![r].item = d]
    /\ UNCHANGED <<draft, content, event, log, made, page>>

MayInsert(d) == ~event[d]
\* The insertion of the event decides, whatever the look-up said; the draft,
\* the event and the log entry are committed together.
FinishApproval(r) ==
    LET d == request[r].item IN
    /\ request[r].state = "holding"
    /\ \/ /\ MayInsert(d)
          /\ event' = [event EXCEPT ![d] = TRUE]
          /\ draft' = [draft EXCEPT ![d] = "approved"]
          /\ log' = [log EXCEPT ![d]["approved"] = @ + 1]
          /\ request' = ItemDone(r, d, TRUE)
       \/ /\ ~MayInsert(d)
          /\ request' = ItemDone(r, d, FALSE)
          /\ UNCHANGED <<event, draft, log>>
    /\ UNCHANGED <<content, made, page>>

\* Anything else that fails, the log entry included, undoes this item only.
FailItem(r, d) ==
    /\ \/ request[r].state = "holding" /\ request[r].item = d
       \/ Takes(r, d, request[r].kind)
    /\ request' = ItemDone(r, d, FALSE)
    /\ UNCHANGED <<draft, content, event, log, made, page>>

\* Mutants: the row is not locked; the log's word becomes the status.
DecideUnlocked(d, from, to, entry) ==
    /\ draft[d] = from
    /\ draft' = [draft EXCEPT ![d] = to]
    /\ log' = [log EXCEPT ![d][entry] = @ + 1]
    /\ UNCHANGED <<content, event, page>>
DecideByWord(d, from, to, entry) ==
    /\ draft[d] = from /\ ~Locked(d)
    /\ draft' = [draft EXCEPT ![d] = entry]
    /\ log' = [log EXCEPT ![d][entry] = @ + 1]
    /\ UNCHANGED <<content, event, page>>

\* A decision that only changes the draft: the row and the log entry.
Decide(d, from, to, entry) ==
    /\ draft[d] = from /\ ~Locked(d)
    /\ draft' = [draft EXCEPT ![d] = to]
    /\ log' = [log EXCEPT ![d][entry] = @ + 1]
    /\ UNCHANGED <<content, event, page>>

RejectItem(r, d) ==
    /\ Takes(r, d, "reject")
    /\ Decide(d, "pending", "rejected", "rejected")
    /\ request' = ItemDone(r, d, TRUE)
    /\ UNCHANGED made

(***************************************************************************)
(* Requests from elsewhere: the page of a single draft, other reviewers,   *)
(* the API.  Waiting for a lock they change nothing, so that those that    *)
(* need one step are made and served at once.                              *)
(***************************************************************************)
NewRequest(state, kind, queue, ds) ==
    [state |-> state, kind |-> kind, queue |-> queue, targets |-> ds, left |-> ds,
     ok |-> {}, item |-> NoDraft]

\* The slots for requests are all alike: the next one takes the first free one.
Free(r) == request[r] = Idle /\ \A q \in 1..(r - 1) : request[q] # Idle

ApproveElsewhere(r, d) ==
    /\ Free(r)
    /\ made < MaxRequests
    /\ made' = made + 1
    /\ request' = [request EXCEPT ![r] = NewRequest("sent", "approve", FALSE, {d})]
    /\ UNCHANGED <<draft, content, event, log, page>>

Elsewhere(d) == made < MaxRequests /\ made' = made + 1 /\ UNCHANGED request

RejectElsewhere(d) == Elsewhere(d) /\ Decide(d, "pending", "rejected", "rejected")
Reopen(d) == Elsewhere(d) /\ Decide(d, "rejected", "pending", "reopened")

\* Mutant: the edit does not lock the row.
MayUpdateUnlocked(d) == draft[d] = "pending"
MayUpdate(d) == draft[d] = "pending" /\ ~Locked(d)
\* A change of category or region has to be one of the vocabulary; a change of
\* other fields leaves an unknown one in place.
Accepted(d) == {c \in Contents : c.known \/ ~content[d].known}
Update(d) ==
    /\ Elsewhere(d)
    /\ MayUpdate(d)
    /\ \E c \in Accepted(d) : content' = [content EXCEPT ![d] = c]
    /\ UNCHANGED <<draft, event, log, page>>

(***************************************************************************)
(* The queue page.                                                         *)
(***************************************************************************)
\* The rows are listed by descending number.
FirstRow(rows) == IF rows = {} THEN NoDraft ELSE Max(rows)

\* Loading the page shows the rows as they are now and forgets the requests
\* of the page that was open before.
OpenPage(tab) ==
    LET Listed(d) == draft[d] = "pending" \/ (tab = "all" /\ draft[d] # "absent")
        rows == {d \in Drafts : Listed(d)}
    IN
    /\ page' = [tab |-> tab, rows |-> rows,
                chip |-> [d \in Drafts |-> IF Listed(d) THEN draft[d] ELSE "absent"],
                current |-> FirstRow(rows)]
    /\ request' = [r \in Requests |->
                     IF request[r] = Idle \/ ~request[r].queue THEN request[r]
                     ELSE IF request[r].state \in {"asked", "answered"} THEN Idle
                     ELSE [request[r] EXCEPT !.queue = FALSE]]
    /\ UNCHANGED <<draft, content, event, log, made>>

DialogOpen == \E r \in Requests : request[r].state = "asked"

\* A row can be selected and judged while it shows a pending draft.
Actionable == {d \in page.rows : page.chip[d] = "pending"}

\* The button of one row stays disabled until its answer is there.  The bulk
\* buttons do not: updateToolbarState enables them with the next change of the
\* selection.
Loading(kind, ds) ==
    \E r \in Requests, d \in Drafts :
        /\ request[r] # Idle /\ request[r].queue /\ request[r].kind = kind
        /\ request[r].targets = ds /\ ds = {d}

Click(r, kind, ds) ==
    /\ Free(r)
    /\ made < MaxRequests
    /\ ~DialogOpen
    /\ ds # {} /\ ds \subseteq Actionable
    /\ ~Loading(kind, ds)
    /\ made' = made + 1
    /\ request' = [request EXCEPT ![r] = NewRequest("asked", kind, TRUE, ds)]
    /\ UNCHANGED <<draft, content, event, log, page>>

\* The drafts that are sent are those of the click, whatever the page shows by
\* then.
Confirm(r) ==
    /\ request[r].state = "asked"
    /\ request' = [request EXCEPT ![r].state = "sent"]
    /\ UNCHANGED <<draft, content, event, log, made, page>>

Cancel(r) ==
    /\ request[r].state = "asked"
    /\ request' = [request EXCEPT ![r] = Idle]
    /\ UNCHANGED <<draft, content, event, log, made, page>>

\* J and K: one row further, or none at either end.
MoveCurrent(step) ==
    LET from == IF page.current \in page.rows THEN page.current ELSE FirstRow(page.rows)
        lower == {d \in page.rows : d < from}
        higher == {d \in page.rows : d > from}
        to == IF step = 1 /\ lower # {} THEN Max(lower)
              ELSE IF step = -1 /\ higher # {} THEN Min(higher) ELSE from
    IN
    /\ page.rows # {} /\ ~DialogOpen
    /\ page' = [page EXCEPT !.current = to]
    /\ UNCHANGED <<draft, content, event, log, request, made>>

\* advanceAfterRemoval: the row that moved to the place of the removed one, at
\* the end of the list the last.
Advance(rest, removed) ==
    LET lower == {d \in rest : d < removed} IN
    IF rest = {} THEN NoDraft ELSE IF lower # {} THEN Max(lower) ELSE Min(rest)

\* removeDraftRow for each draft of ds.  The order does not matter: while the
\* current row goes, too, the place is passed on to the next that stays.
RemoveRows(pg, ds) ==
    [pg EXCEPT !.rows = @ \ ds,
               !.current = IF pg.current \in ds \cap pg.rows
                           THEN Advance(pg.rows \ ds, @) ELSE @]

\* applySucceededDraft for each draft of ds: the pending tab loses the row, the
\* other keeps it with the new status.
ApplySucceeded(pg, ds, status) ==
    LET marked == [pg EXCEPT !.chip = [d \in Drafts |-> IF d \in ds THEN status ELSE @[d]]]
    IN IF pg.tab = "pending" THEN RemoveRows(marked, ds) ELSE marked

TargetStatus(r) == IF request[r].kind = "approve" THEN "approved" ELSE "rejected"

\* Mutant: the page applies what it asked for.
ReceivesAsked(r) == ApplySucceeded(page, request[r].targets, TargetStatus(r))

Receives(r) == ApplySucceeded(page, request[r].ok, TargetStatus(r))

\* The page changes only now, and only for what the server says it did.
Answer(r) ==
    /\ request[r].state = "answered"
    /\ page' = Receives(r)
    /\ request' = [request EXCEPT ![r] = Idle]
    /\ UNCHANGED <<draft, content, event, log, made>>

\* The answer is lost: the page shows an error and keeps its rows.
LoseAnswer(r) ==
    /\ request[r].state = "answered"
    /\ request' = [request EXCEPT ![r] = Idle]
    /\ UNCHANGED <<draft, content, event, log, made, page>>

Serve(r) ==
    \/ \E d \in Drafts : \/ RefuseItem(r, d) \/ StartApproval(r, d) \/ FailItem(r, d)
                         \/ RejectItem(r, d)
    \/ FinishApproval(r)

Next ==
    \/ \E d \in Drafts : \/ Register(d) \/ OtherEvent(d)
                         \/ RejectElsewhere(d) \/ Reopen(d) \/ Update(d)
    \/ \E tab \in {"pending", "all"} : OpenPage(tab)
    \/ \E step \in {-1, 1} : MoveCurrent(step)
    \/ \E r \in Requests :
        \/ Serve(r) \/ Confirm(r) \/ Cancel(r) \/ Answer(r) \/ LoseAnswer(r)
        \/ \E d \in Drafts : ApproveElsewhere(r, d)
        \/ \E kind \in Kinds, ds \in SUBSET Drafts : Click(r, kind, ds)

Fairness ==
    \A r \in Requests :
        /\ SF_vars(Serve(r))
        /\ WF_vars(Answer(r))

Spec == Init /\ [][Next]_vars /\ Fairness

(***************************************************************************)
(* Properties.                                                             *)
(***************************************************************************)

\* The audit log tells the status of every draft: decisions of two reviewers
\* never both count, and a decision that was undone left no entry.
LogTellsStatus ==
    \A d \in Drafts :
        LET l == log[d] IN
        /\ l["approved"] = IF draft[d] = "approved" THEN 1 ELSE 0
        /\ l["rejected"] - l["reopened"] = IF draft[d] = "rejected" THEN 1 ELSE 0

\* A draft becomes approved exactly when its event is published, from contents
\* that pass every check the review page shows.
ApprovalPublishes ==
    [][\A d \in Drafts : draft'[d] = "approved" /\ draft[d] # "approved" =>
        /\ draft[d] = "pending" /\ ~event[d] /\ event'[d]
        /\ \A check \in DOMAIN PublishFieldChecks(d) : PublishFieldChecks(d)[check]]_vars

\* While the page has rows one of them is the current one, also after bulk
\* answers removed several: the shortcuts and the focus always have a target.
CurrentRowExists ==
    IF page.rows = {} THEN page.current = NoDraft ELSE page.current \in page.rows

\* The page never shows a decision that was not made: "approved" is final, a
\* draft shown as rejected has been rejected, and the keys act on a row that is
\* there.
PageTellsTruth ==
    /\ \A d \in Drafts :
        /\ page.chip[d] = "approved" => draft[d] = "approved"
        /\ page.chip[d] = "rejected" => log[d]["rejected"] > 0
    /\ CurrentRowExists

\* Every request that was sent is answered (or its answer lost), whatever locks
\* it has to wait for.
RequestsEnd ==
    \A r \in Requests : request[r].state = "sent" ~> request[r].state \notin {"sent", "holding"}
==============================================================================
