--------------------------- MODULE PersonalEntries ---------------------------
(***************************************************************************)
(* A user's private entry of a place, from the form that creates it to its *)
(* report as an official event (archive/services.py, archive/views.py,     *)
(* web/promotion.py, web/promotion_views.py), and the page that shows it   *)
(* (static/js/pages/personal_detail.js), beside other pages of the same    *)
(* user that edit, report and delete it.                                   *)
(*                                                                         *)
(* A report locks the row; an edit does not: the view loads the row, and   *)
(* the serializer saves every column of what was loaded, as an insertion   *)
(* when the row is gone.  The texts of an entry and its image are left     *)
(* out: an edit is one column among those that are saved.                  *)
(***************************************************************************)
EXTENDS Integers

CONSTANTS
    Urls,          \* official URLs a report may name
    Reports,       \* reports under way at the same time
    Edits,         \* edits under way at the same time
    MaxBorn,       \* bound: entries created
    MaxReports, MaxEdits, MaxSends   \* bounds: reports, edits, forms sent

NoEntry == [pk |-> 0]

EntriesAssumption ==
    /\ {MaxBorn, MaxReports, MaxEdits, MaxSends} \subseteq Nat
    /\ Urls # {}

VARIABLES
    entry,       \* the row: its key, its title, was it submitted?
    born,        \* keys given so far
    drafts,      \* URL -> who made the draft: a key, OtherDraft or NoDraft
    reverted,    \* did an edit write an older promotion status back?
    report, edit,     \* requests under way
    reports, edits,   \* made so far
    form,        \* the page that creates the entry
    page         \* the page that shows it

vars == <<entry, born, drafts, reverted, report, edit, reports, edits, form, page>>

Titles == {"old", "new"}
EntryType == [pk : 1..MaxBorn, title : Titles, submitted : BOOLEAN]
IdleReport == [state |-> "idle"]
IdleEdit == [pk |-> 0]

\* The shape of every variable.
TypeOK ==
    /\ entry \in EntryType \cup {NoEntry}
    /\ born \in 0..MaxBorn
    /\ drafts \in [Urls -> 0..MaxBorn \cup {-1}]
    /\ reverted \in BOOLEAN
    /\ report \in [Reports -> {IdleReport}
                    \cup [state : {"sent", "holding"}, pk : 1..MaxBorn, url : Urls, page : BOOLEAN]]
    /\ edit \in [Edits -> EntryType \cup {IdleEdit}]
    /\ reports \in 0..MaxReports /\ edits \in 0..MaxEdits
    /\ form \in [state : {"editing", "sent", "done"}, wire : 0..MaxSends, sends : 0..MaxSends]
    /\ page \in [pk : 0..MaxBorn, submitted : BOOLEAN, locked : BOOLEAN]

NoDraft == 0
OtherDraft == -1
ClosedPage == [pk |-> 0, submitted |-> FALSE, locked |-> FALSE]

Init ==
    /\ entry = NoEntry /\ born = 0
    /\ drafts = [u \in Urls |-> NoDraft]
    /\ reverted = FALSE
    /\ report = [r \in Reports |-> IdleReport]
    /\ edit = [e \in Edits |-> IdleEdit]
    /\ reports = 0 /\ edits = 0
    /\ form = [state |-> "editing", wire |-> 0, sends |-> 0]
    /\ page = ClosedPage

Exists(pk) == entry # NoEntry /\ entry.pk = pk
Unlocked == \A r \in Reports : report[r].state # "holding"

(***************************************************************************)
(* Creation, once per token of the form.                                   *)
(***************************************************************************)
SendForm ==
    /\ form.state = "editing" /\ form.sends < MaxSends
    /\ form' = [form EXCEPT !.state = "sent", !.wire = @ + 1, !.sends = @ + 1]
    /\ UNCHANGED <<entry, born, drafts, reverted, report, edit, reports, edits, page>>

LoseForm ==
    /\ form.state = "sent"
    /\ form' = [form EXCEPT !.state = "editing"]
    /\ UNCHANGED <<entry, born, drafts, reverted, report, edit, reports, edits, page>>

Created == IF entry # NoEntry THEN entry
           ELSE [pk |-> born + 1, title |-> "old", submitted |-> FALSE]

\* A copy of the form finds the entry as it is by now.
Create ==
    /\ form.wire > 0
    /\ entry = NoEntry => born < MaxBorn
    /\ entry' = Created
    /\ born' = IF entry = NoEntry THEN born + 1 ELSE born
    /\ form' = [form EXCEPT !.wire = @ - 1, !.state = IF @ = "sent" THEN "done" ELSE @]
    /\ UNCHANGED <<drafts, reverted, report, edit, reports, edits, page>>

(***************************************************************************)
(* The page of the entry.  What it finds gone stays locked.                *)
(***************************************************************************)
OpenPage ==
    /\ entry # NoEntry
    /\ page' = [pk |-> entry.pk, submitted |-> entry.submitted, locked |-> FALSE]
    /\ UNCHANGED <<entry, born, drafts, reverted, report, edit, reports, edits, form>>

LockPage == [page EXCEPT !.locked = TRUE]

\* Its delete button, or any request of its other controls, finds the entry
\* gone.
FindGone ==
    /\ page.pk # 0 /\ ~page.locked /\ ~Exists(page.pk)
    /\ page' = LockPage
    /\ UNCHANGED <<entry, born, drafts, reverted, report, edit, reports, edits, form>>

\* The deletion waits for the lock of a report.
Delete ==
    /\ entry # NoEntry /\ Unlocked
    /\ entry' = NoEntry
    /\ \/ page' = ClosedPage /\ page.pk = entry.pk /\ ~page.locked
       \/ UNCHANGED page
    /\ UNCHANGED <<born, drafts, reverted, report, edit, reports, edits, form>>

(***************************************************************************)
(* Reports.                                                                *)
(***************************************************************************)
\* Requests are interchangeable.
FirstIdle == CHOOSE r \in Reports : report[r] = IdleReport

SendReport(r, u) ==
    /\ report[r] = IdleReport /\ r = FirstIdle /\ reports < MaxReports
    /\ entry # NoEntry \/ page.pk # 0
    /\ reports' = reports + 1
    /\ \E here \in BOOLEAN :
        /\ here => page.pk # 0 /\ ~page.locked /\ ~page.submitted
        /\ ~here => entry # NoEntry
        /\ report' = [report EXCEPT ![r] =
                        [state |-> "sent", pk |-> IF here THEN page.pk ELSE entry.pk,
                         url |-> u, page |-> here]]
    /\ UNCHANGED <<entry, born, drafts, reverted, edit, edits, form, page>>

\* Mutant: no lock.
MayLockAnyway == TRUE
MayLock == Unlocked

LockEntry(r) ==
    /\ report[r].state = "sent" /\ Exists(report[r].pk)
    /\ MayLock
    /\ ~entry.submitted
    /\ report' = [report EXCEPT ![r].state = "holding"]
    /\ UNCHANGED <<entry, born, drafts, reverted, edit, reports, edits, form, page>>

\* Not found; or submitted before, or an address that is not allowed, which is
\* looked at under the lock.
Refuses(r) == ~Exists(report[r].pk) \/ Unlocked

RefuseReport(r) ==
    /\ report[r].state = "sent"
    /\ Refuses(r)
    /\ report' = [report EXCEPT ![r] = IdleReport]
    /\ page' = IF report[r].page /\ page.pk = report[r].pk /\ ~Exists(report[r].pk)
               THEN LockPage ELSE page
    /\ UNCHANGED <<entry, born, drafts, reverted, edit, reports, edits, form>>

Undone == entry

\* The page that reported reloads when its report counts.
Reload(r) == IF report[r].page /\ page.pk = entry.pk /\ drafts[report[r].url] = NoDraft
             THEN [page EXCEPT !.submitted = TRUE] ELSE page

\* The draft is inserted unless its URL has one; the mark comes with it.
FinishReport(r) ==
    LET u == report[r].url IN
    /\ report[r].state = "holding"
    /\ \/ /\ drafts[u] = NoDraft
          /\ drafts' = [drafts EXCEPT ![u] = entry.pk]
          /\ entry' = [entry EXCEPT !.submitted = TRUE]
       \/ /\ drafts[u] # NoDraft
          /\ entry' = Undone
          /\ UNCHANGED drafts
    /\ report' = [report EXCEPT ![r] = IdleReport]
    /\ page' = Reload(r)
    /\ UNCHANGED <<born, reverted, edit, reports, edits, form>>

\* A collector or another user has a draft for the URL.
DraftElsewhere(u) ==
    /\ drafts[u] = NoDraft
    /\ drafts' = [drafts EXCEPT ![u] = OtherDraft]
    /\ UNCHANGED <<entry, born, reverted, report, edit, reports, edits, form, page>>

(***************************************************************************)
(* Edits.                                                                  *)
(***************************************************************************)
LoadEdit(e) ==
    /\ edit[e] = IdleEdit /\ edits < MaxEdits
    /\ entry # NoEntry
    /\ edits' = edits + 1
    /\ edit' = [edit EXCEPT ![e] = entry]
    /\ UNCHANGED <<entry, born, drafts, reverted, report, reports, form, page>>

\* The serializer saves the whole row it has loaded, with the new title.
Saved(e) == [edit[e] EXCEPT !.title = "new"]
SaveEdit(e) ==
    /\ edit[e] # IdleEdit
    /\ entry = NoEntry \/ (Exists(edit[e].pk) /\ Unlocked)
    /\ entry' = Saved(e)
    /\ reverted' = (reverted \/ entry = NoEntry \/ entry.submitted # edit[e].submitted)
    /\ edit' = [edit EXCEPT ![e] = IdleEdit]
    /\ UNCHANGED <<born, drafts, report, reports, edits, form, page>>

\* Fields that do not fit; or the entry was created again since, and the row
\* that would come back has the token of the new one.
RefuseEdit(e) ==
    /\ edit[e] # IdleEdit
    /\ edit' = [edit EXCEPT ![e] = IdleEdit]
    /\ UNCHANGED <<entry, born, drafts, reverted, report, reports, edits, form, page>>

Next ==
    \/ SendForm \/ LoseForm \/ Create \/ OpenPage \/ FindGone \/ Delete
    \/ \E r \in Reports :
        \/ LockEntry(r) \/ RefuseReport(r) \/ FinishReport(r)
        \/ \E u \in Urls : SendReport(r, u)
    \/ \E u \in Urls : DraftElsewhere(u)
    \/ \E e \in Edits : LoadEdit(e) \/ SaveEdit(e) \/ RefuseEdit(e)

Spec == Init /\ [][Next]_vars

(***************************************************************************)
(* Properties.                                                             *)
(***************************************************************************)
DraftsOf(pk) == {u \in Urls : drafts[u] = pk}
OneDraft == \A pk \in 1..born : \A u, v \in DraftsOf(pk) : u = v

\* No entry is marked as submitted without the draft that reviewers see: the
\* mark and the draft are committed together or not at all.
MarkHasDraft == entry # NoEntry /\ entry.submitted => DraftsOf(entry.pk) # {}

\* However many reports of an entry run at the same time, with one URL or with
\* two, one of them counts, as long as no edit wrote an older row back.
ReportedOnce ==
    ~reverted =>
        /\ OneDraft
        /\ entry # NoEntry => entry.submitted = (DraftsOf(entry.pk) # {})

\* The page shows "submitted" only for an entry that was reported.
PageTellsReport == page.submitted => DraftsOf(page.pk) # {}

\* An entry that was submitted cannot be submitted again.
EntryReportedOnce == OneDraft

\* What a page found deleted and locked its controls for is gone for good.
LockedIsGone == page.locked => ~Exists(page.pk)
==============================================================================
