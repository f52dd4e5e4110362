# takulife: models, checks and proofs

takulife is a Django application (PostgreSQL, READ COMMITTED) with a process of its own that works for it, the
local runner. Visitors read published events; users keep an archive of what they plan, visited and collected; staff
review drafts and publish events; the runner explores the web for sources and event drafts and translates published
events. This directory holds TLA+ models of the parts where requests, processes, pages and messages meet, the TLC runs
that check them on small instances, and TLAPS proofs that hold for every instance. `PROJECT.json` lists the runs, maps
every definition to the lines it stands for, and lists the hazards with the properties that watch them.

    tlc -workers 2 -config MCSharedRows.cfg MCSharedRows
    tlapm Discovery_proofs.tla

## Inventory

| Component | State | Operations | Hard behaviour | What makes it correct | Module |
|---|---|---|---|---|---|
| Source discovery (`drafts/discovery_runs.py`, `candidate_validation.py`, `agent_drafts.py`, `runner_views.py`) | runs with status, token, lease end, lease count, report; candidates and drafts per run; sources; heartbeat row | create a run, claim (and sweep), submit listing, account source or event, complete, heartbeat, offline | submissions check for minutes between two transactions; leases lapse meanwhile; reports repeat | one active run; a lost token stays lost; caps per run; final status borne out by the records; finished is final | `DiscoveryRuns`, `RunLedger` |
| Local runner, exploration (`local_runner/runner.py`, `exploration_flow.py`, `progress.py`, `client.py`) | main thread, progress, ticker thread | poll, claim, explore, submit, report, shut down | lost requests, lost answers, signals at any line, crashes, a heartbeat in flight | nothing stays leased without a loss; a success is whole; every run ends; absence shows | `RunnerLoop` |
| Collection on the server (`discover_drafts`, `candidate_intake.py`, `discovery.py`, `robots.py`, `staff/views/__init__.py`) | source rows, drafts by URL, the lock in the database cache, what a run holds in memory | list sources, decide candidates, the button, the schedule, registration by URL | drafts looked up before the fetches; sources read before they are saved; a run breaks, is killed, leaves its lock | one run of the button at a time; no lock without its run; a draft counted once; no choice of the staff undone | `Collecting` |
| Translation (`events/translation_queue.py`, `content_translation.py`, `local_runner/translation_flow.py`) | text and stored translation per event; batch and attempts in the runner's memory | list, translate, submit; staff edit, unpublish, publish, delete; operator lock and reset | the text changes during translation; a submission arrives late; limits and failures | nothing stale shown; only operators replace what is settled; nobody starves | `TranslationQueue` |
| Drafts: intake and review (`drafts/services.py`, `staff/views/drafts.py`, `draft_api.py`, `static/js/staff/draft_bulk.js`) | drafts with a status and contents, events by URL, the log, the queue page | register, update, approve, reject, reopen, in bulk and one by one | two reviewers; an event with the URL appears; answers late, partial or lost | one decision counts; an approval publishes what passed the checks; the page tells the truth and keeps its place | `DraftReview` |
| Event console (`events/services.py`, `staff/views/events*.py`, `static/js/staff/event_*.js`) | events with status, URL, verification; the log; the list with locked rows; open forms | create, edit, switch over, verify, delete, bulk | a verification that saves what it loaded; a URL looked up before it is written; a page brought back from the browser's cache | the log tells the events; rows tell their events; no row locked for good | `EventConsole`, `PaletteSlots` |
| Categories (`core/categories.py`, `core/models.py`, `events/signals.py`) | slots, active flags | take and return slots | counts taken before others commit; exhaustion | a slot exactly while it is needed | `PaletteSlots` |
| Archive: visits (`archive/services.py`, `views.py`, `models.py`) | status rows, visit records, activity log, operation keys | complete a visit, create, patch, remove a status, delete a record | two requests of one user insert the same row; checks without locks; requests sent again | a record contradicts a row only behind a check that it has overtaken; the log tells the history; the loser of an insertion recovers | `VisitCompletion` |
| Archive: photos (`archive/services.py`, `static/js/pages/visit_create.js`, `visit_edit.js`) | photos per record, tokens, the page's list of files | upload, delete, take back, submit again | an answer lost at the limit; uploads partly done | the limit; a file once; nothing lost silently; who submits again gets done | `VisitPhotos` |
| Archive: collection items (`archive/services.py`, `views.py`, `signals.py`) | an item with two links, quantities and an image; files in the storage | create, patch, delete, cascades | two patches; a failure between file and row; a form sent twice | links agree; the log tells the quantities; an image has its file | `CollectionItems` |
| Archive: personal entries (`web/promotion.py`, `archive/views.py`, `static/js/pages/personal_detail.js`) | an entry with its promotion status, drafts by URL, the page | create, edit, delete, report | two reports; an edit saves columns it did not change; an answer lost | mark and draft come together; one report counts | `PersonalEntries` |
| Accounts (`accounts/services.py`, `signals.py`, `web/views/account.py`, `staff/views/accounts.py`) | deletion request, sessions, flags | log in, request, purge, set flags | login against purge; a login past its signal; two superusers | a cancelled deletion is not carried out; sessions end; a change is logged once; what is due goes | `AccountLifecycle` |
| Archive: rows, pages and calendar (`archive/queries.py`, `querysets.py`, `activity_calendar_queries.py`, `web/views/archive.py`, `collection.py`, `activity.py`, `events/presenters.py`) | statuses, interests, records, items, the activity log, the events and places they are about | every operation on the rows; lists, counts, badges, links, chips; month, legend, search | each number and list is a query of its own, with its own idea of a planned or missed visit; the day changes, events are edited and deleted under the rows | pages do not contradict each other; the calendar counts, finds and links to what it shows | `ArchiveRows`, `ArchivePages`, `ActivityCalendar` |
| Error groups (`core/error_groups.py`, `client_error_views.py`, `static/js/shared/error_report.js`) | one row per fingerprint, limit per source, quota per hour | report, admit, count, insert, trim, prune | insertion races, trimming and counting without a lock | reports are counted, limit and quota hold up to what runs at the same time | `ErrorGroups` |

How they interact: staff create a run, the runner claims it and submits candidates and drafts under its token; the
server collects drafts itself; staff approve drafts into events; published events are listed to the runner for
translation when it has no run; users reference events from their archive, which blocks the deletion of the event, and
report places of their own, which become drafts. Everything shared is a row of the database (the cache is a table, too);
the runner and the pages share nothing with it but HTTP calls.

### Not modelled

- Fetching, URL safety, extraction and language models: network and parsing of texts. In the models they pass or fail.
- The public list, detail and calendar of events, sitemaps, the staff's discovery pages: they only read. Of the
  archive's pages: search, order and pagination of the lists, the detail pages, the filters of the collection other
  than its tabs.
- Vocabulary, presenters, analytics, API errors: formatting, and counters that may be lost.
- Browser scripts other than those named above: display.
- Registration, passwords and e-mail: allauth's. Throttles, authentication, configuration and migrations.
- Of the archive's visits: reviews, and changes of interests that overlap. `remove_event_interest`
  (`archive/services.py:150`) logs a removal twice when it is asked for twice at a time; no document says otherwise, and
  there is no state of it that a second run could go wrong in.

## Modules

**`DiscoveryRuns`** is the server side of source discovery. A request that runs in one transaction is one action:
`CreateRun`, `ClaimNothing` and `ClaimRun` (with the sweep of lapsed leases that every claim performs first),
`Complete` (with the computed status), `Heartbeat`, `RecordOffline`. A submission has two transactions with network
checks between them. `CheckListing`, `CheckAccount` and `CheckEvent` are the first (lease, early count, renewal), after
which the submission is in `worker`; `SaveFailed`, `Promote`, `PromoteCollides`, `SaveEvent` or `Abandon` is the
second, which checks the lease and the count again. Time is `Tick`, which shortens leases and ages the heartbeat.
`Others...` are sources and drafts that come and go in the admin and in other requests. A uuid4 token is a number that
was never used; the empty token is 0.

**`RunLedger`** is what the server promises, without time and without halves of submissions: runs one at a time, a new
holder for each grant, entries only while a run is held, a closed run for ever as it was closed. `DiscoveryRuns`
implements it under the mapping at its end (`Ledger`).

**`RunnerLoop`** EXTENDS `DiscoveryRuns`: each step of the runner is a step of its main thread together with the
server's action that its call causes. A call is answered, unsent (only the runner sees an error) or unanswered (only
the server acts). The ticker thread's heartbeats are messages (`beats`). A signal may come between any two steps and
leads to the shutdown report and the offline report; `Die` is a crash.

**`TranslationQueue`** models the server's list and submission, the runner's batches and the people who change the
rows. A text stands for its hash. `Submitted`, `Rejected` and `TranslationFails` are one iteration of the loop in
`translate_pending_batch`; `SubmissionLost`, `AnswerLost` and `SubmissionDelayed` are the ways in which the batch is
aborted, the last of which leaves a submission in `late` that the server may process at any later time.

**`VisitCompletion`** models the requests of one user. What a transaction does after it has locked or inserted the
status row is one step; every look without a lock is a step of its own, so that another commit can fall in between.
`Operations` are the operations the clients use; any of them may be in progress together. Two history variables, which
no request reads, say what an unlocked look led to: `overtaken` are the creations and patches that were past their check
when a record of their subject was saved, and `gaps` the places in a log at which a patch or a removal wrote to a row
that was not the one it had loaded any more.

**`PaletteSlots`** models the requests of the staff on events and categories, one transaction each. `CreateEvent`,
`Unpublish`, `Republish`, `LockDelete` and `Disable` take the lock and change the row; `CountPublished`,
`LoadCategory`, `PickSlot` and `Commit` are the statements of `reconcile_category_palette_slot`, between which others
commit. The variables are what is committed; what a request has written itself is `EventsSeenBy`. `Edit`, `Enable` and
`CreateCategory` reconsider no slot and are one step. Any two requests may be about one category. Two history variables,
which no request reads, say which slots were decided on answers that were no longer so: `outdated` are the requests that
have counted or loaded before another one committed on their category, and `unsettled` the categories on which such a
request has committed, or from which an edit took a published event, without another request since.

**`Collecting`** models runs of `discover_drafts`, by the button or by a schedule. `ListSource`, `PassOver`, `Fetch` and
`Store` are the iterations of its two loops; `Fetch` ends before the transaction in which `Store` inserts the draft. The
lock is a row of Django's `DatabaseCache`: an absent row is inserted, which only one can do, but an expired one is read
(`FindExpired`) and updated (`TakeExpired`) without asking again. `Break` is an error or gunicorn's time limit, which
raises SystemExit, so that the `finally` clauses run; `Kill` is what runs nothing.

**`DraftReview`** has the server's side of approvals, rejections and edits, one transaction per draft, and the open
queue page, whose requests are asked, sent, served draft by draft, answered and received, or lost. An approval looks
its URL up in one step and inserts the event in another, under the lock of the draft. The rows of the page are a set,
whose order is that of their numbers; that removing some of them at once (`RemoveRows`) is what removing them one by
one in any order does, as the page's script does it, is an assumption of `MCDraftReview` that TLC evaluates.

**`EventConsole`** is the same for the list of events: row buttons, the bulk request, filters, and a page that the
browser keeps and brings back; other staff create, edit and delete through forms. A verification loads the event
without a lock and saves its own columns later.

**`VisitPhotos`**, **`CollectionItems`** and **`PersonalEntries`** are the archive's parts with pages: uploads one by
one with tokens, an item under patches that merge what they ask for under the row's lock, an entry whose edits save
every column without one. A request that is given up may arrive at any later time (`wire`). **`Belongings`** composes
the three: one of them moves, the others are at rest.

**`AccountLifecycle`** runs a login in three steps (authenticated, signal, session saved), a request for deletion in
three (checked, saved, sessions ended), and the purge from its list through one locked transaction per account.
**`ErrorGroups`** takes one source and one hour: a report updates, inserts or updates again, and the inserter counts and
trims the source's rows step by step.

**`ArchiveRows`** is a user's archive as its pages read it: one action per request, but for those that set a status.
`AskStatus` is their check, `CreateStatus` and `PatchStatus` their write, and whatever else happens may come in
between, so that a record may stand next to a planned or missed row here, too. There is one such request at a time
(`pending`); how the requests of one user interleave otherwise is the matter of the modules above. The module adds what
those leave out: interests, days, edits of records, and what happens to the events and places underneath (`EditEvent`,
`DeleteEvent`, which the references of the archive stop and which takes the event out of the log's entries,
`DeletePlace` with its cascade, `Rename`, `Midnight`). **`ArchivePages`** defines what is shown: the derived status,
the list, count and row of the status page, badges, interests and their numbers, chips and their records, the choices
of the form, tabs and colours of the collection. Each is a query of its own, as in the code. **`ActivityCalendar`** has
the five sources of a month's items, the legend, the grid and the search with its own five queries over whole tables.
Neither has actions: they are functions of the rows.

`MC...` modules give the sets and the symmetry. Where components share no variable, one MC module checks several of
them: `part`, `job` or `side` says which one moves, the others are at rest (`MCDiscoveryOutcomes`, `MCLocalRunner`,
`MCSharedRows`, `MCBelongings`, `MCArchive`; the same in `Belongings`). Bounds that hold for one run only (`Narrow`,
`Asked`, `Recorded`) are definitions of these modules. `..._proofs` modules hold the theorems.

## Runs

| Run | Shows | Bounds, and why they are enough |
|---|---|---|
| `discovery_outcomes` | a lost token never revives; final status fits the records; refinement of `RunLedger`. Collection: one run of the button at a time and its lock exactly as long, drafts counted once, the staff's choice kept | one run, two URLs, two leases, a report below zero, one in range and one above every cap: every mixture of promoted, failed and missing. Two buttons and a schedule of which two run at a time, two sources that both list one URL, one draft per run, one fetch per source: every limit is reached |
| `discovery_server_error` | **violation**, finding 1 | two submissions of one URL |
| `local_runner` | Exploring: no orphan without a loss; success is whole; every run ends; a runner gone for good looks offline. Translating: nothing stale shown; only operators replace; nobody starves | one run, two leases, one submission, two faults anywhere: the second lease is the recovery from the first fault. Three events with a list of two and a batch of one, so that list and batch are both shorter than what waits; two changes, so that a text can change and change back; one fault; one change or fault while all three are published; one attempt before giving up |
| `visit_race` | **violation**, finding 2 | one subject, two requests at a time |
| `visit_resend` | **violation**, finding 3 | the fewest requests that matter |
| `palette_race` | **violation**, finding 4 | two requests of staff, two events, two categories, one colour; no event is moved to another category |
| `draft_review` | the log tells the decisions; approvals publish what passed; the page tells the truth and has a current row; requests end | two drafts, so that a bulk request can be served in part, and two requests at a time, one of which may be somebody else's |
| `event_console` | the log tells the events; rows tell their events and none is locked for good (`ListSafe`) | two events, two URLs, two requests and two forms at a time, five operations: a bulk request that meets a deletion and a form |
| `belongings` | photos (`PhotosSafe`): the limit, a file once, nothing lost. The item (`ItemSafe`): links agree, log and quantities, files. The entry (`EntrySafe`): mark and draft, one report, what the page says. Uploads end (`UploadsEnd`). Accounts: a cancelled deletion is off; sessions end; flags logged once; what is due goes | two files for two places with two losses (a loss, and the loss of what is sent again) and one photo from elsewhere; one item, two patches, two events and two records, one of them private; one entry, created up to twice, two reports and one edit. Two browsers of one account, for a login beside a request, another account whose deletion fails, two superusers |
| `promotion_race` | **violation**, finding 5 | one edit around one report |
| `shared_rows` | Discovery: caps hold; one active run; drafts credited once; finished is final. Palette: colours unique and returned when idle (`PaletteSafe`), kept while needed (`SlotsKept`), but for outdated answers; records of users survive. Error groups (`GroupsSafe`): limit, counts, quota | two runs, the first of them with two leases and two workers in flight for one place: the race for the last place and every late save of the first lease. The second run follows with one URL, one submission at a time, one lease and a runner that stays, while a submission of the first may still be in flight. Two requests of staff in every interleaving, two events, two categories, one colour: the palette is exhausted; records of users while there is at most one event and one change under way. Two reports at a time, three fingerprints, a limit of one |
| `archive` | visits: a record is contradicted only by requests it has overtaken (`RecordMeansVisited`), losers recover, the log tells the history (`ActivityTellsHistory`). The pages of an archive agree (`PagesAgree`), and so does its calendar (`CalendarAgrees`) | three requests at a time, four in all, two subjects, two tokens, every overlap: a winner, a loser and a third who comes in between; the third and fourth while one subject has been asked for. One event that the staff changes between shapes (a period, no end, withdrawn; among the interests also an end without a start) and one place; three days and months of two, so that a period begins, ends, crosses a month and is over; two records and two items of four shapes, one of which does not fit; three entries of the log (two among the interests). Between the check and the write of a status, visits are completed and statuses removed. `ClosingDays` is 0, where the code has 4, so that an event is open before it closes soon |

A property that names several parts (`PhotosSafe`, `ItemSafe`, `EntrySafe`, `GroupsSafe`, `PaletteSafe`, `ListSafe`,
`PagesAgree`, `CalendarAgrees`) is the conjunction of invariants of its module, each with its own comment there, in the
first four the module's `TypeOK` among them. What the modules with proofs need of their types is proved with them.

Deadlock checking is off where every counter has a bound and a system in which nothing is left to do stops; it is on in
`draft_review`. The bounds on faults, changes and requests are guards of the actions, not state
constraints, so that liveness is checked on the whole graph.

Fairness. `LoopFairness` asks that a request the server is working on ends, that a heartbeat on its way arrives, and
that time passes. No fairness is asked of staff, of signals or of faults. The runner's part is a hypothesis of the
property that needs it: `RunsFinish` assumes `RunnerKeepsRunning` (launchd restarts the runner and each httpx call has
a timeout of 30 seconds), while `AbsenceShows` is about a runner that stops for good.
`QueueFairness` asks that a runner that can do something in the translation queue does it: the polling loop calls
the batch whenever there is no run. It does not ask that a translation succeeds or that a late submission arrives.
`DraftReview` asks that a request that can get its row lock again and again gets it (PostgreSQL queues waiters) and
that answers arrive or are lost. `AccountLifecycle` asks that the purge is run again and again, which the schedule does,
that transactions end, and that the purge gets a row lock that others keep taking. In `VisitPhotos` the user who
submits again is a hypothesis of `UploadsEnd`.

`QueueMoves` has an escape that is the code's own limit: when as many of the oldest waiting events as the server lists
have been given up by the runner, newer ones wait (`docs/backlog.md` records this).

Two properties hold in every interleaving because they name the way in which the code can fail, and a violation run
shows that it does. `RecordMeansVisited`: a record comes to stand next to a row that is not visited only in the step in
which a creation or a patch ends that was past its check when the record was saved, and saving a record leaves its
subject visited whatever the row said; `visit_race` is the step (a PATCH beside a completion; a creation takes a
removal as well, for otherwise the completion's row stops it). `PaletteSafe` and `SlotsKept`: a slot is kept without
need, lost or changed only by a request that counted or loaded before another one committed, and the next request that
nothing overtakes puts it right; `palette_race` is such a commit. In `ActivityTellsHistory` two patches, or a patch and
a removal, of one row at a time leave a gap, since the entry tells of the row as it was loaded: the entry after the gap
starts from another status than the one before ended in. No document excludes it, so that it is no finding, but nothing
else breaks the chain, and it goes on right after.

## Findings

1. `discovery_server_error`: the final save of `submit_candidate` creates the promoted candidate outside a savepoint. If
   the run has a row for the URL already, the unique constraint fails, nobody catches the error, and the request answers
   500, where a comment and a document speak of returning the row that exists.
2. `visit_race`: a PATCH to planned or missed looks for a record, a completion commits, the PATCH saves, and a record
   stands next to a row that denies it, where the docstring says that this state cannot exist
   (`archive/services.py:256`, `286`, `660`).
3. `visit_resend`: a record is deleted and its creation is sent again. The log keeps the operation key, the insertion
   fails, the record is not found and the request ends in an error, where the docstring says that it is answered as
   created already.
4. `palette_race`: an unpublish loads the category while it is active, a disable counts the event as published, both
   commit, and the inactive category without a published event keeps its slot (`core/categories.py:54`), where the
   table of the document says that it is returned.
5. `promotion_race`: an edit of a personal entry loads the row without a lock and saves every column. Around a report,
   it writes the older promotion status back, and the entry can be reported again.

One more disagreement has a configuration that shows it, to be run by hand:

- `MCRunnerReport.cfg` (with `MCRunnerLoop`): the heartbeat that announces "completing" fails and takes the completion
  report with it, where a comment says that the report is always sent (`local_runner/runner.py:134`).

And some were met while reading, and decide what the properties may claim:

- `OneButtonRun` has an exception, `left`. After a run was killed and its lock has expired, two presses
  at the same time may both read the expired row and both take it, and the first of the two that ends deletes the
  lock of the other: `cache.delete` (`staff/views/__init__.py:364`) does not ask whose lock it is.
- `_trim_source` (`core/error_groups.py:195`) says that the new row is never the oldest. Its time was taken before it
  waited to be inserted, so that it can be when all others are newer; the row is then trimmed at once. `GroupLimit`
  allows one row more for every insertion at the same time.
- `request_deletion` (`accounts/services.py:133`) speaks of ending all sessions. A login that is past its signal saves
  its session afterwards; `SurvivorsAreLate` says that there are no others.
- A form of the console that was opened before somebody else saved writes its fields over the newer ones
  (`staff/views/events.py:489` takes the lock, but compares nothing); a verification of an event that is deleted between
  its load and its save ends in a server error (`staff/views/events_actions.py:88`).
- A source whose first candidates are dropped every time (not Korean, over) uses up its fetches in every run, and what
  stands below them in its listing is never reached: dropped candidates leave no trace
  (`drafts/management/commands/discover_drafts.py:203`).
- The pages of the archive: the colour of a work is said to be stable for life (`web/views/collection.py:43`,
  `archive/queries.py:593`), but it is the rank of the work's first item, so that deleting the first item of an earlier
  work shifts it, and the page of a visit ranks the items of that visit alone (`web/views/archive.py:459`);
  `PagesAgree` claims that no two works share one. A private place is said not to have a status
  (`archive/queries.py:215`), but the API accepts one and `PlaceRow` shows it. The chip of a category that staff added
  is the stored slug, and its list is empty, because only the vocabulary is looked up (`web/views/archive.py:281`).
  What a page offers the API may refuse: an interest offers a plan when there is no status, but the plan is refused
  when the status of a recorded visit was removed (`archive/services.py:183`), so that `InterestsAgree` does not claim
  that it is accepted. And an event with nothing but an end that is past has no badge, so that a plan is offered for
  it, which the view means to avoid for events that are over (`web/views/archive.py:656`); this is the exception in
  `InterestsAgree`.

`IdleSlotsReturned` leaves out categories that an edit has taken a published event from: `update_published_event`
reconsiders no slot, as the document says of the moments at which slots are reconsidered. Of the heartbeat thread,
which is told to stop and not awaited (`local_runner/runner.py:178`), the model has the consequence: a heartbeat on
its way may put the runner online again after its offline report, until `AbsenceShows` takes hold.

## Proofs

All proofs are for every value of the constants under the named assumptions in the modules: bounds are naturals,
limits are positive where the code's are, and values that stand for "none" are not among the real ones.

**`Discovery_proofs`, the server.** The inductive invariant is `TypeOK /\ AtMostOneActive /\ LeaseWellFormed /\ Unborn`.
`AtMostOneActive` needs `LeaseWellFormed` in a sweep (a run that returns to pending still has a lease to give, and a
claim leases the only active run) and `Unborn` in a creation (runs that were not created are absent). One lemma per
action. Theorems: `TypeCorrect`, `SingleFile`, `LeasesAgree`; from the invariant, the action properties `FinishedStays`
(a record needs a valid lease, a valid lease a claimed run) and `LostLeasesStayLost` (a new lease has a new token).
`CreditIsUnique`, `CapsHold` and `VerdictIsTrue` rest on two lemmas about the steps: who changes records
(`RecordSteps`: only a save, which comes after the second count) and who changes verdicts
(`VerdictByCompletion`: a completion, from the records there are). `OneMore` is the count: below the cap, one more is
within it. `LedgerImplemented` is the refinement of `RunLedger`: the mapping's parts are named (`Phase`, `PromotedOf`,
`FailedOf`, `Verdict`), one lemma says what every action is in the ledger (`CreateOpens`, `ClaimGrants`, `SweepCloses`,
`PromotedRecorded`, `FailedRecorded`, `EventRecorded`, `CompletionCloses`), and all other steps stutter
(`LedgerStutters`): the first halves of submissions, heartbeats, time, and the lapse of a lease that may be renewed.

**`Discovery_proofs`, the runner.** `RunnerKeepsProtocol` says that the runner's loop is one of the clients the server
was proved for: every step of `RunnerLoop` is a step of `DiscoveryRuns` or leaves its variables alone, so that all of
the above holds of it, too. `LoopTypeCorrect` are its types. The invariant of `NoRunForgotten` (`NoOrphanWithoutLoss`)
and `SuccessesAreWhole` is `LoopInv`: a lease the runner believes in is one the server gave (`LeasesKnown`), nobody
else's submission is in flight under it (`OthersElsewhere`), and a claimed run whose lease has not lapsed is in the
runner's hands as long as nothing was lost (`NoneForgotten`, by where the main thread stands). Steps that touch none of
this are covered by one lemma (`QuietStep`), the others by one lemma each.

**`Discovery_proofs`, the collection.** `ButtonsTakeTurns` (`OneButtonRun`) needs `LockKept`: unless a run left its lock
behind (`left`), no lock is expired, no press is about to take an expired one, and the lock is held by the one run there
is. `DraftsClaimedOnce` and `ChoicesAreKept` follow from single steps: an insertion counts when the URL was absent,
whatever the look-up before the fetches said, and a run saves columns of a source that the staff does not choose.

**`VisitCompletion_proofs`.** `VisitTypeCorrect` needs to know of each request in progress what its phase says of it
(`TypedInv`): a PATCH carries the identity of a real row, so that it cannot bring a removed one back.
`RecordsAndRowsAgree` is `RecordMeansVisited`, with any operations in progress together. Its invariant `ChecksHold`
says of every creation and patch past its check that there is still no record of its subject, unless it is `overtaken`;
a completion keeps this by adding all of them to `overtaken` when it saves its record (`RecordsOvertake`), and whoever
is not among them writes what fits. `LosersRecover`: a completion that lost its first insertion had a row to find, and
one that does not find it at the second look lost it to a removal, which stays in the log (`LosersInv`).
`HistoryIsTold` is inductive as it stands, subject by subject: each step appends to one log what it does to its row
(`TellsOn`), and a write to another row than was loaded adds the length of the log to `gaps`.

**`TranslationQueue_proofs`.** The invariant adds to the types that a stored hash is the hash of the text the
translation was made from (`StoredAgrees`). Theorems: `TranslationTyped`, `NoStaleDisplay` and `OperatorsOnly`, the
last of which rests on `SettledStays`: an accepted submission leaves a locked and a current translation alone, however
late it is.

**`SharedRows_proofs`, palette slots.** `ColoursAreUnique` needs only the types: a step writes one slot, and a taken one
is refused. `RecordsStay` adds that a deletion under way is of an event without records (`DeletesAreClean`), which the
lock keeps so. `IdleSlotsAreReturned` (with the former, `PaletteIsSafe`) and `NeededSlotsAreKept` hold for any number of
requests on one category. Their invariant, `SlotInv`, says that requests hold different events (`EventsApart`), that a
request's change counts for its own category alone (`HeldFits`), and therefore that what it has counted and concluded is
still so when it commits (`KnowsWell`), unless it is `outdated`: a commit on its category makes it so in the same step
(`Outdating`), as does an edit. That a request is outdated only while it has counted or loaded is `OutdatedFit`.

**`SharedRows_proofs`, error groups.** `GroupsHold` (`GroupsSafe`). A writer that has counted the rows will leave a
number of them behind when it commits; every commit of another one adds at most one to that number. So of N writers at
most N - k can leave k rows too many (`Spread`), and none can leave N. The oldest rows of a set are well defined because
a set of numbers has a least one (`LeastNumber`). The quota needs what was read of the counter and not yet written
(`ReadsBounded`).

**`AccountArchive_proofs`, accounts.** `MessageIsKept`: whoever was told that the deletion is off has no request pending
(`ToldHasNoRequest`), and the purge reads the request again under its lock. `OnlyLateSurvive` strengthens the property
to logins that have not saved their session yet (`LoggedInIsLate`): of an account whose sessions were ended while its
request stands, a login past its signal is counted as late before its session is there. `FlagLogIsTrue`: two superusers
never hold one account (`OneHolder`), so that what one of them read is still so when the flag is written
(`HoldersKnow`).

**`AccountArchive_proofs`, the archive.** `ArchiveInvariant` is what pages and calendar rest on (`ArchiveInv`): the
types, among them that a status about to be set is of a subject that exists; what has a status or an interest
exists (`SubjectsExist`), which the refusal to delete an event and the cascade of a place keep so; an interest has its
entry in the log, on its day, or is of an event the log has no addition of (`InterestLogged`); quantities fit and ids
are unique (`ItemsFit`, `ItemsNumbered`). One lemma per action. `PagesAreTrue` and `CalendarIsTrue` are then lemmas
about the queries, without further induction. That the three counts of statuses add up to the list is the cardinality of
a partition (`CountsAddUp`). `LinkTellsRecord` needs that a finite set of records has a newest one. That no two works
share a colour needs that ranks differ and that 5 and 12 are coprime, by cases over twelve ranks. In the calendar,
`SearchedIsShown` relates the kinds that are searched to those that are visible under every selection; the grid covers
the month (`Weeks` rounds up), so that every item that is counted is on one of its days; an item of the schedule that
starts before the month is found by its start, which is why the search may jump to an earlier month.

**`DraftReview_proofs`.** The invariant adds to `LogTellsStatus` that an approval under way holds a pending draft whose
contents pass (`HeldFits`), which no edit or decision of another request disturbs, because no two hold one draft
(`OneHolder`). `LogIsTrue` counts the entries of the log: a decision and its entry come together.
`ApprovalIsPublication` follows from `HeldFits`: only the end of an approval that inserts its event approves a draft
(`ApprovedByInsertion`). `PageIsTrue` is about the page: what a request counts as done has happened before its answer
leaves (`AnswersTrue`, `Follows`), and what has happened stays so (`HappenedStays`: approval is final, entries of the
log are not taken back), so that an answer is true however late it is applied. Removing rows leaves a current one
because a set of drafts has a greatest and a least (`AdvanceFindsRow`).

**`EventConsole_proofs`.** `EventLogIsTrue` needs that a form for a new event stands for one that is not there, and for
no other form's (`NewIsAbsent`), and that what is not there has no mark (`AbsentUnverified`); a verification writes its
mark alone, whatever it loaded. `NoRowStaysDead` (`RowsInv`) needs that only requests of the list are confirmed first
(`AskedIsListed`): a request that is served goes on unlocking its row until its answer is there (`FinishedUnlocks`), an
answer, read or lost, unlocks exactly that row, and what forgets requests leaves no row locked. `RowsTellStatus` adds
what a row waits for (together they are `ListIsSafe`; `WrongIsAwaited`: a row that shows another status than its event's
is about to be told by an answer, unless it is excused) and that such an answer is still true (`AnswersTrue`).

**`Belongings_proofs`.** `PhotosHold`, `ItemsHold` and `EntriesHold` are the three conjunctions the run checks, each
with an invariant of its own (`PhotosInv`, `ItemsInv`, `EntriesInv`) that adds what requests in progress and on the
wire know: that no two hold a lock (`PhotosAlone`, `ItemsAlone`, `ReportsAlone`), that what was found under it is still
so (`PlaceKept`, `StillAccepted`, `StillUnmarked`), that what the page has not queued any more is stored
(`NothingForgotten`), and that an entry loaded as reported has its draft (`LoadedHasDraft`).

Only model-checked: liveness (`RunsFinish`, `AbsenceShows`, `QueueMoves`, `RequestsEnd`, `UploadsEnd`, `DueIsPurged`),
which needs fairness and ENABLED and is out of the prover's reach. Every other property of the passing runs is a
theorem. That `RemoveRows` is the page's loop over its rows is an induction over data and stays with TLC
(`RemovalAssumption`).

## Abstractions

The models leave out wording, dates other than those of `ArchiveRows`, analytics, throttles and authentication, and
image files except an item's. Network checks, the agent and the language model answer anything. Row locks are taken as
PostgreSQL takes them: what happens under one is not interleaved with another holder of it. What a user does to one
subject never reads another user's rows, so that one user is enough. Parts that share no variable are checked beside
each other and not in all combinations, which adds nothing to what they do.

## Plan

All components with state that several actors share are modelled, and every safety and action property that a run
checks is proved. Left are the public pages of events (list, detail, calendar) beside those of the archive, and the
full type invariants of the modules whose properties need less of their types (`ErrorGroups`, `Collecting` and the
archive's parts have theirs in the conjunctions that are proved; `DraftReview`, `EventConsole`, `PaletteSlots` and
`AccountLifecycle` have what their proofs need).
