------------------------------ MODULE Collecting ------------------------------
(***************************************************************************)
(* Collection of drafts from listings on the server: the command           *)
(* discover_drafts, run by a schedule or by the button of the dashboard    *)
(* (staff/views/__init__.py), which a lock in the database cache keeps to  *)
(* one run at a time.                                                      *)
(*                                                                         *)
(* A run lists all its sources first and decides the candidates of all of  *)
(* them afterwards, one by one.  What hosts answer is chosen each time,    *)
(* but a host whose robots.txt could not be fetched stays closed for the   *)
(* run.  What only a report or the dashboard shows is left out.            *)
(***************************************************************************)
EXTENDS Integers, Sequences, FiniteSets, SequencesExt

CONSTANTS
    NumSources,   \* sources that a server reads, in the order of the query
    TypeOf,       \* source -> "rss", "sitemap" or "html"
    Page,         \* source -> the links of its listing
    PageUrls, Hosts,
    HostOf,       \* url or source -> host
    Buttons,      \* workers that serve the button
    Commands,     \* scheduled runs
    MaxPerRun,    \* DRAFT_DISCOVERY_MAX_PER_RUN
    FetchBudget,  \* DRAFT_DISCOVERY_MAX_FETCHES_PER_SOURCE
    MaxRunning    \* bound: runs at the same time

Sources == 1..NumSources
Collections == Buttons \cup Commands
LinkKinds == {"page", "own", "social", "image"}

ASSUME CollectingAssumption ==
    /\ NumSources \in Nat /\ MaxPerRun \in Nat /\ FetchBudget \in Nat /\ MaxRunning \in Nat
    /\ TypeOf \in [Sources -> {"rss", "sitemap", "html"}]
    /\ \A s \in Sources : Page[s] \in Seq([url : PageUrls, kind : LinkKinds])
    /\ \A x \in PageUrls \cup Sources : HostOf[x] \in Hosts
    /\ Buttons \cap Commands = {}

VARIABLES
    source,     \* DraftSource rows
    wanted,     \* what the staff last chose for a source
    collected,  \* URLs with a draft
    claimed,    \* drafts that anybody counts as created by him
    run,        \* runs of the command
    lock,       \* the lock's row in the cache
    left        \* was a lock left behind, and has that not been overcome yet?

collectVars == <<source, wanted, collected, claimed, run, lock, left>>

Resting == [state |-> "idle"]
Adding == [state |-> "adding"]
Ending == [state |-> "ending"]

\* The shape of every variable; no run creates more than its limit, nor
\* fetches more for one source.
CollectTypeOK ==
    /\ source \in [Sources -> [exists : BOOLEAN, enabled : BOOLEAN]]
    /\ wanted \in [Sources -> BOOLEAN]
    /\ collected \subseteq PageUrls
    /\ claimed \in Nat
    /\ lock \in {"free", "held", "expired"} /\ left \in BOOLEAN
    /\ \A r \in Collections :
        \/ run[r] \in {Resting, Adding, Ending}
        \/ /\ run[r].state \in {"listing", "deciding", "storing"}
           /\ run[r].sources \in Seq(Sources)
           /\ run[r].found \in Seq([source : Sources, url : PageUrls])
           /\ run[r].closed \subseteq Hosts /\ run[r].open \subseteq Hosts
           /\ run[r].known \subseteq PageUrls
           /\ run[r].created \in 0..MaxPerRun
           /\ run[r].budget \in [Sources -> 0..FetchBudget]

CollectInit ==
    /\ source = [s \in Sources |-> [exists |-> TRUE, enabled |-> TRUE]]
    /\ wanted = [s \in Sources |-> TRUE]
    /\ collected = {} /\ claimed = 0
    /\ run = [r \in Collections |-> Resting]
    /\ lock = "free" /\ left = FALSE

Enabled(s) == source[s].exists /\ source[s].enabled

(***************************************************************************)
(* What a listing yields: pages, without the feed's own ones, each once.   *)
(***************************************************************************)
Kept(s, link) ==
    \/ link.kind = "page"
    \/ link.kind = "own" /\ TypeOf[s] # "rss"

Candidates(s) ==
    LET Keep(link) == Kept(s, link)
        Once(seen, link) == IF Contains(seen, link.url) THEN seen ELSE Append(seen, link.url)
        urls == FoldLeft(Once, <<>>, SelectSeq(Page[s], Keep))
    IN [i \in DOMAIN urls |-> [source |-> s, url |-> urls[i]]]

(***************************************************************************)
(* The robots.txt of a host is fetched once in a run: it closes the host,  *)
(* or has a rule for every URL.                                            *)
(***************************************************************************)
ReadRobots(r, x) ==
    LET h == HostOf[x] IN
    IF h \in run[r].closed \cup run[r].open THEN {run[r]}
    ELSE {[run[r] EXCEPT !.open = @ \cup {h}], [run[r] EXCEPT !.closed = @ \cup {h}]}

MayFetch(c, x) == HostOf[x] \in c.open

(***************************************************************************)
(* A run begins with the enabled sources there are.                        *)
(***************************************************************************)
Begun ==
    [state |-> "listing", sources |-> SelectSeq([s \in Sources |-> s], Enabled), found |-> <<>>,
     closed |-> {}, open |-> {}, known |-> {}, created |-> 0,
     budget |-> [s \in Sources |-> FetchBudget]]

\* Without an enabled source there is nothing to run.
CanStart(r) ==
    /\ run[r] = Resting /\ Cardinality({q \in Collections : run[q] # Resting}) < MaxRunning
    /\ \E s \in Sources : Enabled(s)

StartCommand(r) ==
    /\ r \in Commands /\ CanStart(r)
    /\ run' = [run EXCEPT ![r] = Begun]
    /\ UNCHANGED <<source, wanted, collected, claimed, lock, left>>

\* cache.add: an absent row is inserted, which only one worker can.
StartButton(r) ==
    /\ r \in Buttons /\ CanStart(r) /\ lock = "free"
    /\ lock' = "held"
    /\ run' = [run EXCEPT ![r] = Begun]
    /\ UNCHANGED <<source, wanted, collected, claimed, left>>

\* An expired row is read first and updated afterwards; the update does not
\* ask whether the row is still expired, or there at all.
FindExpired(r) ==
    /\ r \in Buttons /\ CanStart(r) /\ lock = "expired"
    /\ run' = [run EXCEPT ![r] = Adding]
    /\ UNCHANGED <<source, wanted, collected, claimed, lock, left>>

TakeExpired(r) ==
    /\ run[r] = Adding
    /\ lock' = IF lock = "free" THEN "free" ELSE "held"
    /\ run' = [run EXCEPT ![r] = Begun]
    /\ UNCHANGED <<source, wanted, collected, claimed, left>>

Underway(r) == run[r].state \in {"listing", "deciding", "storing"}
Ended(r) == IF r \in Buttons THEN Ending ELSE Resting

(***************************************************************************)
(* Listings.                                                               *)
(***************************************************************************)
\* Mutant: the whole row is saved, as it was when the run began.
SavesRow(s) == [source EXCEPT ![s].enabled = TRUE]

\* _mark_source_checked writes its own two columns, which nobody else reads.
SavesMark(s) == source

\* Whatever happens to one source, the next one is listed all the same.
ListSource(r) ==
    LET s == Head(run[r].sources) IN
    /\ run[r].state = "listing" /\ run[r].sources # <<>>
    /\ source[s].exists
    /\ \E c \in ReadRobots(r, s), failed \in BOOLEAN :
        /\ failed \/ MayFetch(c, s)
        /\ source' = SavesMark(s)
        /\ run' = [run EXCEPT ![r] = [c EXCEPT !.sources = Tail(@),
                                        !.found = IF failed THEN @ ELSE @ \o Candidates(s)]]
    /\ UNCHANGED <<wanted, collected, claimed, lock, left>>

\* Without its row the mark cannot be saved, which ends the run.
SourceGone(r) ==
    /\ run[r].state = "listing" /\ run[r].sources # <<>>
    /\ ~source[Head(run[r].sources)].exists
    /\ run' = [run EXCEPT ![r] = Ended(r)]
    /\ UNCHANGED <<source, wanted, collected, claimed, lock, left>>

(***************************************************************************)
(* Candidates.                                                             *)
(***************************************************************************)
\* The drafts there are by now are looked up once for the whole batch.
LookUpDrafts(r) ==
    /\ run[r].state = "listing" /\ run[r].sources = <<>>
    /\ run' = [run EXCEPT ![r] =
           [@ EXCEPT !.state = "deciding",
                     !.known = {c.url : c \in ToSet(run[r].found)} \cap collected]]
    /\ UNCHANGED <<source, wanted, collected, claimed, lock, left>>

HoldsBack(c) == c.created >= MaxPerRun \/ c.budget[Head(c.found).source] = 0

\* The candidate is done; the network was used for it or not.
Done(c, fetched) ==
    [c EXCEPT !.state = "deciding", !.found = Tail(@),
              !.budget[Head(c.found).source] = IF fetched THEN @ - 1 ELSE @]

PassOver(r) ==
    /\ run[r].state = "deciding" /\ run[r].found # <<>>
    /\ \/ Head(run[r].found).url \in run[r].known
       \/ HoldsBack(run[r])
    /\ run' = [run EXCEPT ![r] = Done(@, FALSE)]
    /\ UNCHANGED <<source, wanted, collected, claimed, lock, left>>

\* Robots, fetch, extraction and the rules of collection: any of them drops
\* the candidate, or there is a draft to store.
Fetch(r) ==
    LET url == Head(run[r].found).url IN
    /\ run[r].state = "deciding" /\ run[r].found # <<>>
    /\ url \notin run[r].known /\ ~HoldsBack(run[r])
    /\ \E c \in ReadRobots(r, url) :
        \/ run' = [run EXCEPT ![r] = Done(c, TRUE)]
        \/ MayFetch(c, url) /\ run' = [run EXCEPT ![r] = [c EXCEPT !.state = "storing"]]
    /\ UNCHANGED <<source, wanted, collected, claimed, lock, left>>

\* Mutant: a draft that exists by now counts as created.
CreatesAny(url) == TRUE
Creates(url) == url \notin collected

\* The unique URL decides, not what was looked up.
Store(r) ==
    LET url == Head(run[r].found).url IN
    /\ run[r].state = "storing"
    /\ collected' = collected \cup {url}
    /\ claimed' = IF Creates(url) THEN claimed + 1 ELSE claimed
    /\ run' = [run EXCEPT ![r] = [Done(@, TRUE) EXCEPT !.created =
                                    IF Creates(url) THEN @ + 1 ELSE @]]
    /\ UNCHANGED <<source, wanted, lock, left>>

Finish(r) ==
    /\ run[r].state = "deciding" /\ run[r].found = <<>>
    /\ run' = [run EXCEPT ![r] = Ended(r)]
    /\ UNCHANGED <<source, wanted, collected, claimed, lock, left>>

(***************************************************************************)
(* The end of a run.                                                       *)
(***************************************************************************)
\* An error of the command, or the time limit of the worker, which raises
\* SystemExit: the entry in the log and the release follow.
Break(r) ==
    /\ Underway(r)
    /\ run' = [run EXCEPT ![r] = Ended(r)]
    /\ UNCHANGED <<source, wanted, collected, claimed, lock, left>>

OtherButtons(r) == {b \in Buttons \ {r} : run[b] # Resting}

Released(r) == "free"

\* The lock's row is deleted, whoever took it last.
Release(r) ==
    /\ run[r] = Ending
    /\ lock' = Released(r)
    /\ left' = (left /\ OtherButtons(r) # {})
    /\ run' = [run EXCEPT ![r] = Resting]
    /\ UNCHANGED <<source, wanted, collected, claimed>>

\* The process is killed: nothing follows.
Kill(r) ==
    /\ run[r] # Resting
    /\ run' = [run EXCEPT ![r] = Resting]
    /\ left' = (left \/ (r \in Buttons /\ run[r] # Adding))
    /\ UNCHANGED <<source, wanted, collected, claimed, lock>>

\* Mutant: the lock lasts no longer than the time limit of a worker.
MayExpireEarly == TRUE

\* Workers are stopped long before the lock expires.
MayExpire == \A b \in Buttons : run[b] \in {Resting, Adding}

LockExpires ==
    /\ lock = "held" /\ MayExpire
    /\ lock' = "expired"
    /\ UNCHANGED <<source, wanted, collected, claimed, run, left>>

(***************************************************************************)
(* Meanwhile: the staff and the runner.                                    *)
(***************************************************************************)
Switch(s) ==
    /\ source[s].exists
    /\ source' = [source EXCEPT ![s].enabled = ~@]
    /\ wanted' = [wanted EXCEPT ![s] = ~source[s].enabled]
    /\ UNCHANGED <<collected, claimed, run, lock, left>>

RemoveSource(s) ==
    /\ source[s].exists
    /\ source' = [source EXCEPT ![s] = [exists |-> FALSE, enabled |-> FALSE]]
    /\ wanted' = [wanted EXCEPT ![s] = FALSE]
    /\ UNCHANGED <<collected, claimed, run, lock, left>>

\* A draft from a URL that a reviewer gives, or from another collector.
Register(url) ==
    /\ url \notin collected
    /\ collected' = collected \cup {url}
    /\ claimed' = claimed + 1
    /\ UNCHANGED <<source, wanted, run, lock, left>>

CollectNext ==
    \/ \E r \in Collections :
        \/ StartCommand(r) \/ StartButton(r) \/ FindExpired(r) \/ TakeExpired(r)
        \/ ListSource(r) \/ SourceGone(r) \/ LookUpDrafts(r)
        \/ PassOver(r) \/ Fetch(r) \/ Store(r) \/ Finish(r)
        \/ Break(r) \/ Release(r) \/ Kill(r)
    \/ LockExpires
    \/ \E s \in Sources : Switch(s) \/ RemoveSource(s)
    \/ \E url \in PageUrls : Register(url)

CollectSpec == CollectInit /\ [][CollectNext]_collectVars

(***************************************************************************)
(* Properties.                                                             *)
(***************************************************************************)

Alive == {b \in Buttons : run[b] \notin {Resting, Adding}}

\* The button runs one collection at a time, and the lock is there exactly while
\* its run is, however that ends; only after a killed run left its lock behind
\* may two presses both take what expired of it.
OneButtonRun == left \/ (Cardinality(Alive) <= 1 /\ (lock = "held" <=> Alive # {}))

\* A draft is counted as created once, although the same URL is in several
\* listings and several runs and reviewers store it at the same time.
ClaimedOnce == claimed = Cardinality(collected)

\* A run never undoes what the staff chose for a source while it was reading.
StaffChoiceKept == \A s \in Sources : source[s].enabled = wanted[s]
===============================================================================
