------------------------------ MODULE ErrorGroups ------------------------------
(***************************************************************************)
(* Groups of equal errors (core/error_groups.py): pages report what goes   *)
(* wrong in them (static/js/shared/error_report.js), the server counts the *)
(* reports of one fingerprint in one row, keeps the rows of a source to a  *)
(* limit, new groups of the public endpoint to a quota per hour            *)
(* (core/client_error_views.py), and deletes old rows (core/retention.py). *)
(*                                                                         *)
(* One source and one hour.  Statements see what others committed (READ    *)
(* COMMITTED); the counter of the quota is read and written in two steps   *)
(* by the cache.  Messages and what is erased from them are left out.      *)
(***************************************************************************)
EXTENDS Integers, FiniteSets

CONSTANTS
    Prints,        \* fingerprints
    Writers,       \* reports served at the same time
    Limit,         \* SOURCE_GROUP_LIMIT
    Quota,         \* NEW_GROUP_HOURLY_LIMIT
    Pages, MaxPerPage,
    MaxReports     \* bound: reports

ASSUME GroupsAssumption ==
    /\ Limit \in Nat /\ Quota \in Nat /\ MaxPerPage \in Nat /\ MaxReports \in Nat
    /\ IsFiniteSet(Prints)
    /\ IsFiniteSet(Writers) /\ Writers # {}

NoGroup == [id |-> 0, count |-> 0, seen |-> 0]
Unserved == [state |-> "idle"]

VARIABLES
    rows,          \* the committed rows: fingerprint -> row
    reported,      \* fingerprints every page has reported
    clock,         \* reports so far: the time a report carries
    writer,        \* reports that are served
    counter,       \* new groups of the hour, in the cache
    admitted,      \* new groups that were let through
    lost,          \* increments of the counter that others overwrote
    counted        \* reports answered as counted since the row was inserted

groupVars == <<rows, reported, clock, writer, counter, admitted, lost, counted>>

\* A row and its times; a report that is served, with what it has read so far.
GroupRow == [id : Nat, count : Nat, seen : Nat]
Served ==
    [state : {"sent", "serving", "missed", "retrying", "inserted"}, print : Prints, now : Nat]
    \cup [state : {"asking"}, print : Prints, now : Nat, read : Nat]
    \cup [state : {"trimming"}, print : Prints, now : Nat, excess : Nat]
    \cup [state : {"picked"}, print : Prints, now : Nat, stale : SUBSET Nat]

\* The shape of every variable.
GroupsTypeOK ==
    /\ rows \in [Prints -> GroupRow]
    /\ reported \in [Pages -> SUBSET Prints]
    /\ \A g \in Pages : Cardinality(reported[g]) <= MaxPerPage
    /\ clock \in 0..MaxReports
    /\ writer \in [Writers -> Served \cup {Unserved}]
    /\ counter \in Nat /\ admitted \in Nat /\ lost \in Nat
    /\ counted \in [Prints -> Nat]

GroupsInit ==
    /\ rows = [f \in Prints |-> NoGroup]
    /\ reported = [g \in Pages |-> {}]
    /\ clock = 0
    /\ writer = [w \in Writers |-> Unserved]
    /\ counter = 0 /\ admitted = 0 /\ lost = 0
    /\ counted = [f \in Prints |-> 0]

Committed == {f \in Prints : rows[f].count > 0}

\* Writers are interchangeable.
FirstIdle == CHOOSE w \in Writers : writer[w] = Unserved

(***************************************************************************)
(* The page reports an error once, and no more than a few.                 *)
(***************************************************************************)
Report(g, f) ==
    /\ f \notin reported[g] /\ Cardinality(reported[g]) < MaxPerPage
    /\ clock < MaxReports
    /\ \E w \in Writers : writer[w] = Unserved
    /\ reported' = [reported EXCEPT ![g] = @ \cup {f}]
    /\ clock' = clock + 1
    /\ writer' = [writer EXCEPT ![FirstIdle] = [state |-> "sent", print |-> f, now |-> clock']]
    /\ UNCHANGED <<rows, counter, admitted, lost, counted>>

Reload(g) ==
    /\ reported[g] # {}
    /\ reported' = [reported EXCEPT ![g] = {}]
    /\ UNCHANGED <<rows, clock, writer, counter, admitted, lost, counted>>

(***************************************************************************)
(* The quota for new groups.                                               *)
(***************************************************************************)
Admit(w) ==
    /\ writer[w].state = "sent"
    /\ writer' = [writer EXCEPT ![w] =
            IF writer[w].print \in Committed
            THEN [state |-> "serving", print |-> @.print, now |-> @.now]
            ELSE [state |-> "asking", print |-> @.print, now |-> @.now, read |-> counter]]
    /\ UNCHANGED <<rows, reported, clock, counter, admitted, lost, counted>>

Allows(read) == read + 1 <= Quota

AdmitNew(w) ==
    LET r == writer[w] IN
    /\ r.state = "asking"
    /\ counter' = r.read + 1
    /\ lost' = lost + counter - r.read
    /\ admitted' = IF Allows(r.read) THEN admitted + 1 ELSE admitted
    /\ writer' = [writer EXCEPT ![w] =
            IF Allows(r.read) THEN [state |-> "serving", print |-> r.print, now |-> r.now] ELSE Unserved]
    /\ UNCHANGED <<rows, reported, clock, counted>>

(***************************************************************************)
(* Update, insert, update again.                                           *)
(***************************************************************************)
Bumped(f, now) == [rows EXCEPT ![f] = [id |-> @.id, count |-> @.count + 1, seen |-> now]]

\* An update that finds the row is committed at once.
Bump(w) ==
    LET f == writer[w].print IN
    /\ writer[w].state = "serving"
    /\ IF f \in Committed
       THEN /\ rows' = Bumped(f, writer[w].now)
            /\ counted' = [counted EXCEPT ![f] = @ + 1]
            /\ writer' = [writer EXCEPT ![w] = Unserved]
       ELSE /\ writer' = [writer EXCEPT ![w].state = "missed"]
            /\ UNCHANGED <<rows, counted>>
    /\ UNCHANGED <<reported, clock, counter, admitted, lost>>

\* A row that is not committed yet: whoever inserts the same one waits.
Inserting(v) == writer[v].state \in {"inserted", "trimming", "picked"}

Insert(w) ==
    LET f == writer[w].print IN
    /\ writer[w].state = "missed"
    /\ \A v \in Writers : Inserting(v) => writer[v].print # f
    /\ writer' = [writer EXCEPT ![w].state = IF f \in Committed THEN "retrying" ELSE "inserted"]
    /\ UNCHANGED <<rows, reported, clock, counter, admitted, lost, counted>>

BumpedAgain(f, now) == IF f \in Committed THEN Bumped(f, now) ELSE rows

\* The row may have been trimmed in between: the report is lost with it.
Retry(w) ==
    LET f == writer[w].print IN
    /\ writer[w].state = "retrying"
    /\ rows' = BumpedAgain(f, writer[w].now)
    /\ counted' = IF f \in Committed THEN [counted EXCEPT ![f] = @ + 1] ELSE counted
    /\ writer' = [writer EXCEPT ![w] = Unserved]
    /\ UNCHANGED <<reported, clock, counter, admitted, lost>>

(***************************************************************************)
(* The limit of a source, counted and trimmed without a lock.              *)
(***************************************************************************)
\* What the transaction of a writer sees: its own row too.
Sees(w) == [rows EXCEPT ![writer[w].print] =
                [id |-> writer[w].now, count |-> 1, seen |-> writer[w].now]]
SeenBy(w) == {f \in Prints : Sees(w)[f].count > 0}

\* Mutant: the new row is not counted.
ExcessBefore(w) == Cardinality(Committed) - Limit
Excess(w) == Cardinality(SeenBy(w)) - Limit

CountRows(w) ==
    LET r == writer[w]
        excess == Excess(w) IN
    /\ r.state = "inserted"
    /\ writer' = [writer EXCEPT ![w] =
            IF excess <= 0
            THEN [state |-> "picked", print |-> r.print, now |-> r.now, stale |-> {}]
            ELSE [state |-> "trimming", print |-> r.print, now |-> r.now, excess |-> excess]]
    /\ UNCHANGED <<rows, reported, clock, counter, admitted, lost, counted>>

Older(w, f) == {g \in SeenBy(w) : Sees(w)[g].seen < Sees(w)[f].seen}

\* As many of the oldest rows as there were too many.
Oldest(w) == {f \in SeenBy(w) : Cardinality(Older(w, f)) < writer[w].excess}

PickStale(w) ==
    LET r == writer[w] IN
    /\ r.state = "trimming"
    /\ writer' = [writer EXCEPT ![w] =
            [state |-> "picked", print |-> r.print, now |-> r.now,
             stale |-> {Sees(w)[f].id : f \in Oldest(w)}]]
    /\ UNCHANGED <<rows, reported, clock, counter, admitted, lost, counted>>

CommitRow(w) ==
    LET gone == {f \in SeenBy(w) : Sees(w)[f].id \in writer[w].stale} IN
    /\ writer[w].state = "picked"
    /\ rows' = [f \in Prints |-> IF f \in gone THEN NoGroup ELSE Sees(w)[f]]
    /\ counted' = [f \in Prints |->
            IF f \in gone THEN 0 ELSE IF f = writer[w].print THEN 1 ELSE counted[f]]
    /\ writer' = [writer EXCEPT ![w] = Unserved]
    /\ UNCHANGED <<reported, clock, counter, admitted, lost>>

\* The connection fails; whatever happens, the caller does not notice.
Fail(w) ==
    /\ writer[w].state \in {"serving", "missed", "retrying", "inserted", "trimming", "picked"}
    /\ writer' = [writer EXCEPT ![w] = Unserved]
    /\ UNCHANGED <<rows, reported, clock, counter, admitted, lost, counted>>

\* Rows last seen before a time are deleted; none of them is locked.
Prune(cutoff) ==
    LET stale == {f \in Committed : rows[f].seen < cutoff} IN
    /\ stale # {}
    /\ rows' = [f \in Prints |-> IF f \in stale THEN NoGroup ELSE rows[f]]
    /\ counted' = [f \in Prints |-> IF f \in stale THEN 0 ELSE counted[f]]
    /\ UNCHANGED <<reported, clock, writer, counter, admitted, lost>>

GroupsNext ==
    \/ \E g \in Pages : Reload(g) \/ (\E f \in Prints : Report(g, f))
    \/ \E w \in Writers :
        \/ Admit(w) \/ AdmitNew(w) \/ Bump(w) \/ Insert(w) \/ Retry(w)
        \/ CountRows(w) \/ PickStale(w) \/ CommitRow(w) \/ Fail(w)
    \/ \E cutoff \in 1..clock : Prune(cutoff)

GroupsSpec == GroupsInit /\ [][GroupsNext]_groupVars

(***************************************************************************)
(* Properties.                                                             *)
(***************************************************************************)

\* The rows of a source exceed their limit at most by the insertions that ran
\* at the same time, and that does not add up.
GroupLimit == Cardinality(Committed) <= Limit + Cardinality(Writers) - 1

\* A row counts every report that was answered as counted since it exists: the
\* loser of a race for its insertion is not lost.
CountsTold == \A f \in Committed : rows[f].count = counted[f]

\* New groups exceed the quota only by the increments of its counter that
\* were overwritten.
QuotaHolds == admitted <= Quota + lost

\* Reports of equal errors at the same time, rows trimmed and rows deleted keep
\* the rows of a source within their limit but for the insertions in progress,
\* the counts equal to what was answered as counted, and the new groups within
\* the quota but for the increments of its counter that were overwritten.
GroupsSafe == GroupsTypeOK /\ GroupLimit /\ CountsTold /\ QuotaHolds
===============================================================================
