------------------------------ MODULE MCArchive ------------------------------
(***************************************************************************)
(* The archive of a user. The requests about a visit, which may meet at     *)
(* every statement, and the rows that the pages and the calendar read share *)
(* no variable: each is checked while the other is at rest. The rows are    *)
(* gone through in three parts, each while the rest is still: statuses with *)
(* visit records, interests with the status of the event (and one entry of  *)
(* the log less), and the collection.                                       *)
(***************************************************************************)
EXTENDS VisitCompletion, ArchivePages, ActivityCalendar, TLC

CONSTANTS e1, p1

VARIABLE part

archiveParts == <<part, vars, archiveVars>>

\* Only interests are looked at for an event that has an end and no start.
Shape(shown, start, end, category) ==
    [shown |-> shown, start |-> start, end |-> end, category |-> category]
EndOnly == Shape(TRUE, NoDay, 0, "popup")
Shapes == {Shape(TRUE, 1, 2, "popup"), Shape(TRUE, 2, NoDay, "added"),
           Shape(FALSE, 0, 0, ""), EndOnly}

Item(work, quantity, trade, wanted, acquired, hit) ==
    [work |-> work, quantity |-> quantity, trade |-> trade, wanted |-> wanted,
     acquired |-> acquired, hit |-> hit]
ItemsSent == {Item("w1", 1, 1, FALSE, NoDay, TRUE), Item("w2", 2, 0, TRUE, 0, FALSE),
              Item("", 0, 1, FALSE, 2, TRUE), Item("w2", 0, 0, FALSE, NoDay, FALSE)}

Labels == [slug \in {"popup"} |-> "Pop-up"]
Labelled == [p \in {p1} |-> "Pop-up"]

HasStart == \A e \in Events : event[e] # EndOnly
Hidden == \A e \in Events : ~event[e].shown

\* What a part does not move has one initial state.
PartsInit ==
    /\ part \in {"visits", "records", "interests", "goods"}
    /\ Init /\ ArchiveInit
    /\ part # "interests" => HasStart /\ \A x \in Subjects : interest[x] = NoDay
    /\ part \in {"visits", "goods"} => named = {} /\ Hidden

\* Bound: the last two requests are made while one subject has been asked for.
AskedFor ==
    {s \in VisitSubjects :
        \/ row[s] # NoRow \/ HasRecord(s) \/ activity[s] # << >>
        \/ \E q \in Requests : request[q] # Free /\ Subject(q) = s}
Narrow == made >= MaxRequests - 1 => \E s \in VisitSubjects : AskedFor \subseteq {s}

VisitsNext == part = "visits" /\ Next /\ Narrow' /\ UNCHANGED <<part, archiveVars>>

\* Bound: the event is asked to get another status than it has, and the place is
\* planned on the first day; between the check and the write visits are completed
\* and statuses removed.
Asked ==
    \A r \in pending :
        /\ r.from # r.to
        /\ r.subject = p1 => today = 0 /\ r.to = "planned"

RecordsNext ==
    /\ part = "records" /\ UNCHANGED <<part, vars, interest, items, named>> /\ ArchiveNext
    /\ pending # {} => UNCHANGED <<today, subjectVars>> /\ visits \subseteq visits'
    /\ HasStart' /\ Asked'

\* Bound: a status is set on the first day, and nothing comes in between.
InterestsNext ==
    /\ part = "interests" /\ UNCHANGED <<part, vars, visits, items, overridden>> /\ ArchiveNext
    /\ pending # {} => pending' = {}
    /\ pending' # {} => today = 0
    /\ Asked' /\ status'[p1] = "none" /\ p1 \in there'
    /\ last'.entry < MaxEntries

GoodsNext ==
    /\ part = "goods" /\ ArchiveNext
    /\ UNCHANGED <<part, vars, subjectVars, statusVars, interest, pending>>

PartsSpec ==
    PartsInit /\ [][VisitsNext \/ RecordsNext \/ InterestsNext \/ GoodsNext]_archiveParts

Symmetry ==
    Permutations(VisitSubjects) \cup Permutations(Tokens) \cup Permutations(Requests)
===============================================================================
