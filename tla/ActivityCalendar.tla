--------------------------- MODULE ActivityCalendar ----------------------------
(***************************************************************************)
(* The activity calendar of an archive (archive/activity_calendar_queries.py, *)
(* web/views/activity.py, core/calendar_grid.py): the items of a month from   *)
(* five sources, the legend that counts and filters them, the grid they are   *)
(* put in, and the search that jumps to the last day with a match.           *)
(*                                                                         *)
(* The search looks at whole tables, the calendar at one month; each has     *)
(* its own queries. A month has MonthLength days here, day 0 is a Sunday.    *)
(***************************************************************************)
EXTENDS ArchiveRows

CONSTANT MonthLength

ASSUME CalendarAssumption == MonthLength \in Nat \ {0}

WeekLength == 7

(***************************************************************************)
(* The items of a month.                                                   *)
(***************************************************************************)
FirstOf(m) == m * MonthLength
LastOf(m) == FirstOf(m) + MonthLength - 1
Months == {m \in 0..LastDay : FirstOf(m) <= LastDay}
DaysOf(m) == FirstOf(m)..LastOf(m)

\* An item of one day begins and ends on it. Its link leads to the event, if
\* there is one, or to the page of the row itself. Only the log knows the time
\* of the day.
OnDay(kind, id, day, events, hit, timed) ==
    [kind |-> kind, id |-> id, first |-> day, last |-> day, events |-> events, hit |-> hit,
     timed |-> timed]

\* An event without an end lasts for the day it starts on.
End(e) == IF event[e].end = NoDay THEN event[e].start ELSE event[e].end

\* Planned as it is stored, while the period of the event meets the month.
ScheduleItems(m) ==
    {[kind |-> "schedule", id |-> e, first |-> event[e].start, last |-> End(e),
      events |-> {e}, hit |-> e \in named, timed |-> FALSE] :
        e \in {e \in Events : /\ status[e] = "planned"
                              /\ event[e].start # NoDay
                              /\ event[e].start <= LastOf(m) /\ End(e) >= FirstOf(m)}}

VisitItems(m) ==
    {OnDay("visit", v.id, v.day, {}, v.subject \in named, FALSE) :
        v \in {v \in visits : v.day \in DaysOf(m)}}

\* The day an item was acquired, or else the day it was registered.
GoodsDay(i) == IF i.data.acquired = NoDay THEN i.created ELSE i.data.acquired

GoodsItems(m) ==
    {OnDay("goods_acquired", i.id, GoodsDay(i), {}, i.data.hit, FALSE) :
        i \in {i \in items : GoodsDay(i) \in DaysOf(m)}}

LogItems(m) ==
    {OnDay(entry.kind, entry.id, entry.day, entry.events, entry.hit, TRUE) :
        entry \in {entry \in log : entry.day \in DaysOf(m)}}

\* Interests from before the log: those of events that no entry says were
\* added.
Unlogged(e) == \A entry \in log : ~(entry.kind = "interest_added" /\ e \in entry.events)
OldInterests == {e \in Events : interest[e] # NoDay /\ Unlogged(e)}

OldInterestItems(m) ==
    {OnDay("interest_added", e, interest[e], {e}, e \in named, FALSE) :
        e \in {e \in OldInterests : interest[e] \in DaysOf(m)}}

AllKinds == Kinds \cup {"schedule", "visit", "goods_acquired"}

MonthItems(m, kinds) ==
    {i \in ScheduleItems(m) \cup VisitItems(m) \cup GoodsItems(m) \cup LogItems(m)
            \cup OldInterestItems(m) : i.kind \in kinds}

(***************************************************************************)
(* The legend and the days.                                                *)
(***************************************************************************)
GroupKinds == [schedule |-> {"schedule"}, interest |-> {"interest_added", "interest_removed"},
               status |-> {"status_changed", "status_removed"}, visit |-> {"visit"},
               goods |-> {"goods_acquired"}]
Groups == DOMAIN GroupKinds

\* Statuses are told by the schedule, what is done to records and items by the
\* records and items themselves.
VisibleGroups == Groups \ {"status"}
Visible(i) == \E g \in VisibleGroups : i.kind \in GroupKinds[g]

\* The types of a request; without any the calendar is not narrowed.
KindsOf(types) == IF types = {} THEN AllKinds ELSE UNION {GroupKinds[g] : g \in types}

DayItems(m, types, day) ==
    {i \in MonthItems(m, KindsOf(types)) : Visible(i) /\ i.first <= day /\ day <= i.last}

\* The legend counts whatever is selected.
KindCount(m, g) == Cardinality({i \in MonthItems(m, AllKinds) : i.kind \in GroupKinds[g]})

\* Whole weeks from the Sunday on or before the first of the month.
Leading(m) == FirstOf(m) % WeekLength
Weeks(m) == (Leading(m) + MonthLength + WeekLength - 1) \div WeekLength
Cell(m, w, c) == (FirstOf(m) - Leading(m)) + w * WeekLength + c
GridDays(m) == {Cell(m, w, c) : w \in 0..(Weeks(m) - 1), c \in 0..(WeekLength - 1)}

(***************************************************************************)
(* The search.                                                             *)
(***************************************************************************)
\* Mutant: the hidden group is searched, too.
SearchAllGroups(types) == IF types = {} THEN Groups ELSE types

\* The hidden group is never searched.
SearchGroups(types) == (IF types = {} THEN Groups ELSE types) \ {"status"}
SearchKinds(types) == UNION {GroupKinds[g] : g \in SearchGroups(types)}

ScheduleMatches == {event[e].start : e \in {e \in Events \cap named : status[e] = "planned"}}
                   \ {NoDay}
VisitMatches == {v.day : v \in {v \in visits : v.subject \in named}}
GoodsMatches == {GoodsDay(i) : i \in {i \in items : i.data.hit}}
LogMatches(kinds) == {entry.day : entry \in {entry \in log : entry.hit /\ entry.kind \in kinds}}
OldInterestMatches == {interest[e] : e \in OldInterests \cap named}

Matches(kinds) ==
    (IF "schedule" \in kinds THEN ScheduleMatches ELSE {})
    \cup (IF "visit" \in kinds THEN VisitMatches ELSE {})
    \cup (IF "goods_acquired" \in kinds THEN GoodsMatches ELSE {})
    \cup LogMatches(kinds)
    \cup (IF "interest_added" \in kinds THEN OldInterestMatches ELSE {})

\* The day the search jumps to, if there is a match.
JumpDays(types) ==
    LET days == Matches(SearchKinds(types))
    IN  {day \in days : \A other \in days : other <= day}

(***************************************************************************)
(* Properties.                                                             *)
(***************************************************************************)
\* With any types selected, the search jumps to a day on which the calendar
\* shows a match, and no match begins later; when it says that there is none,
\* no month of the calendar shows one.
JumpsLand ==
    \A types \in SUBSET Groups :
        LET jumps == JumpDays(types) IN
        \A m \in Months :
            LET hits == {i \in MonthItems(m, KindsOf(types)) : i.hit /\ Visible(i)} IN
            /\ \A day \in jumps \cap DaysOf(m) :
                \E i \in DayItems(m, types, day) : i.hit
            /\ \A i \in hits : \E day \in jumps : i.first <= day

\* The number in the legend is that of the items the grid shows on the days
\* of the month when only this type is selected.
LegendCounts ==
    \A m \in Months, g \in VisibleGroups :
        KindCount(m, g) =
            Cardinality(UNION {DayItems(m, {g}, day) : day \in GridDays(m) \cap DaysOf(m)})

\* An interest is on the calendar on its day, told by the log or, when it is
\* older than the log, by itself, and never by both.
InterestsAppear ==
    \A e \in Events, m \in Months :
        LET added == {i \in MonthItems(m, AllKinds) : i.kind = "interest_added" /\ e \in i.events}
        IN  /\ interest[e] \in DaysOf(m) => \E i \in added : i.first = interest[e]
            /\ \A i, j \in added : i.timed = j.timed

\* No link of the calendar leads to an event that was deleted.
LinksLead ==
    \A m \in Months : \A i \in MonthItems(m, AllKinds) : i.events \subseteq there

\* What the calendar counts, searches and links to is what it shows.
CalendarAgrees == JumpsLand /\ LegendCounts /\ InterestsAppear /\ LinksLead
===============================================================================
