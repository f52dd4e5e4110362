----------------------------- MODULE ArchivePages ------------------------------
(***************************************************************************)
(* What the pages of an archive show of its rows (archive/queries.py,       *)
(* archive/querysets.py, events/presenters.py, web/views/archive.py and      *)
(* collection.py): lists, the numbers above them, badges, links and buttons. *)
(* Every list and every number is a query of its own, with its own idea of   *)
(* what a row counts as.                                                    *)
(*                                                                         *)
(* Pages are taken whole: search, order and the cut into pages of a list    *)
(* are left out. What is null or blank is "none", NoDay or the empty set.    *)
(***************************************************************************)
EXTENDS ArchiveRows

CONSTANTS
    ClosingDays,    \* an event that ends within these days is closing soon
    LabelOf,        \* labels of the categories in the vocabulary
    PlaceLabel,     \* the category a place was given, in words
    Works,          \* titles of works that items belong to
    InkCount        \* accent colours of works

ASSUME PagesAssumption ==
    /\ ClosingDays \in Nat
    /\ IsFiniteSet(Works)
    /\ InkCount = 12
    /\ "" \notin DOMAIN LabelOf

Tracked == {x \in Subjects : status[x] # "none"}
Interests == {x \in Subjects : interest[x] # NoDay}

(***************************************************************************)
(* Statuses.                                                               *)
(***************************************************************************)
\* The last day of an event is over, whether or not its first one is known.
Expired(x) == x \in Events /\ event[x].end # NoDay /\ event[x].end < today

\* A planned visit is missed when the event is over, unless there is a record
\* or the user went back to planned.
DerivedStatus(x) ==
    IF status[x] = "planned" /\ Expired(x) /\ x \notin overridden /\ VisitsOf(x) = {}
    THEN "missed" ELSE status[x]

StatusCount(slug) == Cardinality({x \in Tracked : DerivedStatus(x) = slug})

\* An unknown slug filters nothing.
StatusList(slug) == {x \in Tracked : slug \in Statuses => DerivedStatus(x) = slug}

\* The record a row links to is the one the list of visits has on top.
Newer(v, w) == v.day > w.day \/ (v.day = w.day /\ v.id > w.id)
Newest(x) == {v \in VisitsOf(x) : \A w \in VisitsOf(x) : ~Newer(w, v)}
StatusRow(x) == [slug |-> DerivedStatus(x), record |-> {v.id : v \in Newest(x)}]

\* Visited and not recorded, from what is stored.
Unrecorded == {x \in Tracked : status[x] = "visited" /\ VisitsOf(x) = {}}

\* What the user is told would go with the account.
SavedCount == StatusCount("planned") + StatusCount("visited") + StatusCount("missed")

(***************************************************************************)
(* Events as they are presented.                                           *)
(***************************************************************************)
Badge(e) ==
    LET start == event[e].start
        end == event[e].end
    IN  IF start = NoDay \/ end = NoDay THEN "none"
        ELSE IF today < start THEN "upcoming"
        ELSE IF end < today THEN "ended"
        ELSE IF end <= today + ClosingDays THEN "closing_soon" ELSE "ongoing"

\* The next planned visits on the home page, from what is stored.
Upcoming == {e \in Events : status[e] = "planned" /\ Open(e) /\ event[e].start > today}

(***************************************************************************)
(* Interests.                                                              *)
(***************************************************************************)
\* Mutant: the plans are counted from what is stored.
InterestCountsStored ==
    LET official == Interests \cap Events IN
    [ongoing |-> Cardinality({e \in official :
                    event[e].start # NoDay /\ event[e].start <= today /\ today <= event[e].end}),
     planned |-> Cardinality({e \in official : status[e] = "planned"})]

InterestCounts ==
    LET official == Interests \cap Events IN
    [ongoing |-> Cardinality({e \in official :
                    event[e].start # NoDay /\ event[e].start <= today /\ today <= event[e].end}),
     planned |-> Cardinality({e \in official : DerivedStatus(e) = "planned"})]

\* A private place has no period, and its status is not shown here.
InterestRow(x) ==
    IF x \in Events
    THEN [badge |-> Badge(x), mine |-> DerivedStatus(x),
          plan |-> DerivedStatus(x) = "none" /\ Badge(x) # "ended"]
    ELSE [badge |-> "none", mine |-> "none", plan |-> FALSE]

(***************************************************************************)
(* Visit records.                                                          *)
(***************************************************************************)
Category(v) == event[v.subject].category

\* The chip of a record: the label of the vocabulary, or what is stored.
Token(v) ==
    IF v.subject \in Places THEN PlaceLabel[v.subject]
    ELSE IF Category(v) \in DOMAIN LabelOf THEN LabelOf[Category(v)] ELSE Category(v)
Chips == {Token(v) : v \in visits} \ {""}

\* The records of one chip; what is no chip filters nothing.
HasLabel(v, label) ==
    IF v.subject \in Places THEN PlaceLabel[v.subject] = label
    ELSE Category(v) \in DOMAIN LabelOf /\ LabelOf[Category(v)] = label
VisitList(label) == {v \in visits : label \in Chips => HasLabel(v, label)}

\* The subjects the form for a new record offers, and those a link to the
\* form may name.
Choices == {e \in Events : status[e] = "planned" /\ Open(e)} \cup (Places \cap there)
Preselected == {e \in Events : Open(e)} \cup (Places \cap there)

(***************************************************************************)
(* Private places.                                                         *)
(***************************************************************************)
\* From what is stored: a place has no period that could end.
PlaceRow(p) == [status |-> status[p], linked |-> VisitsOf(p) # {}]

(***************************************************************************)
(* The collection.                                                         *)
(***************************************************************************)
ItemList(tab) ==
    CASE tab = "owned" -> {i \in items : i.data.quantity > 0}
      [] tab = "wanted" -> {i \in items : i.data.wanted}
      [] tab = "tradeable" -> {i \in items : i.data.trade > 0}

\* A tradeable item is taken to be owned, so that there is no badge for one
\* that is not.
Badges(i) ==
    LET fitting == {tab \in {"owned", "wanted", "tradeable"} : i \in ItemList(tab)}
    IN  IF fitting = {} THEN {"none"} ELSE fitting

\* Works in the order of their first item take every fifth colour of the
\* wheel.
Shown == {w \in Works : \E i \in items : i.data.work = w}
Before(w, u) ==
    \E i \in items : i.data.work = w /\ \A j \in items : j.data.work = u => i.id < j.id
Rank(w) == Cardinality({u \in Shown : Before(u, w)})
Ink(w) == 1 + ((Rank(w) * 5) % InkCount)

(***************************************************************************)
(* Properties.                                                             *)
(***************************************************************************)
\* The lists of the status page part its rows: every row is in the list of
\* the status it shows and the numbers add up to what goes with the account;
\* the rows the home page wants recorded are those shown as visited without a
\* link to a record.
StatusesAgree ==
    /\ \A x \in Tracked :
        /\ {slug \in Statuses : x \in StatusList(slug)} = {StatusRow(x).slug}
        /\ x \in Unrecorded <=> StatusRow(x).slug = "visited" /\ StatusRow(x).record = {}
    /\ SavedCount = Cardinality(StatusList("all"))
    /\ \A p \in Places \cap Tracked : PlaceRow(p).status = StatusRow(p).slug

\* What the home page calls coming is not shown as missed or over, and a
\* record can be added to every place that has a status, an interest or a
\* record.
OffersHold ==
    /\ \A e \in Upcoming : DerivedStatus(e) = "planned" /\ Badge(e) \in {"none", "upcoming"}
    /\ \A p \in Places :
        p \in Tracked \cup Interests \/ PlaceRow(p).linked => p \in Choices \cap Preselected

\* The numbers above the interests are those of the badges below. What turned
\* missed by itself is not called coming or going on, and no visit is offered
\* that would be missed as soon as it is planned, but for an event of which only
\* the last day is known: it has no badge.
InterestsAgree ==
    LET rows == [x \in Interests |-> InterestRow(x)] IN
    /\ InterestCounts.ongoing =
        Cardinality({x \in Interests : rows[x].badge \in {"ongoing", "closing_soon"}})
    /\ InterestCounts.planned = Cardinality({x \in Interests : rows[x].mine = "planned"})
    /\ \A x \in Interests :
        /\ rows[x].mine = "missed" /\ status[x] = "planned" => rows[x].badge \in {"none", "ended"}
        /\ rows[x].plan => ~Expired(x) \/ event[x].start = NoDay

\* The list of a chip holds the records that show this chip and no others;
\* only a record whose category left the vocabulary is missing.
ChipsAgree ==
    \A label \in Chips :
        /\ \A v \in VisitList(label) : Token(v) = label
        /\ \A v \in visits :
            /\ Token(v) = label
            /\ v.subject \in Places \/ Category(v) \in DOMAIN LabelOf
            => v \in VisitList(label)

\* No item is offered for exchange that is not owned, and no two works share
\* a colour while there are colours left.
GoodsAgree ==
    /\ \A i \in items : "tradeable" \in Badges(i) => "owned" \in Badges(i)
    /\ Cardinality(Shown) <= InkCount =>
        \A w, u \in Shown : w # u => Ink(w) # Ink(u)

\* The pages of one archive do not contradict each other, though each number,
\* list, badge and button asks for itself: numbers are those of the lists below
\* them, and what is called coming, offered or wanted is not over, shown as
\* missed or there already.
PagesAgree ==
    StatusesAgree /\ OffersHold /\ InterestsAgree /\ ChipsAgree /\ GoodsAgree
===============================================================================
