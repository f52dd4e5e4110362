-------------------------- MODULE SharedRows_proofs --------------------------
(***************************************************************************)
(* Proofs about two of the parts that MCSharedRows checks: palette slots,  *)
(* for any events, categories, requests and number of colours, and error   *)
(* groups, for any fingerprints, writers, limit and quota.                 *)
(*                                                                         *)
(* Palette slots: uniqueness and the records of users need nothing but the *)
(* locks and the constraint.  That slots are returned and kept needs an    *)
(* invariant that says of each request in progress that what it has        *)
(* counted and concluded is still so, unless another transaction has       *)
(* outdated it; any number of requests may be about one category.          *)
(*                                                                         *)
(* Error groups: the limit needs to know how many writers can leave how    *)
(* many rows too many, and the quota what was read of its counter.         *)
(***************************************************************************)
EXTENDS PaletteSlots, ErrorGroups, FiniteSetTheorems, WellFoundedInduction, TLAPS

-----------------------------------------------------------------------------
\* Palette slots.

RealRows == [status : {"draft", "published"}, category : Categories \cup {NoCategory}]

-----------------------------------------------------------------------------
\* A slot is neither of the two marks that stand for no slot and no change.
LEMMA Marks == NoSlot \notin Slots /\ Keep \notin Slots /\ NoSlot # Keep
BY PaletteAssumption DEF NoSlot, Keep, Slots

LEMMA FreeSlotsAreSlots == FreeSlots \subseteq Slots
BY DEF FreeSlots

\* A row is absent or a real one; only the absent one has the status "absent".
LEMMA Row ==
    ASSUME NEW r \in EventRows
    PROVE  /\ r.category \in Categories \cup {NoCategory}
           /\ r.status # "absent" => r \in RealRows
           /\ r # Absent => r.status # "absent" /\ r \in RealRows
           /\ r.status \in {"draft", "published"} => r \in RealRows
BY DEF EventRows, RealRows, Absent

LEMMA RealRowsAreRows == RealRows \subseteq EventRows /\ Absent \in EventRows
BY DEF RealRows, EventRows

LEMMA StatusExcept ==
    ASSUME NEW r \in RealRows, NEW s \in {"draft", "published"}
    PROVE  /\ [r EXCEPT !.status = s] \in RealRows
           /\ [r EXCEPT !.status = s].category = r.category
           /\ [r EXCEPT !.status = s].status = s
BY DEF RealRows

LEMMA CategoryExcept ==
    ASSUME NEW r \in RealRows, NEW c \in Categories \cup {NoCategory}
    PROVE  /\ [r EXCEPT !.category = c] \in RealRows
           /\ [r EXCEPT !.category = c].category = c
           /\ [r EXCEPT !.category = c].status = r.status
BY DEF RealRows

\* What is in progress is a request of one of the two types.
LEMMA InProgress ==
    ASSUME PaletteTypeOK, NEW q \in StaffRequests, change[q] # NoChange
    PROVE  /\ change[q] \in ChangeType \cup DisableType
           /\ change[q].op # "disable" => change[q] \in ChangeType
           /\ change[q].op = "disable" => change[q] \in DisableType
BY DEF PaletteTypeOK, ChangeType, DisableType

\* What a request sees are events.
LEMMA SeenType ==
    ASSUME PaletteTypeOK, NEW q \in StaffRequests, change[q] # NoChange
    PROVE  EventsSeenBy(q) \in [Events -> EventRows]
<1>1. CASE change[q].op = "disable"
    BY <1>1 DEF PaletteTypeOK, EventsSeenBy, SeenAmong
<1>2. CASE change[q].op # "disable"
    <2>1. change[q].event \in Events /\ change[q].row \in EventRows
        BY <1>2, InProgress DEF ChangeType
    <2> QED
        BY <1>2, <2>1 DEF PaletteTypeOK, EventsSeenBy, SeenAmong
<1> QED
    BY <1>1, <1>2

\* A change of a request's phase and slot keeps it a request.
LEMMA GoesType ==
    ASSUME PaletteTypeOK, NEW q \in StaffRequests, change[q] # NoChange,
           NEW phase \in {"counted", "short", "ready"},
           NEW slot \in Slots \cup {NoSlot, Keep},
           SlotGoes(q, phase, slot)
    PROVE  PaletteTypeOK'
<1>1. [change[q] EXCEPT !.phase = phase, !.slot = slot] \in ChangeType \cup DisableType
    <2>1. CASE change[q] \in ChangeType
        BY <2>1 DEF ChangeType
    <2>2. CASE change[q] \in DisableType
        BY <2>2 DEF DisableType
    <2> QED
        BY <2>1, <2>2, InProgress
<1>2. change' = [change EXCEPT ![q] = [change[q] EXCEPT !.phase = phase, !.slot = slot]]
    BY DEF SlotGoes, PaletteTypeOK
<1> QED
    BY <1>1, <1>2 DEF PaletteTypeOK, SlotGoes, historyVars

\* A request that begins is a request.
LEMMA BeginType ==
    ASSUME PaletteTypeOK, NEW q \in StaffRequests,
           NEW op \in {"create", "unpublish", "republish", "delete"}, NEW e \in Events,
           NEW c \in Categories \cup {NoCategory}, NEW row \in EventRows,
           Begin(q, op, e, c, row)
    PROVE  PaletteTypeOK'
<1> DEFINE new == [op |-> op, phase |-> "locked", event |-> e, category |-> c, row |-> row,
                   published |-> FALSE, slot |-> Keep]
<1>1. new \in ChangeType
    BY DEF ChangeType
<1>2. change' = [change EXCEPT ![q] = new]
    BY DEF Begin
<1> HIDE DEF new
<1> QED
    BY <1>1, <1>2 DEF PaletteTypeOK, Begin, historyVars

\* A request that ends leaves its place free.
LEMMA FreeType ==
    ASSUME PaletteTypeOK, NEW q \in StaffRequests, change' = [change EXCEPT ![q] = NoChange]
    PROVE  change' \in [StaffRequests -> ChangeType \cup DisableType \cup {NoChange}]
BY DEF PaletteTypeOK

-----------------------------------------------------------------------------
LEMMA InitType == PaletteInit => PaletteTypeOK
BY DEF PaletteInit, PaletteTypeOK, CategoryRows, EventRows

LEMMA CreateEventType ==
    ASSUME PaletteTypeOK, NEW q \in StaffRequests, NEW e \in Events, NEW c \in Categories \cup {NoCategory},
           CreateEvent(q, e, c)
    PROVE  PaletteTypeOK'
<1>1. [status |-> "published", category |-> c] \in EventRows
    BY DEF EventRows
<1> QED
    BY <1>1, BeginType DEF CreateEvent

LEMMA UnpublishType ==
    ASSUME PaletteTypeOK, NEW q \in StaffRequests, NEW e \in Events, Unpublish(q, e)
    PROVE  PaletteTypeOK'
<1>1. event[e] \in EventRows /\ event[e].status = "published"
    BY DEF PaletteTypeOK, Unpublish
<1>2. event[e] \in RealRows
    BY <1>1, Row
<1>3. [event[e] EXCEPT !.status = "draft"] \in EventRows
    BY <1>2, StatusExcept, RealRowsAreRows
<1>4. event[e].category \in Categories \cup {NoCategory}
    BY <1>1, Row
<1> QED
    BY <1>3, <1>4, BeginType DEF Unpublish

LEMMA RepublishType ==
    ASSUME PaletteTypeOK, NEW q \in StaffRequests, NEW e \in Events, Republish(q, e)
    PROVE  PaletteTypeOK'
<1>1. event[e] \in EventRows /\ event[e].status = "draft"
    BY DEF PaletteTypeOK, Republish
<1>2. event[e] \in RealRows
    BY <1>1, Row
<1>3. [event[e] EXCEPT !.status = "published"] \in EventRows
    BY <1>2, StatusExcept, RealRowsAreRows
<1>4. event[e].category \in Categories \cup {NoCategory}
    BY <1>1, Row
<1> QED
    BY <1>3, <1>4, BeginType DEF Republish

LEMMA AskDeleteType ==
    ASSUME PaletteTypeOK, NEW q \in StaffRequests, NEW e \in Events, AskDelete(q, e)
    PROVE  PaletteTypeOK'
<1> DEFINE new == [op |-> "delete", phase |-> "asked", event |-> e, category |-> NoCategory,
                   row |-> Absent, published |-> FALSE, slot |-> Keep]
<1>1. new \in ChangeType
    BY RealRowsAreRows DEF ChangeType
<1>2. change' = [change EXCEPT ![q] = new]
    BY DEF AskDelete
<1> HIDE DEF new
<1> QED
    BY <1>1, <1>2 DEF PaletteTypeOK, AskDelete, historyVars

\* Only a deletion is in the phase "asked".
LEMMA AskedIsDelete ==
    ASSUME PaletteTypeOK, NEW q \in StaffRequests, change[q] # NoChange, change[q].phase = "asked"
    PROVE  change[q].op # "disable" /\ change[q] \in ChangeType
BY InProgress DEF DisableType

LEMMA LockDeleteType ==
    ASSUME PaletteTypeOK, NEW q \in StaffRequests, LockDelete(q)
    PROVE  PaletteTypeOK'
<1> DEFINE e == change[q].event
<1>1. e \in Events
    BY AskedIsDelete DEF LockDelete, ChangeType
<1>2. event[e].category \in Categories \cup {NoCategory}
    BY <1>1, Row DEF PaletteTypeOK
<1>3. Begin(q, "delete", e, event[e].category, Absent)
    BY DEF LockDelete
<1> QED
    BY <1>1, <1>2, <1>3, RealRowsAreRows, BeginType

LEMMA DisableTypes ==
    ASSUME PaletteTypeOK, NEW q \in StaffRequests, NEW c \in Categories, Disable(q, c)
    PROVE  PaletteTypeOK'
<1> DEFINE new == [op |-> "disable", phase |-> "locked", category |-> c, published |-> FALSE,
                   slot |-> Keep]
<1>1. new \in DisableType
    BY DEF DisableType
<1>2. change' = [change EXCEPT ![q] = new]
    BY DEF Disable
<1> HIDE DEF new
<1> QED
    BY <1>1, <1>2 DEF PaletteTypeOK, Disable, historyVars

\* The phases from "locked" on are of requests in progress.
LEMMA Busy ==
    ASSUME NEW q \in StaffRequests,
           change[q].phase \in {"asked", "locked", "counted", "short", "ready"}
    PROVE  change[q] # NoChange
BY DEF NoChange

LEMMA CountPublishedType ==
    ASSUME PaletteTypeOK, NEW q \in StaffRequests, CountPublished(q)
    PROVE  PaletteTypeOK'
<1>1. change[q] # NoChange
    BY Busy DEF CountPublished
<1>2. CASE SlotGoes(q, "ready", Keep)
    BY <1>1, <1>2, GoesType
<1>3. ASSUME NEW found \in BOOLEAN,
             change' = [change EXCEPT ![q].phase = "counted", ![q].published = found],
             UNCHANGED <<event, category, referenced, historyVars>>
      PROVE  PaletteTypeOK'
    <2>1. [change[q] EXCEPT !.phase = "counted", !.published = found]
              \in ChangeType \cup DisableType
        <3>1. CASE change[q] \in ChangeType
            BY <1>3, <3>1 DEF ChangeType
        <3>2. CASE change[q] \in DisableType
            BY <1>3, <3>2 DEF DisableType
        <3> QED
            BY <1>1, <3>1, <3>2, InProgress
    <2>2. change' = [change EXCEPT ![q] =
              [change[q] EXCEPT !.phase = "counted", !.published = found]]
        BY <1>3 DEF PaletteTypeOK
    <2> QED
        BY <1>3, <2>1, <2>2 DEF PaletteTypeOK, historyVars
<1>4. HasPublished(change[q].category, EventsSeenBy(q)) \in BOOLEAN
    BY DEF HasPublished
<1> QED
    BY <1>2, <1>3, <1>4 DEF CountPublished

LEMMA LoadCategoryType ==
    ASSUME PaletteTypeOK, NEW q \in StaffRequests, LoadCategory(q)
    PROVE  PaletteTypeOK'
<1>1. change[q] # NoChange
    BY Busy DEF LoadCategory
<1>2. SlotGoes(q, "short", Keep) \/ SlotGoes(q, "ready", NoSlot) \/ SlotGoes(q, "ready", Keep)
    BY DEF LoadCategory
<1> QED
    BY <1>1, <1>2, GoesType

LEMMA PickSlotType ==
    ASSUME PaletteTypeOK, NEW q \in StaffRequests, PickSlot(q)
    PROVE  PaletteTypeOK'
<1>1. change[q] # NoChange
    BY Busy DEF PickSlot
<1>2. SlotGoes(q, "ready", Keep) \/ \E s \in Slots : SlotGoes(q, "ready", s)
    BY FreeSlotsAreSlots DEF PickSlot
<1> QED
    BY <1>1, <1>2, GoesType

\* What a commit leaves of categories: the request's one gets a state and a slot.
CommitWrites(q, state, slot) ==
    /\ event' = EventsSeenBy(q)
    /\ category' = IF change[q].category = NoCategory THEN category
                   ELSE [category EXCEPT ![change[q].category] = [state |-> state, slot |-> slot]]
    /\ change' = [change EXCEPT ![q] = NoChange]
    /\ referenced' = referenced

\* The slot that a commit writes is the chosen one or the old one.
LEMMA CommitSlot ==
    ASSUME PaletteTypeOK, NEW q \in StaffRequests, Commit(q)
    PROVE  \E state \in {"absent", "active", "inactive"}, slot \in Slots \cup {NoSlot} :
               /\ CommitWrites(q, state, slot)
               /\ change[q].category # NoCategory =>
                      /\ slot # category[change[q].category].slot =>
                             /\ slot = change[q].slot
                             /\ slot # Keep
                             /\ ~Collides(change[q].category, slot)
                      /\ change[q].slot = Keep => slot = category[change[q].category].slot
                      /\ change[q].slot = NoSlot => slot = NoSlot
                      /\ state = IF change[q].op = "disable" THEN "inactive"
                                 ELSE category[change[q].category].state
<1> DEFINE c == change[q].category
           chosen == change[q].slot
           written == IF chosen = Keep \/ Collides(c, chosen) THEN category[c].slot ELSE chosen
           next == IF change[q].op = "disable" THEN "inactive" ELSE category[c].state
<1>1. change[q] # NoChange
    BY Busy DEF Commit
<1>2. chosen \in Slots \cup {NoSlot, Keep} /\ c \in Categories \cup {NoCategory}
    BY <1>1, InProgress DEF ChangeType, DisableType
<1>3. CASE c = NoCategory
    <2>1. CommitWrites(q, "absent", NoSlot)
        BY <1>3 DEF Commit, CommitWrites
    <2> QED
        BY <1>3, <2>1
<1>4. CASE c # NoCategory
    <2>1. category[c] \in CategoryRows
        BY <1>2, <1>4 DEF PaletteTypeOK
    <2>2. written \in Slots \cup {NoSlot} /\ next \in {"absent", "active", "inactive"}
        BY <1>2, <2>1 DEF CategoryRows
    <2>3. CommitWrites(q, next, written)
        BY DEF Commit, CommitWrites
    <2>4. chosen = NoSlot => ~Collides(c, chosen) /\ chosen # Keep
        BY Marks DEF Collides
    <2> QED
        BY <2>2, <2>3, <2>4
<1> QED
    BY <1>3, <1>4

\* A request that is outdated has counted for its category.
OutdatedFit ==
    \A q \in outdated :
        change[q].category \in Categories /\ change[q].phase \in {"counted", "short", "ready"}

\* What a transaction that others can see leaves of the history.
LEMMA OutdatingFit ==
    ASSUME PaletteTypeOK, OutdatedFit, NEW others \in SUBSET StaffRequests, Outdating(others),
           \A p \in others : change'[p] = change[p]
    PROVE  outdated' \in SUBSET StaffRequests /\ OutdatedFit'
<1>1. outdated' \in SUBSET StaffRequests
    BY DEF PaletteTypeOK, Outdating
<1>2. ASSUME NEW p \in outdated'
      PROVE  /\ change'[p].category \in Categories
             /\ change'[p].phase \in {"counted", "short", "ready"}
    <2>1. p \in others /\ change'[p] = change[p]
        BY DEF Outdating
    <2>2. CASE p \in outdated
        BY <2>1, <2>2 DEF OutdatedFit
    <2>3. CASE p \notin outdated
        <3>1. /\ change[p].category # NoCategory
              /\ change[p].phase \in {"counted", "short", "ready"}
            BY <2>3 DEF Outdating, Outdates
        <3>2. change[p].category \in Categories
            BY <2>1, <3>1, Busy, InProgress DEF ChangeType, DisableType
        <3> QED
            BY <2>1, <3>1, <3>2
    <2> QED
        BY <2>2, <2>3
<1> QED
    BY <1>1, <1>2 DEF OutdatedFit

LEMMA CommitType ==
    ASSUME PaletteTypeOK, OutdatedFit, NEW q \in StaffRequests, Commit(q)
    PROVE  PaletteTypeOK'
<1>1. change[q] # NoChange
    BY Busy DEF Commit
<1>2. PICK state \in {"absent", "active", "inactive"}, slot \in Slots \cup {NoSlot} :
          CommitWrites(q, state, slot)
    BY CommitSlot
<1>3. event' \in [Events -> EventRows]
    BY <1>1, <1>2, SeenType DEF CommitWrites
<1>4. category' \in [Categories -> CategoryRows]
    <2>1. [state |-> state, slot |-> slot] \in CategoryRows
        BY DEF CategoryRows
    <2> DEFINE row == [state |-> state, slot |-> slot]
    <2>2. category' = IF change[q].category = NoCategory THEN category
                      ELSE [category EXCEPT ![change[q].category] = row]
        BY <1>2 DEF CommitWrites
    <2> HIDE DEF row
    <2> QED
        BY <2>1, <2>2 DEF PaletteTypeOK, row
<1>5. outdated' \in SUBSET StaffRequests
    BY DEF Commit, Outdating, PaletteTypeOK
<1>6. unsettled' \in SUBSET Categories
    BY DEF Commit, PaletteTypeOK, OutdatedFit
<1> QED
    BY <1>2, <1>3, <1>4, <1>5, <1>6, FreeType DEF PaletteTypeOK, CommitWrites

LEMMA RollBackType ==
    ASSUME PaletteTypeOK, NEW q \in StaffRequests, RollBack(q)
    PROVE  PaletteTypeOK'
BY FreeType DEF PaletteTypeOK, RollBack

LEMMA EditType ==
    ASSUME PaletteTypeOK, NEW e \in Events, NEW c \in Categories \cup {NoCategory}, Edit(e, c)
    PROVE  PaletteTypeOK'
<1>1. event[e] \in RealRows
    BY Row DEF PaletteTypeOK, Edit, Exists
<1>2. [event[e] EXCEPT !.category = c] \in EventRows
    BY <1>1, CategoryExcept, RealRowsAreRows
<1>3. event' = [event EXCEPT ![e] = [event[e] EXCEPT !.category = c]]
    BY DEF Edit, PaletteTypeOK
<1>4. event' \in [Events -> EventRows]
    BY <1>2, <1>3 DEF PaletteTypeOK
<1>5. unsettled' \in SUBSET Categories /\ outdated' \in SUBSET StaffRequests
    BY DEF Edit, Outdating, PaletteTypeOK
<1> QED
    BY <1>4, <1>5 DEF PaletteTypeOK, Edit

LEMMA EnableType ==
    ASSUME PaletteTypeOK, NEW c \in Categories, Enable(c)
    PROVE  PaletteTypeOK'
<1>1. [category[c] EXCEPT !.state = "active"] \in CategoryRows
    BY DEF PaletteTypeOK, CategoryRows
<1>2. category' = [category EXCEPT ![c] = [category[c] EXCEPT !.state = "active"]]
    BY DEF Enable, PaletteTypeOK
<1> QED
    BY <1>1, <1>2 DEF PaletteTypeOK, Enable, Outdating

LEMMA CreateCategoryType ==
    ASSUME PaletteTypeOK, NEW c \in Categories, CreateCategory(c)
    PROVE  PaletteTypeOK'
<1>1. PICK s \in FreeSlots : category' = [category EXCEPT ![c] = [state |-> "active", slot |-> s]]
    BY DEF CreateCategory
<1> DEFINE row == [state |-> "active", slot |-> s]
<1>2. row \in CategoryRows
    BY FreeSlotsAreSlots DEF CategoryRows
<1>3. category' = [category EXCEPT ![c] = row]
    BY <1>1
<1> HIDE DEF row
<1> QED
    BY <1>2, <1>3 DEF PaletteTypeOK, CreateCategory, Outdating

LEMMA ReferType ==
    ASSUME PaletteTypeOK, NEW e \in Events, Refer(e) \/ Unrefer(e)
    PROVE  PaletteTypeOK'
BY DEF PaletteTypeOK, Refer, Unrefer, historyVars

LEMMA TypePreserved ==
    PaletteTypeOK /\ OutdatedFit /\ [PaletteNext]_paletteVars => PaletteTypeOK'
<1> SUFFICES ASSUME PaletteTypeOK, OutdatedFit, [PaletteNext]_paletteVars PROVE PaletteTypeOK'
    OBVIOUS
<1>1. CASE UNCHANGED paletteVars
    BY <1>1 DEF paletteVars, historyVars, PaletteTypeOK
<1>2. ASSUME NEW q \in StaffRequests, NEW e \in Events, BeginEvent(q, e) PROVE PaletteTypeOK'
    BY <1>2, CreateEventType, UnpublishType, RepublishType, AskDeleteType DEF BeginEvent
<1>3. ASSUME NEW q \in StaffRequests, LockDelete(q) PROVE PaletteTypeOK'
    BY <1>3, LockDeleteType
<1>4. ASSUME NEW q \in StaffRequests, NEW c \in Categories, Disable(q, c) PROVE PaletteTypeOK'
    BY <1>4, DisableTypes
<1>5. ASSUME NEW q \in StaffRequests, Reconcile(q) PROVE PaletteTypeOK'
    BY <1>5, CountPublishedType, LoadCategoryType, PickSlotType, CommitType, RollBackType
       DEF Reconcile
<1>6. ASSUME NEW e \in Events, NEW c \in Categories \cup {NoCategory}, Edit(e, c) PROVE PaletteTypeOK'
    BY <1>6, EditType
<1>7. ASSUME NEW c \in Categories, Enable(c) \/ CreateCategory(c) PROVE PaletteTypeOK'
    BY <1>7, EnableType, CreateCategoryType
<1>8. ASSUME NEW e \in Events, Refer(e) \/ Unrefer(e) PROVE PaletteTypeOK'
    BY <1>8, ReferType
<1> QED
    BY <1>1, <1>2, <1>3, <1>4, <1>5, <1>6, <1>7, <1>8 DEF PaletteNext

\* Requests other than q are as before, and q is outdated only if it goes on after
\* its count.
LEMMA FitStays ==
    ASSUME OutdatedFit, NEW q, \A p \in StaffRequests \ {q} : change'[p] = change[p],
           outdated' \subseteq outdated, outdated \in SUBSET StaffRequests,
           q \in outdated' => /\ change'[q].category = change[q].category
                             /\ change'[q].phase \in {"counted", "short", "ready"}
    PROVE  OutdatedFit'
BY DEF OutdatedFit

LEMMA BeginFit ==
    ASSUME PaletteTypeOK, OutdatedFit, NEW q \in StaffRequests, NEW op, NEW e, NEW c, NEW row,
           Begin(q, op, e, c, row), change[q] = NoChange \/ change[q].phase = "asked"
    PROVE  OutdatedFit'
<1>1. q \notin outdated
    BY DEF OutdatedFit, NoChange
<1>2. outdated' = outdated /\ \A p \in StaffRequests \ {q} : change'[p] = change[p]
    BY DEF Begin, historyVars, PaletteTypeOK
<1> QED
    BY <1>1, <1>2, FitStays DEF PaletteTypeOK

LEMMA ReconcileFit ==
    ASSUME PaletteTypeOK, OutdatedFit, NEW q \in StaffRequests, Reconcile(q)
    PROVE  OutdatedFit'
<1>1. CASE CountPublished(q)
    <2>1. q \notin outdated
        BY <1>1 DEF CountPublished, OutdatedFit
    <2>2. outdated' = outdated /\ \A p \in StaffRequests \ {q} : change'[p] = change[p]
        BY <1>1 DEF CountPublished, SlotGoes, historyVars, PaletteTypeOK
    <2> QED
        BY <2>1, <2>2, FitStays DEF PaletteTypeOK
<1>2. CASE LoadCategory(q) \/ PickSlot(q)
    <2>1. change[q] # NoChange
        BY <1>2, Busy DEF LoadCategory, PickSlot
    <2>2. PICK phase \in {"short", "ready"} : \E slot : SlotGoes(q, phase, slot)
        BY <1>2 DEF LoadCategory, PickSlot
    <2>3. PICK slot : SlotGoes(q, phase, slot)
        BY <2>2
    <2>4. /\ outdated' = outdated /\ \A p \in StaffRequests \ {q} : change'[p] = change[p]
          /\ change'[q] = [change[q] EXCEPT !.phase = phase, !.slot = slot]
        BY <2>3 DEF SlotGoes, historyVars, PaletteTypeOK
    <2>5. change'[q].category = change[q].category /\ change'[q].phase = phase
        BY <2>1, <2>4, InProgress DEF ChangeType, DisableType
    <2> QED
        BY <2>4, <2>5, FitStays DEF PaletteTypeOK
<1>3. CASE Commit(q)
    <2>1. \A p \in StaffRequests \ {q} : change'[p] = change[p]
        BY <1>3 DEF Commit, PaletteTypeOK
    <2> QED
        BY <1>3, <2>1, OutdatingFit DEF Commit
<1>4. CASE RollBack(q)
    <2>1. outdated' = outdated \ {q} /\ \A p \in StaffRequests \ {q} : change'[p] = change[p]
        BY <1>4 DEF RollBack, PaletteTypeOK
    <2> QED
        BY <2>1, FitStays DEF PaletteTypeOK
<1> QED
    BY <1>1, <1>2, <1>3, <1>4 DEF Reconcile

LEMMA FitPreserved ==
    PaletteTypeOK /\ OutdatedFit /\ [PaletteNext]_paletteVars => OutdatedFit'
<1> SUFFICES ASSUME PaletteTypeOK, OutdatedFit, [PaletteNext]_paletteVars PROVE OutdatedFit'
    OBVIOUS
<1>1. CASE UNCHANGED paletteVars
    BY <1>1 DEF paletteVars, historyVars, OutdatedFit
<1>2. ASSUME NEW q \in StaffRequests, NEW e \in Events, BeginEvent(q, e) PROVE OutdatedFit'
    <2>1. change[q] = NoChange
        BY <1>2 DEF BeginEvent, CreateEvent, Unpublish, Republish, AskDelete
    <2>2. CASE AskDelete(q, e)
        <3>1. q \notin outdated
            BY <2>1 DEF OutdatedFit, NoChange
        <3>2. outdated' = outdated /\ \A p \in StaffRequests \ {q} : change'[p] = change[p]
            BY <2>2 DEF AskDelete, historyVars, PaletteTypeOK
        <3> QED
            BY <3>1, <3>2, FitStays DEF PaletteTypeOK
    <2>3. CASE \E op, c, row : Begin(q, op, e, c, row)
        BY <2>1, <2>3, BeginFit
    <2> QED
        BY <1>2, <2>2, <2>3 DEF BeginEvent, CreateEvent, Unpublish, Republish
<1>3. ASSUME NEW q \in StaffRequests, LockDelete(q) PROVE OutdatedFit'
    BY <1>3, BeginFit DEF LockDelete
<1>4. ASSUME NEW q \in StaffRequests, NEW c \in Categories, Disable(q, c) PROVE OutdatedFit'
    <2>1. q \notin outdated
        BY <1>4 DEF Disable, OutdatedFit, NoChange
    <2>2. outdated' = outdated /\ \A p \in StaffRequests \ {q} : change'[p] = change[p]
        BY <1>4 DEF Disable, historyVars, PaletteTypeOK
    <2> QED
        BY <2>1, <2>2, FitStays DEF PaletteTypeOK
<1>5. ASSUME NEW e \in Events, NEW c \in Categories \cup {NoCategory}, Edit(e, c) PROVE OutdatedFit'
    BY <1>5, OutdatingFit DEF Edit
<1>6. ASSUME NEW c \in Categories, Enable(c) \/ CreateCategory(c) PROVE OutdatedFit'
    BY <1>6, OutdatingFit DEF Enable, CreateCategory
<1>7. ASSUME NEW e \in Events, Refer(e) \/ Unrefer(e) PROVE OutdatedFit'
    BY <1>7 DEF Refer, Unrefer, historyVars, OutdatedFit
<1> QED
    BY <1>1, <1>2, <1>3, <1>4, <1>5, <1>6, <1>7, ReconcileFit DEF PaletteNext

LEMMA InitFit == PaletteInit => OutdatedFit
BY DEF PaletteInit, OutdatedFit

\* Every reachable state is one of the states that the types describe: in
\* particular a slot that a category holds exists in the palette, and what a
\* request carries from statement to statement is a row and a slot.
THEOREM PaletteTyped == PaletteSpec => []PaletteTypeOK
<1>1. PaletteInit => PaletteTypeOK
    BY InitType
<1>2. PaletteTypeOK /\ OutdatedFit /\ [PaletteNext]_paletteVars => PaletteTypeOK' /\ OutdatedFit'
    BY TypePreserved, FitPreserved
<1> QED
    BY <1>1, <1>2, InitFit, PTL DEF PaletteSpec

-----------------------------------------------------------------------------
\* Colours are never shared.

\* A step writes the slot of at most one category, and a slot that it takes is
\* no other category's at that moment.
OneSlotWritten ==
    \/ \A c \in Categories : category'[c].slot = category[c].slot
    \/ \E c \in Categories :
           /\ \A d \in Categories \ {c} : category'[d].slot = category[d].slot
           /\ category'[c].slot # NoSlot =>
                  \A d \in Categories \ {c} : category[d].slot # category'[c].slot

LEMMA CommitOneSlot ==
    ASSUME PaletteTypeOK, NEW q \in StaffRequests, Commit(q)
    PROVE  OneSlotWritten
<1> DEFINE c == change[q].category
<1>1. PICK state \in {"absent", "active", "inactive"}, slot \in Slots \cup {NoSlot} :
          /\ CommitWrites(q, state, slot)
          /\ c # NoCategory /\ slot # category[c].slot => ~Collides(c, slot)
    BY CommitSlot
<1>2. CASE c = NoCategory
    BY <1>1, <1>2 DEF CommitWrites, OneSlotWritten
<1>3. CASE c # NoCategory
    <2>1. change[q] # NoChange
        BY Busy DEF Commit
    <2>2. c \in Categories
        BY <1>3, <2>1, InProgress DEF ChangeType, DisableType
    <2>3. category' = [category EXCEPT ![c] = [state |-> state, slot |-> slot]]
        BY <1>1, <1>3 DEF CommitWrites
    <2>4. category'[c].slot = slot /\ \A d \in Categories \ {c} : category'[d] = category[d]
        BY <2>2, <2>3 DEF PaletteTypeOK
    <2>5. CASE slot = category[c].slot
        BY <2>4, <2>5 DEF OneSlotWritten
    <2>6. CASE slot # category[c].slot
        <3>1. slot # NoSlot => \A d \in Categories \ {c} : category[d].slot # slot
            BY <1>1, <1>3, <2>6 DEF Collides
        <3> QED
            BY <2>2, <2>4, <3>1 DEF OneSlotWritten
    <2> QED
        BY <2>5, <2>6
<1> QED
    BY <1>2, <1>3

LEMMA CreateCategoryOneSlot ==
    ASSUME PaletteTypeOK, NEW c \in Categories, CreateCategory(c)
    PROVE  OneSlotWritten
<1>1. PICK s \in FreeSlots : category' = [category EXCEPT ![c] = [state |-> "active", slot |-> s]]
    BY DEF CreateCategory
<1>2. category'[c].slot = s /\ \A d \in Categories \ {c} : category'[d] = category[d]
    BY <1>1 DEF PaletteTypeOK
<1>3. \A d \in Categories : category[d].slot # s
    BY DEF FreeSlots
<1> QED
    BY <1>2, <1>3 DEF OneSlotWritten

LEMMA EnableKeepsSlots ==
    ASSUME PaletteTypeOK, NEW c \in Categories, Enable(c)
    PROVE  \A d \in Categories : category'[d].slot = category[d].slot
<1>1. category' = [category EXCEPT ![c] = [category[c] EXCEPT !.state = "active"]]
    BY DEF Enable, PaletteTypeOK
<1>2. [category[c] EXCEPT !.state = "active"].slot = category[c].slot
    BY DEF PaletteTypeOK, CategoryRows
<1> QED
    BY <1>1, <1>2 DEF PaletteTypeOK

\* Nothing but a commit, a creation and an activation writes a category.
LEMMA WhoWritesCategories ==
    ASSUME [PaletteNext]_paletteVars
    PROVE  \/ \E q \in StaffRequests : Commit(q)
           \/ \E c \in Categories : Enable(c) \/ CreateCategory(c)
           \/ category' = category
<1>1. CASE UNCHANGED paletteVars
    BY <1>1 DEF paletteVars
<1>2. ASSUME NEW q \in StaffRequests, NEW e \in Events, BeginEvent(q, e) PROVE category' = category
    BY <1>2 DEF BeginEvent, CreateEvent, Unpublish, Republish, AskDelete, Begin
<1>3. ASSUME NEW q \in StaffRequests, LockDelete(q) PROVE category' = category
    BY <1>3 DEF LockDelete, Begin
<1>4. ASSUME NEW q \in StaffRequests, NEW c \in Categories, Disable(q, c) PROVE category' = category
    BY <1>4 DEF Disable
<1>5. ASSUME NEW q \in StaffRequests, Reconcile(q) PROVE Commit(q) \/ category' = category
    BY <1>5 DEF Reconcile, CountPublished, LoadCategory, PickSlot, SlotGoes, RollBack
<1>6. ASSUME NEW e \in Events, NEW c \in Categories \cup {NoCategory}, Edit(e, c)
      PROVE  category' = category
    BY <1>6 DEF Edit
<1>7. ASSUME NEW e \in Events, Refer(e) \/ Unrefer(e) PROVE category' = category
    BY <1>7 DEF Refer, Unrefer
<1> QED
    BY <1>1, <1>2, <1>3, <1>4, <1>5, <1>6, <1>7 DEF PaletteNext

LEMMA StepOneSlot ==
    ASSUME PaletteTypeOK, [PaletteNext]_paletteVars
    PROVE  OneSlotWritten
<1>1. CASE category' = category
    BY <1>1 DEF OneSlotWritten
<1>2. ASSUME NEW c \in Categories, Enable(c) PROVE OneSlotWritten
    BY <1>2, EnableKeepsSlots DEF OneSlotWritten
<1> QED
    BY <1>1, <1>2, CommitOneSlot, CreateCategoryOneSlot, WhoWritesCategories

\* Two categories never hold the same colour, whatever two requests have read
\* before they write: the unique constraint on palette_slot refuses the second
\* (core/models.py).
THEOREM ColoursAreUnique == PaletteSpec => []SlotsDistinct
<1>1. PaletteInit => SlotsDistinct
    BY DEF PaletteInit, SlotsDistinct
<1>2. PaletteTypeOK /\ SlotsDistinct /\ [PaletteNext]_paletteVars => SlotsDistinct'
    BY StepOneSlot DEF SlotsDistinct, OneSlotWritten
<1> QED
    BY <1>1, <1>2, PaletteTyped, PTL DEF PaletteSpec

-----------------------------------------------------------------------------
\* Records of users survive.

\* A request holds its event from the lock to the end of its transaction.
Holds(q) == change[q] # NoChange /\ change[q].op # "disable" /\ change[q].phase # "asked"

\* A deletion under way is of an event without records.
DeletesAreClean ==
    \A q \in StaffRequests : Holds(q) /\ change[q].row = Absent => change[q].event \notin referenced

\* The request that a step is about, if it is about one, starts or changes by
\* itself: the others stay as they are.
OthersStay(q) == \A p \in StaffRequests \ {q} : change'[p] = change[p]

\* A request that goes on keeps its event, its category and its row.
GoesOn(q) ==
    /\ Holds(q)' => Holds(q)
    /\ change[q] # NoChange /\ change'[q] # NoChange =>
           /\ change'[q].op = change[q].op
           /\ change'[q].category = change[q].category
           /\ change[q].op # "disable" =>
                  /\ change'[q].event = change[q].event
                  /\ change'[q].row = change[q].row

LEMMA GoesGoesOn ==
    ASSUME PaletteTypeOK, NEW q \in StaffRequests, change[q] # NoChange, change[q].phase # "asked",
           NEW phase \in {"counted", "short", "ready"},
           NEW slot, SlotGoes(q, phase, slot)
    PROVE  GoesOn(q) /\ OthersStay(q)
<1>1. change' = [change EXCEPT ![q] = [change[q] EXCEPT !.phase = phase, !.slot = slot]]
    BY DEF SlotGoes, PaletteTypeOK
<1>2. change'[q] = [change[q] EXCEPT !.phase = phase, !.slot = slot]
    BY <1>1 DEF PaletteTypeOK
<1>3. OthersStay(q)
    BY <1>1 DEF PaletteTypeOK, OthersStay
<1>4. /\ change'[q].op = change[q].op
      /\ change'[q].category = change[q].category
      /\ change[q].op # "disable" =>
             change'[q].event = change[q].event /\ change'[q].row = change[q].row
    BY <1>2, InProgress DEF ChangeType, DisableType
<1> QED
    BY <1>3, <1>4 DEF GoesOn, Holds

\* The steps between the lock and the commit.
Continues(q) == CountPublished(q) \/ LoadCategory(q) \/ PickSlot(q)

LEMMA ContinueGoesOn ==
    ASSUME PaletteTypeOK, NEW q \in StaffRequests, Continues(q)
    PROVE  /\ GoesOn(q) /\ OthersStay(q)
           /\ change[q] # NoChange /\ change[q].phase # "asked"
           /\ UNCHANGED <<event, category, referenced, historyVars>>
<1>1. change[q] # NoChange /\ change[q].phase # "asked"
    BY Busy DEF Continues, CountPublished, LoadCategory, PickSlot
<1>2. CASE \E phase \in {"short", "ready"}, slot \in Slots \cup {NoSlot, Keep} : SlotGoes(q, phase, slot)
    BY <1>1, <1>2, GoesGoesOn DEF SlotGoes
<1>3. ASSUME NEW found \in BOOLEAN,
             change' = [change EXCEPT ![q].phase = "counted", ![q].published = found],
             UNCHANGED <<event, category, referenced, historyVars>>
      PROVE  GoesOn(q) /\ OthersStay(q)
    <2>1. change' = [change EXCEPT ![q] =
              [change[q] EXCEPT !.phase = "counted", !.published = found]]
        BY <1>3 DEF PaletteTypeOK
    <2>2. change'[q] = [change[q] EXCEPT !.phase = "counted", !.published = found]
        BY <2>1 DEF PaletteTypeOK
    <2>3. OthersStay(q)
        BY <2>1 DEF PaletteTypeOK, OthersStay
    <2>4. /\ change'[q].op = change[q].op
          /\ change'[q].category = change[q].category
          /\ change[q].op # "disable" =>
                 change'[q].event = change[q].event /\ change'[q].row = change[q].row
        BY <1>1, <2>2, InProgress DEF ChangeType, DisableType
    <2> QED
        BY <1>1, <2>3, <2>4 DEF GoesOn, Holds
<1>4. HasPublished(change[q].category, EventsSeenBy(q)) \in BOOLEAN
    BY DEF HasPublished
<1>5. CASE CountPublished(q)
    BY <1>1, <1>2, <1>3, <1>4, <1>5 DEF CountPublished, SlotGoes
<1>6. CASE LoadCategory(q)
    BY <1>1, <1>2, <1>6 DEF LoadCategory, SlotGoes
<1>7. CASE PickSlot(q)
    BY <1>1, <1>2, <1>7, FreeSlotsAreSlots DEF PickSlot, SlotGoes
<1> QED
    BY <1>5, <1>6, <1>7 DEF Continues

\* What a request is after it has begun.
LEMMA BeginEffect ==
    ASSUME PaletteTypeOK, NEW q \in StaffRequests, NEW op, NEW e, NEW c, NEW row, Begin(q, op, e, c, row)
    PROVE  /\ change'[q].op = op /\ change'[q].phase = "locked"
           /\ change'[q].event = e /\ change'[q].category = c /\ change'[q].row = row
           /\ OthersStay(q)
           /\ UNCHANGED <<event, category, referenced, historyVars>>
<1>1. change'[q] = [op |-> op, phase |-> "locked", event |-> e, category |-> c, row |-> row,
                     published |-> FALSE, slot |-> Keep]
    BY DEF Begin, PaletteTypeOK
<1>2. OthersStay(q) /\ UNCHANGED <<event, category, referenced, historyVars>>
    BY DEF Begin, PaletteTypeOK, OthersStay
<1> QED
    BY <1>1, <1>2

\* The rows that begin: a real one of the event's category, or none for a
\* deletion of an event without records.
LEMMA BeginRow ==
    ASSUME PaletteTypeOK, NEW q \in StaffRequests,
           \/ \E e \in Events, c \in Categories \cup {NoCategory} : CreateEvent(q, e, c)
           \/ \E e \in Events : Unpublish(q, e) \/ Republish(q, e)
           \/ LockDelete(q)
    PROVE  \E op \in {"create", "unpublish", "republish", "delete"}, e \in Events,
              c \in Categories \cup {NoCategory}, row \in EventRows :
               /\ Begin(q, op, e, c, row)
               /\ ~EventLocked(e)
               /\ event[e].category \in {c, NoCategory}
               /\ row.category \in {c, NoCategory}
               /\ row = Absent => MayDelete(e)
               /\ \/ event[e].category = c
                  \/ c # NoCategory => category[c].state # "absent"
<1>1. ASSUME NEW e \in Events, NEW c \in Categories \cup {NoCategory}, CreateEvent(q, e, c)
      PROVE  \E op \in {"create", "unpublish", "republish", "delete"}, row \in EventRows :
                 /\ Begin(q, op, e, c, row)
                 /\ ~EventLocked(e)
                 /\ event[e].category \in {c, NoCategory}
                 /\ row.category \in {c, NoCategory}
                 /\ row = Absent => MayDelete(e)
                 /\ \/ event[e].category = c
                    \/ c # NoCategory => category[c].state # "absent"
    <2> DEFINE row == [status |-> "published", category |-> c]
    <2>1. row \in EventRows /\ row.category = c /\ row # Absent
        BY DEF EventRows, Absent
    <2>2. event[e].category = NoCategory
        BY <1>1 DEF CreateEvent, Exists, Absent
    <2> QED
        BY <1>1, <2>1, <2>2 DEF CreateEvent
<1>2. ASSUME NEW e \in Events, NEW s \in {"draft", "published"},
             event[e].status \in {"draft", "published"}
      PROVE  /\ event[e].category \in Categories \cup {NoCategory}
             /\ [event[e] EXCEPT !.status = s] \in EventRows
             /\ [event[e] EXCEPT !.status = s].category = event[e].category
             /\ [event[e] EXCEPT !.status = s] # Absent
    <2>1. event[e] \in RealRows /\ event[e].category \in Categories \cup {NoCategory}
        BY <1>2, Row DEF PaletteTypeOK
    <2> DEFINE row == [event[e] EXCEPT !.status = s]
    <2>2. row.status = s /\ row.category = event[e].category /\ row \in RealRows
        BY <2>1 DEF RealRows
    <2>3. Absent.status = "absent"
        BY DEF Absent
    <2>4. row \in EventRows
        BY <2>2, RealRowsAreRows
    <2> HIDE DEF row
    <2>5. row # Absent
        BY <2>2, <2>3
    <2> QED
        BY <2>1, <2>2, <2>4, <2>5 DEF row
<1>3. ASSUME NEW e \in Events, Unpublish(q, e)
      PROVE  \E op \in {"create", "unpublish", "republish", "delete"}, row \in EventRows :
                 /\ Begin(q, op, e, event[e].category, row)
                 /\ ~EventLocked(e)
                 /\ row.category = event[e].category
                 /\ row # Absent
                 /\ event[e].category \in Categories \cup {NoCategory}
    BY <1>2, <1>3 DEF Unpublish
<1>4. ASSUME NEW e \in Events, Republish(q, e)
      PROVE  \E op \in {"create", "unpublish", "republish", "delete"}, row \in EventRows :
                 /\ Begin(q, op, e, event[e].category, row)
                 /\ ~EventLocked(e)
                 /\ row.category = event[e].category
                 /\ row # Absent
                 /\ event[e].category \in Categories \cup {NoCategory}
    BY <1>2, <1>4 DEF Republish
<1>5. CASE LockDelete(q)
    <2> DEFINE e == change[q].event
    <2>1. e \in Events
        BY <1>5, AskedIsDelete DEF LockDelete, ChangeType
    <2>2. event[e].category \in Categories \cup {NoCategory}
        BY <2>1, Row DEF PaletteTypeOK
    <2>3. Begin(q, "delete", e, event[e].category, Absent) /\ ~EventLocked(e) /\ MayDelete(e)
        BY <1>5 DEF LockDelete
    <2>4. Absent \in EventRows /\ Absent.category = NoCategory
        BY RealRowsAreRows DEF Absent
    <2> QED
        BY <2>1, <2>2, <2>3, <2>4
<1> QED
    BY <1>1, <1>3, <1>4, <1>5

Survival == PaletteTypeOK /\ OutdatedFit /\ RecordsSurvive /\ DeletesAreClean

LEMMA BeginSurvival ==
    ASSUME Survival, NEW q \in StaffRequests, NEW op, NEW e \in Events, NEW c, NEW row \in EventRows,
           Begin(q, op, e, c, row), row = Absent => MayDelete(e)
    PROVE  RecordsSurvive' /\ DeletesAreClean'
<1>1. PaletteTypeOK
    BY DEF Survival
<1>2. change'[q].row = row /\ change'[q].event = e
    BY <1>1, BeginEffect
<1>3. OthersStay(q) /\ UNCHANGED <<event, referenced>>
    BY <1>1, BeginEffect
<1> QED
    BY <1>2, <1>3
       DEF Survival, RecordsSurvive, DeletesAreClean, OthersStay, Holds, Exists, MayDelete

LEMMA ContinueSurvival ==
    ASSUME Survival, NEW q \in StaffRequests, Continues(q)
    PROVE  RecordsSurvive' /\ DeletesAreClean'
<1>1. /\ GoesOn(q) /\ OthersStay(q)
      /\ change[q] # NoChange
      /\ UNCHANGED <<event, category, referenced, historyVars>>
    BY ContinueGoesOn DEF Survival
<1> QED
    BY <1>1 DEF Survival, RecordsSurvive, DeletesAreClean, OthersStay, GoesOn, Holds, Exists

LEMMA CommitSurvival ==
    ASSUME Survival, NEW q \in StaffRequests, Commit(q)
    PROVE  RecordsSurvive' /\ DeletesAreClean'
<1>1. change[q] # NoChange /\ change[q].phase # "asked"
    BY Busy DEF Commit
<1>2. change' = [change EXCEPT ![q] = NoChange] /\ event' = EventsSeenBy(q) /\ referenced' = referenced
    BY DEF Commit
<1>3. change'[q] = NoChange /\ OthersStay(q)
    BY <1>2 DEF Survival, PaletteTypeOK, OthersStay
<1>4. DeletesAreClean'
    BY <1>2, <1>3 DEF Survival, DeletesAreClean, Holds, OthersStay
<1>5. CASE change[q].op = "disable"
    BY <1>2, <1>4, <1>5 DEF EventsSeenBy, SeenAmong, Survival, RecordsSurvive, Exists
<1>6. CASE change[q].op # "disable"
    <2>1. change[q].event \in Events
        BY <1>1, <1>6, InProgress DEF Survival, ChangeType
    <2>2. event' = [event EXCEPT ![change[q].event] = change[q].row]
        BY <1>2, <1>6 DEF EventsSeenBy, SeenAmong
    <2>3. change[q].row = Absent => change[q].event \notin referenced
        BY <1>1, <1>6 DEF Survival, DeletesAreClean, Holds
    <2> QED
        BY <1>2, <1>4, <2>1, <2>2, <2>3 DEF Survival, PaletteTypeOK, RecordsSurvive, Exists
<1> QED
    BY <1>4, <1>5, <1>6

LEMMA EditSurvival ==
    ASSUME Survival, NEW e \in Events, NEW c \in Categories \cup {NoCategory}, Edit(e, c)
    PROVE  RecordsSurvive' /\ DeletesAreClean'
<1>1. event[e] \in RealRows
    BY Row DEF Survival, PaletteTypeOK, Edit, Exists
<1>2. [event[e] EXCEPT !.category = c] # Absent
    BY <1>1, CategoryExcept DEF RealRows, Absent
<1>3. event' = [event EXCEPT ![e] = [event[e] EXCEPT !.category = c]]
    BY DEF Edit, Survival, PaletteTypeOK
<1>4. \A d \in Events : event[d] # Absent => event'[d] # Absent
    BY <1>2, <1>3 DEF Survival, PaletteTypeOK
<1> QED
    BY <1>4 DEF Edit, Survival, PaletteTypeOK, RecordsSurvive, DeletesAreClean, Holds, Exists

\* A record is only made of an event that nobody holds.
LEMMA ReferSurvival ==
    ASSUME Survival, NEW e \in Events, Refer(e) \/ Unrefer(e)
    PROVE  RecordsSurvive' /\ DeletesAreClean'
<1>1. CASE Refer(e)
    <2>1. event[e] # Absent
        BY <1>1 DEF Refer, Absent
    <2>2. \A q \in StaffRequests : Holds(q) => change[q].event # e
        BY <1>1 DEF Refer, EventLocked, Holds
    <2> QED
        BY <1>1, <2>1, <2>2 DEF Refer, Survival, RecordsSurvive, DeletesAreClean, Holds, Exists
<1>2. CASE Unrefer(e)
    BY <1>2 DEF Unrefer, Survival, RecordsSurvive, DeletesAreClean, Holds, Exists
<1> QED
    BY <1>1, <1>2

LEMMA SurvivalPreserved == Survival /\ [PaletteNext]_paletteVars => Survival'
<1> SUFFICES ASSUME Survival, [PaletteNext]_paletteVars PROVE RecordsSurvive' /\ DeletesAreClean'
    BY TypePreserved, FitPreserved DEF Survival
<1>1. ASSUME NEW q \in StaffRequests,
             \/ \E e \in Events, c \in Categories \cup {NoCategory} : CreateEvent(q, e, c)
             \/ \E e \in Events : Unpublish(q, e) \/ Republish(q, e)
             \/ LockDelete(q)
      PROVE  RecordsSurvive' /\ DeletesAreClean'
    <2>1. PICK op \in {"create", "unpublish", "republish", "delete"}, e \in Events,
               c \in Categories \cup {NoCategory}, row \in EventRows :
              Begin(q, op, e, c, row) /\ (row = Absent => MayDelete(e))
        BY <1>1, BeginRow DEF Survival
    <2> QED
        BY <2>1, BeginSurvival
<1>2. ASSUME NEW q \in StaffRequests, NEW e \in Events, AskDelete(q, e)
      PROVE  RecordsSurvive' /\ DeletesAreClean'
    BY <1>2 DEF AskDelete, Survival, PaletteTypeOK, RecordsSurvive, DeletesAreClean, Holds, Exists
<1>3. ASSUME NEW q \in StaffRequests, NEW c \in Categories, Disable(q, c)
      PROVE  RecordsSurvive' /\ DeletesAreClean'
    BY <1>3 DEF Disable, Survival, PaletteTypeOK, RecordsSurvive, DeletesAreClean, Holds, Exists
<1>4. ASSUME NEW q \in StaffRequests, RollBack(q)
      PROVE  RecordsSurvive' /\ DeletesAreClean'
    BY <1>4 DEF RollBack, Survival, PaletteTypeOK, RecordsSurvive, DeletesAreClean, Holds, Exists
<1>5. ASSUME NEW c \in Categories, Enable(c) \/ CreateCategory(c)
      PROVE  RecordsSurvive' /\ DeletesAreClean'
    BY <1>5 DEF Enable, CreateCategory, Survival, RecordsSurvive, DeletesAreClean, Holds, Exists
<1>6. CASE UNCHANGED paletteVars
    BY <1>6 DEF paletteVars, Survival, RecordsSurvive, DeletesAreClean, Holds, Exists
<1> QED
    BY <1>1, <1>2, <1>3, <1>4, <1>5, <1>6, ContinueSurvival, CommitSurvival, EditSurvival,
       ReferSurvival DEF PaletteNext, BeginEvent, Reconcile, Continues

\* An event that records of users point to is never deleted: the records are
\* counted again under the lock of the event, which keeps new ones out until
\* the deletion commits (staff/services.py, delete_event).
THEOREM RecordsStay == PaletteSpec => []RecordsSurvive
<1>1. PaletteInit => Survival
    BY InitType, InitFit DEF PaletteInit, Survival, RecordsSurvive, DeletesAreClean, Holds
<1>2. Survival /\ [PaletteNext]_paletteVars => Survival'
    BY SurvivalPreserved
<1>3. Survival => RecordsSurvive
    BY DEF Survival
<1> QED
    BY <1>1, <1>2, <1>3, PTL DEF PaletteSpec

-----------------------------------------------------------------------------
\* Slots are returned and kept, with any number of requests about one category.

\* Requests hold different events.
EventsApart ==
    \A p, q \in StaffRequests : p # q /\ Holds(p) /\ Holds(q) => change[p].event # change[q].event

\* A request changes nothing that counts for another category than its own.
HeldFits ==
    \A q \in StaffRequests :
        Holds(q) => /\ event[change[q].event].category \in {change[q].category, NoCategory}
                    /\ change[q].row.category \in {change[q].category, NoCategory}

\* Categories that events and requests name exist, and what does not exist has
\* no slot.
CategoriesExist ==
    /\ \A e \in Events :
           event[e].category # NoCategory => category[event[e].category].state # "absent"
    /\ \A q \in StaffRequests :
           change[q].category # NoCategory => category[change[q].category].state # "absent"
    /\ \A c \in Categories : category[c].state = "absent" => category[c].slot = NoSlot

\* Whether the category of a request deserves a slot as the request knows it.
DeservesFor(q) == Deserves(ActiveSeenBy(q, change[q].category), change[q].published)

HasNoSlot(q) == category[change[q].category].slot = NoSlot

\* What a request has counted and concluded is still so.
Counted(q) == change[q].published <=> HasPublished(change[q].category, EventsSeenBy(q))
Concluded(q) ==
    /\ change[q].phase = "short" => DeservesFor(q) /\ HasNoSlot(q)
    /\ change[q].phase = "ready" =>
           /\ change[q].slot = Keep => DeservesFor(q) \/ HasNoSlot(q)
           /\ change[q].slot = NoSlot => ~DeservesFor(q)
           /\ change[q].slot \in Slots => DeservesFor(q) /\ HasNoSlot(q)
KnowsWell ==
    \A q \in StaffRequests \ outdated :
        /\ change[q].category # NoCategory
        /\ change[q].phase \in {"counted", "short", "ready"}
        => Counted(q) /\ Concluded(q)

SlotInv ==
    /\ PaletteTypeOK /\ OutdatedFit /\ EventsApart /\ HeldFits /\ CategoriesExist /\ KnowsWell
    /\ IdleSlotsReturned

\* Whether a category has a published event does not depend on events of others.
LEMMA Elsewhere ==
    ASSUME NEW events \in [Events -> EventRows], NEW e \in Events, NEW row \in EventRows,
           NEW d \in Categories, events[e].category # d, row.category # d
    PROVE  HasPublished(d, [events EXCEPT ![e] = row]) <=> HasPublished(d, events)
BY DEF HasPublished

\* A request that the step neither takes nor outdates knows what it knew.
LEMMA KnowsFrame ==
    ASSUME NEW p \in StaffRequests, change'[p] = change[p], ~Outdates(p),
           change[p].category # NoCategory, change[p].phase \in {"counted", "short", "ready"},
           Counted(p) /\ Concluded(p)
    PROVE  (Counted(p) /\ Concluded(p))'
<1>1. EventsSeenBy(p)' = SeenAmong(p, event')
    BY DEF EventsSeenBy, SeenAmong
<1>2. HasPublished(change[p].category, SeenAmong(p, event'))
          = HasPublished(change[p].category, EventsSeenBy(p))
    BY DEF Outdates
<1>3. Counted(p)'
  <2>1. (HasPublished(change[p].category, EventsSeenBy(p)))'
            = HasPublished(change[p].category, SeenAmong(p, event'))
    BY <1>1 DEF HasPublished
  <2> QED
    BY <1>2, <2>1 DEF Counted
<1>4. change[p].phase \in {"short", "ready"} =>
          category'[change[p].category] = category[change[p].category]
    BY DEF Outdates
<1>5. change[p].phase \in {"short", "ready"} =>
          DeservesFor(p)' = DeservesFor(p) /\ HasNoSlot(p)' = HasNoSlot(p)
    BY <1>4 DEF DeservesFor, HasNoSlot, Deserves, ActiveSeenBy
<1> QED
    BY <1>3, <1>5 DEF Concluded

LEMMA SameEventsSameView ==
    ASSUME NEW p \in StaffRequests, change'[p] = change[p], event' = event
    PROVE  EventsSeenBy(p)' = EventsSeenBy(p)
BY DEF EventsSeenBy, SeenAmong

\* Nothing is outdated by a step that touches neither events nor categories.
LEMMA NothingOutdated ==
    ASSUME NEW p \in StaffRequests, event' = event, category' = category
    PROVE  ~Outdates(p)
BY DEF Outdates, EventsSeenBy

-----------------------------------------------------------------------------
\* What a step of requests alone keeps.

SlotParts == EventsApart /\ HeldFits /\ CategoriesExist /\ KnowsWell /\ IdleSlotsReturned

\* A step that only changes q, to a request that knows well unless it is outdated.
LEMMA RequestStep ==
    ASSUME SlotInv, NEW q \in StaffRequests, OthersStay(q),
           event' = event, category' = category,
           unsettled' = unsettled, outdated \ {q} \subseteq outdated',
           change'[q].category # NoCategory => category[change'[q].category].state # "absent",
           Holds(q)' =>
               /\ \A p \in StaffRequests \ {q} : Holds(p) => change[p].event # change'[q].event
               /\ event[change'[q].event].category \in {change'[q].category, NoCategory}
               /\ change'[q].row.category \in {change'[q].category, NoCategory},
           q \notin outdated'
               /\ change'[q].category # NoCategory
               /\ change'[q].phase \in {"counted", "short", "ready"} => (Counted(q) /\ Concluded(q))'
    PROVE  SlotParts'
<1>1. \A p \in StaffRequests \ {q} : change'[p] = change[p]
    BY DEF OthersStay
<1>2. \A p \in StaffRequests \ {q} : Holds(p)' <=> Holds(p)
    BY <1>1 DEF Holds
<1>3. EventsApart'
    BY <1>1, <1>2 DEF SlotInv, EventsApart
<1>4. HeldFits'
    BY <1>1, <1>2 DEF SlotInv, HeldFits
<1>5. CategoriesExist'
    BY <1>1 DEF SlotInv, CategoriesExist
<1>6. KnowsWell'
    <2> SUFFICES ASSUME NEW p \in StaffRequests, p \notin outdated',
                        change'[p].category # NoCategory,
                        change'[p].phase \in {"counted", "short", "ready"}
                 PROVE  (Counted(p) /\ Concluded(p))'
        BY DEF KnowsWell
    <2>1. CASE p = q
        BY <2>1
    <2>2. CASE p # q
        <3>1. change'[p] = change[p] /\ p \notin outdated
            BY <1>1, <2>2
        <3>2. Counted(p) /\ Concluded(p)
            BY <3>1 DEF SlotInv, KnowsWell
        <3> QED
            BY <3>1, <3>2, NothingOutdated, KnowsFrame
    <2> QED
        BY <2>1, <2>2
<1>7. IdleSlotsReturned'
    BY DEF SlotInv, IdleSlotsReturned, IsIdle
<1> QED
    BY <1>3, <1>4, <1>5, <1>6, <1>7 DEF SlotParts

LEMMA BeginSlots ==
    ASSUME SlotInv, NEW q \in StaffRequests,
           \/ \E e \in Events, c \in Categories \cup {NoCategory} : CreateEvent(q, e, c)
           \/ \E e \in Events : Unpublish(q, e) \/ Republish(q, e)
           \/ LockDelete(q)
    PROVE  SlotParts'
<1>1. PICK op \in {"create", "unpublish", "republish", "delete"}, e \in Events,
           c \in Categories \cup {NoCategory}, row \in EventRows :
          /\ Begin(q, op, e, c, row)
          /\ ~EventLocked(e)
          /\ event[e].category \in {c, NoCategory}
          /\ row.category \in {c, NoCategory}
          /\ \/ event[e].category = c
             \/ c # NoCategory => category[c].state # "absent"
    BY BeginRow DEF SlotInv
<1>2. /\ change'[q].phase = "locked"
      /\ change'[q].event = e /\ change'[q].category = c /\ change'[q].row = row
      /\ OthersStay(q)
      /\ UNCHANGED <<event, category, referenced, historyVars>>
    BY <1>1, BeginEffect DEF SlotInv
<1>3. event' = event /\ category' = category /\ outdated' = outdated /\ unsettled' = unsettled
    BY <1>2 DEF historyVars
<1>4. c # NoCategory => category[c].state # "absent"
    BY <1>1 DEF SlotInv, CategoriesExist
<1>5. \A p \in StaffRequests : Holds(p) => change[p].event # e
    BY <1>1 DEF EventLocked, Holds
<1> QED
    BY <1>1, <1>2, <1>3, <1>4, <1>5, RequestStep

LEMMA AskDeleteSlots ==
    ASSUME SlotInv, NEW q \in StaffRequests, NEW e \in Events, AskDelete(q, e)
    PROVE  SlotParts'
<1>1. change'[q].category = NoCategory /\ change'[q].phase = "asked"
    BY DEF AskDelete, SlotInv, PaletteTypeOK
<1>2. /\ OthersStay(q) /\ event' = event /\ category' = category
      /\ outdated' = outdated /\ unsettled' = unsettled
    BY DEF AskDelete, SlotInv, PaletteTypeOK, OthersStay, historyVars
<1> QED
    BY <1>1, <1>2, RequestStep DEF Holds

LEMMA DisableSlots ==
    ASSUME SlotInv, NEW q \in StaffRequests, NEW c \in Categories, Disable(q, c)
    PROVE  SlotParts'
<1>1. /\ change'[q].category = c /\ change'[q].phase = "locked"
      /\ change'[q].op = "disable"
    BY DEF Disable, SlotInv, PaletteTypeOK
<1>2. /\ OthersStay(q) /\ event' = event /\ category' = category
      /\ outdated' = outdated /\ unsettled' = unsettled
    BY DEF Disable, SlotInv, PaletteTypeOK, OthersStay, historyVars
<1>3. category[c].state # "absent"
    BY DEF Disable
<1> QED
    BY <1>1, <1>2, <1>3, RequestStep DEF Holds

LEMMA RollBackSlots ==
    ASSUME SlotInv, NEW q \in StaffRequests, RollBack(q)
    PROVE  SlotParts'
<1>1. change'[q] = NoChange
    BY DEF RollBack, SlotInv, PaletteTypeOK
<1>2. /\ OthersStay(q) /\ event' = event /\ category' = category
      /\ outdated' = outdated \ {q} /\ unsettled' = unsettled
    BY DEF RollBack, SlotInv, PaletteTypeOK, OthersStay
<1>3. NoChange.category = NoCategory
    BY DEF NoChange
<1> QED
    BY <1>1, <1>2, <1>3, RequestStep DEF Holds

\* A request that continues only has to know well what it concludes.
LEMMA ContinueSlots ==
    ASSUME SlotInv, NEW q \in StaffRequests, Continues(q),
           q \notin outdated /\ change[q].category # NoCategory => (Counted(q) /\ Concluded(q))'
    PROVE  SlotParts'
<1>1. /\ GoesOn(q) /\ OthersStay(q)
      /\ change[q] # NoChange /\ change[q].phase # "asked"
      /\ UNCHANGED <<event, category, referenced, historyVars>>
    BY ContinueGoesOn DEF SlotInv
<1>2. change'[q] # NoChange
    BY DEF Continues, CountPublished, LoadCategory, PickSlot, SlotGoes, NoChange, SlotInv,
           PaletteTypeOK
<1>3. /\ change'[q].category = change[q].category
      /\ change'[q].op = change[q].op
      /\ change[q].op # "disable" =>
             change'[q].event = change[q].event /\ change'[q].row = change[q].row
    BY <1>1, <1>2 DEF GoesOn
<1>4. Holds(q)' => Holds(q) /\ change[q].op # "disable"
    BY <1>1 DEF GoesOn, Holds
<1>5. change[q].category # NoCategory => category[change[q].category].state # "absent"
    BY DEF SlotInv, CategoriesExist
<1>6. Holds(q) =>
          /\ \A p \in StaffRequests \ {q} : Holds(p) => change[p].event # change[q].event
          /\ event[change[q].event].category \in {change[q].category, NoCategory}
          /\ change[q].row.category \in {change[q].category, NoCategory}
    BY DEF SlotInv, EventsApart, HeldFits
<1>7. event' = event /\ category' = category /\ outdated' = outdated /\ unsettled' = unsettled
    BY <1>1 DEF historyVars
<1> QED
    BY <1>1, <1>3, <1>4, <1>5, <1>6, <1>7, RequestStep

\* What a step that continues keeps of the view and of the category.
LEMMA ContinueView ==
    ASSUME PaletteTypeOK, NEW q \in StaffRequests, Continues(q)
    PROVE  /\ EventsSeenBy(q)' = EventsSeenBy(q)
           /\ change'[q].category = change[q].category
           /\ HasNoSlot(q)' = HasNoSlot(q)
           /\ ActiveSeenBy(q, change[q].category)' = ActiveSeenBy(q, change[q].category)
<1>1. /\ GoesOn(q) /\ change[q] # NoChange
      /\ UNCHANGED <<event, category, referenced, historyVars>>
    BY ContinueGoesOn
<1>2. change'[q] # NoChange
    BY DEF Continues, CountPublished, LoadCategory, PickSlot, SlotGoes, NoChange, PaletteTypeOK
<1>3. /\ change'[q].category = change[q].category
      /\ change'[q].op = change[q].op
      /\ change[q].op # "disable" =>
             change'[q].event = change[q].event /\ change'[q].row = change[q].row
    BY <1>1, <1>2 DEF GoesOn
<1>4. EventsSeenBy(q)' = EventsSeenBy(q)
    BY <1>1, <1>3 DEF EventsSeenBy, SeenAmong
<1> QED
    BY <1>1, <1>3, <1>4 DEF HasNoSlot, ActiveSeenBy

LEMMA GoesEffect ==
    ASSUME PaletteTypeOK, NEW q \in StaffRequests, change[q] # NoChange, NEW phase, NEW slot,
           SlotGoes(q, phase, slot)
    PROVE  /\ change'[q].phase = phase /\ change'[q].slot = slot
           /\ change'[q].published = change[q].published
<1>1. change'[q] = [change[q] EXCEPT !.phase = phase, !.slot = slot]
    BY DEF SlotGoes, PaletteTypeOK
<1> QED
    BY <1>1, InProgress DEF ChangeType, DisableType

LEMMA CountPublishedSlots ==
    ASSUME SlotInv, NEW q \in StaffRequests, CountPublished(q)
    PROVE  SlotParts'
<1>1. change[q] # NoChange /\ Continues(q) /\ PaletteTypeOK
    BY Busy DEF CountPublished, Continues, SlotInv
<1>2. ASSUME change[q].category # NoCategory PROVE (Counted(q) /\ Concluded(q))'
    <2>1. change' = [change EXCEPT ![q].phase = "counted",
              ![q].published = HasPublished(change[q].category, EventsSeenBy(q))]
        BY <1>2 DEF CountPublished
    <2>2. change'[q] = [change[q] EXCEPT !.phase = "counted",
              !.published = HasPublished(change[q].category, EventsSeenBy(q))]
        BY <2>1 DEF SlotInv, PaletteTypeOK
    <2>3. /\ change'[q].phase = "counted"
          /\ change'[q].published = HasPublished(change[q].category, EventsSeenBy(q))
        BY <1>1, <2>2, InProgress DEF ChangeType, DisableType
    <2>4. Counted(q)'
        BY <1>1, <2>3, ContinueView DEF Counted
    <2>5. Concluded(q)'
        BY <2>3 DEF Concluded
    <2> QED
        BY <2>4, <2>5
<1> QED
    BY <1>1, <1>2, ContinueSlots

\* After a step of Goes, what was counted is still so.
LEMMA GoesCounted ==
    ASSUME SlotInv, NEW q \in StaffRequests, Continues(q), NEW phase, NEW slot,
           SlotGoes(q, phase, slot), q \notin outdated,
           change[q].category # NoCategory, change[q].phase \in {"counted", "short"}
    PROVE  /\ Counted(q)'
           /\ DeservesFor(q)' = DeservesFor(q)
           /\ HasNoSlot(q)' = HasNoSlot(q)
           /\ change'[q].phase = phase /\ change'[q].slot = slot
<1>1. change[q] # NoChange /\ PaletteTypeOK
    BY Busy DEF SlotInv
<1>2. /\ change'[q].phase = phase /\ change'[q].slot = slot
      /\ change'[q].published = change[q].published
    BY <1>1, GoesEffect
<1>3. Counted(q)
    BY DEF SlotInv, KnowsWell
<1> QED
    BY <1>1, <1>2, <1>3, ContinueView DEF Counted, DeservesFor, Deserves

LEMMA LoadCategorySlots ==
    ASSUME SlotInv, NEW q \in StaffRequests, LoadCategory(q)
    PROVE  SlotParts'
<1>1. Continues(q) /\ change[q].phase = "counted"
    BY DEF LoadCategory, Continues
<1>2. ASSUME q \notin outdated, change[q].category # NoCategory
      PROVE  (Counted(q) /\ Concluded(q))'
    <2>1. CASE DeservesFor(q) /\ HasNoSlot(q) /\ SlotGoes(q, "short", Keep)
        BY <1>1, <1>2, <2>1, GoesCounted DEF Concluded
    <2>2. CASE ~DeservesFor(q) /\ ~HasNoSlot(q) /\ SlotGoes(q, "ready", NoSlot)
        BY <1>1, <1>2, <2>2, GoesCounted, Marks DEF Concluded
    <2>3. CASE (DeservesFor(q) \/ HasNoSlot(q)) /\ SlotGoes(q, "ready", Keep)
        BY <1>1, <1>2, <2>3, GoesCounted, Marks DEF Concluded
    <2> QED
        BY <2>1, <2>2, <2>3 DEF LoadCategory, DeservesFor, HasNoSlot
<1> QED
    BY <1>1, <1>2, ContinueSlots

LEMMA PickSlotSlots ==
    ASSUME SlotInv, NEW q \in StaffRequests, PickSlot(q)
    PROVE  SlotParts'
<1>1. Continues(q) /\ change[q].phase = "short"
    BY DEF PickSlot, Continues
<1>2. ASSUME q \notin outdated, change[q].category # NoCategory
      PROVE  (Counted(q) /\ Concluded(q))'
    <2>1. DeservesFor(q) /\ HasNoSlot(q)
        BY <1>1, <1>2 DEF SlotInv, KnowsWell, Concluded
    <2>2. PICK slot \in Slots \cup {Keep} : SlotGoes(q, "ready", slot)
        BY FreeSlotsAreSlots DEF PickSlot
    <2> QED
        BY <1>1, <1>2, <2>1, <2>2, GoesCounted, Marks DEF Concluded
<1> QED
    BY <1>1, <1>2, ContinueSlots

-----------------------------------------------------------------------------
\* A commit: the request's own category has what the request has concluded,
\* unless it was outdated, and another category has an event as before.

LEMMA CommitRequest ==
    ASSUME SlotInv, NEW q \in StaffRequests, Commit(q)
    PROVE  /\ change[q] # NoChange /\ change[q].phase = "ready"
           /\ change[q].category \in Categories \cup {NoCategory}
           /\ change[q].op # "disable" =>
                  /\ Holds(q)
                  /\ change[q].event \in Events /\ change[q].row \in EventRows
           /\ change'[q] = NoChange /\ OthersStay(q)
           /\ event' = EventsSeenBy(q)
<1>1. change[q] # NoChange /\ change[q].phase = "ready" /\ PaletteTypeOK
    BY Busy DEF Commit, SlotInv
<1>2. change[q].category \in Categories \cup {NoCategory}
    BY <1>1, InProgress DEF ChangeType, DisableType
<1>3. change[q].op # "disable" => change[q].event \in Events /\ change[q].row \in EventRows
    BY <1>1, InProgress DEF ChangeType
<1>4. change' = [change EXCEPT ![q] = NoChange] /\ event' = EventsSeenBy(q)
    BY DEF Commit
<1> QED
    BY <1>1, <1>2, <1>3, <1>4 DEF PaletteTypeOK, OthersStay, Holds

\* Another category has a published event after the commit if it had one before.
LEMMA CommitElsewhere ==
    ASSUME SlotInv, NEW q \in StaffRequests, Commit(q), NEW d \in Categories,
           d # change[q].category
    PROVE  HasPublished(d, EventsSeenBy(q)) <=> HasPublished(d, event)
<1>1. CASE change[q].op = "disable"
    BY <1>1 DEF EventsSeenBy, SeenAmong
<1>2. CASE change[q].op # "disable"
    <2>1. Holds(q) /\ change[q].event \in Events /\ change[q].row \in EventRows
        BY <1>2, CommitRequest
    <2>2. event[change[q].event].category # d /\ change[q].row.category # d
        BY <2>1, PaletteAssumption DEF SlotInv, HeldFits
    <2>3. EventsSeenBy(q) = [event EXCEPT ![change[q].event] = change[q].row]
        BY <1>2 DEF EventsSeenBy, SeenAmong
    <2>4. event \in [Events -> EventRows]
        BY DEF SlotInv, PaletteTypeOK
    <2>5. HasPublished(d, [event EXCEPT ![change[q].event] = change[q].row])
              <=> HasPublished(d, event)
        BY <2>1, <2>2, <2>4, Elsewhere
    <2> QED
        BY <2>3, <2>5
<1> QED
    BY <1>1, <1>2

\* What the commit leaves of categories.
LEMMA CommitCategories ==
    ASSUME SlotInv, NEW q \in StaffRequests, Commit(q)
    PROVE  /\ \A d \in Categories : d # change[q].category => category'[d] = category[d]
           /\ change[q].category # NoCategory =>
                  /\ category'[change[q].category].state # "absent"
                  /\ category'[change[q].category].state = "inactive"
                         <=> ~ActiveSeenBy(q, change[q].category)
                  /\ category'[change[q].category].slot # category[change[q].category].slot =>
                         /\ category'[change[q].category].slot = change[q].slot
                         /\ change[q].slot # Keep
                  /\ change[q].slot = Keep =>
                         category'[change[q].category].slot = category[change[q].category].slot
                  /\ change[q].slot = NoSlot => category'[change[q].category].slot = NoSlot
<1> DEFINE c == change[q].category
<1>1. PaletteTypeOK /\ c \in Categories \cup {NoCategory}
    BY CommitRequest DEF SlotInv
<1>2. PICK state \in {"absent", "active", "inactive"}, slot \in Slots \cup {NoSlot} :
          /\ CommitWrites(q, state, slot)
          /\ c # NoCategory =>
                 /\ slot # category[c].slot => slot = change[q].slot /\ slot # Keep
                 /\ change[q].slot = Keep => slot = category[c].slot
                 /\ change[q].slot = NoSlot => slot = NoSlot
                 /\ state = IF change[q].op = "disable" THEN "inactive" ELSE category[c].state
    BY <1>1, CommitSlot
<1>3. CASE c = NoCategory
    BY <1>2, <1>3 DEF CommitWrites
<1>4. CASE c # NoCategory
    <2>1. category' = [category EXCEPT ![c] = [state |-> state, slot |-> slot]]
        BY <1>2, <1>4 DEF CommitWrites
    <2>2. category'[c] = [state |-> state, slot |-> slot]
        BY <1>1, <1>4, <2>1 DEF PaletteTypeOK
    <2>3. category'[c].state = state /\ category'[c].slot = slot
        BY <2>2
    <2>4. \A d \in Categories : d # c => category'[d] = category[d]
        BY <2>1 DEF PaletteTypeOK
    <2>5. category[c].state # "absent" /\ category[c].state \in {"absent", "active", "inactive"}
        BY <1>1, <1>4 DEF SlotInv, CategoriesExist, PaletteTypeOK, CategoryRows
    <2>6. state # "absent" /\ (state = "inactive" <=> ~ActiveSeenBy(q, c))
        BY <1>2, <1>4, <2>5 DEF ActiveSeenBy
    <2> QED
        BY <1>2, <1>4, <2>3, <2>4, <2>6
<1> QED
    BY <1>3, <1>4

\* What the request has concluded of its category is so when it commits.
LEMMA CommitConcluded ==
    ASSUME SlotInv, NEW q \in StaffRequests, Commit(q), q \notin outdated,
           change[q].category # NoCategory
    PROVE  /\ change[q].published <=> HasPublished(change[q].category, event')
           /\ Concluded(q)
           /\ DeservesFor(q) <=>
                  \/ category'[change[q].category].state # "inactive"
                  \/ HasPublished(change[q].category, event')
<1>1. Counted(q) /\ Concluded(q) /\ event' = EventsSeenBy(q)
    BY CommitRequest DEF SlotInv, KnowsWell
<1>2. change[q].published <=> HasPublished(change[q].category, event')
    BY <1>1 DEF Counted
<1>3. DeservesFor(q) <=> ActiveSeenBy(q, change[q].category) \/ change[q].published
    BY DEF DeservesFor, Deserves
<1> QED
    BY <1>1, <1>2, <1>3, CommitCategories

LEMMA CommitSlots ==
    ASSUME SlotInv, NEW q \in StaffRequests, Commit(q)
    PROVE  SlotParts'
<1> DEFINE c == change[q].category
<1>1. /\ change[q] # NoChange /\ change[q].phase = "ready"
      /\ c \in Categories \cup {NoCategory}
      /\ change'[q] = NoChange
      /\ \A p \in StaffRequests \ {q} : change'[p] = change[p]
      /\ event' = EventsSeenBy(q)
    BY CommitRequest DEF OthersStay
<1>2. NoChange.category = NoCategory /\ NoChange.phase = "none"
    BY DEF NoChange
<1>3. ~Holds(q)' /\ \A p \in StaffRequests \ {q} : Holds(p)' <=> Holds(p)
    BY <1>1 DEF Holds
<1>5. EventsApart'
    BY <1>1, <1>3 DEF SlotInv, EventsApart
<1>6. ASSUME NEW e \in Events PROVE event'[e].category \in {event[e].category, c, NoCategory}
    <2>1. CASE change[q].op = "disable"
        BY <1>1, <2>1 DEF EventsSeenBy, SeenAmong
    <2>2. CASE change[q].op # "disable"
        <3>1. Holds(q) /\ change[q].event \in Events
            BY <2>2, CommitRequest
        <3>2. event' = [event EXCEPT ![change[q].event] = change[q].row]
            BY <1>1, <2>2 DEF EventsSeenBy, SeenAmong
        <3>3. change[q].row.category \in {c, NoCategory}
            BY <3>1 DEF SlotInv, HeldFits
        <3> QED
            BY <3>1, <3>2, <3>3 DEF SlotInv, PaletteTypeOK
    <2> QED
        BY <2>1, <2>2
<1>7. ASSUME NEW p \in StaffRequests \ {q}, Holds(p) PROVE event'[change[p].event] = event[change[p].event]
    <2>1. CASE change[q].op = "disable"
        BY <1>1, <2>1 DEF EventsSeenBy, SeenAmong
    <2>2. CASE change[q].op # "disable"
        <3>1. Holds(q) /\ change[q].event \in Events
            BY <2>2, CommitRequest
        <3>2. event' = [event EXCEPT ![change[q].event] = change[q].row]
            BY <1>1, <2>2 DEF EventsSeenBy, SeenAmong
        <3>3. change[p].event # change[q].event
            BY <1>7, <3>1 DEF SlotInv, EventsApart
        <3>4. change[p].event \in Events
            BY <1>7, InProgress DEF SlotInv, Holds, ChangeType
        <3> QED
            BY <3>1, <3>2, <3>3, <3>4 DEF SlotInv, PaletteTypeOK
    <2> QED
        BY <2>1, <2>2
<1>8. HeldFits'
    BY <1>1, <1>3, <1>7 DEF SlotInv, HeldFits
<1>9. \A d \in Categories :
          /\ category[d].state # "absent" => category'[d].state # "absent"
          /\ category'[d].state = "absent" => category'[d].slot = NoSlot
    <2> SUFFICES ASSUME NEW d \in Categories
                 PROVE  /\ category[d].state # "absent" => category'[d].state # "absent"
                        /\ category'[d].state = "absent" => category'[d].slot = NoSlot
        OBVIOUS
    <2>1. CASE d # c
        BY <2>1, CommitCategories DEF SlotInv, CategoriesExist
    <2>2. CASE d = c
        BY <2>2, PaletteAssumption, CommitCategories
    <2> QED
        BY <2>1, <2>2
<1>10. CategoriesExist'
    <2>1. \A e \in Events : event[e].category \in Categories \cup {NoCategory}
        BY Row DEF SlotInv, PaletteTypeOK
    <2>2. c # NoCategory => category[c].state # "absent"
        BY DEF SlotInv, CategoriesExist
    <2>3. \A e \in Events :
              event'[e].category # NoCategory => category'[event'[e].category].state # "absent"
        BY <1>1, <1>6, <1>9, <2>1, <2>2 DEF SlotInv, CategoriesExist
    <2>4. \A p \in StaffRequests : change[p].category \in Categories \cup {NoCategory}
        BY InProgress DEF SlotInv, NoChange, ChangeType, DisableType
    <2>5. \A p \in StaffRequests :
              change'[p].category # NoCategory => category'[change'[p].category].state # "absent"
        BY <1>1, <1>2, <1>9, <2>4 DEF SlotInv, CategoriesExist
    <2> QED
        BY <1>9, <2>3, <2>5 DEF CategoriesExist
<1>11. KnowsWell'
    <2> SUFFICES ASSUME NEW p \in StaffRequests, p \notin outdated',
                        change'[p].category # NoCategory,
                        change'[p].phase \in {"counted", "short", "ready"}
                 PROVE  (Counted(p) /\ Concluded(p))'
        BY DEF KnowsWell
    <2>1. p # q /\ change'[p] = change[p]
        BY <1>1, <1>2
    <2>2. p \notin outdated /\ ~Outdates(p)
        BY <2>1 DEF Commit, Outdating
    <2>3. Counted(p) /\ Concluded(p)
        BY <2>1, <2>2 DEF SlotInv, KnowsWell
    <2> QED
        BY <2>1, <2>2, <2>3, KnowsFrame
<1>12. IdleSlotsReturned'
    <2> SUFFICES ASSUME NEW d \in Categories \ unsettled', category'[d].state = "inactive",
                        ~HasPublished(d, event')
                 PROVE  category'[d].slot = NoSlot
        BY DEF IdleSlotsReturned, IsIdle
    <2>1. CASE d # c
        <3>1. d \notin unsettled
            BY <2>1 DEF Commit
        <3> QED
            BY <1>1, <2>1, <3>1, CommitElsewhere, CommitCategories
               DEF SlotInv, IdleSlotsReturned, IsIdle
    <2>2. CASE d = c
        <3>1. c # NoCategory /\ q \notin outdated
            BY <2>2, PaletteAssumption DEF Commit
        <3>2. ~DeservesFor(q) /\ Concluded(q)
            BY <2>2, <3>1, CommitConcluded
        <3>3. change[q].slot \in Slots \cup {NoSlot, Keep}
            BY <1>1, InProgress DEF SlotInv, ChangeType, DisableType
        <3>4. change[q].slot = NoSlot \/ (change[q].slot = Keep /\ HasNoSlot(q))
            BY <1>1, <3>2, <3>3 DEF Concluded
        <3> QED
            BY <2>2, <3>1, <3>4, CommitCategories DEF HasNoSlot
    <2> QED
        BY <2>1, <2>2
<1> QED
    BY <1>5, <1>8, <1>10, <1>11, <1>12 DEF SlotParts

-----------------------------------------------------------------------------
\* What takes one step.

LEMMA EditSlots ==
    ASSUME SlotInv, NEW e \in Events, NEW c \in Categories \cup {NoCategory}, Edit(e, c)
    PROVE  SlotParts'
<1>1. change' = change /\ category' = category
    BY DEF Edit
<1>2. /\ event'[e].category = c /\ event'[e].status = event[e].status
      /\ \A f \in Events : f # e => event'[f] = event[f]
    <2>1. event' = [event EXCEPT ![e] = [event[e] EXCEPT !.category = c]]
        BY DEF Edit, SlotInv, PaletteTypeOK
    <2>2. event[e] \in RealRows
        BY Row DEF SlotInv, PaletteTypeOK, Edit, Exists
    <2>3. event'[e] = [event[e] EXCEPT !.category = c]
        BY <2>1 DEF SlotInv, PaletteTypeOK
    <2> QED
        BY <2>1, <2>2, <2>3, CategoryExcept DEF SlotInv, PaletteTypeOK
<1>3. \A p \in StaffRequests : Holds(p)' <=> Holds(p)
    BY <1>1 DEF Holds
<1>4. EventsApart'
    BY <1>1, <1>3 DEF SlotInv, EventsApart
<1>5. HeldFits'
    <2> SUFFICES ASSUME NEW p \in StaffRequests, Holds(p)
                 PROVE  event'[change[p].event] = event[change[p].event]
        BY <1>1, <1>3 DEF SlotInv, HeldFits
    <2>1. change[p].event # e
        BY DEF Edit, EventLocked, Holds
    <2>2. change[p].event \in Events
        BY InProgress DEF SlotInv, Holds, ChangeType
    <2> QED
        BY <1>2, <2>1, <2>2
<1>6. CategoriesExist'
    <2>1. \A f \in Events :
              event'[f].category # NoCategory => category'[event'[f].category].state # "absent"
        BY <1>1, <1>2 DEF Edit, SlotInv, CategoriesExist
    <2> QED
        BY <1>1, <2>1 DEF SlotInv, CategoriesExist
<1>7. KnowsWell'
    <2> SUFFICES ASSUME NEW p \in StaffRequests, p \notin outdated',
                        change[p].category # NoCategory,
                        change[p].phase \in {"counted", "short", "ready"}
                 PROVE  (Counted(p) /\ Concluded(p))'
        BY <1>1 DEF KnowsWell
    <2>1. p \notin outdated /\ ~Outdates(p)
        BY DEF Edit, Outdating
    <2>2. Counted(p) /\ Concluded(p)
        BY <2>1 DEF SlotInv, KnowsWell
    <2> QED
        BY <1>1, <2>1, <2>2, KnowsFrame
<1>8. IdleSlotsReturned'
    <2>1. unsettled \subseteq unsettled'
        BY DEF Edit
    <2> SUFFICES ASSUME NEW d \in Categories \ unsettled', HasPublished(d, event)
                 PROVE  HasPublished(d, event')
        BY <1>1, <2>1 DEF SlotInv, IdleSlotsReturned, IsIdle
    <2>2. PICK f \in Events : event[f].status = "published" /\ event[f].category = d
        BY DEF HasPublished
    <2>3. f # e
        BY <2>2 DEF Edit
    <2> QED
        BY <1>2, <2>2, <2>3 DEF HasPublished
<1> QED
    BY <1>4, <1>5, <1>6, <1>7, <1>8 DEF SlotParts

\* A step that writes a category and leaves it active.
LEMMA CategoryStep ==
    ASSUME SlotInv, NEW c \in Categories,
           \A d \in Categories : d # c => category'[d] = category[d],
           category'[c].state = "active",
           change' = change, event' = event, unsettled' = unsettled, Outdating(StaffRequests)
    PROVE  SlotParts'
<1>1. \A p \in StaffRequests : Holds(p)' <=> Holds(p)
    BY DEF Holds
<1>2. EventsApart' /\ HeldFits'
    BY <1>1 DEF SlotInv, EventsApart, HeldFits
<1>3. \A p \in StaffRequests : change[p].category \in Categories \cup {NoCategory}
    BY InProgress DEF SlotInv, NoChange, ChangeType, DisableType
<1>4. \A e \in Events : event[e].category \in Categories \cup {NoCategory}
    BY Row DEF SlotInv, PaletteTypeOK
<1>5. CategoriesExist'
    BY <1>3, <1>4 DEF SlotInv, CategoriesExist
<1>6. KnowsWell'
    <2> SUFFICES ASSUME NEW p \in StaffRequests, p \notin outdated',
                        change[p].category # NoCategory,
                        change[p].phase \in {"counted", "short", "ready"}
                 PROVE  (Counted(p) /\ Concluded(p))'
        BY DEF KnowsWell
    <2>1. p \notin outdated /\ ~Outdates(p)
        BY DEF Outdating
    <2>2. Counted(p) /\ Concluded(p)
        BY <2>1 DEF SlotInv, KnowsWell
    <2> QED
        BY <2>1, <2>2, KnowsFrame
<1>7. IdleSlotsReturned'
    BY DEF SlotInv, IdleSlotsReturned, IsIdle
<1> QED
    BY <1>2, <1>5, <1>6, <1>7 DEF SlotParts

LEMMA EnableSlots ==
    ASSUME SlotInv, NEW c \in Categories, Enable(c)
    PROVE  SlotParts'
<1>1. category' = [category EXCEPT ![c] = [category[c] EXCEPT !.state = "active"]]
    BY DEF Enable, SlotInv, PaletteTypeOK
<1>2. category'[c].state = "active"
    BY <1>1 DEF SlotInv, PaletteTypeOK, CategoryRows
<1>3. \A d \in Categories : d # c => category'[d] = category[d]
    BY <1>1 DEF SlotInv, PaletteTypeOK
<1> QED
    BY <1>2, <1>3, CategoryStep DEF Enable

LEMMA CreateCategorySlots ==
    ASSUME SlotInv, NEW c \in Categories, CreateCategory(c)
    PROVE  SlotParts'
<1>1. PICK s \in FreeSlots : category' = [category EXCEPT ![c] = [state |-> "active", slot |-> s]]
    BY DEF CreateCategory
<1>2. category'[c].state = "active" /\ \A d \in Categories : d # c => category'[d] = category[d]
    BY <1>1 DEF SlotInv, PaletteTypeOK
<1> QED
    BY <1>2, CategoryStep DEF CreateCategory

LEMMA StillSlots ==
    ASSUME SlotInv, UNCHANGED <<change, event, category, historyVars>>
    PROVE  SlotParts'
<1>1. /\ change' = change /\ event' = event /\ category' = category
      /\ outdated' = outdated /\ unsettled' = unsettled
    BY DEF historyVars
<1>2. \A p \in StaffRequests : Holds(p)' <=> Holds(p)
    BY <1>1 DEF Holds
<1>3. EventsApart' /\ HeldFits' /\ CategoriesExist'
    BY <1>1, <1>2 DEF SlotInv, EventsApart, HeldFits, CategoriesExist
<1>4. KnowsWell'
    BY <1>1, NothingOutdated, KnowsFrame DEF SlotInv, KnowsWell
<1>5. IdleSlotsReturned'
    BY <1>1 DEF SlotInv, IdleSlotsReturned, IsIdle
<1> QED
    BY <1>3, <1>4, <1>5 DEF SlotParts

-----------------------------------------------------------------------------
LEMMA SlotInvPreserved == SlotInv /\ [PaletteNext]_paletteVars => SlotInv'
<1> SUFFICES ASSUME SlotInv, [PaletteNext]_paletteVars PROVE SlotParts'
    BY TypePreserved, FitPreserved DEF SlotInv, SlotParts
<1>1. ASSUME NEW q \in StaffRequests, Reconcile(q) PROVE SlotParts'
    BY <1>1, CountPublishedSlots, LoadCategorySlots, PickSlotSlots, CommitSlots, RollBackSlots
       DEF Reconcile
<1>2. ASSUME NEW q \in StaffRequests, NEW e \in Events, BeginEvent(q, e) PROVE SlotParts'
    BY <1>2, BeginSlots, AskDeleteSlots DEF BeginEvent
<1>3. ASSUME NEW q \in StaffRequests, LockDelete(q) PROVE SlotParts'
    BY <1>3, BeginSlots
<1>4. ASSUME NEW q \in StaffRequests, NEW c \in Categories, Disable(q, c) PROVE SlotParts'
    BY <1>4, DisableSlots
<1>5. ASSUME NEW e \in Events, NEW c \in Categories \cup {NoCategory}, Edit(e, c) PROVE SlotParts'
    BY <1>5, EditSlots
<1>6. ASSUME NEW c \in Categories, Enable(c) \/ CreateCategory(c) PROVE SlotParts'
    BY <1>6, EnableSlots, CreateCategorySlots
<1>7. ASSUME NEW e \in Events, Refer(e) \/ Unrefer(e) PROVE SlotParts'
    BY <1>7, StillSlots DEF Refer, Unrefer
<1>8. CASE UNCHANGED paletteVars
    BY <1>8, StillSlots DEF paletteVars
<1> QED
    BY <1>1, <1>2, <1>3, <1>4, <1>5, <1>6, <1>7, <1>8 DEF PaletteNext

LEMMA InitSlots == PaletteInit => SlotInv
<1> SUFFICES ASSUME PaletteInit PROVE SlotParts
    BY InitType, InitFit DEF SlotInv, SlotParts
<1>1. \A q \in StaffRequests : change[q].category = NoCategory /\ ~Holds(q)
    BY DEF PaletteInit, NoChange, Holds
<1>2. \A e \in Events : event[e].category = NoCategory
    BY DEF PaletteInit, Absent
<1>3. \A c \in Categories :
          /\ category[c].state # "inactive"
          /\ category[c].state = "absent" => category[c].slot = NoSlot
    BY DEF PaletteInit
<1> QED
    BY <1>1, <1>2, <1>3
       DEF SlotParts, EventsApart, HeldFits, CategoriesExist, KnowsWell,
           IdleSlotsReturned, IsIdle

\* An inactive category without published events has returned its slot
\* (core/categories.py, reconcile_palette_slot), with any number of requests on it,
\* unless the last one committed on answers that others had changed, or an edit
\* took the last event away.
THEOREM IdleSlotsAreReturned == PaletteSpec => []IdleSlotsReturned
<1>1. SlotInv /\ [PaletteNext]_paletteVars => SlotInv'
    BY SlotInvPreserved
<1>2. PaletteInit => SlotInv
    BY InitSlots
<1>3. SlotInv => IdleSlotsReturned
    BY DEF SlotInv
<1> QED
    BY <1>1, <1>2, <1>3, PTL DEF PaletteSpec

\* Both hold in every state: no colour is shared (core/models.py, Category), and
\* none stays with a category that has no use for it, but for an outdated request
\* or an edit.
THEOREM PaletteIsSafe == PaletteSpec => []PaletteSafe
<1>1. SlotsDistinct /\ IdleSlotsReturned => PaletteSafe
    BY DEF PaletteSafe
<1> QED
    BY <1>1, ColoursAreUnique, IdleSlotsAreReturned, PTL

\* What a step takes from a category it does not need any more, or takes by an
\* outdated answer.
NeededSlotsStay ==
    \A c \in Categories :
        category[c].slot # NoSlot /\ category'[c].slot # category[c].slot =>
            \/ IsIdle(c)'
            \/ \E q \in outdated : change[q].category = c /\ change'[q] = NoChange

LEMMA StepKeepsSlots == SlotInv /\ [PaletteNext]_paletteVars => NeededSlotsStay
<1> SUFFICES ASSUME SlotInv, [PaletteNext]_paletteVars, NEW c \in Categories,
                    category[c].slot # NoSlot, category'[c].slot # category[c].slot
             PROVE  \/ IsIdle(c)'
                    \/ \E q \in outdated : change[q].category = c /\ change'[q] = NoChange
    BY DEF NeededSlotsStay
<1>1. ASSUME NEW q \in StaffRequests, Commit(q)
      PROVE  \/ IsIdle(c)'
             \/ q \in outdated /\ change[q].category = c /\ change'[q] = NoChange
    <2>1. c = change[q].category /\ c # NoCategory /\ change'[q] = NoChange
        BY <1>1, PaletteAssumption, CommitCategories, CommitRequest
    <2>2. change[q].slot # Keep /\ change[q].phase = "ready"
        BY <1>1, <2>1, CommitCategories, CommitRequest
    <2>3. change[q].slot \in Slots \cup {NoSlot, Keep}
        BY <1>1, CommitRequest, InProgress DEF SlotInv, ChangeType, DisableType
    <2>4. CASE q \notin outdated
        <3>1. Concluded(q) /\ ~HasNoSlot(q)
            BY <1>1, <2>1, <2>4, CommitConcluded DEF HasNoSlot
        <3>2. ~DeservesFor(q)
            BY <2>2, <2>3, <3>1 DEF Concluded
        <3>3. category'[c].state = "inactive" /\ ~HasPublished(c, event')
            BY <1>1, <2>1, <2>4, <3>2, CommitConcluded
        <3> QED
            BY <3>3 DEF IsIdle, HasPublished
    <2> QED
        BY <2>1, <2>4
<1>2. ASSUME NEW d \in Categories, CreateCategory(d) PROVE FALSE
    <2>1. category[d].slot = NoSlot
        BY <1>2 DEF CreateCategory, SlotInv, CategoriesExist
    <2>2. c # d => category'[c] = category[c]
        BY <1>2 DEF CreateCategory, SlotInv, PaletteTypeOK
    <2> QED
        BY <2>1, <2>2
<1>3. ASSUME NEW d \in Categories, Enable(d) PROVE FALSE
    BY <1>3, EnableKeepsSlots DEF SlotInv
<1> QED
    BY <1>1, <1>2, <1>3, WhoWritesCategories

\* A category that is active or has a published event never loses its slot, unless
\* by a request that counted or loaded before another one committed: what any
\* other request has counted and loaded still holds when it writes.
THEOREM NeededSlotsAreKept == PaletteSpec => SlotsKept
<1>1. SlotInv /\ [PaletteNext]_paletteVars => SlotInv'
    BY SlotInvPreserved
<1>2. PaletteInit => SlotInv
    BY InitSlots
<1>3. SlotInv /\ [PaletteNext]_paletteVars => [NeededSlotsStay]_paletteVars
    BY StepKeepsSlots
<1>4. SlotsKept <=> [][NeededSlotsStay]_paletteVars
    BY DEF SlotsKept, NeededSlotsStay
<1> QED
    BY <1>1, <1>2, <1>3, <1>4, PTL DEF PaletteSpec

-----------------------------------------------------------------------------
\* Error groups.

\* A report that is served, by what it is waiting for.
Between == {"sent", "serving", "missed", "retrying", "inserted"}
OnItsWay == [state : Between, print : Prints, now : Nat]
Asking == [state : {"asking"}, print : Prints, now : Nat, read : Nat]
Trimming == [state : {"trimming"}, print : Prints, now : Nat, excess : Nat]
Picked == [state : {"picked"}, print : Prints, now : Nat, stale : SUBSET Nat]

\* Where a report is tells what it carries.
LEMMA ServedShape ==
    ASSUME NEW r \in Served \cup {Unserved}
    PROVE  /\ r.state = "idle" => r = Unserved
           /\ r.state # "idle" => r.print \in Prints /\ r.now \in Nat
           /\ r.state \in Between => r \in OnItsWay
           /\ r.state = "asking" => r \in Asking /\ r.read \in Nat
           /\ r.state = "trimming" => r \in Trimming /\ r.excess \in Nat
           /\ r.state = "picked" => r \in Picked /\ r.stale \subseteq Nat
           /\ r.state \in Between \cup {"idle", "asking", "trimming", "picked"}
BY DEF Served, Unserved, Between, OnItsWay, Asking, Trimming, Picked

LEMMA ServedIsServed ==
    /\ OnItsWay \subseteq Served /\ Asking \subseteq Served
    /\ Trimming \subseteq Served /\ Picked \subseteq Served
BY DEF Served, Between, OnItsWay, Asking, Trimming, Picked

\* A report that goes on keeps its fingerprint and its time.
LEMMA ServedGoesOn ==
    ASSUME NEW r \in OnItsWay, NEW s \in Between
    PROVE  [r EXCEPT !.state = s] \in Served
BY DEF Served, Between, OnItsWay

LEMMA MakesServed ==
    ASSUME NEW f \in Prints, NEW t \in Nat
    PROVE  /\ \A s \in Between : [state |-> s, print |-> f, now |-> t] \in Served
           /\ \A n \in Nat : [state |-> "asking", print |-> f, now |-> t, read |-> n] \in Served
           /\ \A n \in Nat : [state |-> "trimming", print |-> f, now |-> t, excess |-> n] \in Served
           /\ \A X \in SUBSET Nat :
                [state |-> "picked", print |-> f, now |-> t, stale |-> X] \in Served
BY DEF Served, Between

LEMMA GroupRowCounted ==
    ASSUME NEW r \in GroupRow, NEW t \in Nat
    PROVE  [id |-> r.id, count |-> r.count + 1, seen |-> t] \in GroupRow
BY DEF GroupRow

LEMMA NewGroupRow ==
    ASSUME NEW t \in Nat
    PROVE  /\ NoGroup \in GroupRow /\ NoGroup.count = 0
           /\ [id |-> t, count |-> 1, seen |-> t] \in GroupRow
           /\ [id |-> t, count |-> 1, seen |-> t].count = 1
           /\ [id |-> t, count |-> 1, seen |-> t].id = t
BY DEF GroupRow, NoGroup

\* What an update does to the rows.
LEMMA BumpedRows ==
    ASSUME rows \in [Prints -> GroupRow], NEW f \in Prints, NEW t \in Nat
    PROVE  /\ Bumped(f, t) \in [Prints -> GroupRow]
           /\ \A g \in Prints : Bumped(f, t)[g].id = rows[g].id
           /\ \A g \in Prints :
                Bumped(f, t)[g].count = IF g = f THEN rows[g].count + 1 ELSE rows[g].count
<1>1. [id |-> rows[f].id, count |-> rows[f].count + 1, seen |-> t] \in GroupRow
    BY GroupRowCounted
<1> QED
    BY <1>1 DEF Bumped

\* What the transaction of a writer sees.
LEMMA SeesRows ==
    GroupsTypeOK => \A w \in Writers : writer[w] # Unserved =>
        /\ Sees(w) \in [Prints -> GroupRow]
        /\ writer[w].print \in Prints
        /\ Sees(w)[writer[w].print].id = writer[w].now
        /\ Sees(w)[writer[w].print].count = 1
        /\ \A f \in Prints \ {writer[w].print} : Sees(w)[f] = rows[f]
        /\ SeenBy(w) = Committed \cup {writer[w].print}
<1> SUFFICES ASSUME GroupsTypeOK, NEW w \in Writers, writer[w] # Unserved
             PROVE  /\ Sees(w) \in [Prints -> GroupRow]
                    /\ writer[w].print \in Prints
                    /\ Sees(w)[writer[w].print].id = writer[w].now
                    /\ Sees(w)[writer[w].print].count = 1
                    /\ \A f \in Prints \ {writer[w].print} : Sees(w)[f] = rows[f]
                    /\ SeenBy(w) = Committed \cup {writer[w].print}
    OBVIOUS
<1>1. writer[w] \in Served \cup {Unserved} /\ writer[w].print \in Prints /\ writer[w].now \in Nat
    <2>1. writer[w] \in Served \cup {Unserved}
        BY DEF GroupsTypeOK
    <2>2. writer[w].state # "idle"
        BY <2>1, ServedShape
    <2> QED
        BY <2>1, <2>2, ServedShape
<1>2. /\ [id |-> writer[w].now, count |-> 1, seen |-> writer[w].now] \in GroupRow
      /\ [id |-> writer[w].now, count |-> 1, seen |-> writer[w].now].count = 1
      /\ [id |-> writer[w].now, count |-> 1, seen |-> writer[w].now].id = writer[w].now
    BY <1>1, NewGroupRow
<1>3. /\ Sees(w) \in [Prints -> GroupRow]
      /\ Sees(w)[writer[w].print] = [id |-> writer[w].now, count |-> 1, seen |-> writer[w].now]
      /\ \A f \in Prints \ {writer[w].print} : Sees(w)[f] = rows[f]
    BY <1>1, <1>2 DEF Sees, GroupsTypeOK
<1>4. SeenBy(w) = Committed \cup {writer[w].print}
    BY <1>1, <1>2, <1>3 DEF SeenBy, Committed
<1> QED
    BY <1>1, <1>2, <1>3, <1>4

LEMMA SeesRowsNext ==
    GroupsTypeOK' => \A w \in Writers : writer'[w] # Unserved =>
        /\ Sees(w)' \in [Prints -> GroupRow]
        /\ writer'[w].print \in Prints
        /\ Sees(w)'[writer'[w].print].id = writer'[w].now
        /\ \A f \in Prints \ {writer'[w].print} : Sees(w)'[f] = rows'[f]
        /\ SeenBy(w)' = Committed' \cup {writer'[w].print}
<1>1. GroupsTypeOK' => (\A w \in Writers : writer[w] # Unserved =>
        /\ Sees(w) \in [Prints -> GroupRow]
        /\ writer[w].print \in Prints
        /\ Sees(w)[writer[w].print].id = writer[w].now
        /\ Sees(w)[writer[w].print].count = 1
        /\ \A f \in Prints \ {writer[w].print} : Sees(w)[f] = rows[f]
        /\ SeenBy(w) = Committed \cup {writer[w].print})'
    BY SeesRows, PTL
<1> QED
    BY <1>1

-----------------------------------------------------------------------------
\* Sets of fingerprints and of writers are finite.
LEMMA Finite ==
    /\ \A S \in SUBSET Prints : IsFiniteSet(S) /\ Cardinality(S) \in Nat
    /\ \A S \in SUBSET Prints : \A R \in SUBSET S : Cardinality(R) <= Cardinality(S)
    /\ \A S \in SUBSET Writers : IsFiniteSet(S) /\ Cardinality(S) \in Nat
    /\ \A S \in SUBSET Writers : \A R \in SUBSET S : Cardinality(R) <= Cardinality(S)
    /\ Cardinality(Writers) \in Nat \ {0}
BY GroupsAssumption, FS_Subset, FS_CardinalityType, FS_EmptySet

LEMMA OneMore ==
    \A S \in SUBSET Prints, f \in Prints : Cardinality(S \cup {f}) <= Cardinality(S) + 1
<1> SUFFICES ASSUME NEW S \in SUBSET Prints, NEW f \in Prints
             PROVE  Cardinality(S \cup {f}) <= Cardinality(S) + 1
    OBVIOUS
<1>1. IsFiniteSet(S) /\ Cardinality(S) \in Nat
    BY Finite
<1>2. Cardinality(S \cup {f}) = IF f \in S THEN Cardinality(S) ELSE Cardinality(S) + 1
    BY <1>1, FS_AddElement
<1> QED
    BY <1>1, <1>2

\* A set of numbers has a least one.
LEMMA LeastNumber ==
    ASSUME NEW T, T \subseteq Nat, T # {}
    PROVE  \E x \in T : \A y \in T : x <= y
<1> DEFINE R == OpToRel(<, Nat)
<1>1. IsWellFoundedOn(R, Nat)
    BY NatLessThanWellFounded
<1>2. \A x \in Nat, y \in Nat : x < y => <<x, y>> \in R
    BY DEF OpToRel
<1> HIDE DEF R
<1>3. PICK x \in T : \A y \in T : ~ (<<y, x>> \in R)
    BY <1>1, WFMin
<1>4. ASSUME NEW y \in T
      PROVE  x <= y
    <2>1. x \in Nat /\ y \in Nat /\ ~ (y < x)
        BY <1>2, <1>3
    <2> QED
        BY <2>1
<1> QED
    BY <1>4

\* Those that fewer than k others precede are all there are, or at least k.
LEMMA FirstOnes ==
    ASSUME NEW S, IsFiniteSet(S), NEW rank \in [S -> Nat], NEW k \in Nat,
           NEW First, First = {f \in S : Cardinality({g \in S : rank[g] < rank[f]}) < k}
    PROVE  First = S \/ Cardinality(First) >= k
<1> SUFFICES ASSUME First # S, Cardinality(First) < k
             PROVE  FALSE
    <2>1. Cardinality(First) \in Nat
        BY FS_Subset, FS_CardinalityType
    <2> QED
        BY <2>1
<1> DEFINE T == {rank[f] : f \in S \ First}
<1>1. T # {} /\ T \subseteq Nat
    OBVIOUS
<1>2. PICK x \in T : \A y \in T : x <= y
    BY <1>1, LeastNumber
<1>3. PICK f \in S \ First : x = rank[f]
    BY <1>2
<1> DEFINE P == {g \in S : rank[g] < rank[f]}
<1>4. P \subseteq First
    <2> SUFFICES ASSUME NEW g \in S, rank[g] < rank[f], g \notin First
                 PROVE  FALSE
        OBVIOUS
    <2>1. rank[g] \in Nat /\ rank[f] \in Nat /\ x <= rank[g]
        BY <1>2
    <2> QED
        BY <1>3, <2>1
<1>5. IsFiniteSet(First)
    BY FS_Subset
<1>6. Cardinality(P) <= Cardinality(First) /\ Cardinality(P) \in Nat /\ Cardinality(First) \in Nat
    BY <1>4, <1>5, FS_Subset, FS_CardinalityType
<1>7. Cardinality(P) < k
    BY <1>6
<1> QED
    BY <1>3, <1>7

-----------------------------------------------------------------------------
(***************************************************************************)
(* The inductive invariant.  A writer that has counted the rows will leave *)
(* a number of them behind when it commits; every commit of another one    *)
(* adds at most one to that number and brings it down to one more than     *)
(* what is committed then.  So of N writers at most N - k can leave k rows *)
(* too many, and none can leave N.                                         *)
(***************************************************************************)
Counting(w) == writer[w].state \in {"trimming", "picked"}
Remains(w) == {f \in SeenBy(w) : Sees(w)[f].id \notin writer[w].stale}
Left(w) ==
    IF writer[w].state = "trimming" THEN Cardinality(SeenBy(w)) - writer[w].excess
    ELSE Cardinality(Remains(w))
Crowded(k) == {w \in Writers : Counting(w) /\ Left(w) >= Limit + k}
Spread ==
    \A k \in 1..Cardinality(Writers) : Cardinality(Crowded(k)) <= Cardinality(Writers) - k

\* What was read of the counter is at most all the increments, and what was let
\* through since then shows in what the write will overwrite.
ReadsBounded ==
    /\ admitted <= counter + lost
    /\ \A w \in Writers : writer[w].state = "asking" =>
        /\ writer[w].read <= counter + lost
        /\ admitted + writer[w].read <= Quota + counter + lost

GroupsInv == GroupsSafe /\ Spread /\ ReadsBounded

-----------------------------------------------------------------------------
LEMMA LeftType ==
    GroupsTypeOK => \A w \in Writers : Counting(w) =>
        /\ writer[w] # Unserved
        /\ SeenBy(w) \in SUBSET Prints /\ Remains(w) \in SUBSET Prints
        /\ Cardinality(SeenBy(w)) \in Nat /\ Cardinality(Remains(w)) \in Nat
        /\ writer[w].state = "trimming" => writer[w].excess \in Nat
        /\ Left(w) \in Int
<1> SUFFICES ASSUME GroupsTypeOK, NEW w \in Writers, Counting(w)
             PROVE  /\ writer[w] # Unserved
                    /\ SeenBy(w) \in SUBSET Prints /\ Remains(w) \in SUBSET Prints
                    /\ Cardinality(SeenBy(w)) \in Nat /\ Cardinality(Remains(w)) \in Nat
                    /\ writer[w].state = "trimming" => writer[w].excess \in Nat
                    /\ Left(w) \in Int
    OBVIOUS
<1>1. writer[w] \in Served \cup {Unserved}
    BY DEF GroupsTypeOK
<1>2. writer[w] # Unserved /\ (writer[w].state = "trimming" => writer[w].excess \in Nat)
    BY <1>1, ServedShape DEF Counting, Unserved
<1>3. SeenBy(w) \in SUBSET Prints /\ Remains(w) \in SUBSET Prints
    BY DEF SeenBy, Remains
<1>4. Cardinality(SeenBy(w)) \in Nat /\ Cardinality(Remains(w)) \in Nat
    BY <1>3, Finite
<1> QED
    BY <1>2, <1>3, <1>4 DEF Left

LEMMA LeftTypeNext ==
    GroupsTypeOK' => \A w \in Writers : Counting(w)' =>
        /\ writer'[w] # Unserved
        /\ SeenBy(w)' \in SUBSET Prints /\ Remains(w)' \in SUBSET Prints
        /\ Cardinality(SeenBy(w)') \in Nat /\ Cardinality(Remains(w)') \in Nat
        /\ writer'[w].state = "trimming" => writer'[w].excess \in Nat
        /\ Left(w)' \in Int
<1>1. GroupsTypeOK' => (\A w \in Writers : Counting(w) =>
        /\ writer[w] # Unserved
        /\ SeenBy(w) \in SUBSET Prints /\ Remains(w) \in SUBSET Prints
        /\ Cardinality(SeenBy(w)) \in Nat /\ Cardinality(Remains(w)) \in Nat
        /\ writer[w].state = "trimming" => writer[w].excess \in Nat
        /\ Left(w) \in Int)'
    BY LeftType, PTL
<1> QED
    BY <1>1

\* Whoever counted leaves no more than before: nobody gets more crowded.
LEMMA SpreadKept ==
    ASSUME GroupsTypeOK, GroupsTypeOK', Spread,
           \A w \in Writers : Counting(w)' =>
                \/ Counting(w) /\ Left(w)' <= Left(w)
                \/ Left(w)' <= Limit
    PROVE  Spread'
<1> SUFFICES ASSUME NEW k \in 1..Cardinality(Writers)
             PROVE  Cardinality(Crowded(k)') <= Cardinality(Writers) - k
    BY DEF Spread
<1>1. Cardinality(Writers) \in Nat /\ k \in Nat /\ k >= 1 /\ Limit \in Nat
    BY Finite, GroupsAssumption
<1>2. ASSUME NEW w \in Writers, Counting(w)', Left(w)' >= Limit + k
      PROVE  Counting(w) /\ Left(w) >= Limit + k
    <2>1. Left(w)' \in Int
        BY <1>2, LeftTypeNext
    <2>2. Counting(w) /\ Left(w)' <= Left(w)
        BY <1>1, <1>2, <2>1
    <2>3. Left(w) \in Int
        BY <2>2, LeftType
    <2> QED
        BY <1>1, <1>2, <2>1, <2>2, <2>3
<1>3. Crowded(k)' \subseteq Crowded(k)
    BY <1>2 DEF Crowded
<1>4. Crowded(k) \in SUBSET Writers /\ Crowded(k)' \in SUBSET Crowded(k)
    BY <1>3 DEF Crowded
<1>5. /\ Cardinality(Crowded(k)') <= Cardinality(Crowded(k))
      /\ Cardinality(Crowded(k)') \in Nat /\ Cardinality(Crowded(k)) \in Nat
    BY <1>4, Finite
<1>6. Cardinality(Crowded(k)) <= Cardinality(Writers) - k
    BY DEF Spread
<1> QED
    BY <1>1, <1>5, <1>6

\* A commit adds one row to what the others leave, and no more than one to what
\* is committed then.
LEMMA SpreadCommitted ==
    ASSUME GroupsTypeOK, GroupsTypeOK', Spread,
           NEW v \in Writers, Counting(v), ~ Counting(v)',
           \A w \in Writers \ {v} : Counting(w)' =>
                Counting(w) /\ Left(w)' <= Left(w) + 1 /\ Left(w)' <= Left(v) + 1
    PROVE  Spread'
<1> SUFFICES ASSUME NEW k \in 1..Cardinality(Writers)
             PROVE  Cardinality(Crowded(k)') <= Cardinality(Writers) - k
    BY DEF Spread
<1> DEFINE N == Cardinality(Writers)
<1>1. N \in Nat /\ k \in Nat /\ k >= 1 /\ k <= N /\ Limit \in Nat
    BY Finite, GroupsAssumption
<1>2. CASE Crowded(k)' = {}
    <2>1. Cardinality(Crowded(k)') = 0
        BY <1>2, FS_EmptySet
    <2> QED
        BY <1>1, <2>1
<1>3. CASE Crowded(k)' # {}
    <2> DEFINE C == Crowded(k - 1)
    <2>1. ASSUME NEW w \in Crowded(k)'
          PROVE  w \in C \ {v} /\ v \in C
        <3>1. w \in Writers \ {v} /\ Counting(w)' /\ Left(w)' >= Limit + k
            BY <2>1 DEF Crowded
        <3>2. Counting(w) /\ Left(w)' <= Left(w) + 1 /\ Left(w)' <= Left(v) + 1
            BY <3>1
        <3>3. Left(w)' \in Int /\ Left(w) \in Int /\ Left(v) \in Int
            BY <3>1, <3>2, LeftType, LeftTypeNext
        <3>4. Left(w) >= Limit + (k - 1) /\ Left(v) >= Limit + (k - 1)
            BY <1>1, <3>1, <3>2, <3>3
        <3> QED
            BY <3>1, <3>2, <3>4 DEF Crowded
    <2>2. C \in SUBSET Writers /\ v \in C /\ Crowded(k)' \subseteq C \ {v}
        BY <1>3, <2>1 DEF Crowded
    <2> HIDE DEF C
    <2>3. IsFiniteSet(C) /\ Cardinality(C) \in Nat /\ Cardinality(C \ {v}) = Cardinality(C) - 1
        BY <2>2, Finite, FS_RemoveElement
    <2>4. Cardinality(Crowded(k)') <= Cardinality(C \ {v}) /\ Cardinality(Crowded(k)') \in Nat
        BY <2>2, Finite
    <2>5. Cardinality(C) <= N - (k - 1)
        <3>1. CASE k = 1
            <4>1. Cardinality(C) <= N
                BY <2>2, Finite
            <4> QED
                BY <1>1, <2>3, <3>1, <4>1
        <3>2. CASE k # 1
            <4>1. k - 1 \in 1..Cardinality(Writers)
                BY <1>1, <3>2
            <4> QED
                BY <4>1 DEF Spread, C
        <3> QED
            BY <3>1, <3>2
    <2> QED
        BY <1>1, <2>3, <2>4, <2>5
<1> QED
    BY <1>2, <1>3
-----------------------------------------------------------------------------
\* Rows that only go leave less behind.
LEMMA LeftShrinks ==
    ASSUME GroupsTypeOK, GroupsTypeOK', NEW w \in Writers, Counting(w), writer'[w] = writer[w],
           Committed' \subseteq Committed, \A f \in Committed' : rows'[f].id = rows[f].id
    PROVE  Counting(w)' /\ Left(w)' <= Left(w)
<1>1. Counting(w)' /\ writer[w] # Unserved /\ writer'[w] # Unserved
    BY LeftType DEF Counting
<1>2. /\ SeenBy(w) = Committed \cup {writer[w].print}
      /\ Sees(w)[writer[w].print].id = writer[w].now
      /\ \A f \in Prints \ {writer[w].print} : Sees(w)[f] = rows[f]
    BY <1>1, SeesRows
<1>3. /\ SeenBy(w)' = Committed' \cup {writer[w].print}
      /\ Sees(w)'[writer[w].print].id = writer[w].now
      /\ \A f \in Prints \ {writer[w].print} : Sees(w)'[f] = rows'[f]
    BY <1>1, SeesRowsNext
<1>4. SeenBy(w)' \subseteq SeenBy(w)
    BY <1>2, <1>3
<1>5. \A f \in SeenBy(w)' : f \in Prints /\ Sees(w)'[f].id = Sees(w)[f].id
    BY <1>2, <1>3 DEF SeenBy
<1>6. Remains(w)' \subseteq Remains(w)
    BY <1>4, <1>5 DEF Remains
<1>7. SeenBy(w) \in SUBSET Prints /\ Remains(w) \in SUBSET Prints
    BY DEF SeenBy, Remains
<1>8. /\ Cardinality(SeenBy(w)') <= Cardinality(SeenBy(w))
      /\ Cardinality(Remains(w)') <= Cardinality(Remains(w))
    BY <1>4, <1>6, <1>7, Finite
<1>9. /\ Cardinality(SeenBy(w)') \in Nat /\ Cardinality(SeenBy(w)) \in Nat
      /\ writer[w].state = "trimming" => writer[w].excess \in Nat
    BY <1>1, LeftType, LeftTypeNext
<1> QED
    BY <1>1, <1>8, <1>9 DEF Left

\* What a step has to show that commits no row.
LEMMA SpreadQuiet ==
    ASSUME GroupsTypeOK, GroupsTypeOK', Spread,
           Committed' \subseteq Committed, \A f \in Committed' : rows'[f].id = rows[f].id,
           \A w \in Writers : Counting(w)' =>
                \/ writer'[w] = writer[w]
                \/ Counting(w) /\ Left(w)' <= Left(w)
                \/ Left(w)' <= Limit
    PROVE  Spread'
<1>1. ASSUME NEW w \in Writers, Counting(w)'
      PROVE  \/ Counting(w) /\ Left(w)' <= Left(w)
             \/ Left(w)' <= Limit
    <2>1. CASE writer'[w] = writer[w]
        <3>1. Counting(w)
            BY <1>1, <2>1 DEF Counting
        <3> QED
            BY <2>1, <3>1, LeftShrinks
    <2> QED
        BY <1>1, <2>1
<1> QED
    BY <1>1, SpreadKept

LEMMA LimitQuiet ==
    ASSUME GroupLimit, Committed' \subseteq Committed
    PROVE  GroupLimit'
<1>1. Committed \in SUBSET Prints
    BY DEF Committed
<1>2. Cardinality(Committed') <= Cardinality(Committed)
    BY <1>1, Finite
<1>3. /\ Cardinality(Committed') \in Nat /\ Cardinality(Committed) \in Nat
      /\ Cardinality(Writers) \in Nat /\ Limit \in Nat
    BY <1>1, Finite, GroupsAssumption
<1> QED
    BY <1>2, <1>3 DEF GroupLimit

LEMMA ReadsQuiet ==
    ASSUME ReadsBounded, QuotaHolds, UNCHANGED <<counter, admitted, lost>>,
           \A w \in Writers : writer'[w].state = "asking" => writer'[w] = writer[w]
    PROVE  ReadsBounded' /\ QuotaHolds'
BY DEF ReadsBounded, QuotaHolds

\* A step that touches neither rows nor counter, and only takes one writer on.
LEMMA OnlyAWriter ==
    ASSUME GroupsInv, GroupsTypeOK', UNCHANGED <<rows, counted, counter, admitted, lost>>,
           NEW w \in Writers, \A v \in Writers \ {w} : writer'[v] = writer[v],
           Counting(w)' => (Counting(w) /\ Left(w)' <= Left(w)) \/ Left(w)' <= Limit,
           writer'[w].state # "asking"
    PROVE  GroupsInv'
<1>1. Committed' = Committed
    BY DEF Committed
<1>2. Spread'
    <2>1. \A v \in Writers : Counting(v)' =>
                \/ writer'[v] = writer[v]
                \/ Counting(v) /\ Left(v)' <= Left(v)
                \/ Left(v)' <= Limit
        OBVIOUS
    <2>2. GroupsTypeOK /\ Spread
        BY DEF GroupsInv, GroupsSafe
    <2> QED
        BY <1>1, <2>1, <2>2, SpreadQuiet
<1>3. GroupLimit'
    BY <1>1, LimitQuiet DEF GroupsInv, GroupsSafe
<1>4. CountsTold'
    BY <1>1 DEF GroupsInv, GroupsSafe, CountsTold
<1>5. ReadsBounded' /\ QuotaHolds'
    <2>1. \A v \in Writers : writer'[v].state = "asking" => writer'[v] = writer[v]
        OBVIOUS
    <2> QED
        BY <2>1, ReadsQuiet DEF GroupsInv, GroupsSafe
<1> QED
    BY <1>2, <1>3, <1>4, <1>5 DEF GroupsInv, GroupsSafe

\* Served reports that go on, or are over.
LEMMA WriterType ==
    ASSUME GroupsTypeOK, NEW w \in Writers, NEW r \in Served \cup {Unserved},
           writer' = [writer EXCEPT ![w] = r]
    PROVE  /\ writer' \in [Writers -> Served \cup {Unserved}]
           /\ writer'[w] = r
           /\ \A v \in Writers \ {w} : writer'[v] = writer[v]
BY DEF GroupsTypeOK

-----------------------------------------------------------------------------
LEMMA ReportStep ==
    ASSUME GroupsInv, NEW g \in Pages, NEW f \in Prints, Report(g, f)
    PROVE  GroupsInv'
<1> USE DEF GroupsInv, GroupsSafe
<1>1. PICK w \in Writers : w = FirstIdle
    BY DEF Report, FirstIdle
<1>2. clock' = clock + 1 /\ clock' \in 0..MaxReports /\ clock' \in Nat
    BY GroupsAssumption DEF Report, GroupsTypeOK
<1>3. PICK r \in Served : r = [state |-> "sent", print |-> f, now |-> clock']
    BY <1>2, MakesServed DEF Between
<1>4. writer' = [writer EXCEPT ![w] = r]
    BY <1>1, <1>3 DEF Report
<1>5. /\ writer' \in [Writers -> Served \cup {Unserved}]
      /\ writer'[w] = r /\ \A v \in Writers \ {w} : writer'[v] = writer[v]
    BY <1>1, <1>4, WriterType
<1>6. GroupsTypeOK'
    <2>1. reported' \in [Pages -> SUBSET Prints]
        BY DEF Report, GroupsTypeOK
    <2>2. ASSUME NEW p \in Pages
          PROVE  Cardinality(reported'[p]) <= MaxPerPage
        <3>1. CASE p = g
            <4>1. reported[g] \in SUBSET Prints /\ reported'[p] = reported[g] \cup {f}
                BY <3>1 DEF Report, GroupsTypeOK
            <4>2. /\ Cardinality(reported'[p]) <= Cardinality(reported[g]) + 1
                  /\ Cardinality(reported'[p]) \in Nat /\ Cardinality(reported[g]) \in Nat
                BY <2>1, <4>1, Finite, OneMore
            <4> QED
                BY <4>2, GroupsAssumption DEF Report
        <3>2. CASE p # g
            BY <3>2 DEF Report, GroupsTypeOK
        <3> QED
            BY <3>1, <3>2
    <2> QED
        BY <1>2, <1>5, <2>1, <2>2 DEF Report, GroupsTypeOK
<1>7. r.state = "sent"
    BY <1>3
<1>8. UNCHANGED <<rows, counted, counter, admitted, lost>>
    BY DEF Report
<1>9. ~ Counting(w)' /\ writer'[w].state # "asking"
    BY <1>5, <1>7 DEF Counting
<1> HIDE DEF GroupsInv, GroupsSafe
<1> QED
    BY <1>1, <1>5, <1>6, <1>8, <1>9, OnlyAWriter

LEMMA ReloadStep ==
    ASSUME GroupsInv, NEW g \in Pages, Reload(g)
    PROVE  GroupsInv'
<1>1. PICK w \in Writers : TRUE
    BY GroupsAssumption
<1>2. GroupsTypeOK'
    <2>1. reported' \in [Pages -> SUBSET Prints]
        BY DEF Reload, GroupsInv, GroupsSafe, GroupsTypeOK
    <2>2. Cardinality({}) <= MaxPerPage
        BY FS_EmptySet, GroupsAssumption
    <2>3. \A p \in Pages : Cardinality(reported'[p]) <= MaxPerPage
        BY <2>2 DEF Reload, GroupsInv, GroupsSafe, GroupsTypeOK
    <2> QED
        BY <2>1, <2>3 DEF Reload, GroupsInv, GroupsSafe, GroupsTypeOK
<1>3. UNCHANGED <<rows, counted, counter, admitted, lost, writer>>
    BY DEF Reload
<1>4. Committed' = Committed
    BY <1>3 DEF Committed
<1>5. Spread'
    BY <1>2, <1>3, <1>4, SpreadQuiet DEF GroupsInv, GroupsSafe
<1>6. ReadsBounded' /\ QuotaHolds' /\ GroupLimit' /\ CountsTold'
    BY <1>3, <1>4 DEF GroupsInv, GroupsSafe, ReadsBounded, QuotaHolds, GroupLimit, CountsTold
<1> QED
    BY <1>2, <1>5, <1>6 DEF GroupsInv, GroupsSafe
\* A writer that is asked about its state carries a fingerprint and a time.
LEMMA InHand ==
    ASSUME GroupsTypeOK, NEW w \in Writers, writer[w].state # "idle"
    PROVE  writer[w].print \in Prints /\ writer[w].now \in Nat /\ writer[w] \in Served
BY ServedShape DEF GroupsTypeOK, Unserved

\* The parts of the type invariant that a step of a writer leaves alone.
LEMMA TypeQuiet ==
    ASSUME GroupsTypeOK, UNCHANGED <<reported, clock>>,
           writer' \in [Writers -> Served \cup {Unserved}],
           rows' \in [Prints -> GroupRow], counted' \in [Prints -> Nat],
           counter' \in Nat, admitted' \in Nat, lost' \in Nat
    PROVE  GroupsTypeOK'
BY DEF GroupsTypeOK

\* A step of one writer that changes nothing else.
LEMMA WriterStep ==
    ASSUME GroupsInv, NEW w \in Writers, NEW r \in Served \cup {Unserved},
           writer' = [writer EXCEPT ![w] = r],
           r.state \notin {"asking", "trimming", "picked"},
           UNCHANGED <<rows, reported, clock, counter, admitted, lost, counted>>
    PROVE  GroupsInv'
<1>1. GroupsTypeOK
    BY DEF GroupsInv, GroupsSafe
<1>2. /\ writer' \in [Writers -> Served \cup {Unserved}]
      /\ writer'[w] = r /\ \A v \in Writers \ {w} : writer'[v] = writer[v]
    BY <1>1, WriterType
<1>3. GroupsTypeOK'
    BY <1>1, <1>2, TypeQuiet DEF GroupsTypeOK
<1>4. ~ Counting(w)' /\ writer'[w].state # "asking"
    BY <1>2 DEF Counting
<1> QED
    BY <1>2, <1>3, <1>4, OnlyAWriter

LEMMA AdmitStep ==
    ASSUME GroupsInv, NEW w \in Writers, Admit(w)
    PROVE  GroupsInv'
<1>1. GroupsTypeOK
    BY DEF GroupsInv, GroupsSafe
<1>2. writer[w].print \in Prints /\ writer[w].now \in Nat /\ counter \in Nat
    BY <1>1, InHand DEF Admit, GroupsTypeOK
<1>3. CASE writer[w].print \in Committed
    <2>1. PICK r \in Served : r = [state |-> "serving", print |-> writer[w].print, now |-> writer[w].now]
        BY <1>2, MakesServed DEF Between
    <2>2. writer' = [writer EXCEPT ![w] = r]
        BY <1>3, <2>1 DEF Admit
    <2>3. r.state \notin {"asking", "trimming", "picked"}
        BY <2>1
    <2> QED
        BY <2>2, <2>3, WriterStep DEF Admit
<1>4. CASE writer[w].print \notin Committed
    <2>1. PICK r \in Served :
            r = [state |-> "asking", print |-> writer[w].print, now |-> writer[w].now, read |-> counter]
        BY <1>2, MakesServed
    <2>2. writer' = [writer EXCEPT ![w] = r]
        BY <1>4, <2>1 DEF Admit
    <2>3. /\ writer' \in [Writers -> Served \cup {Unserved}]
          /\ writer'[w] = r /\ \A v \in Writers \ {w} : writer'[v] = writer[v]
        BY <1>1, <2>2, WriterType
    <2>4. UNCHANGED <<rows, reported, clock, counter, admitted, lost, counted>>
        BY DEF Admit
    <2>5. GroupsTypeOK'
        BY <1>1, <2>3, <2>4, TypeQuiet DEF GroupsTypeOK
    <2>6. r.state = "asking" /\ r.read = counter
        BY <2>1
    <2>7. Committed' = Committed
        BY <2>4 DEF Committed
    <2>8. Spread'
        <3>1. \A v \in Writers : Counting(v)' => writer'[v] = writer[v]
            BY <2>3, <2>6 DEF Counting
        <3> QED
            BY <2>4, <2>5, <2>7, <3>1, SpreadQuiet DEF GroupsInv, GroupsSafe
    <2>9. ReadsBounded' /\ QuotaHolds'
        <3>1. admitted <= counter + lost /\ admitted <= Quota + lost
            BY DEF GroupsInv, GroupsSafe, ReadsBounded, QuotaHolds
        <3>2. admitted \in Nat /\ counter \in Nat /\ lost \in Nat /\ Quota \in Nat
            BY <1>1, GroupsAssumption DEF GroupsTypeOK
        <3>3. counter <= counter + lost /\ admitted + counter <= Quota + counter + lost
            BY <3>1, <3>2
        <3> QED
            BY <2>3, <2>4, <2>6, <3>3 DEF GroupsInv, GroupsSafe, ReadsBounded, QuotaHolds
    <2>10. GroupLimit' /\ CountsTold'
        BY <2>4, <2>7 DEF GroupsInv, GroupsSafe, GroupLimit, CountsTold
    <2> QED
        BY <2>5, <2>8, <2>9, <2>10 DEF GroupsInv, GroupsSafe
<1> QED
    BY <1>3, <1>4

LEMMA AdmitNewStep ==
    ASSUME GroupsInv, NEW w \in Writers, AdmitNew(w)
    PROVE  GroupsInv'
<1>1. GroupsTypeOK /\ ReadsBounded /\ QuotaHolds
    BY DEF GroupsInv, GroupsSafe
<1>2. writer[w].state = "asking"
    BY DEF AdmitNew
<1>3. writer[w].print \in Prints /\ writer[w].now \in Nat
    BY <1>1, <1>2, InHand
<1>4. PICK n \in Nat : n = writer[w].read
    BY <1>1, <1>2, ServedShape DEF GroupsTypeOK
<1>5. PICK r \in Served \cup {Unserved} :
        r = IF Allows(n) THEN [state |-> "serving", print |-> writer[w].print, now |-> writer[w].now]
            ELSE Unserved
    BY <1>3, MakesServed DEF Between
<1>6. r.state \in {"serving", "idle"}
    BY <1>5 DEF Unserved
<1>7. /\ writer' \in [Writers -> Served \cup {Unserved}]
      /\ writer'[w] = r /\ \A v \in Writers \ {w} : writer'[v] = writer[v]
    <2>1. writer' = [writer EXCEPT ![w] = r]
        BY <1>4, <1>5 DEF AdmitNew
    <2> QED
        BY <1>1, <2>1, WriterType
<1>8. /\ counter' = n + 1 /\ lost' = lost + counter - n
      /\ admitted' = IF n + 1 <= Quota THEN admitted + 1 ELSE admitted
      /\ UNCHANGED <<rows, reported, clock, counted>>
    BY <1>4 DEF AdmitNew, Allows
<1>9. PICK c0 \in Nat, l0 \in Nat, a0 \in Nat : c0 = counter /\ l0 = lost /\ a0 = admitted
    BY <1>1 DEF GroupsTypeOK
<1>10. n <= c0 + l0 /\ a0 + n <= Quota + c0 + l0 /\ a0 <= c0 + l0 /\ a0 <= Quota + l0
    BY <1>1, <1>2, <1>4, <1>9, GroupsAssumption DEF ReadsBounded, QuotaHolds
<1>11. PICK c \in Nat, l \in Nat, a \in Nat :
            /\ c = counter' /\ l = lost' /\ a = admitted'
            /\ c0 + l0 + 1 <= c + l /\ a <= a0 + 1 /\ a <= Quota + l
    <2>1. n + 1 \in Nat /\ l0 + c0 - n \in Nat /\ c0 + l0 + 1 <= (n + 1) + (l0 + c0 - n)
        BY <1>10
    <2>2. CASE n + 1 <= Quota
        <3>1. a0 + 1 \in Nat /\ a0 + 1 <= Quota + (l0 + c0 - n)
            BY <1>10, <2>2, GroupsAssumption
        <3> QED
            BY <1>8, <1>9, <2>1, <2>2, <3>1
    <2>3. CASE ~ (n + 1 <= Quota)
        <3>1. a0 <= a0 + 1 /\ a0 <= Quota + (l0 + c0 - n)
            BY <1>10, GroupsAssumption
        <3> QED
            BY <1>8, <1>9, <2>1, <2>3, <3>1
    <2> QED
        BY <2>2, <2>3
<1>20. c0 + l0 + 1 <= c + l
    BY <1>11
<1>21. a <= a0 + 1
    BY <1>11
<1>22. a0 <= c0 + l0
    BY <1>10
<1>12. GroupsTypeOK'
    BY <1>1, <1>7, <1>8, <1>11, TypeQuiet DEF GroupsTypeOK
<1>13. Committed' = Committed
    BY <1>8 DEF Committed
<1>14. Spread'
    <2>1. \A v \in Writers : Counting(v)' => writer'[v] = writer[v]
        BY <1>6, <1>7 DEF Counting
    <2> QED
        BY <1>8, <1>12, <1>13, <2>1, SpreadQuiet DEF GroupsInv, GroupsSafe
<1>15. QuotaHolds'
    BY <1>11 DEF QuotaHolds
<1>16. ReadsBounded'
    <2>1. ASSUME NEW v \in Writers, writer'[v].state = "asking"
          PROVE  /\ writer'[v].read <= counter' + lost'
                 /\ admitted' + writer'[v].read <= Quota + counter' + lost'
        <3>1. v # w /\ writer'[v] = writer[v]
            BY <1>6, <1>7, <2>1
        <3>2. PICK m \in Nat : m = writer[v].read
            BY <1>1, <2>1, <3>1, ServedShape DEF GroupsTypeOK
        <3>3. m <= c0 + l0 /\ a0 + m <= Quota + c0 + l0
            BY <1>1, <1>9, <2>1, <3>1, <3>2, GroupsAssumption DEF ReadsBounded
        <3>4. m <= c + l /\ a + m <= Quota + c + l
            BY <1>20, <1>21, <3>3, GroupsAssumption
        <3> QED
            BY <1>11, <3>1, <3>2, <3>4
    <2>2. a <= c + l
        BY <1>20, <1>21, <1>22
    <2> QED
        BY <1>11, <2>1, <2>2 DEF ReadsBounded
<1>17. GroupLimit' /\ CountsTold'
    BY <1>8, <1>13 DEF GroupsInv, GroupsSafe, GroupLimit, CountsTold
<1> QED
    BY <1>12, <1>14, <1>15, <1>16, <1>17 DEF GroupsInv, GroupsSafe

\* A row that is there is counted once more.
LEMMA CountedStep ==
    ASSUME GroupsInv, NEW w \in Writers, writer' = [writer EXCEPT ![w] = Unserved],
           NEW f \in Committed, NEW t \in Nat,
           rows' = Bumped(f, t), counted' = [counted EXCEPT ![f] = @ + 1],
           UNCHANGED <<reported, clock, counter, admitted, lost>>
    PROVE  GroupsInv'
<1>1. GroupsTypeOK /\ f \in Prints /\ rows[f].count > 0
    BY DEF GroupsInv, GroupsSafe, Committed
<1>2. /\ writer' \in [Writers -> Served \cup {Unserved}]
      /\ writer'[w] = Unserved /\ \A v \in Writers \ {w} : writer'[v] = writer[v]
    BY <1>1, WriterType
<1>3. /\ rows' \in [Prints -> GroupRow]
      /\ \A g \in Prints : rows'[g].id = rows[g].id
      /\ \A g \in Prints : rows'[g].count = IF g = f THEN rows[g].count + 1 ELSE rows[g].count
    BY <1>1, BumpedRows DEF GroupsTypeOK
<1>4. \A g \in Prints : rows[g].count \in Nat /\ rows'[g].count \in Nat
    BY <1>1, <1>3 DEF GroupsTypeOK, GroupRow
<1>5. counted' \in [Prints -> Nat]
    BY <1>1 DEF GroupsTypeOK
<1>6. GroupsTypeOK'
    BY <1>1, <1>2, <1>3, <1>5, TypeQuiet DEF GroupsTypeOK
<1>7. Committed' = Committed
    <2>1. \A g \in Prints : rows'[g].count > 0 <=> rows[g].count > 0
        BY <1>1, <1>3, <1>4
    <2> QED
        BY <2>1 DEF Committed
<1>8. Unserved.state = "idle"
    BY DEF Unserved
<1>9. Spread'
    <2>1. \A v \in Writers : Counting(v)' => writer'[v] = writer[v]
        BY <1>2, <1>8 DEF Counting
    <2>2. \A g \in Committed' : rows'[g].id = rows[g].id
        BY <1>3 DEF Committed
    <2> QED
        BY <1>6, <1>7, <2>1, <2>2, SpreadQuiet DEF GroupsInv, GroupsSafe
<1>10. ReadsBounded' /\ QuotaHolds'
    BY <1>2, <1>8, ReadsQuiet DEF GroupsInv, GroupsSafe
<1>11. GroupLimit'
    BY <1>7 DEF GroupsInv, GroupsSafe, GroupLimit
<1>12. CountsTold'
    <2>1. \A g \in Committed : rows[g].count = counted[g]
        BY DEF GroupsInv, GroupsSafe, CountsTold
    <2>2. \A g \in Prints : counted'[g] = IF g = f THEN counted[g] + 1 ELSE counted[g]
        BY <1>1 DEF GroupsTypeOK
    <2>3. \A g \in Committed : rows'[g].count = counted'[g]
        BY <1>3, <2>1, <2>2 DEF Committed
    <2> QED
        BY <1>7, <2>3 DEF CountsTold
<1> QED
    BY <1>6, <1>9, <1>10, <1>11, <1>12 DEF GroupsInv, GroupsSafe

LEMMA IdleIsNoState ==
    /\ Unserved \in Served \cup {Unserved}
    /\ Unserved.state = "idle" /\ Unserved.state \notin {"asking", "trimming", "picked"}
BY DEF Unserved

LEMMA BumpStep ==
    ASSUME GroupsInv, NEW w \in Writers, Bump(w)
    PROVE  GroupsInv'
<1>1. GroupsTypeOK /\ writer[w].state = "serving"
    BY DEF GroupsInv, GroupsSafe, Bump
<1>2. writer[w].print \in Prints /\ writer[w].now \in Nat
    BY <1>1, InHand
<1>3. CASE writer[w].print \in Committed
    <2>1. /\ rows' = Bumped(writer[w].print, writer[w].now)
          /\ counted' = [counted EXCEPT ![writer[w].print] = @ + 1]
          /\ writer' = [writer EXCEPT ![w] = Unserved]
          /\ UNCHANGED <<reported, clock, counter, admitted, lost>>
        BY <1>3 DEF Bump
    <2>2. PICK f \in Committed, t \in Nat : f = writer[w].print /\ t = writer[w].now
        BY <1>2, <1>3
    <2> QED
        BY <2>1, <2>2, CountedStep
<1>4. CASE writer[w].print \notin Committed
    <2>1. PICK r \in Served : r = [writer[w] EXCEPT !.state = "missed"]
        <3>1. writer[w] \in OnItsWay
            BY <1>1, ServedShape DEF GroupsTypeOK, Between
        <3> QED
            BY <3>1, ServedGoesOn DEF Between
    <2>2. writer' = [writer EXCEPT ![w] = r]
        BY <1>4, <2>1 DEF Bump
    <2>3. r.state = "missed"
        BY <1>1, <2>1, ServedShape DEF GroupsTypeOK, OnItsWay, Between
    <2> QED
        BY <1>4, <2>2, <2>3, WriterStep DEF Bump
<1> QED
    BY <1>3, <1>4
LEMMA InsertStep ==
    ASSUME GroupsInv, NEW w \in Writers, Insert(w)
    PROVE  GroupsInv'
<1>1. GroupsTypeOK /\ writer[w].state = "missed"
    BY DEF GroupsInv, GroupsSafe, Insert
<1>2. writer[w] \in OnItsWay
    BY <1>1, ServedShape DEF GroupsTypeOK, Between
<1>3. PICK s \in {"retrying", "inserted"} :
        s = IF writer[w].print \in Committed THEN "retrying" ELSE "inserted"
    OBVIOUS
<1>4. PICK r \in Served : r = [writer[w] EXCEPT !.state = s]
    BY <1>2, ServedGoesOn DEF Between
<1>5. r.state = s
    BY <1>2, <1>4 DEF OnItsWay
<1>6. writer' = [writer EXCEPT ![w] = r]
    BY <1>3, <1>4 DEF Insert
<1> QED
    BY <1>5, <1>6, WriterStep DEF Insert

LEMMA FailStep ==
    ASSUME GroupsInv, NEW w \in Writers, Fail(w)
    PROVE  GroupsInv'
BY WriterStep, IdleIsNoState DEF Fail

LEMMA RetryStep ==
    ASSUME GroupsInv, NEW w \in Writers, Retry(w)
    PROVE  GroupsInv'
<1>1. GroupsTypeOK /\ writer[w].state = "retrying"
    BY DEF GroupsInv, GroupsSafe, Retry
<1>2. writer[w].print \in Prints /\ writer[w].now \in Nat
    BY <1>1, InHand
<1>3. CASE writer[w].print \in Committed
    <2>1. /\ rows' = Bumped(writer[w].print, writer[w].now)
          /\ counted' = [counted EXCEPT ![writer[w].print] = @ + 1]
          /\ writer' = [writer EXCEPT ![w] = Unserved]
          /\ UNCHANGED <<reported, clock, counter, admitted, lost>>
        BY <1>3 DEF Retry, BumpedAgain
    <2>2. PICK f \in Committed, t \in Nat : f = writer[w].print /\ t = writer[w].now
        BY <1>2, <1>3
    <2> QED
        BY <2>1, <2>2, CountedStep
<1>4. CASE writer[w].print \notin Committed
    BY <1>4, WriterStep, IdleIsNoState DEF Retry, BumpedAgain
<1> QED
    BY <1>3, <1>4

\* What a writer picks leaves as many rows as it had counted on, or none.
LEMMA OldestEnough ==
    ASSUME GroupsTypeOK, NEW w \in Writers, writer[w].state = "trimming"
    PROVE  \/ SeenBy(w) \ Oldest(w) = {}
           \/ Cardinality(SeenBy(w) \ Oldest(w)) <= Cardinality(SeenBy(w)) - writer[w].excess
<1>1. /\ writer[w] # Unserved /\ SeenBy(w) \in SUBSET Prints /\ Cardinality(SeenBy(w)) \in Nat
      /\ writer[w].excess \in Nat
    BY LeftType DEF Counting
<1>3. Sees(w) \in [Prints -> GroupRow]
    BY <1>1, SeesRows
<1>4. PICK S \in SUBSET Prints, k \in Nat, sees \in [Prints -> GroupRow],
            First \in SUBSET Prints :
        S = SeenBy(w) /\ k = writer[w].excess /\ sees = Sees(w) /\ First = Oldest(w)
    <2>1. Oldest(w) \in SUBSET Prints
        BY <1>1 DEF Oldest
    <2> QED
        BY <1>1, <1>3, <2>1
<1>5. PICK rank \in [S -> Nat] : rank = [f \in S |-> sees[f].seen]
    BY DEF GroupRow
<1>6. First = {f \in S : Cardinality({g \in S : rank[g] < rank[f]}) < k}
    <2>1. ASSUME NEW f \in S
          PROVE  Older(w, f) = {g \in S : rank[g] < rank[f]}
        BY <1>4, <1>5 DEF Older
    <2> QED
        BY <1>4, <2>1 DEF Oldest
<1>7. First = S \/ Cardinality(First) >= k
    <2>1. IsFiniteSet(S)
        BY Finite
    <2> QED
        BY <1>6, <2>1, FirstOnes
<1>8. /\ Cardinality(S \ First) = Cardinality(S) - Cardinality(First)
      /\ Cardinality(First) \in Nat /\ Cardinality(S) \in Nat
    <2>1. S \cap First = First
        BY <1>6
    <2>2. IsFiniteSet(S) /\ IsFiniteSet(First)
        BY Finite
    <2> QED
        BY <2>1, <2>2, FS_Difference, FS_CardinalityType
<1>9. First = S => S \ First = {}
    OBVIOUS
<1>10. Cardinality(First) >= k => Cardinality(S \ First) <= Cardinality(S) - k
    BY <1>8
<1> QED
    BY <1>4, <1>7, <1>9, <1>10

LEMMA CountRowsStep ==
    ASSUME GroupsInv, NEW w \in Writers, CountRows(w)
    PROVE  GroupsInv'
<1>1. GroupsTypeOK /\ writer[w].state = "inserted"
    BY DEF GroupsInv, GroupsSafe, CountRows
<1>2. writer[w].print \in Prints /\ writer[w].now \in Nat /\ writer[w] # Unserved
    BY <1>1, InHand DEF Unserved
<1>3. UNCHANGED <<rows, reported, clock, counter, admitted, lost, counted>>
    BY DEF CountRows
<1>4. PICK n \in Nat : n = Cardinality(SeenBy(w))
    BY Finite DEF SeenBy
<1>5. ASSUME NEW r \in Served, writer' = [writer EXCEPT ![w] = r],
             r.print = writer[w].print, r.now = writer[w].now,
             r.state \in {"trimming", "picked"}
      PROVE  /\ GroupsTypeOK' /\ writer'[w] = r
             /\ SeenBy(w)' = SeenBy(w)
             /\ Left(w)' <= Limit => GroupsInv'
    <2>1. /\ writer' \in [Writers -> Served \cup {Unserved}]
          /\ writer'[w] = r /\ \A v \in Writers \ {w} : writer'[v] = writer[v]
        BY <1>1, <1>5, WriterType
    <2>2. GroupsTypeOK'
        BY <1>1, <1>3, <2>1, TypeQuiet DEF GroupsTypeOK
    <2>3. writer'[w].state # "asking"
        BY <1>5, <2>1
    <2>4. Sees(w)' = Sees(w)
        BY <1>3, <1>5, <2>1 DEF Sees
    <2>5. SeenBy(w)' = SeenBy(w)
        BY <2>4 DEF SeenBy
    <2> QED
        BY <1>3, <2>1, <2>2, <2>3, <2>5, OnlyAWriter
<1>6. CASE Excess(w) <= 0
    <2>1. PICK r \in Served :
            r = [state |-> "picked", print |-> writer[w].print, now |-> writer[w].now, stale |-> {}]
        BY <1>2, MakesServed
    <2>2. writer' = [writer EXCEPT ![w] = r]
        BY <1>6, <2>1 DEF CountRows
    <2>3. /\ r.state = "picked" /\ r.print = writer[w].print /\ r.now = writer[w].now
          /\ r.stale = {}
        BY <2>1
    <2>4. GroupsTypeOK' /\ writer'[w] = r /\ SeenBy(w)' = SeenBy(w)
        BY <1>5, <2>2, <2>3
    <2>5. Left(w)' = n
        <3>1. Remains(w)' = SeenBy(w)
            BY <2>3, <2>4 DEF Remains
        <3> QED
            BY <1>4, <2>3, <2>4, <3>1 DEF Left
    <2>6. n <= Limit
        BY <1>4, <1>6, GroupsAssumption DEF Excess
    <2> QED
        BY <1>5, <2>2, <2>3, <2>5, <2>6
<1>7. CASE ~ (Excess(w) <= 0)
    <2>1. PICK e \in Nat : e = Excess(w) /\ e = n - Limit
        BY <1>4, <1>7, GroupsAssumption DEF Excess
    <2>2. PICK r \in Served :
            r = [state |-> "trimming", print |-> writer[w].print, now |-> writer[w].now, excess |-> e]
        BY <1>2, MakesServed
    <2>3. writer' = [writer EXCEPT ![w] = r]
        BY <1>7, <2>1, <2>2 DEF CountRows
    <2>4. /\ r.state = "trimming" /\ r.print = writer[w].print /\ r.now = writer[w].now
          /\ r.excess = e
        BY <2>2
    <2>5. GroupsTypeOK' /\ writer'[w] = r /\ SeenBy(w)' = SeenBy(w)
        BY <1>5, <2>3, <2>4
    <2>6. Left(w)' = n - e
        BY <1>4, <2>4, <2>5 DEF Left
    <2>7. n - e <= Limit
        BY <2>1, GroupsAssumption
    <2> QED
        BY <1>5, <2>3, <2>4, <2>6, <2>7
<1> QED
    BY <1>6, <1>7

LEMMA PickStaleStep ==
    ASSUME GroupsInv, NEW w \in Writers, PickStale(w)
    PROVE  GroupsInv'
<1>1. GroupsTypeOK /\ writer[w].state = "trimming"
    BY DEF GroupsInv, GroupsSafe, PickStale
<1>2. writer[w].print \in Prints /\ writer[w].now \in Nat /\ writer[w] # Unserved
    BY <1>1, InHand DEF Unserved
<1>3. UNCHANGED <<rows, reported, clock, counter, admitted, lost, counted>>
    BY DEF PickStale
<1>4. Sees(w) \in [Prints -> GroupRow]
    BY <1>1, <1>2, SeesRows
<1>5. PICK X \in SUBSET Nat : X = {Sees(w)[f].id : f \in Oldest(w)}
    <2>1. Oldest(w) \subseteq Prints
        BY DEF Oldest, SeenBy
    <2> QED
        BY <1>4, <2>1 DEF GroupRow
<1>6. PICK r \in Served :
        r = [state |-> "picked", print |-> writer[w].print, now |-> writer[w].now, stale |-> X]
    BY <1>2, MakesServed
<1>7. writer' = [writer EXCEPT ![w] = r]
    BY <1>5, <1>6 DEF PickStale
<1>8. /\ r.state = "picked" /\ r.print = writer[w].print /\ r.now = writer[w].now
      /\ r.stale = X
    BY <1>6
<1>9. /\ writer' \in [Writers -> Served \cup {Unserved}]
      /\ writer'[w] = r /\ \A v \in Writers \ {w} : writer'[v] = writer[v]
    BY <1>1, <1>7, WriterType
<1>10. GroupsTypeOK'
    BY <1>1, <1>3, <1>9, TypeQuiet DEF GroupsTypeOK
<1>11. Sees(w)' = Sees(w) /\ SeenBy(w)' = SeenBy(w)
    <2>1. Sees(w)' = Sees(w)
        BY <1>3, <1>8, <1>9 DEF Sees
    <2> QED
        BY <2>1 DEF SeenBy
<1>12. Remains(w)' \subseteq SeenBy(w) \ Oldest(w)
    BY <1>5, <1>8, <1>9, <1>11 DEF Remains
<1>13. Cardinality(Remains(w)') <= Cardinality(SeenBy(w) \ Oldest(w))
    <2>1. SeenBy(w) \ Oldest(w) \in SUBSET Prints
        BY DEF SeenBy
    <2> QED
        BY <1>12, <2>1, Finite
<1>14. Left(w)' = Cardinality(Remains(w)')
    BY <1>8, <1>9 DEF Left
<1>15. Left(w) = Cardinality(SeenBy(w)) - writer[w].excess
    BY <1>1 DEF Left
<1>16. Left(w)' <= Left(w) \/ Left(w)' <= Limit
    <2>1. CASE SeenBy(w) \ Oldest(w) = {}
        <3>1. Remains(w)' = {}
            BY <1>12, <2>1
        <3> QED
            BY <1>14, <3>1, FS_EmptySet, GroupsAssumption
    <2>2. CASE Cardinality(SeenBy(w) \ Oldest(w)) <= Cardinality(SeenBy(w)) - writer[w].excess
        <3>1. PICK a \in Nat, b \in Nat, c \in Nat, e \in Nat :
                /\ a = Cardinality(Remains(w)') /\ b = Cardinality(SeenBy(w) \ Oldest(w))
                /\ c = Cardinality(SeenBy(w)) /\ e = writer[w].excess
            <4>1. SeenBy(w) \ Oldest(w) \in SUBSET Prints
                BY DEF SeenBy
            <4>2. Counting(w) /\ Counting(w)'
                BY <1>1, <1>8, <1>9 DEF Counting
            <4> QED
                BY <1>1, <1>10, <4>1, <4>2, Finite, LeftType, LeftTypeNext
        <3>2. a <= b /\ b <= c - e
            BY <1>13, <2>2, <3>1
        <3>3. a <= c - e
            BY <3>2
        <3> QED
            BY <1>14, <1>15, <3>1, <3>3
    <2> QED
        BY <1>1, <2>1, <2>2, OldestEnough
<1>17. Counting(w) /\ writer'[w].state # "asking"
    BY <1>1, <1>8, <1>9 DEF Counting
<1> QED
    BY <1>3, <1>9, <1>10, <1>16, <1>17, OnlyAWriter
\* What is committed after a commit is what its writer leaves.
LEMMA CommitRows ==
    ASSUME GroupsTypeOK, NEW v \in Writers, CommitRow(v)
    PROVE  /\ Counting(v) /\ writer[v].print \in Prints
           /\ GroupsTypeOK' /\ writer'[v] = Unserved
           /\ \A w \in Writers \ {v} : writer'[w] = writer[w]
           /\ Committed' = Remains(v)
           /\ \A f \in Committed' : f # writer[v].print => f \in Committed /\ rows'[f] = rows[f]
           /\ \A f \in Committed' :
                /\ f # writer[v].print => counted'[f] = counted[f]
                /\ f = writer[v].print => counted'[f] = 1 /\ rows'[f].count = 1
<1>1. writer[v].state = "picked" /\ Counting(v)
    BY DEF CommitRow, Counting
<1>2. writer[v].print \in Prints /\ writer[v].now \in Nat /\ writer[v] # Unserved
    BY <1>1, InHand DEF Unserved
<1>3. /\ writer' \in [Writers -> Served \cup {Unserved}]
      /\ writer'[v] = Unserved /\ \A w \in Writers \ {v} : writer'[w] = writer[w]
    <2>1. writer' = [writer EXCEPT ![v] = Unserved]
        BY DEF CommitRow
    <2> QED
        BY <2>1, WriterType
<1>4. PICK p \in Prints, sees \in [Prints -> GroupRow], seen \in SUBSET Prints, left \in SUBSET Prints :
        p = writer[v].print /\ sees = Sees(v) /\ seen = SeenBy(v) /\ left = Remains(v)
    BY <1>2, SeesRows DEF SeenBy, Remains
<1>5. /\ sees[p].count = 1 /\ (\A f \in Prints \ {p} : sees[f] = rows[f])
      /\ seen = Committed \cup {p} /\ seen = {f \in Prints : sees[f].count > 0}
      /\ left \subseteq seen
    BY <1>2, <1>4, SeesRows DEF SeenBy, Remains
<1>6. {f \in SeenBy(v) : Sees(v)[f].id \in writer[v].stale} = seen \ left
    BY <1>4 DEF Remains
<1>7. /\ rows' = [f \in Prints |-> IF f \in seen \ left THEN NoGroup ELSE sees[f]]
      /\ counted' = [f \in Prints |->
            IF f \in seen \ left THEN 0 ELSE IF f = p THEN 1 ELSE counted[f]]
      /\ UNCHANGED <<reported, clock, counter, admitted, lost>>
    BY <1>4, <1>6 DEF CommitRow
<1>8. NoGroup \in GroupRow /\ NoGroup.count = 0
    BY NewGroupRow
<1>9. rows' \in [Prints -> GroupRow]
    BY <1>7, <1>8
<1>10. counted' \in [Prints -> Nat]
    BY <1>7 DEF GroupsTypeOK
<1>11. GroupsTypeOK'
    BY <1>3, <1>7, <1>9, <1>10, TypeQuiet DEF GroupsTypeOK
<1>12. Committed' = left
    <2>1. ASSUME NEW f \in Prints
          PROVE  rows'[f].count > 0 <=> f \in left
        <3>1. CASE f \in seen \ left
            BY <1>7, <1>8, <3>1
        <3>2. CASE f \in left
            BY <1>5, <1>7, <3>2
        <3>3. CASE f \notin seen
            BY <1>5, <1>7, <3>3
        <3> QED
            BY <3>1, <3>2, <3>3
    <2> QED
        BY <2>1 DEF Committed
<1>13. \A f \in left : rows'[f] = sees[f] /\ counted'[f] = IF f = p THEN 1 ELSE counted[f]
    BY <1>7
<1> QED
    BY <1>1, <1>2, <1>3, <1>4, <1>5, <1>11, <1>12, <1>13

LEMMA CommitRowStep ==
    ASSUME GroupsInv, NEW v \in Writers, CommitRow(v)
    PROVE  GroupsInv'
<1>1. GroupsTypeOK /\ Spread /\ CountsTold /\ QuotaHolds /\ ReadsBounded
    BY DEF GroupsInv, GroupsSafe
<1>2. /\ Counting(v) /\ writer[v].print \in Prints
      /\ GroupsTypeOK' /\ writer'[v] = Unserved
      /\ \A w \in Writers \ {v} : writer'[w] = writer[w]
      /\ Committed' = Remains(v)
    BY <1>1, CommitRows
<1>3. \A f \in Committed' : f # writer[v].print => f \in Committed /\ rows'[f] = rows[f]
    BY <1>1, CommitRows
<1>4. Left(v) = Cardinality(Remains(v))
    BY DEF Left, CommitRow
<1>5. ~ Counting(v)'
    BY <1>2, IdleIsNoState DEF Counting
<1>6. ASSUME NEW w \in Writers \ {v}, Counting(w)'
      PROVE  Counting(w) /\ Left(w)' <= Left(w) + 1 /\ Left(w)' <= Left(v) + 1
    <2>1. Counting(w) /\ writer'[w] = writer[w]
        BY <1>2, <1>6 DEF Counting
    <2>2. writer[w] # Unserved /\ writer'[w] # Unserved
        BY <1>1, <2>1, LeftType
    <2>3. /\ SeenBy(w) = Committed \cup {writer[w].print}
          /\ Sees(w)[writer[w].print].id = writer[w].now
          /\ \A f \in Prints \ {writer[w].print} : Sees(w)[f] = rows[f]
        BY <1>1, <2>2, SeesRows
    <2>4. /\ SeenBy(w)' = Committed' \cup {writer[w].print}
          /\ Sees(w)'[writer[w].print].id = writer[w].now
          /\ \A f \in Prints \ {writer[w].print} : Sees(w)'[f] = rows'[f]
          /\ writer[w].print \in Prints
        BY <1>2, <2>1, <2>2, SeesRowsNext
    <2>5. SeenBy(w)' \subseteq SeenBy(w) \cup {writer[v].print}
        BY <1>3, <2>3, <2>4
    <2>6. Remains(w)' \subseteq Remains(w) \cup {writer[v].print}
        <3>1. ASSUME NEW f \in SeenBy(w)', f # writer[v].print
              PROVE  Sees(w)'[f].id = Sees(w)[f].id
            <4>1. f \in Prints
                BY DEF SeenBy
            <4>2. CASE f = writer[w].print
                BY <2>3, <2>4, <4>2
            <4>3. CASE f # writer[w].print
                BY <1>3, <2>3, <2>4, <3>1, <4>1, <4>3
            <4> QED
                BY <4>2, <4>3
        <3> QED
            BY <2>1, <2>5, <3>1 DEF Remains
    <2>7. Remains(w)' \subseteq SeenBy(w)'
        BY DEF Remains
    <2>8. PICK p \in Prints, q \in Prints, R \in SUBSET Prints, S \in SUBSET Prints,
               R1 \in SUBSET Prints, S1 \in SUBSET Prints, C1 \in SUBSET Prints :
            /\ p = writer[v].print /\ q = writer[w].print /\ R = Remains(w) /\ S = SeenBy(w)
            /\ R1 = Remains(w)' /\ S1 = SeenBy(w)' /\ C1 = Remains(v)
        BY <1>2, <2>4 DEF Remains, SeenBy
    <2>9. R1 \subseteq R \cup {p} /\ S1 \subseteq S \cup {p} /\ S1 = C1 \cup {q} /\ R1 \subseteq S1
        BY <1>2, <2>4, <2>5, <2>6, <2>7, <2>8
    <2>10. /\ Cardinality(R1) <= Cardinality(R \cup {p}) /\ Cardinality(R \cup {p}) <= Cardinality(R) + 1
           /\ Cardinality(S1) <= Cardinality(S \cup {p}) /\ Cardinality(S \cup {p}) <= Cardinality(S) + 1
           /\ Cardinality(S1) <= Cardinality(C1) + 1
           /\ Cardinality(R1) <= Cardinality(S1)
        <3>1. R \cup {p} \in SUBSET Prints /\ S \cup {p} \in SUBSET Prints
            OBVIOUS
        <3>2. /\ Cardinality(R1) <= Cardinality(R \cup {p})
              /\ Cardinality(S1) <= Cardinality(S \cup {p})
              /\ Cardinality(R1) <= Cardinality(S1)
            BY <2>9, <3>1, Finite
        <3>3. Cardinality(S1) <= Cardinality(C1) + 1
            BY <2>9, OneMore
        <3> QED
            BY <3>2, <3>3, OneMore
    <2>11. /\ Cardinality(R) \in Nat /\ Cardinality(S) \in Nat /\ Cardinality(R1) \in Nat
           /\ Cardinality(S1) \in Nat /\ Cardinality(C1) \in Nat
           /\ Cardinality(R \cup {p}) \in Nat /\ Cardinality(S \cup {p}) \in Nat
        <3>1. R \cup {p} \in SUBSET Prints /\ S \cup {p} \in SUBSET Prints
            OBVIOUS
        <3> QED
            BY <3>1, Finite
    <2>12. /\ Cardinality(R1) <= Cardinality(R) + 1 /\ Cardinality(R1) <= Cardinality(C1) + 1
           /\ Cardinality(S1) <= Cardinality(S) + 1 /\ Cardinality(S1) <= Cardinality(C1) + 1
        BY <2>10, <2>11
    <2>13. CASE writer[w].state = "trimming"
        <3>1. PICK e \in Nat : e = writer[w].excess
            BY <1>1, <2>1, <2>13, LeftType
        <3>2. Cardinality(S1) - e <= (Cardinality(S) - e) + 1 /\ Cardinality(S1) - e <= Cardinality(C1) + 1
            BY <2>11, <2>12
        <3>3. Left(w) = Cardinality(S) - e /\ Left(w)' = Cardinality(S1) - e
            BY <2>1, <2>8, <2>13, <3>1 DEF Left
        <3> QED
            BY <1>4, <2>1, <2>8, <3>2, <3>3
    <2>14. CASE writer[w].state # "trimming"
        <3>1. Left(w) = Cardinality(R) /\ Left(w)' = Cardinality(R1)
            BY <2>1, <2>8, <2>14 DEF Left
        <3> QED
            BY <1>4, <2>1, <2>8, <2>12, <3>1
    <2> QED
        BY <2>13, <2>14
<1>7. Spread'
    BY <1>1, <1>2, <1>5, <1>6, SpreadCommitted
<1>8. GroupLimit'
    <2>1. PICK n \in Nat, k \in Nat : n = Cardinality(Writers) /\ k = Cardinality(Remains(v))
        BY Finite DEF Remains, SeenBy
    <2>2. n \in 1..n
        BY <2>1, Finite
    <2>3. Cardinality(Crowded(n)) <= n - n
        BY <1>1, <2>1, <2>2 DEF Spread
    <2>4. ~ (k >= Limit + n)
        <3>1. SUFFICES ASSUME k >= Limit + n
                       PROVE  FALSE
            OBVIOUS
        <3>2. v \in Crowded(n) /\ Crowded(n) \in SUBSET Writers
            BY <1>2, <1>4, <2>1, <3>1 DEF Crowded
        <3>3. IsFiniteSet(Crowded(n)) /\ Cardinality(Crowded(n)) \in Nat
            BY <3>2, Finite
        <3>4. Cardinality(Crowded(n)) # 0
            BY <3>2, <3>3, FS_EmptySet
        <3> QED
            BY <2>3, <3>3, <3>4
    <2>5. k <= Limit + n - 1
        BY <2>4, GroupsAssumption
    <2> QED
        BY <1>2, <2>1, <2>5 DEF GroupLimit
<1>9. CountsTold'
    <2>1. ASSUME NEW f \in Committed'
          PROVE  rows'[f].count = counted'[f]
        <3>1. CASE f = writer[v].print
            BY <1>1, <2>1, <3>1, CommitRows
        <3>2. CASE f # writer[v].print
            <4>1. rows'[f] = rows[f] /\ counted'[f] = counted[f] /\ f \in Committed
                BY <1>1, <2>1, <3>2, CommitRows
            <4> QED
                BY <1>1, <4>1 DEF CountsTold
        <3> QED
            BY <3>1, <3>2
    <2> QED
        BY <2>1 DEF CountsTold
<1>10. ReadsBounded' /\ QuotaHolds'
    <2>1. \A w \in Writers : writer'[w].state = "asking" => writer'[w] = writer[w]
        BY <1>2, IdleIsNoState
    <2>2. UNCHANGED <<counter, admitted, lost>>
        BY DEF CommitRow
    <2> QED
        BY <1>1, <2>1, <2>2, ReadsQuiet
<1> QED
    BY <1>2, <1>7, <1>8, <1>9, <1>10 DEF GroupsInv, GroupsSafe

LEMMA PruneStep ==
    ASSUME GroupsInv, NEW cutoff \in 1..clock, Prune(cutoff)
    PROVE  GroupsInv'
<1>1. GroupsTypeOK /\ Spread /\ CountsTold /\ QuotaHolds /\ ReadsBounded /\ GroupLimit
    BY DEF GroupsInv, GroupsSafe
<1>2. PICK stale \in SUBSET Prints : stale = {f \in Committed : rows[f].seen < cutoff}
    BY DEF Committed
<1>3. /\ rows' = [f \in Prints |-> IF f \in stale THEN NoGroup ELSE rows[f]]
      /\ counted' = [f \in Prints |-> IF f \in stale THEN 0 ELSE counted[f]]
      /\ UNCHANGED <<reported, clock, writer, counter, admitted, lost>>
    BY <1>2 DEF Prune
<1>4. NoGroup \in GroupRow /\ NoGroup.count = 0
    BY NewGroupRow
<1>5. rows' \in [Prints -> GroupRow] /\ counted' \in [Prints -> Nat]
    BY <1>1, <1>3, <1>4 DEF GroupsTypeOK
<1>6. GroupsTypeOK'
    BY <1>1, <1>3, <1>5, TypeQuiet DEF GroupsTypeOK
<1>7. \A f \in Committed' :
        f \in Committed /\ rows'[f] = rows[f] /\ counted'[f] = counted[f]
    <2>1. ASSUME NEW f \in Prints, rows'[f].count > 0
          PROVE  f \notin stale
        BY <1>3, <1>4, <2>1
    <2> QED
        BY <1>3, <2>1 DEF Committed
<1>8. Spread'
    BY <1>1, <1>3, <1>6, <1>7, SpreadQuiet
<1>9. GroupLimit'
    BY <1>1, <1>7, LimitQuiet
<1>10. CountsTold'
    BY <1>1, <1>7 DEF CountsTold
<1>11. ReadsBounded' /\ QuotaHolds'
    BY <1>1, <1>3, ReadsQuiet
<1> QED
    BY <1>6, <1>8, <1>9, <1>10, <1>11 DEF GroupsInv, GroupsSafe

-----------------------------------------------------------------------------
LEMMA GroupsInitInv == GroupsInit => GroupsInv
<1> SUFFICES ASSUME GroupsInit
             PROVE  GroupsInv
    OBVIOUS
<1>1. NoGroup \in GroupRow /\ NoGroup.count = 0
    BY NewGroupRow
<1>2. GroupsTypeOK
    <2>1. Cardinality({}) <= MaxPerPage
        BY FS_EmptySet, GroupsAssumption
    <2>2. \A g \in Pages : Cardinality(reported[g]) <= MaxPerPage
        BY <2>1 DEF GroupsInit
    <2> QED
        BY <1>1, <2>2, GroupsAssumption DEF GroupsInit, GroupsTypeOK
<1>3. Committed = {}
    BY <1>1 DEF GroupsInit, Committed
<1>4. GroupLimit /\ CountsTold /\ QuotaHolds
    <2>1. Cardinality(Committed) = 0
        BY <1>3, FS_EmptySet
    <2>2. 0 <= Limit + Cardinality(Writers) - 1
        BY Finite, GroupsAssumption
    <2> QED
        BY <1>3, <2>1, <2>2, GroupsAssumption DEF GroupLimit, CountsTold, QuotaHolds, GroupsInit
<1>5. \A w \in Writers : writer[w] = Unserved
    BY DEF GroupsInit
<1>6. Spread
    <2>1. ASSUME NEW k \in 1..Cardinality(Writers)
          PROVE  Cardinality(Crowded(k)) <= Cardinality(Writers) - k
        <3>1. Crowded(k) = {}
            BY <1>5, IdleIsNoState DEF Crowded, Counting
        <3> QED
            BY <3>1, FS_EmptySet, Finite
    <2> QED
        BY <2>1 DEF Spread
<1>7. ReadsBounded
    BY <1>5, IdleIsNoState DEF ReadsBounded, GroupsInit
<1> QED
    BY <1>2, <1>4, <1>6, <1>7 DEF GroupsInv, GroupsSafe

LEMMA GroupsStep == GroupsInv /\ [GroupsNext]_groupVars => GroupsInv'
<1> SUFFICES ASSUME GroupsInv, [GroupsNext]_groupVars
             PROVE  GroupsInv'
    OBVIOUS
<1>1. ASSUME NEW g \in Pages, Reload(g)
      PROVE  GroupsInv'
    BY <1>1, ReloadStep
<1>2. ASSUME NEW g \in Pages, NEW f \in Prints, Report(g, f)
      PROVE  GroupsInv'
    BY <1>2, ReportStep
<1>3. ASSUME NEW w \in Writers, Admit(w) \/ AdmitNew(w)
      PROVE  GroupsInv'
    BY <1>3, AdmitStep, AdmitNewStep
<1>4. ASSUME NEW w \in Writers, Bump(w) \/ Insert(w) \/ Retry(w)
      PROVE  GroupsInv'
    BY <1>4, BumpStep, InsertStep, RetryStep
<1>5. ASSUME NEW w \in Writers, CountRows(w) \/ PickStale(w) \/ CommitRow(w) \/ Fail(w)
      PROVE  GroupsInv'
    BY <1>5, CountRowsStep, PickStaleStep, CommitRowStep, FailStep
<1>6. ASSUME NEW cutoff \in 1..clock, Prune(cutoff)
      PROVE  GroupsInv'
    BY <1>6, PruneStep
<1>7. CASE UNCHANGED groupVars
    BY <1>7 DEF groupVars, GroupsInv, GroupsSafe, GroupsTypeOK, GroupLimit, CountsTold,
        QuotaHolds, Spread, Crowded, Counting, Left, Remains, SeenBy, Sees, Committed,
        ReadsBounded
<1> QED
    BY <1>1, <1>2, <1>3, <1>4, <1>5, <1>6, <1>7 DEF GroupsNext

\* Whatever number of reports of equal errors is served at the same time, the
\* rows of a source exceed their limit by at most one less than that number, the
\* rows tell what was answered as counted, and new groups exceed their quota
\* only by increments of the counter that were overwritten.
THEOREM GroupsHold == GroupsSpec => []GroupsSafe
<1>1. GroupsInv => GroupsSafe
    BY DEF GroupsInv
<1> QED
    BY <1>1, GroupsInitInv, GroupsStep, PTL DEF GroupsSpec
=============================================================================
