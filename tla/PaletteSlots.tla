----------------------------- MODULE PaletteSlots -----------------------------
(***************************************************************************)
(* Published events, their categories, and the palette slots (colours)     *)
(* that categories hold (events/services.py, core/categories.py,           *)
(* core/models.py, staff/services.py and the staff views that call them).  *)
(* A category keeps its slot while it is active or has a published event.  *)
(*                                                                         *)
(* Each request of the staff is one transaction at READ COMMITTED.  The    *)
(* variables hold what is committed.  A request locks the event (or the    *)
(* category) it changes first, then counts, loads the category and looks   *)
(* for a free slot in statements of their own, each of which sees what     *)
(* others have committed and what it has written itself.  Its last write   *)
(* and its commit are one step, since nobody passes the lock in between.   *)
(***************************************************************************)
EXTENDS Integers

CONSTANTS
    Events,      \* event ids
    Categories,  \* slugs
    NumSlots,    \* PALETTE_SLOT_COUNT
    StaffRequests  \* requests of staff in progress at the same time

\* the empty category of an event
NoCategory == "none"

ASSUME PaletteAssumption ==
    /\ NoCategory \notin Categories
    /\ NumSlots \in Nat \ {0}

VARIABLES
    event,       \* event -> its publish_status and category
    category,    \* slug -> its is_active and palette_slot
    referenced,  \* events that records of users point to
    change       \* staff request -> what it is changing, or NoChange

\* History that no request reads.
VARIABLES
    outdated,    \* staff requests whose answers another transaction has changed
    unsettled    \* categories that an edit took a published event from, or a request
                 \* with outdated answers committed on, and no other request since

historyVars == <<outdated, unsettled>>
paletteVars == <<event, category, referenced, change, historyVars>>

NoSlot == -1
Keep == -2    \* the request leaves palette_slot alone
Slots == 0..(NumSlots - 1)

Absent == [status |-> "absent", category |-> NoCategory]
EventRows ==
    [status : {"draft", "published"}, category : Categories \cup {NoCategory}] \cup {Absent}
CategoryRows == [state : {"absent", "active", "inactive"}, slot : Slots \cup {NoSlot}]
NoChange == [op |-> "none", phase |-> "none", event |-> "none", category |-> NoCategory]
ChangeType ==
    [op : {"create", "unpublish", "republish", "delete"},
     phase : {"asked", "locked", "counted", "short", "ready"},
     event : Events, category : Categories \cup {NoCategory}, row : EventRows,
     published : BOOLEAN, slot : Slots \cup {NoSlot, Keep}]
DisableType ==
    [op : {"disable"}, phase : {"locked", "counted", "short", "ready"}, category : Categories,
     published : BOOLEAN, slot : Slots \cup {NoSlot, Keep}]

PaletteTypeOK ==
    /\ event \in [Events -> EventRows]
    /\ category \in [Categories -> CategoryRows]
    /\ referenced \in SUBSET Events
    /\ change \in [StaffRequests -> ChangeType \cup DisableType \cup {NoChange}]
    /\ outdated \in SUBSET StaffRequests
    /\ unsettled \in SUBSET Categories

\* seeded categories are active and have slots of their own
PaletteInit ==
    /\ event = [e \in Events |-> Absent]
    /\ category \in [Categories -> {[state |-> "absent", slot |-> NoSlot]}
                                   \cup [state : {"active"}, slot : Slots]]
    /\ \A c, d \in Categories :
           c # d /\ category[c].slot = category[d].slot => category[c].slot = NoSlot
    /\ referenced = {}
    /\ change = [q \in StaffRequests |-> NoChange]
    /\ outdated = {}
    /\ unsettled = {}

-----------------------------------------------------------------------------
\* Locks, and what a request sees.

Exists(e) == event[e] # Absent

EventLocked(e) ==
    \E p \in StaffRequests :
        change[p] # NoChange /\ change[p].op # "disable" /\ change[p].phase # "asked"
        /\ change[p].event = e

CategoryLocked(c) ==
    \E p \in StaffRequests : change[p].op = "disable" /\ change[p].category = c

\* the committed events and the request's own change
SeenAmong(q, events) ==
    IF change[q].op = "disable" THEN events
    ELSE [events EXCEPT ![change[q].event] = change[q].row]

EventsSeenBy(q) == SeenAmong(q, event)

HasPublished(c, events) ==
    \E e \in Events : events[e].status = "published" /\ events[e].category = c

ActiveSeenBy(q, c) == category[c].state = "active" /\ change[q].op # "disable"

\* what _next_available_slot chooses the lowest of
FreeSlots == {s \in Slots : \A c \in Categories : category[c].slot # s}

NextAvailable(s) == s \in FreeSlots /\ \A t \in FreeSlots : s <= t

\* history: what q counted or loaded is no longer so after this step
Outdates(q) ==
    LET c == change[q].category
    IN  /\ c # NoCategory
        /\ \/ /\ change[q].phase \in {"counted", "short", "ready"}
              /\ HasPublished(c, SeenAmong(q, event')) # HasPublished(c, EventsSeenBy(q))
           \/ change[q].phase \in {"short", "ready"} /\ category'[c] # category[c]

\* history: the step of a transaction that outdates what others have read
Outdating(others) == outdated' = (outdated \cap others) \cup {p \in others : Outdates(p)}

-----------------------------------------------------------------------------
\* A request begins: its event is locked and changed, or inserted.

Begin(q, op, e, c, row) ==
    /\ change' = [change EXCEPT ![q] =
           [op |-> op, phase |-> "locked", event |-> e, category |-> c, row |-> row,
            published |-> FALSE, slot |-> Keep]]
    /\ UNCHANGED <<event, category, referenced, historyVars>>

\* create_published_event, of a staff form or of an approved draft; a category
\* that is not active any more is still a valid one
CreateEvent(q, e, c) ==
    /\ change[q] = NoChange
    /\ ~Exists(e)
    /\ ~EventLocked(e)
    /\ c # NoCategory => category[c].state # "absent"
    /\ Begin(q, "create", e, c, [status |-> "published", category |-> c])

Unpublish(q, e) ==
    /\ change[q] = NoChange
    /\ ~EventLocked(e)
    /\ event[e].status = "published"
    /\ Begin(q, "unpublish", e, event[e].category, [event[e] EXCEPT !.status = "draft"])

Republish(q, e) ==
    /\ change[q] = NoChange
    /\ ~EventLocked(e)
    /\ event[e].status = "draft"
    /\ Begin(q, "republish", e, event[e].category, [event[e] EXCEPT !.status = "published"])

\* staff_event_delete looks for records of users before anything is locked
AskDelete(q, e) ==
    /\ change[q] = NoChange
    /\ Exists(e)
    /\ e \notin referenced
    /\ change' = [change EXCEPT ![q] =
           [op |-> "delete", phase |-> "asked", event |-> e, category |-> NoCategory,
            row |-> Absent, published |-> FALSE, slot |-> Keep]]
    /\ UNCHANGED <<event, category, referenced, historyVars>>

\* mutant: the answer of the first look is used
MayDeleteAsAsked(e) == TRUE

\* delete_event counts the records again once the event is locked
MayDelete(e) == e \notin referenced

LockDelete(q) ==
    LET e == change[q].event
    IN  /\ change[q] # NoChange
        /\ change[q].phase = "asked"
        /\ Exists(e)
        /\ ~EventLocked(e)
        /\ MayDelete(e)
        /\ Begin(q, "delete", e, event[e].category, Absent)

\* category_set_active to inactive: the category is locked and its signal sent
Disable(q, c) ==
    /\ change[q] = NoChange
    /\ ~CategoryLocked(c)
    /\ category[c].state = "active"
    /\ change' = [change EXCEPT ![q] =
           [op |-> "disable", phase |-> "locked", category |-> c, published |-> FALSE,
            slot |-> Keep]]
    /\ UNCHANGED <<event, category, referenced, historyVars>>

-----------------------------------------------------------------------------
\* reconcile_category_palette_slot and reconcile_palette_slot, inside the
\* transaction of the caller.

SlotGoes(q, phase, slot) ==
    /\ change' = [change EXCEPT ![q].phase = phase, ![q].slot = slot]
    /\ UNCHANGED <<event, category, referenced, historyVars>>

\* the number of published events matters as zero or not
CountPublished(q) ==
    /\ change[q].phase = "locked"
    /\ \/ /\ change[q].category = NoCategory
          /\ SlotGoes(q, "ready", Keep)
       \/ /\ change[q].category # NoCategory
          /\ change' = [change EXCEPT ![q].phase = "counted",
                 ![q].published = HasPublished(change[q].category, EventsSeenBy(q))]
          /\ UNCHANGED <<event, category, referenced, historyVars>>

\* mutant: a category that was just created has no event yet
DeservesIfPublished(active, published) == published

\* should_have_slot
Deserves(active, published) == active \/ published

LoadCategory(q) ==
    LET c == change[q].category
        deserves == Deserves(ActiveSeenBy(q, c), change[q].published)
        has == category[c].slot # NoSlot
    IN  /\ change[q].phase = "counted"
        /\ \/ deserves /\ ~has /\ SlotGoes(q, "short", Keep)
           \/ ~deserves /\ has /\ SlotGoes(q, "ready", NoSlot)
           \/ deserves = has /\ SlotGoes(q, "ready", Keep)

\* when all slots are taken, the category goes without
PickSlot(q) ==
    /\ change[q].phase = "short"
    /\ \/ FreeSlots = {} /\ SlotGoes(q, "ready", Keep)
       \/ \E s \in FreeSlots : NextAvailable(s) /\ SlotGoes(q, "ready", s)

\* mutant: nobody notices that the slot was taken meanwhile
CollidesNever(c, s) == FALSE

\* palette_slot is unique, and a violation rolls the savepoint back
Collides(c, s) == s \in Slots /\ \E d \in Categories \ {c} : category[d].slot = s

\* the slot is written, when the category is not locked, and the request commits
Commit(q) ==
    LET c == change[q].category
        slot == change[q].slot
        written == IF slot = Keep \/ Collides(c, slot) THEN category[c].slot ELSE slot
        state == IF change[q].op = "disable" THEN "inactive" ELSE category[c].state
    IN  /\ change[q].phase = "ready"
        /\ slot # Keep /\ change[q].op # "disable" => ~CategoryLocked(c)
        /\ event' = EventsSeenBy(q)
        /\ category' = IF c = NoCategory THEN category
                       ELSE [category EXCEPT ![c] = [state |-> state, slot |-> written]]
        /\ change' = [change EXCEPT ![q] = NoChange]
        /\ Outdating(StaffRequests \ {q})
        /\ unsettled' = IF q \in outdated THEN unsettled \cup {c} ELSE unsettled \ {c}
        /\ UNCHANGED referenced

\* validation or the audit log fails, records have come up, or the process ends
RollBack(q) ==
    /\ change[q] # NoChange
    /\ change' = [change EXCEPT ![q] = NoChange]
    /\ outdated' = outdated \ {q}
    /\ UNCHANGED <<event, category, referenced, unsettled>>

-----------------------------------------------------------------------------
\* What takes one step: nothing that others can see or change lies in between.

\* staff_event_edit: the category of an event changes and no slot is
\* reconsidered
Edit(e, c) ==
    /\ Exists(e)
    /\ ~EventLocked(e)
    /\ event[e].category # c
    /\ c # NoCategory => category[c].state # "absent"
    /\ event' = [event EXCEPT ![e].category = c]
    /\ UNCHANGED <<category, referenced, change>>
    /\ Outdating(StaffRequests)
    /\ unsettled' = IF event[e].status = "published"
                    THEN unsettled \cup ({event[e].category} \cap Categories) ELSE unsettled

\* category_set_active to active reconsiders no slot either
Enable(c) ==
    /\ ~CategoryLocked(c)
    /\ category[c].state = "inactive"
    /\ category' = [category EXCEPT ![c].state = "active"]
    /\ UNCHANGED <<event, referenced, change, unsettled>>
    /\ Outdating(StaffRequests)

\* category_create locks every category and refuses when the palette is full
CreateCategory(c) ==
    /\ \A d \in Categories : ~CategoryLocked(d)
    /\ category[c].state = "absent"
    /\ \E s \in FreeSlots :
           /\ NextAvailable(s)
           /\ category' = [category EXCEPT ![c] = [state |-> "active", slot |-> s]]
    /\ UNCHANGED <<event, referenced, change, unsettled>>
    /\ Outdating(StaffRequests)

\* A user's record of an event: its foreign key waits for the event's lock.
Refer(e) ==
    /\ event[e].status = "published"
    /\ ~EventLocked(e)
    /\ referenced' = referenced \cup {e}
    /\ UNCHANGED <<event, category, change, historyVars>>

\* the user deletes it
Unrefer(e) ==
    /\ referenced' = referenced \ {e}
    /\ UNCHANGED <<event, category, change, historyVars>>

Reconcile(q) == CountPublished(q) \/ LoadCategory(q) \/ PickSlot(q) \/ Commit(q) \/ RollBack(q)

BeginEvent(q, e) ==
    \/ \E c \in Categories \cup {NoCategory} : CreateEvent(q, e, c)
    \/ Unpublish(q, e)
    \/ Republish(q, e)
    \/ AskDelete(q, e)

PaletteNext ==
    \/ \E q \in StaffRequests :
           \/ \E e \in Events : BeginEvent(q, e)
           \/ LockDelete(q)
           \/ \E c \in Categories : Disable(q, c)
           \/ Reconcile(q)
    \/ \E e \in Events, c \in Categories \cup {NoCategory} : Edit(e, c)
    \/ \E c \in Categories : Enable(c) \/ CreateCategory(c)
    \/ \E e \in Events : Refer(e) \/ Unrefer(e)

PaletteSpec == PaletteInit /\ [][PaletteNext]_paletteVars

-----------------------------------------------------------------------------
(***************************************************************************)
(* Properties.                                                             *)
(***************************************************************************)

\* Two categories never show the same colour, although requests choose a slot
\* from what they read and write it later.
SlotsDistinct ==
    \A c, d \in Categories :
        c # d /\ category[c].slot = category[d].slot => category[c].slot = NoSlot

IsIdle(c) == category[c].state = "inactive" /\ ~HasPublished(c, event)

\* What docs/BE/category-vocabulary.md says in the row "inactive, none published:
\* returned".
IdleNeverKeepsSlot == \A c \in Categories : IsIdle(c) => category[c].slot = NoSlot

\* What the code does about it: an inactive category without published events has
\* returned its slot, unless the last request on it committed on answers that
\* others had changed meanwhile, or an edit took its last event away.  The next
\* request that is not overtaken puts it right.
IdleSlotsReturned ==
    \A c \in Categories \ unsettled : IsIdle(c) => category[c].slot = NoSlot

\* What the palette promises in every state: a colour belongs to one category
\* at most, and to none that has no use for it.
PaletteSafe == SlotsDistinct /\ IdleSlotsReturned

\* A category that is active or has a published event neither loses its slot nor
\* gets another one (the other two rows of the table), whatever requests run on it
\* at the same time, but for a request that counted or loaded before another one
\* committed: its write goes by an answer that is no longer so.
SlotsKept ==
    [][\A c \in Categories :
           category[c].slot # NoSlot /\ category'[c].slot # category[c].slot =>
               \/ IsIdle(c)'
               \/ \E q \in outdated : change[q].category = c /\ change'[q] = NoChange]_paletteVars

\* An event that records of users point to is never deleted, with whatever
\* record comes up while the staff confirm the deletion.
RecordsSurvive == \A e \in referenced : Exists(e)
=============================================================================
