--------------------------- MODULE CollectionItems ---------------------------
(***************************************************************************)
(* One item of a user's collection: its optional links to an event and to  *)
(* a visit record, its quantities and its image (archive/services.py,      *)
(* archive/views.py, archive/models.py, archive/signals.py), under changes *)
(* that run at the same time, deletions of what it points to, and a form   *)
(* that is sent again (static/js/pages/collection.js).                     *)
(*                                                                         *)
(* Names, memos, wishes and the analytics counters are left out.  The      *)
(* database checks references when a transaction commits.                  *)
(***************************************************************************)
EXTENDS Integers

CONSTANTS
    Events, Records,   \* official events; visit records of the user
    EventOf,           \* the event a record is about, or None
    Changes,           \* changes a patch may ask for
    Patches,           \* patches under way at the same time
    MaxQuantity,       \* bound: quantities
    MaxImages,         \* bound: image files ever written
    MaxPatches,        \* bound: patches ever made
    MaxSends           \* bound: times the form is sent

None == "none"
NoItem == [image |-> 0]
Fields == {"event", "record", "quantity", "trade", "image"}

ItemsAssumption ==
    /\ None \notin Events \cup Records
    /\ EventOf \in [Records -> Events \cup {None}]
    /\ \A c \in Changes :
        /\ DOMAIN c \subseteq Fields
        /\ "event" \in DOMAIN c => c.event \in Events \cup {None}
        /\ "record" \in DOMAIN c => c.record \in Records \cup {None}
        /\ "quantity" \in DOMAIN c => c.quantity \in 0..MaxQuantity
        /\ "trade" \in DOMAIN c => c.trade \in Int
    /\ {MaxQuantity, MaxImages, MaxPatches, MaxSends} \subseteq Nat

VARIABLES
    item,        \* the row, or NoItem
    logged,      \* the item's quantities as the activity log tells them
    events, records,  \* those that exist
    images, files,    \* images named so far; files in the storage
    spilled,     \* images whose file may stay behind: failures, forms sent twice
    patch,       \* patches under way
    patched,     \* patches so far
    form         \* the page that creates the item

vars == <<item, logged, events, records, images, files, spilled, patch, patched, form>>

ItemType ==
    [event : Events \cup {None}, record : Records \cup {None},
     quantity : 0..MaxQuantity, trade : 0..MaxQuantity, image : 0..MaxImages]
PatchType == [state : {"idle"}] \cup [state : {"loaded", "holding"}, change : Changes]

\* The shape of every variable.
TypeOK ==
    /\ item \in ItemType \cup {NoItem}
    /\ logged \in [quantity : 0..MaxQuantity, trade : 0..MaxQuantity]
    /\ events \subseteq Events /\ records \subseteq Records
    /\ images \in 0..MaxImages
    /\ files \subseteq 1..images /\ spilled \subseteq 1..images
    /\ patch \in [Patches -> PatchType]
    /\ patched \in 0..MaxPatches
    /\ form \in [state : {"editing", "sent", "done"}, wire : 0..MaxSends, sends : 0..MaxSends]

Init ==
    /\ item = NoItem
    /\ logged = [quantity |-> 0, trade |-> 0]
    /\ events = Events /\ records = Records
    /\ images = 0 /\ files = {} /\ spilled = {}
    /\ patch = [p \in Patches |-> [state |-> "idle"]]
    /\ patched = 0
    /\ form = [state |-> "editing", wire |-> 0, sends |-> 0]

(***************************************************************************)
(* Creation.  The form carries a token, which the server gave with the     *)
(* page: the unique constraint on it makes one item of all its copies.     *)
(***************************************************************************)
SendForm ==
    /\ form.state = "editing" /\ form.sends < MaxSends
    /\ form' = [form EXCEPT !.state = "sent", !.wire = @ + 1, !.sends = @ + 1]
    /\ UNCHANGED <<item, logged, events, records, images, files, spilled, patch, patched>>

\* No answer: the page offers its button again.  The form may be served later.
LoseForm ==
    /\ form.state = "sent"
    /\ form' = [form EXCEPT !.state = "editing"]
    /\ UNCHANGED <<item, logged, events, records, images, files, spilled, patch, patched>>

Answered == [form EXCEPT !.wire = @ - 1,
                         !.state = IF @ = "sent" THEN "done" ELSE @]

\* The event of a record that is named replaces the one that is named.
Link(event, record) == IF record = None THEN event ELSE EventOf[record]

QuantitiesFit(q, t) == q >= 0 /\ 0 <= t /\ t <= q

Known(event, record) == event \in events \cup {None} /\ record \in records \cup {None}

\* The file is written before the row is, so that it stays behind when the row
\* is refused.
Create(event, record, q, t) ==
    /\ form.wire > 0 /\ item = NoItem /\ images < MaxImages
    /\ Known(event, record) /\ QuantitiesFit(q, t)
    /\ images' = images + 1 /\ files' = files \cup {images'}
    /\ item' = [event |-> Link(event, record), record |-> record,
                quantity |-> q, trade |-> t, image |-> images']
    /\ logged' = [quantity |-> q, trade |-> t]
    /\ form' = Answered
    /\ UNCHANGED <<events, records, spilled, patch, patched>>

\* The form was served before: the item is found by its token, as it is.
CreateAgain ==
    /\ form.wire > 0 /\ item # NoItem /\ images < MaxImages
    /\ images' = images + 1 /\ files' = files \cup {images'} /\ spilled' = spilled \cup {images'}
    /\ form' = Answered
    /\ UNCHANGED <<item, logged, events, records, patch, patched>>

(***************************************************************************)
(* Changes.  The view looks the item up, then the row is locked and read   *)
(* again, and everything is checked against what was read then.            *)
(***************************************************************************)
MayLock(p) == \A q \in Patches : patch[q].state # "holding"
Free == \A p \in Patches : patch[p].state # "holding"

Named(c, field, default) == IF field \in DOMAIN c THEN c[field] ELSE default

\* Patches are interchangeable.
FirstIdle == CHOOSE p \in Patches : patch[p].state = "idle"

LoadPatch(p, c) ==
    /\ patch[p].state = "idle" /\ p = FirstIdle /\ patched < MaxPatches
    /\ item # NoItem
    /\ Known(Named(c, "event", None), Named(c, "record", None))
    /\ patched' = patched + 1
    /\ patch' = [patch EXCEPT ![p] = [state |-> "loaded", change |-> c]]
    /\ UNCHANGED <<item, logged, events, records, images, files, spilled, form>>

\* Mutant: an event that is named alone is not compared with the record.
AcceptsAnyEvent(c) ==
    QuantitiesFit(Named(c, "quantity", item.quantity), Named(c, "trade", item.trade))

\* The merged quantities fit; an event that is named alone must be the one of
\* the record the item has.
Accepts(c) ==
    /\ QuantitiesFit(Named(c, "quantity", item.quantity), Named(c, "trade", item.trade))
    /\ "event" \in DOMAIN c /\ "record" \notin DOMAIN c /\ item.record # None
         => c.event = EventOf[item.record]

RefusePatch(p) ==
    /\ patch[p].state = "loaded"
    /\ \/ item = NoItem
       \/ item # NoItem /\ MayLock(p) /\ ~Accepts(patch[p].change)
    /\ patch' = [patch EXCEPT ![p] = [state |-> "idle"]]
    /\ UNCHANGED <<item, logged, events, records, images, files, spilled, patched, form>>

LockItem(p) ==
    /\ patch[p].state = "loaded" /\ item # NoItem
    /\ MayLock(p)
    /\ Accepts(patch[p].change)
    /\ patch' = [patch EXCEPT ![p].state = "holding"]
    /\ UNCHANGED <<item, logged, events, records, images, files, spilled, patched, form>>

\* The row with the fields of the change, and only those.
Merged(c) ==
    LET record == Named(c, "record", item.record)
        event == IF "record" \in DOMAIN c
                 THEN Link(Named(c, "event", item.event), record)
                 ELSE Named(c, "event", item.event)
    IN [event |-> event, record |-> record, quantity |-> Named(c, "quantity", item.quantity),
        trade |-> Named(c, "trade", item.trade),
        image |-> IF "image" \in DOMAIN c THEN images + 1 ELSE item.image]

Log(c) == [quantity |-> Named(c, "quantity", logged.quantity),
           trade |-> Named(c, "trade", logged.trade)]

NewImages(c) == IF "image" \in DOMAIN c THEN {images + 1} ELSE {}

\* The images named so far, that of the change included.
ImagesWith(c) == IF "image" \in DOMAIN c THEN images + 1 ELSE images

OldImages(c) == IF "image" \in DOMAIN c THEN {item.image} ELSE {}

\* The row is saved with its log entry; the file it used before goes when that
\* is committed, unless the storage fails.
CommitPatch(p) ==
    LET c == patch[p].change IN
    /\ patch[p].state = "holding" /\ item # NoItem
    /\ ImagesWith(c) <= MaxImages
    /\ Known(Merged(c).event, Merged(c).record)
    /\ item' = Merged(c)
    /\ logged' = Log(c)
    /\ images' = ImagesWith(c)
    /\ \/ files' = (files \cup NewImages(c)) \ OldImages(c) /\ UNCHANGED spilled
       \/ /\ OldImages(c) # {}
          /\ files' = files \cup NewImages(c) /\ spilled' = spilled \cup OldImages(c)
    /\ patch' = [patch EXCEPT ![p] = [state |-> "idle"]]
    /\ UNCHANGED <<events, records, patched, form>>

AfterFailure(c) == files \cup NewImages(c)

\* The transaction fails, because a link leads nowhere by now or for any other
\* reason: the row is as it was, a new file stays behind.
FailPatch(p) ==
    LET c == patch[p].change IN
    /\ patch[p].state = "holding"
    /\ ImagesWith(c) <= MaxImages
    /\ files' = AfterFailure(c)
    /\ images' = ImagesWith(c)
    /\ spilled' = spilled \cup NewImages(c)
    /\ patch' = [patch EXCEPT ![p] = [state |-> "idle"]]
    /\ UNCHANGED <<item, logged, events, records, patched, form>>

(***************************************************************************)
(* Deletions.  They wait for the lock of a row they have to change.        *)
(***************************************************************************)
DeleteItem ==
    /\ item # NoItem /\ Free
    /\ item' = NoItem
    /\ logged' = [quantity |-> 0, trade |-> 0]
    /\ \/ files' = files \ {item.image} /\ UNCHANGED spilled
       \/ UNCHANGED files /\ spilled' = spilled \cup {item.image}
    /\ UNCHANGED <<events, records, images, patch, patched, form>>

Unlinked(e, rs) ==
    IF item = NoItem THEN item
    ELSE [item EXCEPT !.event = IF @ = e THEN None ELSE @,
                      !.record = IF @ \in rs THEN None ELSE @]

DeleteRecord(r) ==
    /\ r \in records
    /\ item # NoItem /\ ~Free => item.record # r
    /\ records' = records \ {r}
    /\ item' = Unlinked(None, {r})
    /\ UNCHANGED <<logged, events, images, files, spilled, patch, patched, form>>

\* The records about an event go with it; the item only loses its links.
DeleteEvent(e) ==
    LET gone == {r \in records : EventOf[r] = e} IN
    /\ e \in events
    /\ item # NoItem /\ ~Free => item.event # e /\ item.record \notin gone
    /\ events' = events \ {e}
    /\ records' = records \ gone
    /\ item' = Unlinked(e, gone)
    /\ UNCHANGED <<logged, images, files, spilled, patch, patched, form>>

Next ==
    \/ SendForm \/ LoseForm \/ CreateAgain \/ DeleteItem
    \/ \E e \in Events \cup {None}, r \in Records \cup {None}, q, t \in 0..MaxQuantity :
        Create(e, r, q, t)
    \/ \E p \in Patches :
        \/ RefusePatch(p) \/ LockItem(p) \/ CommitPatch(p) \/ FailPatch(p)
        \/ \E c \in Changes : LoadPatch(p, c)
    \/ \E r \in Records : DeleteRecord(r)
    \/ \E e \in Events : DeleteEvent(e)

Spec == Init /\ [][Next]_vars

(***************************************************************************)
(* Properties.                                                             *)
(***************************************************************************)

\* An item got at a visit belongs to the event of that visit, whichever of the
\* two links changes, in what order, and whatever is deleted meanwhile.
LinksAgree == item # NoItem /\ item.record # None => item.event = EventOf[item.record]

\* No change of a part of the quantities makes them contradict each other, and
\* the activity log tells the quantities the item has.
LogTellsQuantities ==
    item # NoItem =>
        /\ QuantitiesFit(item.quantity, item.trade)
        /\ logged = [quantity |-> item.quantity, trade |-> item.trade]

\* The item never shows an image whose file is gone.
ImageHasFile == item # NoItem => item.image \in files

\* A file without an item was left by a failure or by a form sent twice.
FilesAccounted == files \subseteq spilled \cup (IF item = NoItem THEN {} ELSE {item.image})
==============================================================================
