------------------------------ MODULE Belongings ------------------------------
(***************************************************************************)
(* Photos, collection items and personal entries share no variable: each   *)
(* part moves while the others are at rest.                                *)
(***************************************************************************)
EXTENDS Integers

CONSTANTS
    Files, MaxPhotos, MaxLosses, MaxOthers,
    Events, Records, EventOf, Changes, Patches, MaxQuantity, MaxImages, MaxPatches, MaxItemSends,
    Urls, Reports, Edits, MaxBorn, MaxReports, MaxEdits, MaxSends

VARIABLES
    part,
    record, photos, saved, wire, handling, upload, losses, others,
    item, logged, events, records, images, files, spilled, patch, patched, itemForm,
    entry, born, drafts, reverted, report, edit, reports, edits, form, page

Photos == INSTANCE VisitPhotos WITH page <- upload
Items == INSTANCE CollectionItems WITH MaxSends <- MaxItemSends, form <- itemForm
Entries == INSTANCE PersonalEntries

ASSUME BelongingsAssumption ==
    Photos!PhotosAssumption /\ Items!ItemsAssumption /\ Entries!EntriesAssumption

photosVars == <<record, photos, saved, wire, handling, upload, losses, others>>
itemsVars == <<item, logged, events, records, images, files, spilled, patch, patched, itemForm>>
entriesVars == <<entry, born, drafts, reverted, report, edit, reports, edits, form, page>>
vars == <<part, photosVars, itemsVars, entriesVars>>

\* At rest, the photos have one initial state.
Init ==
    /\ part \in {"photos", "items", "entries"}
    /\ Photos!Init /\ Items!Init /\ Entries!Init
    /\ part # "photos" => upload.kind = "create"

PhotosNext == part = "photos" /\ Photos!Next /\ UNCHANGED <<part, itemsVars, entriesVars>>
ItemsNext == part = "items" /\ Items!Next /\ UNCHANGED <<part, photosVars, entriesVars>>
EntriesNext == part = "entries" /\ Entries!Next /\ UNCHANGED <<part, photosVars, itemsVars>>

Fairness == part = "photos" => Photos!Fairness

Spec == Init /\ [][PhotosNext \/ ItemsNext \/ EntriesNext]_vars /\ Fairness

\* A record never has more photos than it may, a file is a photo at most once,
\* also when its upload was given up, arrived late and was sent again, and the
\* page is only left when every file that was chosen and not taken back became
\* a photo.
PhotosSafe ==
    Photos!TypeOK /\ Photos!PhotoLimit /\ Photos!OnePhotoPerFile /\ Photos!DoneMeansSaved

\* An item got at a visit belongs to the event of that visit, the activity log
\* tells its quantities, which never contradict each other, it never shows an
\* image whose file is gone, and a file without an item was left by a failure or
\* by a form sent twice.
ItemSafe ==
    /\ Items!TypeOK
    /\ Items!LinksAgree /\ Items!LogTellsQuantities
    /\ Items!ImageHasFile /\ Items!FilesAccounted

\* However many reports of an entry run at the same time, one of them counts, as
\* long as no edit wrote an older row back; no entry is marked as submitted, and
\* no page says so, without the draft that reviewers see.
EntrySafe ==
    Entries!TypeOK /\ Entries!MarkHasDraft /\ Entries!ReportedOnce /\ Entries!PageTellsReport

\* A user who submits what is left again and again gets done, if nobody takes
\* the last place or the record away.
UploadsEnd == part = "photos" => Photos!UploadsEnd
===============================================================================
