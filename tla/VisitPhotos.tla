----------------------------- MODULE VisitPhotos -----------------------------
(***************************************************************************)
(* Photos of one visit record: the uploads the server handles under the    *)
(* lock of the record (archive/services.py, archive/views.py), and the     *)
(* page that writes a new record or edits one (static/js/pages/            *)
(* visit_create.js, visit_edit.js) and uploads the chosen files one by one *)
(* after the record is saved.                                              *)
(*                                                                         *)
(* An upload may reach the server long after the page gave it up, or not   *)
(* at all.  Only the edit page sends a token with each file, and only it   *)
(* can try again.  Previews, texts and the checks of a file's type and     *)
(* size are left out.                                                      *)
(***************************************************************************)
EXTENDS Integers, Sequences, SequencesExt, FiniteSets

CONSTANTS
    Files,         \* choices of files: each one has its own token
    MaxPhotos,     \* MAX_PHOTOS_PER_RECORD
    MaxLosses,     \* bound: uploads the page gives up, or the server fails
    MaxOthers      \* bound: photos uploaded from elsewhere

Other == "other"                     \* the file of an upload from elsewhere

PhotosAssumption ==
    /\ Other \notin Files /\ IsFiniteSet(Files)
    /\ MaxPhotos \in Nat /\ MaxLosses \in Nat /\ MaxOthers \in Nat

VARIABLES
    record,      \* does the visit record exist?
    photos,      \* photos of the record: file -> how many
    saved,       \* files that were a photo at some time
    wire,        \* uploads under way: file -> how many
    handling,    \* uploads in their transaction: file -> new, known or full
    page,        \* the page
    losses, others

vars == <<record, photos, saved, wire, handling, page, losses, others>>

Fates == {"idle", "known", "full", "new"}
States == {"editing", "saving", "uploading", "partial", "done"}

\* The shape of every variable.
TypeOK ==
    /\ record \in BOOLEAN
    /\ photos \in [Files \cup {Other} -> 0..MaxPhotos]
    /\ saved \subseteq Files
    /\ wire \in [Files -> 0..MaxLosses + 1]
    /\ handling \in [Files \cup {Other} -> Fates]
    /\ page \in [kind : {"create", "edit"}, state : States, pending : Seq(Files),
                chosen : SUBSET Files, back : SUBSET Files, tiles : 0..MaxPhotos,
                waiting : BOOLEAN]
    /\ page.tiles + Len(page.pending) <= MaxPhotos
    /\ losses \in 0..MaxLosses
    /\ others \in 0..MaxOthers

\* The photos of the record, each with its number among those of its file.
PhotoRows == {p \in (Files \cup {Other}) \X (1..MaxPhotos) : p[2] <= photos[p[1]]}
Count == Cardinality(PhotoRows)

\* The edit page shows the photos of its record, the other one starts without
\* a record.
Init ==
    /\ \E kind \in {"create", "edit"}, n \in 0..MaxPhotos :
        /\ kind = "create" => n = 0
        /\ record = (kind = "edit")
        /\ photos = [f \in Files \cup {Other} |-> IF f = Other THEN n ELSE 0]
        /\ page = [kind |-> kind, state |-> "editing", pending |-> <<>>, chosen |-> {},
                   back |-> {}, tiles |-> n, waiting |-> FALSE]
    /\ saved = {}
    /\ wire = [f \in Files |-> 0]
    /\ handling = [f \in Files \cup {Other} |-> "idle"]
    /\ losses = 0 /\ others = 0

(***************************************************************************)
(* The page before it uploads.                                             *)
(***************************************************************************)
Unlocked == page.state \in {"editing", "saving"}

\* The places are counted as the page knows them.
HasRoom == page.tiles + Len(page.pending) < MaxPhotos

AddFile(f) ==
    /\ Unlocked
    /\ f \notin page.chosen
    /\ HasRoom
    /\ page' = [page EXCEPT !.pending = Append(@, f), !.chosen = @ \cup {f}]
    /\ UNCHANGED <<record, photos, saved, wire, handling, losses, others>>

RemoveFile(i) ==
    /\ Unlocked
    /\ page' = [page EXCEPT !.pending = RemoveAt(@, i), !.back = @ \cup {page.pending[i]}]
    /\ UNCHANGED <<record, photos, saved, wire, handling, losses, others>>

\* A photo the page shows is deleted at once.
DeletePhoto ==
    /\ page.kind = "edit" /\ page.state # "done"
    /\ page.tiles > 0 /\ photos[Other] > 0
    /\ photos' = [photos EXCEPT ![Other] = @ - 1]
    /\ page' = [page EXCEPT !.tiles = @ - 1]
    /\ UNCHANGED <<record, saved, wire, handling, losses, others>>

Submit ==
    /\ page.state = "editing"
    /\ page' = [page EXCEPT !.state = "saving"]
    /\ UNCHANGED <<record, photos, saved, wire, handling, losses, others>>

\* The record is saved; without files to upload the page is left.
Save ==
    /\ page.state = "saving"
    /\ \/ /\ page.kind = "edit" => record
          /\ record' = TRUE
          /\ page' = [page EXCEPT !.state = IF page.pending = <<>> THEN "done" ELSE "uploading"]
       \/ /\ page.kind = "edit" /\ ~record
          /\ page' = [page EXCEPT !.state = "editing"]
          /\ UNCHANGED record
    /\ UNCHANGED <<photos, saved, wire, handling, losses, others>>

(***************************************************************************)
(* Uploads, one at a time.                                                 *)
(***************************************************************************)
SendNext ==
    /\ page.state = "uploading" /\ ~page.waiting /\ page.pending # <<>>
    /\ wire' = [wire EXCEPT ![Head(page.pending)] = @ + 1]
    /\ page' = [page EXCEPT !.waiting = TRUE]
    /\ UNCHANGED <<record, photos, saved, handling, losses, others>>

\* What the page does when its upload failed: the edit page can be submitted
\* again, the other one only names the list of records.
Stop == [page EXCEPT !.waiting = FALSE,
                     !.state = IF page.kind = "edit" THEN "editing" ELSE "partial"]
Uploaded == [page EXCEPT !.waiting = FALSE, !.pending = Tail(@),
                         !.state = IF Len(page.pending) = 1 THEN "done" ELSE "uploading"]

\* The page takes its upload for lost; it may still arrive.
GiveUp ==
    /\ page.waiting /\ losses < MaxLosses
    /\ losses' = losses + 1
    /\ page' = Stop
    /\ UNCHANGED <<record, photos, saved, wire, handling, others>>

\* An upload that never arrives; the page hears of it.
Drop(f) ==
    /\ wire[f] > 0 /\ losses < MaxLosses
    /\ losses' = losses + 1
    /\ wire' = [wire EXCEPT ![f] = @ - 1]
    /\ page' = IF page.waiting /\ Head(page.pending) = f /\ wire[f] = 1 THEN Stop ELSE page
    /\ UNCHANGED <<record, photos, saved, handling, others>>

(***************************************************************************)
(* The server.                                                             *)
(***************************************************************************)
MayLock(f) == \A g \in DOMAIN handling : handling[g] = "idle"

\* Mutant: no upload carries a token.
Untokened(f) == FALSE
Tokened(f) == page.kind = "edit" /\ f # Other

\* Mutant: the limit comes first.
LimitFirst(f) ==
    IF Count >= MaxPhotos THEN "full"
    ELSE IF Tokened(f) /\ photos[f] > 0 THEN "known" ELSE "new"

\* Under the lock the token comes first, then the limit.
Fate(f) ==
    IF Tokened(f) /\ photos[f] > 0 THEN "known"
    ELSE IF Count >= MaxPhotos THEN "full" ELSE "new"

Begin(f) ==
    /\ record
    /\ MayLock(f)
    /\ handling' = [handling EXCEPT ![f] = Fate(f)]

\* The page waits for this upload when it is the last one of its file.
Awaited(f) == page.waiting /\ Head(page.pending) = f /\ wire[f] = 0

BeginUpload(f) ==
    /\ wire[f] > 0
    /\ Begin(f)
    /\ wire' = [wire EXCEPT ![f] = @ - 1]
    /\ UNCHANGED <<record, photos, saved, page, losses, others>>

BeginOther ==
    /\ others < MaxOthers
    /\ Begin(Other)
    /\ others' = others + 1
    /\ UNCHANGED <<record, photos, saved, wire, page, losses>>

\* The record is gone when the lock is asked for, or went with its owner.
NotFound(f) ==
    /\ wire[f] > 0 /\ ~record
    /\ wire' = [wire EXCEPT ![f] = @ - 1]
    /\ page' = IF page.waiting /\ Head(page.pending) = f /\ wire[f] = 1 THEN Stop ELSE page
    /\ UNCHANGED <<record, photos, saved, handling, losses, others>>

Commit(f) ==
    /\ handling[f] # "idle"
    /\ handling' = [handling EXCEPT ![f] = "idle"]
    /\ photos' = IF handling[f] = "new" THEN [photos EXCEPT ![f] = @ + 1] ELSE photos
    /\ saved' = IF handling[f] = "new" THEN saved \cup ({f} \cap Files) ELSE saved
    /\ page' = IF f \in Files /\ Awaited(f)
               THEN IF handling[f] = "full" THEN Stop ELSE Uploaded
               ELSE page
    /\ UNCHANGED <<record, wire, losses, others>>

\* Another page deletes a photo, or the whole record: its row lock is waited for.
DeleteElsewhere(f) ==
    /\ photos[f] > 0
    /\ photos' = [photos EXCEPT ![f] = @ - 1]
    /\ UNCHANGED <<record, saved, wire, handling, page, losses, others>>

DeleteRecord ==
    /\ record
    /\ \A f \in DOMAIN handling : handling[f] = "idle"
    /\ record' = FALSE
    /\ photos' = [f \in DOMAIN photos |-> 0]
    /\ UNCHANGED <<saved, wire, handling, page, losses, others>>

Next ==
    \/ DeletePhoto \/ Submit \/ Save \/ SendNext \/ GiveUp \/ BeginOther \/ DeleteRecord
    \/ \E i \in DOMAIN page.pending : RemoveFile(i)
    \/ \E f \in Files : AddFile(f) \/ Drop(f) \/ BeginUpload(f) \/ NotFound(f)
    \/ \E f \in Files \cup {Other} : Commit(f) \/ DeleteElsewhere(f)

\* The page works by itself, and its user submits what is left again.
Fairness ==
    /\ WF_vars(Submit) /\ WF_vars(Save) /\ WF_vars(SendNext)
    /\ \A f \in Files : WF_vars(BeginUpload(f)) /\ WF_vars(NotFound(f))
    /\ \A f \in Files \cup {Other} : WF_vars(Commit(f))

Spec == Init /\ [][Next]_vars /\ Fairness

(***************************************************************************)
(* Properties.                                                             *)
(***************************************************************************)

\* A record never has more photos than it may, however many uploads arrive at
\* the same time.
PhotoLimit == Count <= MaxPhotos

\* A file is a photo at most once, also when its upload was given up, arrived
\* late and was sent again.
OnePhotoPerFile == \A f \in Files : photos[f] <= 1

\* The page is only left when every file that was chosen and not taken back
\* became a photo.
DoneMeansSaved == page.state = "done" => page.chosen \ page.back \subseteq saved

\* A user who submits what is left again and again gets done, if nobody takes
\* the last place or the record away: the upload that filled the record counts
\* when it is sent again.
RoomFor == Count + Cardinality({f \in ToSet(page.pending) : photos[f] = 0}) <= MaxPhotos
UploadsEnd ==
    page.kind = "edit" /\ <>[](record /\ RoomFor) => <>(page.state = "done")
==============================================================================
