-------------------------- MODULE Belongings_proofs --------------------------
(***************************************************************************)
(* What the runs of MCBelongings check of photos, collection items and     *)
(* personal entries, proved for every number of files, places, patches,    *)
(* reports, edits and losses.  The three parts share no variable: each has *)
(* an inductive invariant of its own.                                      *)
(***************************************************************************)
EXTENDS Belongings, Sequences, FiniteSetTheorems, TLAPS

(***************************************************************************)
(* Photos.  No two uploads are in their transaction at once; an upload     *)
(* that found a free place, or no photo of its file, still does when it    *)
(* commits.  Without tokens, a page sends each file once.                  *)
(***************************************************************************)
Holders == Files \cup {Photos!Other}

PhotosAlone ==
    \A f, g \in Holders : handling[f] # "idle" /\ handling[g] # "idle" => f = g

PlaceKept == \A f \in Holders : handling[f] = "new" => Photos!Count < MaxPhotos

Remembered ==
    \A f \in Files :
        /\ photos[f] > 0 => f \in saved
        /\ handling[f] = "known" => f \in saved

PageSteady ==
    /\ upload.waiting => upload.state = "uploading"
    /\ upload.state = "uploading" => upload.pending # <<>>
    /\ upload.state = "done" => upload.pending = <<>>

Chosen ==
    /\ \A i \in DOMAIN upload.pending : upload.pending[i] \in upload.chosen
    /\ \A i, j \in DOMAIN upload.pending : upload.pending[i] = upload.pending[j] => i = j

Queued == {upload.pending[i] : i \in DOMAIN upload.pending}
NothingForgotten == upload.chosen \ upload.back \subseteq saved \cup Queued

\* The page has given up all uploads of a file but the one it waits for.
OnWire ==
    \A f \in Files :
        wire[f] <= IF upload.waiting /\ upload.pending[1] = f THEN losses + 1 ELSE losses

Fresh(f) == wire[f] = 0 /\ handling[f] = "idle" /\ photos[f] = 0
Once(f) ==
    /\ wire[f] <= 1 /\ photos[f] <= 1
    /\ wire[f] = 1 => handling[f] = "idle" /\ photos[f] = 0
    /\ handling[f] # "idle" => photos[f] = 0

\* The files the page has not sent yet.
Unsent ==
    CASE upload.state \in {"editing", "saving"} -> Files
      [] upload.state = "uploading" ->
            {upload.pending[i] : i \in {j \in DOMAIN upload.pending : upload.waiting => j > 1}}
      [] OTHER -> {}

SentOnce == upload.kind = "create" => (\A f \in Files : Once(f)) /\ (\A f \in Unsent : Fresh(f))
TokenKnown ==
    upload.kind = "edit" => \A f \in Files : photos[f] <= 1 /\ (handling[f] = "new" => photos[f] = 0)

PhotosInv ==
    /\ Photos!TypeOK /\ Photos!PhotoLimit
    /\ PhotosAlone /\ PlaceKept /\ Remembered
    /\ PageSteady /\ Chosen /\ NothingForgotten
    /\ OnWire /\ SentOnce /\ TokenKnown

(***************************************************************************)
(* The item.  While a change holds the lock of the row, nobody else        *)
(* changes what the change was checked against.                            *)
(***************************************************************************)
ItemsAlone ==
    \A p, q \in Patches : patch[p].state = "holding" /\ patch[q].state = "holding" => p = q

StillAccepted ==
    \A p \in Patches :
        patch[p].state = "holding" => item # Items!NoItem /\ Items!Accepts(patch[p].change)

ItemKnown ==
    item # Items!NoItem =>
        /\ item.record \in records \cup {Items!None}
        /\ item.image \in 1..images

ItemFormSent == itemForm.wire <= itemForm.sends

ItemsInv == ItemSafe /\ ItemsAlone /\ StillAccepted /\ ItemKnown /\ ItemFormSent

(***************************************************************************)
(* The entry.  A report that holds its lock is about the entry that is     *)
(* there, which is not marked; what an edit loaded as marked has a draft.  *)
(***************************************************************************)
ReportsAlone ==
    \A r, s \in Reports : report[r].state = "holding" /\ report[s].state = "holding" => r = s

StillUnmarked ==
    \A r \in Reports :
        report[r].state = "holding" => Entries!Exists(report[r].pk) /\ ~entry.submitted

Born ==
    /\ \A u \in Urls : drafts[u] <= born
    /\ entry # Entries!NoEntry => entry.pk <= born
    /\ \A e \in Edits : edit[e].pk <= born

LoadedHasDraft ==
    \A e \in Edits :
        edit[e] # Entries!IdleEdit /\ edit[e].submitted => Entries!DraftsOf(edit[e].pk) # {}

PageOfEntry == page.submitted => page.pk # 0

EntryFormSent == form.wire <= form.sends

EntriesInv ==
    /\ EntrySafe /\ ReportsAlone /\ StillUnmarked /\ Born /\ LoadedHasDraft
    /\ PageOfEntry /\ EntryFormSent
(***************************************************************************)
(* Personal entries.                                                       *)
(***************************************************************************)
LEMMA EntriesBounds == MaxBorn \in Nat /\ MaxReports \in Nat /\ MaxEdits \in Nat /\ MaxSends \in Nat
BY BelongingsAssumption DEF Entries!EntriesAssumption

LEMMA EntriesInit == Init => EntriesInv
<1> SUFFICES ASSUME Init PROVE EntriesInv
    OBVIOUS
<1> USE EntriesBounds
<1>1. Entries!TypeOK
  <2>1. born \in 0..MaxBorn /\ reports \in 0..MaxReports /\ edits \in 0..MaxEdits
      BY DEF Init, Entries!Init
  <2>7. reverted \in BOOLEAN
      BY DEF Init, Entries!Init
  <2>6. entry \in Entries!EntryType \cup {Entries!NoEntry}
      BY DEF Init, Entries!Init
  <2>2. drafts \in [Urls -> 0..MaxBorn \cup {-1}]
    <3>1. 0 \in 0..MaxBorn
        OBVIOUS
    <3>2. drafts = [u \in Urls |-> 0]
        BY DEF Init, Entries!Init, Entries!NoDraft
    <3> QED
        BY <3>1, <3>2
  <2>3. /\ report \in [Reports -> {Entries!IdleReport} \cup
                          [state : {"sent", "holding"}, pk : 1..MaxBorn, url : Urls, page : BOOLEAN]]
        /\ edit \in [Edits -> Entries!EntryType \cup {Entries!IdleEdit}]
      BY DEF Init, Entries!Init
  <2>4. form \in [state : {"editing", "sent", "done"}, wire : 0..MaxSends, sends : 0..MaxSends]
      BY DEF Init, Entries!Init
  <2>5. page \in [pk : 0..MaxBorn, submitted : BOOLEAN, locked : BOOLEAN]
      BY DEF Init, Entries!Init, Entries!ClosedPage
  <2> QED
      BY <2>1, <2>2, <2>3, <2>4, <2>5, <2>6, <2>7 DEF Entries!TypeOK
<1>2. Entries!MarkHasDraft /\ Entries!ReportedOnce /\ Entries!PageTellsReport
    BY DEF Init, Entries!Init, Entries!MarkHasDraft, Entries!ReportedOnce, Entries!OneDraft,
           Entries!PageTellsReport, Entries!ClosedPage
<1>3. ReportsAlone /\ StillUnmarked
    BY DEF Init, Entries!Init, ReportsAlone, StillUnmarked, Entries!IdleReport
<1>4. Born /\ LoadedHasDraft
    BY DEF Init, Entries!Init, Born, LoadedHasDraft, Entries!IdleEdit, Entries!NoDraft
<1>5. PageOfEntry /\ EntryFormSent
    BY DEF Init, Entries!Init, PageOfEntry, EntryFormSent, Entries!ClosedPage
<1> QED
    BY <1>1, <1>2, <1>3, <1>4, <1>5 DEF EntriesInv, EntrySafe

LEMMA EntriesRest == EntriesInv /\ UNCHANGED entriesVars => EntriesInv'
BY DEF EntriesInv, entriesVars, EntrySafe, Entries!TypeOK, Entries!MarkHasDraft,
       Entries!ReportedOnce, Entries!OneDraft, Entries!PageTellsReport, Entries!DraftsOf,
       ReportsAlone, StillUnmarked, Entries!Exists, Born, LoadedHasDraft, PageOfEntry,
       EntryFormSent
\* What holds of every key a draft may name.
LEMMA EntryTypes ==
    ASSUME EntriesInv
    PROVE  /\ entry # Entries!NoEntry =>
                /\ entry \in Entries!EntryType
                /\ entry.pk \in 1..MaxBorn /\ entry.pk <= born /\ entry.submitted \in BOOLEAN
           /\ born \in 0..MaxBorn /\ MaxBorn \in Nat
           /\ drafts \in [Urls -> 0..MaxBorn \cup {-1}]
           /\ \A u \in Urls : drafts[u] \in Int /\ drafts[u] <= born
BY EntriesBounds DEF EntriesInv, EntrySafe, Entries!TypeOK, Entries!EntryType, Born

\* Nothing but the form and the page changes, and the page only gets the mark
\* of the entry it shows.
LEMMA EntryPageStep ==
    ASSUME EntriesInv,
           UNCHANGED <<entry, born, drafts, reverted, report, edit, reports, edits>>,
           form' \in [state : {"editing", "sent", "done"}, wire : 0..MaxSends, sends : 0..MaxSends],
           form'.wire <= form'.sends,
           page' \in [pk : 0..MaxBorn, submitted : BOOLEAN, locked : BOOLEAN],
           page'.submitted =>
               \/ page.submitted /\ page'.pk = page.pk
               \/ entry # Entries!NoEntry /\ entry.submitted /\ page'.pk = entry.pk
    PROVE  EntriesInv'
<1>1. Entries!TypeOK'
    BY DEF EntriesInv, EntrySafe, Entries!TypeOK
<1>2. Entries!MarkHasDraft' /\ Entries!ReportedOnce'
    BY DEF EntriesInv, EntrySafe, Entries!MarkHasDraft, Entries!ReportedOnce, Entries!OneDraft,
           Entries!DraftsOf
<1>3. Entries!PageTellsReport'
    BY DEF EntriesInv, EntrySafe, Entries!MarkHasDraft, Entries!PageTellsReport, Entries!DraftsOf
<1>4. ReportsAlone' /\ StillUnmarked' /\ Born' /\ LoadedHasDraft'
    BY DEF EntriesInv, ReportsAlone, StillUnmarked, Entries!Exists, Born, LoadedHasDraft,
           Entries!DraftsOf
<1>5. PageOfEntry' /\ EntryFormSent'
    BY EntryTypes DEF EntriesInv, PageOfEntry, EntryFormSent
<1> QED
    BY <1>1, <1>2, <1>3, <1>4, <1>5 DEF EntriesInv, EntrySafe

LEMMA FormSteps ==
    ASSUME EntriesInv, Entries!SendForm \/ Entries!LoseForm
    PROVE  EntriesInv'
<1>1. /\ form \in [state : {"editing", "sent", "done"}, wire : 0..MaxSends, sends : 0..MaxSends]
      /\ form.wire <= form.sends
      /\ page \in [pk : 0..MaxBorn, submitted : BOOLEAN, locked : BOOLEAN]
    BY DEF EntriesInv, EntrySafe, Entries!TypeOK, EntryFormSent
<1>2. /\ form' \in [state : {"editing", "sent", "done"}, wire : 0..MaxSends, sends : 0..MaxSends]
      /\ form'.wire <= form'.sends
  <2>1. PICK w, n \in 0..MaxSends : form.wire = w /\ form.sends = n /\ w <= n
      BY <1>1
  <2>2. CASE Entries!SendForm
    <3>1. form' = [state |-> "sent", wire |-> w + 1, sends |-> n + 1] /\ n < MaxSends
        BY <1>1, <2>1, <2>2 DEF Entries!SendForm
    <3>2. w + 1 \in 0..MaxSends /\ n + 1 \in 0..MaxSends /\ w + 1 <= n + 1
        BY <2>1, <3>1, EntriesBounds
    <3> QED
        BY <3>1, <3>2
  <2>3. CASE Entries!LoseForm
      BY <1>1, <2>3 DEF Entries!LoseForm
  <2> QED
      BY <2>2, <2>3
<1>3. UNCHANGED <<entry, born, drafts, reverted, report, edit, reports, edits, page>>
    BY DEF Entries!SendForm, Entries!LoseForm
<1> QED
    BY <1>1, <1>2, <1>3, EntryPageStep

LEMMA PageSteps ==
    ASSUME EntriesInv, Entries!OpenPage \/ Entries!FindGone
    PROVE  EntriesInv'
<1>1. /\ form \in [state : {"editing", "sent", "done"}, wire : 0..MaxSends, sends : 0..MaxSends]
      /\ form.wire <= form.sends
      /\ page \in [pk : 0..MaxBorn, submitted : BOOLEAN, locked : BOOLEAN]
    BY DEF EntriesInv, EntrySafe, Entries!TypeOK, EntryFormSent
<1>2. UNCHANGED <<entry, born, drafts, reverted, report, edit, reports, edits, form>>
    BY DEF Entries!OpenPage, Entries!FindGone
<1>3. CASE Entries!OpenPage
  <2>1. /\ page' \in [pk : 0..MaxBorn, submitted : BOOLEAN, locked : BOOLEAN]
        /\ entry # Entries!NoEntry /\ page'.pk = entry.pk /\ page'.submitted = entry.submitted
      BY <1>3, EntryTypes DEF Entries!OpenPage
  <2> QED
      BY <1>1, <1>2, <2>1, EntryPageStep
<1>4. CASE Entries!FindGone
  <2>1. /\ page' \in [pk : 0..MaxBorn, submitted : BOOLEAN, locked : BOOLEAN]
        /\ page'.pk = page.pk /\ page'.submitted = page.submitted
      BY <1>1, <1>4 DEF Entries!FindGone, Entries!LockPage
  <2> QED
      BY <1>1, <1>2, <2>1, EntryPageStep
<1> QED
    BY <1>3, <1>4
LEMMA EntryCreated ==
    ASSUME EntriesInv, Entries!Create
    PROVE  EntriesInv'
<1>1. /\ form \in [state : {"editing", "sent", "done"}, wire : 0..MaxSends, sends : 0..MaxSends]
      /\ form.wire <= form.sends
      /\ page \in [pk : 0..MaxBorn, submitted : BOOLEAN, locked : BOOLEAN]
    BY DEF EntriesInv, EntrySafe, Entries!TypeOK, EntryFormSent
<1>2. /\ form' \in [state : {"editing", "sent", "done"}, wire : 0..MaxSends, sends : 0..MaxSends]
      /\ form'.wire <= form'.sends
  <2>1. PICK w, n \in 0..MaxSends : form.wire = w /\ form.sends = n /\ w <= n
      BY <1>1
  <2>2. PICK state \in {"editing", "sent", "done"} :
            form' = [state |-> state, wire |-> w - 1, sends |-> n] /\ w > 0
      BY <1>1, <2>1 DEF Entries!Create
  <2>3. w - 1 \in 0..MaxSends /\ w - 1 <= n
      BY <2>1, <2>2, EntriesBounds
  <2> QED
      BY <2>1, <2>2, <2>3
<1>3. CASE entry # Entries!NoEntry
  <2>1. UNCHANGED <<entry, born, drafts, reverted, report, edit, reports, edits, page>>
      BY <1>3 DEF Entries!Create, Entries!Created
  <2> QED
      BY <1>1, <1>2, <2>1, EntryPageStep
<1>4. CASE entry = Entries!NoEntry
  <2>1. /\ entry' = [pk |-> born + 1, title |-> "old", submitted |-> FALSE]
        /\ born' = born + 1 /\ born < MaxBorn
        /\ UNCHANGED <<drafts, reverted, report, edit, reports, edits, page>>
      BY <1>4 DEF Entries!Create, Entries!Created
  <2>2. /\ born \in Nat /\ MaxBorn \in Nat /\ born' \in 1..MaxBorn
        /\ \A u \in Urls : drafts[u] \in Int /\ drafts[u] <= born
      BY <2>1, EntryTypes
  <2>3. entry' \in Entries!EntryType /\ entry'.pk = born' /\ ~entry'.submitted
      BY <2>1, <2>2 DEF Entries!EntryType, Entries!Titles
  <2>4. Entries!TypeOK'
      BY <1>2, <2>1, <2>2, <2>3 DEF EntriesInv, EntrySafe, Entries!TypeOK
  <2>5. Entries!DraftsOf(born + 1)' = {}
      BY <2>1, <2>2 DEF Entries!DraftsOf
  <2>6. \A pk : Entries!DraftsOf(pk)' = Entries!DraftsOf(pk)
      BY <2>1 DEF Entries!DraftsOf
  <2>7. Entries!MarkHasDraft'
      BY <2>3 DEF Entries!MarkHasDraft
  <2>8. Entries!ReportedOnce'
    <3>1. ASSUME ~reverted' PROVE Entries!OneDraft'
      <4>1. Entries!OneDraft
          BY <2>1, <3>1 DEF EntriesInv, EntrySafe, Entries!ReportedOnce
      <4>2. ASSUME NEW pk \in 1..born' PROVE \A u, v \in Entries!DraftsOf(pk)' : u = v
        <5>1. CASE pk \in 1..born
            BY <2>1, <4>1, <5>1 DEF Entries!OneDraft, Entries!DraftsOf
        <5>2. CASE pk = born + 1
            BY <2>1, <2>2, <5>2 DEF Entries!DraftsOf
        <5> QED
            BY <2>1, <2>2, <5>1, <5>2
      <4> QED
          BY <4>2 DEF Entries!OneDraft
    <3>2. entry'.submitted = FALSE /\ Entries!DraftsOf(entry.pk)' = {}
        BY <2>1, <2>2 DEF Entries!DraftsOf
    <3> QED
        BY <3>1, <3>2 DEF Entries!ReportedOnce
  <2>9. Entries!PageTellsReport'
      BY <2>1, <2>6 DEF EntriesInv, EntrySafe, Entries!PageTellsReport
  <2>10. ReportsAlone' /\ StillUnmarked'
      BY <1>4, <2>1 DEF EntriesInv, ReportsAlone, StillUnmarked, Entries!Exists
  <2>11. Born'
    <3>1. \A e \in Edits : edit[e].pk \in Int
        BY <2>2 DEF EntriesInv, EntrySafe, Entries!TypeOK, Entries!EntryType, Entries!IdleEdit
    <3> QED
        BY <2>1, <2>2, <3>1 DEF EntriesInv, Born
  <2>12. LoadedHasDraft' /\ PageOfEntry' /\ EntryFormSent'
      BY <1>2, <2>1, <2>6 DEF EntriesInv, LoadedHasDraft, PageOfEntry, EntryFormSent
  <2> QED
      BY <2>4, <2>7, <2>8, <2>9, <2>10, <2>11, <2>12 DEF EntriesInv, EntrySafe
<1> QED
    BY <1>3, <1>4

\* The row goes, or stays as it is; the reports that hold their lock keep it.
LEMMA EntryGone ==
    ASSUME EntriesInv, Entries!Delete
    PROVE  EntriesInv'
<1>1. entry' = Entries!NoEntry /\ UNCHANGED <<born, drafts, reverted, report, edit, reports, edits, form>>
    BY DEF Entries!Delete
<1>2. page' = page \/ page' = Entries!ClosedPage
    BY DEF Entries!Delete
<1>3. page' \in [pk : 0..MaxBorn, submitted : BOOLEAN, locked : BOOLEAN]
  <2>1. MaxBorn \in Nat /\ page \in [pk : 0..MaxBorn, submitted : BOOLEAN, locked : BOOLEAN]
      BY EntriesBounds DEF EntriesInv, EntrySafe, Entries!TypeOK
  <2>2. Entries!ClosedPage \in [pk : 0..MaxBorn, submitted : BOOLEAN, locked : BOOLEAN]
      BY <2>1 DEF Entries!ClosedPage
  <2> QED
      BY <1>2, <2>1, <2>2
<1>4. Entries!TypeOK'
    BY <1>1, <1>3 DEF EntriesInv, EntrySafe, Entries!TypeOK
<1>5. \A pk : Entries!DraftsOf(pk)' = Entries!DraftsOf(pk)
    BY <1>1 DEF Entries!DraftsOf
<1>6. Entries!MarkHasDraft' /\ Entries!ReportedOnce'
    BY <1>1, <1>5 DEF EntriesInv, EntrySafe, Entries!MarkHasDraft, Entries!ReportedOnce,
                      Entries!OneDraft
<1>7. Entries!PageTellsReport' /\ PageOfEntry'
    BY <1>2, <1>5 DEF EntriesInv, EntrySafe, Entries!PageTellsReport, PageOfEntry,
                      Entries!ClosedPage
<1>8. ReportsAlone' /\ StillUnmarked'
    BY <1>1 DEF EntriesInv, ReportsAlone, StillUnmarked, Entries!Delete, Entries!Unlocked
<1>9. Born' /\ LoadedHasDraft' /\ EntryFormSent'
    BY <1>1, <1>5 DEF EntriesInv, Born, LoadedHasDraft, EntryFormSent
<1> QED
    BY <1>4, <1>6, <1>7, <1>8, <1>9 DEF EntriesInv, EntrySafe

\* A report or an edit comes, or goes without effect.
LEMMA RequestStep ==
    ASSUME EntriesInv, UNCHANGED <<entry, born, drafts, reverted, form>>,
           report' \in [Reports -> {Entries!IdleReport} \cup
                         [state : {"sent", "holding"}, pk : 1..MaxBorn, url : Urls, page : BOOLEAN]],
           edit' \in [Edits -> Entries!EntryType \cup {Entries!IdleEdit}],
           reports' \in 0..MaxReports, edits' \in 0..MaxEdits,
           page' \in [pk : 0..MaxBorn, submitted : BOOLEAN, locked : BOOLEAN],
           page'.submitted = page.submitted, page'.pk = page.pk,
           \A r \in Reports : report'[r].state = "holding" => report'[r] = report[r],
           \A e \in Edits : edit'[e] \in {edit[e], entry, Entries!IdleEdit}
    PROVE  EntriesInv'
<1>1. Entries!TypeOK'
    BY DEF EntriesInv, EntrySafe, Entries!TypeOK
<1>2. \A pk : Entries!DraftsOf(pk)' = Entries!DraftsOf(pk)
    BY DEF Entries!DraftsOf
<1>3. Entries!MarkHasDraft' /\ Entries!ReportedOnce' /\ Entries!PageTellsReport' /\ PageOfEntry'
    BY <1>2 DEF EntriesInv, EntrySafe, Entries!MarkHasDraft, Entries!ReportedOnce,
                Entries!OneDraft, Entries!PageTellsReport, PageOfEntry
<1>4. ReportsAlone' /\ StillUnmarked'
    BY DEF EntriesInv, ReportsAlone, StillUnmarked, Entries!Exists
<1>5. Born'
  <2>1. Entries!IdleEdit.pk <= born /\ entry.pk <= born
      BY EntryTypes DEF EntriesInv, Born, Entries!IdleEdit, Entries!NoEntry
  <2> QED
      BY <2>1 DEF EntriesInv, Born
<1>6. LoadedHasDraft'
  <2>1. ASSUME NEW e \in Edits, edit'[e] # Entries!IdleEdit, edit'[e].submitted
        PROVE  Entries!DraftsOf(edit[e].pk)' # {}
    <3>1. CASE edit'[e] = edit[e]
        BY <2>1, <3>1 DEF EntriesInv, LoadedHasDraft, Entries!DraftsOf
    <3>2. CASE edit'[e] = entry
      <4>1. entry # Entries!NoEntry
          BY <2>1, <3>2 DEF Entries!NoEntry, Entries!IdleEdit
      <4> QED
          BY <2>1, <3>2, <4>1
             DEF EntriesInv, EntrySafe, Entries!MarkHasDraft, Entries!DraftsOf
    <3> QED
        BY <2>1, <3>1, <3>2
  <2> QED
      BY <2>1 DEF LoadedHasDraft
<1>7. EntryFormSent'
    BY DEF EntriesInv, EntryFormSent
<1> QED
    BY <1>1, <1>3, <1>4, <1>5, <1>6, <1>7 DEF EntriesInv, EntrySafe
LEMMA EntryShapes ==
    ASSUME EntriesInv
    PROVE  /\ report \in [Reports -> {Entries!IdleReport} \cup
                            [state : {"sent", "holding"}, pk : 1..MaxBorn, url : Urls, page : BOOLEAN]]
           /\ edit \in [Edits -> Entries!EntryType \cup {Entries!IdleEdit}]
           /\ reports \in 0..MaxReports /\ edits \in 0..MaxEdits
           /\ page \in [pk : 0..MaxBorn, submitted : BOOLEAN, locked : BOOLEAN]
           /\ form \in [state : {"editing", "sent", "done"}, wire : 0..MaxSends, sends : 0..MaxSends]
BY DEF EntriesInv, EntrySafe, Entries!TypeOK

LEMMA ReportSent ==
    ASSUME EntriesInv, NEW r \in Reports, NEW u \in Urls, Entries!SendReport(r, u)
    PROVE  EntriesInv'
<1>1. PICK here \in BOOLEAN :
        /\ here => page.pk # 0
        /\ ~here => entry # Entries!NoEntry
        /\ report' = [report EXCEPT ![r] =
                        [state |-> "sent", pk |-> IF here THEN page.pk ELSE entry.pk,
                         url |-> u, page |-> here]]
    BY DEF Entries!SendReport
<1>2. UNCHANGED <<entry, born, drafts, reverted, edit, edits, form, page>>
    BY DEF Entries!SendReport
<1>3. reports' \in 0..MaxReports
    BY EntryShapes, EntriesBounds DEF Entries!SendReport
<1>4. (IF here THEN page.pk ELSE entry.pk) \in 1..MaxBorn
  <2>1. MaxBorn \in Nat /\ page.pk \in 0..MaxBorn
      BY EntryShapes, EntriesBounds
  <2> QED
      BY <1>1, <2>1, EntryTypes
<1>5. PICK k \in 1..MaxBorn : report' = [report EXCEPT ![r] =
            [state |-> "sent", pk |-> k, url |-> u, page |-> here]]
    BY <1>1, <1>4
<1>6. report' \in [Reports -> {Entries!IdleReport} \cup
                     [state : {"sent", "holding"}, pk : 1..MaxBorn, url : Urls, page : BOOLEAN]]
    BY <1>5, EntryShapes
<1>7. \A s \in Reports : report'[s].state = "holding" => report'[s] = report[s]
    BY <1>5, EntryShapes
<1> QED
    BY <1>2, <1>3, <1>6, <1>7, EntryShapes, RequestStep

LEMMA ReportRefused ==
    ASSUME EntriesInv, NEW r \in Reports, Entries!RefuseReport(r)
    PROVE  EntriesInv'
<1>1. /\ UNCHANGED <<entry, born, drafts, reverted, edit, reports, edits, form>>
      /\ report' = [report EXCEPT ![r] = Entries!IdleReport]
      /\ page' = page \/ page' = [page EXCEPT !.locked = TRUE]
    BY DEF Entries!RefuseReport, Entries!LockPage
<1>2. report' \in [Reports -> {Entries!IdleReport} \cup
                     [state : {"sent", "holding"}, pk : 1..MaxBorn, url : Urls, page : BOOLEAN]]
    BY <1>1, EntryShapes
<1>3. \A s \in Reports : report'[s].state = "holding" => report'[s] = report[s]
    BY <1>1, EntryShapes DEF Entries!IdleReport
<1>4. /\ page' \in [pk : 0..MaxBorn, submitted : BOOLEAN, locked : BOOLEAN]
      /\ page'.submitted = page.submitted /\ page'.pk = page.pk
    BY <1>1, EntryShapes
<1> QED
    BY <1>1, <1>2, <1>3, <1>4, EntryShapes, RequestStep

LEMMA EditSteps ==
    ASSUME EntriesInv, NEW e \in Edits, Entries!LoadEdit(e) \/ Entries!RefuseEdit(e)
    PROVE  EntriesInv'
<1>1. UNCHANGED <<entry, born, drafts, reverted, report, reports, form, page>>
    BY DEF Entries!LoadEdit, Entries!RefuseEdit
<1>2. PICK v \in Entries!EntryType \cup {Entries!IdleEdit} :
            edit' = [edit EXCEPT ![e] = v] /\ v \in {entry, Entries!IdleEdit}
    BY EntryTypes DEF Entries!LoadEdit, Entries!RefuseEdit
<1>3. edit' \in [Edits -> Entries!EntryType \cup {Entries!IdleEdit}]
    BY <1>2, EntryShapes
<1>4. \A d \in Edits : edit'[d] \in {edit[d], entry, Entries!IdleEdit}
    BY <1>2, EntryShapes
<1>5. edits' \in 0..MaxEdits
    BY EntryShapes, EntriesBounds DEF Entries!LoadEdit, Entries!RefuseEdit
<1>6. \A s \in Reports : report'[s].state = "holding" => report'[s] = report[s]
    BY <1>1
<1> QED
    BY <1>1, <1>3, <1>4, <1>5, <1>6, EntryShapes, RequestStep

\* The lock is taken by one report, of an entry that is not marked.
LEMMA EntryLocked ==
    ASSUME EntriesInv, NEW r \in Reports, Entries!LockEntry(r)
    PROVE  EntriesInv'
<1>1. /\ UNCHANGED <<entry, born, drafts, reverted, edit, reports, edits, form, page>>
      /\ report' = [report EXCEPT ![r].state = "holding"]
      /\ report[r].state = "sent" /\ Entries!Exists(report[r].pk) /\ ~entry.submitted
      /\ \A s \in Reports : report[s].state # "holding"
    BY DEF Entries!LockEntry, Entries!MayLock, Entries!Unlocked
<1>2. report[r] \in [state : {"sent", "holding"}, pk : 1..MaxBorn, url : Urls, page : BOOLEAN]
    BY <1>1, EntryShapes DEF Entries!IdleReport
<1>3. /\ report'[r] \in [state : {"sent", "holding"}, pk : 1..MaxBorn, url : Urls, page : BOOLEAN]
      /\ report'[r].pk = report[r].pk
      /\ \A s \in Reports \ {r} : report'[s] = report[s]
      /\ DOMAIN report' = Reports /\ report' = [s \in Reports |-> report'[s]]
    BY <1>1, <1>2, EntryShapes
<1>4. report' \in [Reports -> {Entries!IdleReport} \cup
                     [state : {"sent", "holding"}, pk : 1..MaxBorn, url : Urls, page : BOOLEAN]]
    BY <1>3, EntryShapes
<1>5. Entries!TypeOK'
    BY <1>1, <1>4 DEF EntriesInv, EntrySafe, Entries!TypeOK
<1>6. ReportsAlone' /\ StillUnmarked'
    BY <1>1, <1>3 DEF ReportsAlone, StillUnmarked, Entries!Exists
<1>7. /\ Entries!MarkHasDraft' /\ Entries!ReportedOnce' /\ Entries!PageTellsReport'
      /\ PageOfEntry'
    BY <1>1 DEF EntriesInv, EntrySafe, Entries!MarkHasDraft, Entries!ReportedOnce,
                Entries!OneDraft, Entries!PageTellsReport, PageOfEntry, Entries!DraftsOf
<1>8. Born' /\ LoadedHasDraft' /\ EntryFormSent'
    BY <1>1 DEF EntriesInv, Born, LoadedHasDraft, EntryFormSent, Entries!DraftsOf
<1> QED
    BY <1>5, <1>6, <1>7, <1>8 DEF EntriesInv, EntrySafe

\* Another user's draft belongs to no entry.
LEMMA OthersDraft ==
    ASSUME EntriesInv, NEW u \in Urls, Entries!DraftElsewhere(u)
    PROVE  EntriesInv'
<1>1. /\ UNCHANGED <<entry, born, reverted, report, edit, reports, edits, form, page>>
      /\ drafts[u] = 0 /\ drafts' = [drafts EXCEPT ![u] = -1]
    BY DEF Entries!DraftElsewhere, Entries!NoDraft, Entries!OtherDraft
<1>2. drafts \in [Urls -> 0..MaxBorn \cup {-1}] /\ born \in Nat
    BY EntryTypes
<1>3. drafts' \in [Urls -> 0..MaxBorn \cup {-1}]
    BY <1>1, <1>2
<1>4. Entries!TypeOK'
    BY <1>1, <1>3 DEF EntriesInv, EntrySafe, Entries!TypeOK
<1>5. \A pk \in 1..MaxBorn, v \in Urls : drafts'[v] = pk <=> drafts[v] = pk
    BY <1>1, <1>2, EntriesBounds
<1>6. \A pk \in 1..MaxBorn : {v \in Urls : drafts'[v] = pk} = {v \in Urls : drafts[v] = pk}
    BY <1>5
<1>7. Entries!MarkHasDraft'
    BY <1>1, <1>6, EntryTypes DEF EntriesInv, EntrySafe, Entries!MarkHasDraft, Entries!DraftsOf
<1>8. Entries!ReportedOnce'
  <2>1. 1..born \subseteq 1..MaxBorn
      BY EntryTypes
  <2>2. Entries!OneDraft => Entries!OneDraft'
      BY <1>1, <1>6, <2>1 DEF Entries!OneDraft, Entries!DraftsOf
  <2>3. entry # Entries!NoEntry => entry.pk \in 1..MaxBorn
      BY EntryTypes
  <2> QED
      BY <1>1, <1>6, <2>2, <2>3
         DEF EntriesInv, EntrySafe, Entries!ReportedOnce, Entries!DraftsOf
<1>9. Entries!PageTellsReport' /\ PageOfEntry'
  <2>1. page.submitted => page.pk \in 1..MaxBorn
      BY EntryShapes, EntriesBounds DEF EntriesInv, PageOfEntry
  <2> QED
      BY <1>1, <1>6, <2>1
         DEF EntriesInv, EntrySafe, Entries!PageTellsReport, PageOfEntry, Entries!DraftsOf
<1>10. Born' /\ ReportsAlone' /\ StillUnmarked' /\ EntryFormSent'
    BY <1>1, <1>2 DEF EntriesInv, Born, ReportsAlone, StillUnmarked, EntryFormSent, Entries!Exists
<1>11. LoadedHasDraft'
  <2>1. \A e \in Edits : edit[e] # Entries!IdleEdit => edit[e].pk \in 1..MaxBorn
      BY EntryShapes DEF Entries!EntryType
  <2> QED
      BY <1>1, <1>6, <2>1 DEF EntriesInv, LoadedHasDraft, Entries!DraftsOf
<1> QED
    BY <1>4, <1>7, <1>8, <1>9, <1>10, <1>11 DEF EntriesInv, EntrySafe
\* An edit writes back what it loaded: a mark it loaded has its draft, and a
\* mark it loses is what reverted tells.
LEMMA EditSaved ==
    ASSUME EntriesInv, NEW e \in Edits, Entries!SaveEdit(e)
    PROVE  EntriesInv'
<1>1. /\ UNCHANGED <<born, drafts, report, reports, edits, form, page>>
      /\ edit[e] # Entries!IdleEdit
      /\ entry = Entries!NoEntry \/ (Entries!Exists(edit[e].pk) /\ Entries!Unlocked)
      /\ entry' = [edit[e] EXCEPT !.title = "new"]
      /\ edit' = [edit EXCEPT ![e] = Entries!IdleEdit]
    BY DEF Entries!SaveEdit, Entries!Saved
<1>2. reverted' = (reverted \/ entry = Entries!NoEntry \/ entry.submitted # edit[e].submitted)
    BY DEF Entries!SaveEdit
<1>3. edit[e] \in Entries!EntryType /\ edit[e].pk \in 1..MaxBorn
    BY <1>1, EntryShapes DEF Entries!EntryType
<1>4. /\ entry' \in Entries!EntryType
      /\ entry'.pk = edit[e].pk /\ entry'.submitted = edit[e].submitted
    BY <1>1, <1>3 DEF Entries!EntryType, Entries!Titles
<1>5. edit' \in [Edits -> Entries!EntryType \cup {Entries!IdleEdit}]
    BY <1>1, EntryShapes
<1>6. Entries!TypeOK'
  <2>1. reverted' \in BOOLEAN
      BY <1>2
  <2> QED
      BY <1>1, <1>4, <1>5, <2>1 DEF EntriesInv, EntrySafe, Entries!TypeOK
<1>7. edit[e].submitted => {u \in Urls : drafts[u] = edit[e].pk} # {}
    BY <1>1 DEF EntriesInv, LoadedHasDraft, Entries!DraftsOf
<1>8. Entries!MarkHasDraft'
    BY <1>1, <1>4, <1>7 DEF Entries!MarkHasDraft, Entries!DraftsOf
<1>9. Entries!ReportedOnce'
  <2>1. ASSUME ~reverted'
        PROVE  /\ ~reverted /\ entry # Entries!NoEntry
               /\ entry.pk = edit[e].pk /\ entry.submitted = edit[e].submitted
      BY <1>1, <1>2, <2>1 DEF Entries!Exists
  <2>2. ASSUME ~reverted' PROVE Entries!OneDraft'
      BY <1>1, <2>1, <2>2
         DEF EntriesInv, EntrySafe, Entries!ReportedOnce, Entries!OneDraft, Entries!DraftsOf
  <2>3. ASSUME ~reverted'
        PROVE  entry'.submitted = ({u \in Urls : drafts'[u] = entry'.pk} # {})
      BY <1>1, <1>4, <2>1, <2>3
         DEF EntriesInv, EntrySafe, Entries!ReportedOnce, Entries!DraftsOf
  <2> QED
      BY <2>2, <2>3 DEF Entries!ReportedOnce, Entries!DraftsOf
<1>10. Entries!PageTellsReport' /\ PageOfEntry'
    BY <1>1 DEF EntriesInv, EntrySafe, Entries!PageTellsReport, PageOfEntry, Entries!DraftsOf
<1>11. ReportsAlone' /\ StillUnmarked'
    BY <1>1 DEF EntriesInv, ReportsAlone, StillUnmarked, Entries!Exists, Entries!Unlocked
<1>12. Born' /\ LoadedHasDraft'
  <2>1. \A d \in Edits : edit'[d] \in {edit[d], Entries!IdleEdit}
      BY <1>1, EntryShapes
  <2>2. Entries!IdleEdit.pk <= born /\ edit[e].pk <= born
      BY EntryTypes DEF EntriesInv, Born, Entries!IdleEdit
  <2>3. Born'
      BY <1>1, <1>4, <2>1, <2>2 DEF EntriesInv, Born
  <2>4. LoadedHasDraft'
      BY <1>1, <2>1 DEF EntriesInv, LoadedHasDraft, Entries!DraftsOf
  <2> QED
      BY <2>3, <2>4
<1>13. EntryFormSent'
    BY <1>1 DEF EntriesInv, EntryFormSent
<1> QED
    BY <1>6, <1>8, <1>9, <1>10, <1>11, <1>12, <1>13 DEF EntriesInv, EntrySafe

\* The draft comes with the mark; the entry had neither.
LEMMA ReportFinished ==
    ASSUME EntriesInv, NEW r \in Reports, Entries!FinishReport(r)
    PROVE  EntriesInv'
<1>1. /\ UNCHANGED <<born, reverted, edit, reports, edits, form>>
      /\ report[r].state = "holding"
      /\ report' = [report EXCEPT ![r] = Entries!IdleReport]
    BY DEF Entries!FinishReport
<1>2. /\ entry # Entries!NoEntry /\ entry.pk = report[r].pk /\ ~entry.submitted
      /\ entry \in Entries!EntryType /\ entry.pk \in 1..MaxBorn /\ entry.pk <= born
      /\ born \in 0..MaxBorn /\ MaxBorn \in Nat
      /\ drafts \in [Urls -> 0..MaxBorn \cup {-1}]
      /\ \A u \in Urls : drafts[u] \in Int /\ drafts[u] <= born
    BY <1>1, EntryTypes DEF EntriesInv, StillUnmarked, Entries!Exists
<1>3. report[r].url \in Urls
    BY <1>1, EntryShapes DEF Entries!IdleReport
<1>4. /\ report' \in [Reports -> {Entries!IdleReport} \cup
                       [state : {"sent", "holding"}, pk : 1..MaxBorn, url : Urls, page : BOOLEAN]]
      /\ \A s \in Reports : report'[s].state = "holding" => report'[s] = report[s] /\ s # r
    BY <1>1, EntryShapes DEF Entries!IdleReport
<1>5. \A s \in Reports : report'[s].state # "holding"
    BY <1>1, <1>4 DEF EntriesInv, ReportsAlone
<1>6. CASE drafts[report[r].url] # 0
  <2>1. UNCHANGED <<entry, drafts, page>>
      BY <1>6 DEF Entries!FinishReport, Entries!Undone, Entries!Reload, Entries!NoDraft
  <2> QED
      BY <1>1, <1>4, <2>1, EntryShapes, RequestStep
<1>7. CASE drafts[report[r].url] = 0
  <2>1. PICK u \in Urls : u = report[r].url /\ drafts[u] = 0
      BY <1>3, <1>7
  <2>2. PICK k \in 1..MaxBorn : k = entry.pk /\ k <= born
      BY <1>2
  <2>3. /\ drafts' = [drafts EXCEPT ![u] = k]
        /\ entry' = [entry EXCEPT !.submitted = TRUE]
        /\ page' = page \/ (page' = [page EXCEPT !.submitted = TRUE] /\ page.pk = k)
      BY <1>7, <2>1, <2>2 DEF Entries!FinishReport, Entries!Reload, Entries!NoDraft
  <2>4. /\ entry' \in Entries!EntryType /\ entry'.pk = k /\ entry'.submitted = TRUE
      BY <1>2, <2>2, <2>3 DEF Entries!EntryType
  <2>5. /\ drafts' \in [Urls -> 0..MaxBorn \cup {-1}] /\ drafts'[u] = k
        /\ \A v \in Urls \ {u} : drafts'[v] = drafts[v]
      BY <1>2, <2>2, <2>3
  <2>6. /\ page' \in [pk : 0..MaxBorn, submitted : BOOLEAN, locked : BOOLEAN]
        /\ page'.pk = page.pk /\ (page'.submitted => page.submitted \/ page.pk = k)
      BY <2>3, EntryShapes
  <2>7. Entries!TypeOK'
      BY <1>1, <1>4, <2>4, <2>5, <2>6 DEF EntriesInv, EntrySafe, Entries!TypeOK
  <2>8. \A p \in 1..MaxBorn : {v \in Urls : drafts[v] = p} # {} => {v \in Urls : drafts'[v] = p} # {}
      BY <2>1, <2>5
  <2>9. {v \in Urls : drafts'[v] = k} # {}
      BY <2>5
  <2>10. Entries!MarkHasDraft'
      BY <2>4, <2>9 DEF Entries!MarkHasDraft, Entries!DraftsOf
  <2>11. Entries!ReportedOnce'
    <3>1. ASSUME ~reverted' PROVE Entries!OneDraft'
      <4>1. Entries!OneDraft /\ {v \in Urls : drafts[v] = k} = {}
          BY <1>1, <1>2, <2>2, <3>1
             DEF EntriesInv, EntrySafe, Entries!ReportedOnce, Entries!DraftsOf
      <4>2. ASSUME NEW p \in 1..born, NEW v \in Urls, NEW w \in Urls,
                   drafts'[v] = p, drafts'[w] = p
            PROVE  v = w
        <5>1. CASE p = k
            BY <2>5, <4>1, <4>2, <5>1
        <5>2. CASE p # k
          <6>1. drafts[v] = p /\ drafts[w] = p
              BY <2>5, <4>2, <5>2
          <6> QED
              BY <4>1, <6>1 DEF Entries!OneDraft, Entries!DraftsOf
        <5> QED
            BY <5>1, <5>2
      <4> QED
          BY <1>1, <4>2 DEF Entries!OneDraft, Entries!DraftsOf
    <3> QED
        BY <2>4, <2>9, <3>1 DEF Entries!ReportedOnce, Entries!DraftsOf
  <2>12. Entries!PageTellsReport' /\ PageOfEntry'
    <3>1. page.submitted => page.pk \in 1..MaxBorn
        BY EntryShapes, EntriesBounds DEF EntriesInv, PageOfEntry
    <3>2. page.submitted => {v \in Urls : drafts'[v] = page.pk} # {}
        BY <2>8, <3>1 DEF EntriesInv, EntrySafe, Entries!PageTellsReport, Entries!DraftsOf
    <3>3. k # 0
        BY <1>2, <2>2
    <3> QED
        BY <2>6, <2>9, <3>1, <3>2, <3>3
           DEF Entries!PageTellsReport, PageOfEntry, Entries!DraftsOf
  <2>13. ReportsAlone' /\ StillUnmarked'
      BY <1>5 DEF ReportsAlone, StillUnmarked
  <2>14. Born'
      BY <1>1, <1>2, <2>2, <2>4, <2>5 DEF EntriesInv, Born
  <2>15. LoadedHasDraft' /\ EntryFormSent'
    <3>1. \A e \in Edits : edit[e] # Entries!IdleEdit => edit[e].pk \in 1..MaxBorn
        BY EntryShapes DEF Entries!EntryType
    <3> QED
        BY <1>1, <2>8, <3>1 DEF EntriesInv, LoadedHasDraft, EntryFormSent, Entries!DraftsOf
  <2> QED
      BY <2>7, <2>10, <2>11, <2>12, <2>13, <2>14, <2>15 DEF EntriesInv, EntrySafe
<1> QED
    BY <1>6, <1>7

LEMMA EntriesKept == EntriesInv /\ [PhotosNext \/ ItemsNext \/ EntriesNext]_vars => EntriesInv'
<1>1. ASSUME EntriesInv, Entries!Next PROVE EntriesInv'
  <2>1. CASE \/ Entries!SendForm \/ Entries!LoseForm \/ Entries!Create \/ Entries!OpenPage
             \/ Entries!FindGone \/ Entries!Delete
      BY <1>1, <2>1, FormSteps, EntryCreated, PageSteps, EntryGone
  <2>2. CASE \E r \in Reports :
                \/ Entries!LockEntry(r) \/ Entries!RefuseReport(r) \/ Entries!FinishReport(r)
                \/ \E u \in Urls : Entries!SendReport(r, u)
      BY <1>1, <2>2, EntryLocked, ReportRefused, ReportFinished, ReportSent
  <2>3. CASE \E u \in Urls : Entries!DraftElsewhere(u)
      BY <1>1, <2>3, OthersDraft
  <2>4. CASE \E e \in Edits : Entries!LoadEdit(e) \/ Entries!SaveEdit(e) \/ Entries!RefuseEdit(e)
      BY <1>1, <2>4, EditSteps, EditSaved
  <2> QED
      BY <1>1, <2>1, <2>2, <2>3, <2>4 DEF Entries!Next
<1>2. PhotosNext \/ ItemsNext \/ UNCHANGED vars => UNCHANGED entriesVars
    BY DEF PhotosNext, ItemsNext, vars
<1> QED
    BY <1>1, <1>2, EntriesRest DEF EntriesNext

\* EntrySafe: however many reports of one entry, or of one URL, run at the same
\* time, one counts, as long as no edit wrote an older row back; no entry is
\* marked, and no page says so, without the draft that reviewers see
\* (promote_personal_entry, under the lock of the row).
THEOREM EntriesHold == Spec => []EntrySafe
<1>1. EntriesInv => EntrySafe
    BY DEF EntriesInv
<1> QED
    BY <1>1, EntriesInit, EntriesKept, PTL DEF Spec
(***************************************************************************)
(* Collection items.                                                       *)
(***************************************************************************)
LEMMA ItemsBounds ==
    /\ Items!None \notin Events \cup Records
    /\ EventOf \in [Records -> Events \cup {Items!None}]
    /\ MaxQuantity \in Nat /\ MaxImages \in Nat /\ MaxPatches \in Nat /\ MaxItemSends \in Nat
    /\ \A c \in Changes :
        /\ "event" \in DOMAIN c => c.event \in Events \cup {Items!None}
        /\ "record" \in DOMAIN c => c.record \in Records \cup {Items!None}
        /\ "quantity" \in DOMAIN c => c.quantity \in 0..MaxQuantity
        /\ "trade" \in DOMAIN c => c.trade \in Int
BY BelongingsAssumption DEF Items!ItemsAssumption

FormType ==
    [state : {"editing", "sent", "done"}, wire : 0..MaxItemSends, sends : 0..MaxItemSends]
LogType == [quantity : 0..MaxQuantity, trade : 0..MaxQuantity]

LEMMA ItemShapes ==
    ASSUME ItemsInv
    PROVE  /\ item # Items!NoItem =>
                /\ item \in Items!ItemType
                /\ item.event \in Events \cup {Items!None}
                /\ item.record \in records \cup {Items!None}
                /\ item.record \in Records \cup {Items!None}
                /\ item.quantity \in 0..MaxQuantity /\ item.trade \in 0..MaxQuantity
                /\ item.image \in 1..images
                /\ item.image \in files
           /\ logged \in LogType
           /\ events \subseteq Events /\ records \subseteq Records
           /\ images \in 0..MaxImages /\ images \in Nat /\ MaxImages \in Nat
           /\ files \subseteq 1..images /\ spilled \subseteq 1..images
           /\ patch \in [Patches -> Items!PatchType]
           /\ patched \in 0..MaxPatches
           /\ itemForm \in FormType
<1>1. Items!TypeOK
    BY DEF ItemsInv, ItemSafe
<1>2. item # Items!NoItem =>
        /\ item \in Items!ItemType
        /\ item.event \in Events \cup {Items!None} /\ item.record \in Records \cup {Items!None}
        /\ item.quantity \in 0..MaxQuantity /\ item.trade \in 0..MaxQuantity
    BY <1>1 DEF Items!TypeOK, Items!ItemType
<1>3. item # Items!NoItem =>
        /\ item.record \in records \cup {Items!None} /\ item.image \in 1..images
        /\ item.image \in files
    BY DEF ItemsInv, ItemSafe, ItemKnown, Items!ImageHasFile
<1>4. images \in 0..MaxImages /\ images \in Nat /\ MaxImages \in Nat
    BY <1>1, ItemsBounds DEF Items!TypeOK
<1>5. /\ logged \in LogType
      /\ events \subseteq Events /\ records \subseteq Records
      /\ files \subseteq 1..images /\ spilled \subseteq 1..images
      /\ patch \in [Patches -> Items!PatchType]
      /\ patched \in 0..MaxPatches
      /\ itemForm \in FormType
    BY <1>1 DEF Items!TypeOK, LogType, FormType
<1> QED
    BY <1>2, <1>3, <1>4, <1>5

LEMMA ItemsInit == Init => ItemsInv
<1> SUFFICES ASSUME Init PROVE ItemsInv
    OBVIOUS
<1>0. /\ item = Items!NoItem /\ logged = [quantity |-> 0, trade |-> 0]
      /\ events = Events /\ records = Records
      /\ images = 0 /\ files = {} /\ spilled = {}
      /\ patch = [p \in Patches |-> [state |-> "idle"]]
      /\ patched = 0
      /\ itemForm = [state |-> "editing", wire |-> 0, sends |-> 0]
    BY DEF Init, Items!Init
<1>1. logged \in LogType
    BY <1>0, ItemsBounds DEF LogType
<1>2. itemForm \in FormType
    BY <1>0, ItemsBounds DEF FormType
<1>3. patch \in [Patches -> Items!PatchType]
    BY <1>0 DEF Items!PatchType
<1>4. images \in 0..MaxImages /\ patched \in 0..MaxPatches
    BY <1>0, ItemsBounds
<1>5. Items!TypeOK
    BY <1>0, <1>1, <1>2, <1>3, <1>4 DEF Items!TypeOK, LogType, FormType
<1>6. /\ Items!LinksAgree /\ Items!LogTellsQuantities
      /\ Items!ImageHasFile /\ Items!FilesAccounted
    BY <1>0 DEF Items!LinksAgree, Items!LogTellsQuantities, Items!ImageHasFile,
                Items!FilesAccounted
<1>7. ItemsAlone /\ StillAccepted /\ ItemKnown /\ ItemFormSent
    BY <1>0 DEF ItemsAlone, StillAccepted, ItemKnown, ItemFormSent
<1> QED
    BY <1>5, <1>6, <1>7 DEF ItemsInv, ItemSafe

LEMMA ItemsRest == ItemsInv /\ UNCHANGED itemsVars => ItemsInv'
BY DEF ItemsInv, itemsVars, ItemSafe, Items!TypeOK, Items!LinksAgree, Items!LogTellsQuantities,
       Items!ImageHasFile, Items!FilesAccounted, ItemsAlone, StillAccepted, ItemKnown,
       ItemFormSent, Items!Accepts, Items!Named

\* Nothing but the form and the patches changes, and what is newly locked was
\* accepted.
LEMMA ItemKept ==
    ASSUME ItemsInv, UNCHANGED <<item, logged, events, records, images, files, spilled>>,
           itemForm' \in FormType, itemForm'.wire <= itemForm'.sends,
           patched' \in 0..MaxPatches,
           patch' \in [Patches -> Items!PatchType],
           ItemsAlone', StillAccepted'
    PROVE  ItemsInv'
<1>1. Items!TypeOK'
    BY DEF ItemsInv, ItemSafe, Items!TypeOK, FormType
<1>2. /\ Items!LinksAgree' /\ Items!LogTellsQuantities'
      /\ Items!ImageHasFile' /\ Items!FilesAccounted' /\ ItemKnown'
    BY DEF ItemsInv, ItemSafe, Items!LinksAgree, Items!LogTellsQuantities, Items!ImageHasFile,
           Items!FilesAccounted, ItemKnown
<1>3. ItemFormSent'
    BY DEF ItemFormSent
<1> QED
    BY <1>1, <1>2, <1>3 DEF ItemsInv, ItemSafe

\* The form, sent, lost and answered.
LEMMA FormServed ==
    ASSUME ItemsInv, itemForm.wire > 0, itemForm' = Items!Answered
    PROVE  itemForm' \in FormType /\ itemForm'.wire <= itemForm'.sends
<1>1. PICK state \in {"editing", "sent", "done"}, w, n \in 0..MaxItemSends :
        itemForm = [state |-> state, wire |-> w, sends |-> n] /\ w <= n
    BY ItemShapes DEF FormType, ItemsInv, ItemFormSent
<1>2. PICK after \in {"editing", "sent", "done"} :
        itemForm' = [state |-> after, wire |-> w - 1, sends |-> n]
    BY <1>1 DEF Items!Answered
<1>3. w - 1 \in 0..MaxItemSends /\ w - 1 <= n
    BY <1>1, ItemsBounds
<1> QED
    BY <1>2, <1>3 DEF FormType

LEMMA ItemFormSteps ==
    ASSUME ItemsInv, Items!SendForm \/ Items!LoseForm
    PROVE  ItemsInv'
<1>1. UNCHANGED <<item, logged, events, records, images, files, spilled, patch, patched>>
    BY DEF Items!SendForm, Items!LoseForm
<1>2. itemForm' \in FormType /\ itemForm'.wire <= itemForm'.sends
  <2>1. PICK state \in {"editing", "sent", "done"}, w, n \in 0..MaxItemSends :
          itemForm = [state |-> state, wire |-> w, sends |-> n] /\ w <= n
      BY ItemShapes DEF FormType, ItemsInv, ItemFormSent
  <2>2. CASE Items!SendForm
    <3>1. itemForm' = [state |-> "sent", wire |-> w + 1, sends |-> n + 1] /\ n < MaxItemSends
        BY <2>1, <2>2 DEF Items!SendForm
    <3>2. w + 1 \in 0..MaxItemSends /\ n + 1 \in 0..MaxItemSends /\ w + 1 <= n + 1
        BY <2>1, <3>1, ItemsBounds
    <3> QED
        BY <3>1, <3>2 DEF FormType
  <2>3. CASE Items!LoseForm
    <3>1. itemForm' = [state |-> "editing", wire |-> w, sends |-> n]
        BY <2>1, <2>3 DEF Items!LoseForm
    <3> QED
        BY <2>1, <3>1 DEF FormType
  <2> QED
      BY <2>2, <2>3
<1>3. ItemsAlone' /\ StillAccepted'
    BY <1>1 DEF ItemsInv, ItemsAlone, StillAccepted, Items!Accepts, Items!Named
<1> QED
    BY <1>1, <1>2, <1>3, ItemShapes, ItemKept
LEMMA FormKept == ItemsInv => itemForm \in FormType /\ itemForm.wire <= itemForm.sends
BY ItemShapes DEF ItemsInv, ItemFormSent

LEMMA PatchLoaded ==
    ASSUME ItemsInv, NEW p \in Patches, NEW c \in Changes, Items!LoadPatch(p, c)
    PROVE  ItemsInv'
<1>1. /\ UNCHANGED <<item, logged, events, records, images, files, spilled, itemForm>>
      /\ patch' = [patch EXCEPT ![p] = [state |-> "loaded", change |-> c]]
    BY DEF Items!LoadPatch
<1>2. patched' \in 0..MaxPatches
    BY ItemShapes, ItemsBounds DEF Items!LoadPatch
<1>3. [state |-> "loaded", change |-> c] \in Items!PatchType
    BY DEF Items!PatchType
<1>4. patch' \in [Patches -> Items!PatchType]
    BY <1>1, <1>3, ItemShapes
<1>5. \A q \in Patches : patch'[q].state = "holding" => patch'[q] = patch[q]
    BY <1>1, ItemShapes
<1>6. ItemsAlone' /\ StillAccepted'
    BY <1>1, <1>5 DEF ItemsInv, ItemsAlone, StillAccepted, Items!Accepts, Items!Named
<1> QED
    BY <1>1, <1>2, <1>4, <1>6, FormKept, ItemKept

LEMMA PatchRefused ==
    ASSUME ItemsInv, NEW p \in Patches, Items!RefusePatch(p)
    PROVE  ItemsInv'
<1>1. /\ UNCHANGED <<item, logged, events, records, images, files, spilled, patched, itemForm>>
      /\ patch' = [patch EXCEPT ![p] = [state |-> "idle"]]
    BY DEF Items!RefusePatch
<1>2. patch' \in [Patches -> Items!PatchType]
    BY <1>1, ItemShapes DEF Items!PatchType
<1>3. \A q \in Patches : patch'[q].state = "holding" => patch'[q] = patch[q]
    BY <1>1, ItemShapes
<1>4. ItemsAlone' /\ StillAccepted'
    BY <1>1, <1>3 DEF ItemsInv, ItemsAlone, StillAccepted, Items!Accepts, Items!Named
<1> QED
    BY <1>1, <1>2, <1>4, FormKept, ItemShapes, ItemKept

LEMMA ItemLocked ==
    ASSUME ItemsInv, NEW p \in Patches, Items!LockItem(p)
    PROVE  ItemsInv'
<1>1. /\ UNCHANGED <<item, logged, events, records, images, files, spilled, patched, itemForm>>
      /\ patch' = [patch EXCEPT ![p].state = "holding"]
      /\ patch[p].state = "loaded" /\ item # Items!NoItem /\ Items!Accepts(patch[p].change)
      /\ \A q \in Patches : patch[q].state # "holding"
    BY DEF Items!LockItem, Items!MayLock
<1>2. patch[p] \in [state : {"idle", "loaded", "holding"}, change : Changes]
    BY <1>1, ItemShapes DEF Items!PatchType
<1>3. /\ patch'[p] = [state |-> "holding", change |-> patch[p].change]
      /\ \A q \in Patches \ {p} : patch'[q] = patch[q]
    BY <1>1, <1>2, ItemShapes
<1>4. patch'[p] \in Items!PatchType
    BY <1>2, <1>3 DEF Items!PatchType
<1>5. patch' \in [Patches -> Items!PatchType]
    BY <1>1, <1>3, <1>4, ItemShapes
<1>6. ItemsAlone'
    BY <1>1, <1>3 DEF ItemsAlone
<1>7. StillAccepted'
    BY <1>1, <1>3 DEF StillAccepted, Items!Accepts, Items!Named
<1> QED
    BY <1>1, <1>5, <1>6, <1>7, FormKept, ItemShapes, ItemKept

LEMMA ItemCreated ==
    ASSUME ItemsInv, NEW e \in Events \cup {Items!None}, NEW r \in Records \cup {Items!None},
           NEW q \in 0..MaxQuantity, NEW t \in 0..MaxQuantity, Items!Create(e, r, q, t)
    PROVE  ItemsInv'
<1>1. /\ itemForm.wire > 0 /\ item = Items!NoItem /\ images < MaxImages
      /\ r \in records \cup {Items!None} /\ q >= 0 /\ 0 <= t /\ t <= q
      /\ images' = images + 1 /\ files' = files \cup {images + 1}
      /\ item' = [event |-> Items!Link(e, r), record |-> r,
                  quantity |-> q, trade |-> t, image |-> images + 1]
      /\ logged' = [quantity |-> q, trade |-> t]
      /\ itemForm' = Items!Answered
      /\ UNCHANGED <<events, records, spilled, patch, patched>>
    BY DEF Items!Create, Items!Known, Items!QuantitiesFit
<1>2. itemForm' \in FormType /\ itemForm'.wire <= itemForm'.sends
    BY <1>1, FormServed
<1>3. Items!Link(e, r) \in Events \cup {Items!None}
    BY ItemsBounds DEF Items!Link
<1>4. PICK linked \in Events \cup {Items!None} :
        linked = Items!Link(e, r) /\ (r # Items!None => linked = EventOf[r])
    BY <1>3 DEF Items!Link
<1>5. PICK n \in 1..MaxImages : n = images + 1
    BY <1>1, ItemShapes
<1>6. /\ item' = [event |-> linked, record |-> r, quantity |-> q, trade |-> t, image |-> n]
      /\ images' = n /\ files' = files \cup {n} /\ images \in Nat
      /\ files \subseteq 1..images /\ spilled \subseteq 1..images
    BY <1>1, <1>4, <1>5, ItemShapes
<1>7. item' \in Items!ItemType
  <2>1. n \in 0..MaxImages
      BY <1>5, ItemsBounds
  <2> QED
      BY <1>6, <2>1 DEF Items!ItemType
<1>8. Items!TypeOK'
  <2>1. logged' \in LogType
      BY <1>1 DEF LogType
  <2>2. images' \in 0..MaxImages /\ files' \subseteq 1..images' /\ spilled' \subseteq 1..images'
      BY <1>1, <1>5, <1>6, ItemsBounds
  <2> QED
      BY <1>1, <1>2, <1>7, <2>1, <2>2, ItemShapes DEF Items!TypeOK, LogType, FormType
<1>9. item' # Items!NoItem
  <2>1. item'.image = n /\ n # 0
      BY <1>5, <1>6
  <2> QED
      BY <2>1 DEF Items!NoItem
<1>10. Items!LinksAgree' /\ Items!LogTellsQuantities'
    BY <1>1, <1>4, <1>6 DEF Items!LinksAgree, Items!LogTellsQuantities, Items!QuantitiesFit
<1>11. Items!ImageHasFile'
    BY <1>6 DEF Items!ImageHasFile
<1>12. Items!FilesAccounted'
  <2>1. files \subseteq spilled
      BY <1>1 DEF ItemsInv, ItemSafe, Items!FilesAccounted
  <2> QED
      BY <1>1, <1>6, <1>9, <2>1 DEF Items!FilesAccounted
<1>13. \A p \in Patches : patch[p].state # "holding"
    BY <1>1 DEF ItemsInv, StillAccepted
<1>14. ItemsAlone' /\ StillAccepted'
    BY <1>1, <1>13 DEF ItemsAlone, StillAccepted
<1>15. ItemKnown' /\ ItemFormSent'
    BY <1>1, <1>2, <1>5, <1>6 DEF ItemKnown, ItemFormSent
<1> QED
    BY <1>8, <1>10, <1>11, <1>12, <1>14, <1>15 DEF ItemsInv, ItemSafe

\* A file more, which nothing shows; the rest but the form and the patches stays.
LEMMA FileLeft ==
    ASSUME ItemsInv, UNCHANGED <<item, logged, events, records>>,
           images' \in {images, images + 1}, images' <= MaxImages,
           NEW new \in SUBSET {images + 1}, new \subseteq 1..images',
           files' = files \cup new, spilled' = spilled \cup new,
           itemForm' \in FormType, itemForm'.wire <= itemForm'.sends,
           patched' \in 0..MaxPatches,
           patch' \in [Patches -> Items!PatchType],
           ItemsAlone', StillAccepted'
    PROVE  ItemsInv'
<1>1. /\ images \in Nat /\ images' \in 0..MaxImages
      /\ files' \subseteq 1..images' /\ spilled' \subseteq 1..images'
  <2>1. images \in Nat /\ images' \in Nat /\ images' \in 0..MaxImages /\ images <= images'
      BY ItemShapes
  <2>2. 1..images \subseteq 1..images'
      BY <2>1
  <2>3. files \subseteq 1..images /\ spilled \subseteq 1..images
      BY ItemShapes
  <2> QED
      BY <2>1, <2>2, <2>3
<1>2. Items!TypeOK'
    BY <1>1 DEF ItemsInv, ItemSafe, Items!TypeOK, FormType
<1>3. Items!LinksAgree' /\ Items!LogTellsQuantities' /\ Items!ImageHasFile'
    BY DEF ItemsInv, ItemSafe, Items!LinksAgree, Items!LogTellsQuantities, Items!ImageHasFile
<1>4. Items!FilesAccounted'
    BY DEF ItemsInv, ItemSafe, Items!FilesAccounted
<1>5. ItemKnown'
    BY <1>1, ItemShapes DEF ItemsInv, ItemKnown
<1>6. ItemFormSent'
    BY DEF ItemFormSent
<1> QED
    BY <1>2, <1>3, <1>4, <1>5, <1>6 DEF ItemsInv, ItemSafe

LEMMA ItemFoundAgain ==
    ASSUME ItemsInv, Items!CreateAgain
    PROVE  ItemsInv'
<1>1. /\ itemForm.wire > 0 /\ images < MaxImages
      /\ images' = images + 1 /\ files' = files \cup {images + 1}
      /\ spilled' = spilled \cup {images + 1} /\ itemForm' = Items!Answered
      /\ UNCHANGED <<item, logged, events, records, patch, patched>>
    BY DEF Items!CreateAgain
<1>2. itemForm' \in FormType /\ itemForm'.wire <= itemForm'.sends
    BY <1>1, FormServed
<1>3. images' <= MaxImages /\ {images + 1} \subseteq 1..images'
    BY <1>1, ItemShapes
<1>4. ItemsAlone' /\ StillAccepted'
    BY <1>1 DEF ItemsInv, ItemsAlone, StillAccepted, Items!Accepts, Items!Named
<1>5. PICK new \in SUBSET {images + 1} : new = {images + 1}
    OBVIOUS
<1> QED
    BY <1>1, <1>2, <1>3, <1>4, <1>5, ItemShapes, FileLeft
\* What a change makes of the item it was accepted for.
LEMMA MergedFits ==
    ASSUME ItemsInv, item # Items!NoItem, NEW c \in Changes, Items!Accepts(c),
           Items!ImagesWith(c) <= MaxImages
    PROVE  /\ Items!Merged(c) \in Items!ItemType
           /\ Items!Merged(c).record # Items!None =>
                Items!Merged(c).event = EventOf[Items!Merged(c).record]
           /\ Items!QuantitiesFit(Items!Merged(c).quantity, Items!Merged(c).trade)
           /\ Items!Merged(c).quantity = Items!Named(c, "quantity", item.quantity)
           /\ Items!Merged(c).trade = Items!Named(c, "trade", item.trade)
           /\ Items!Merged(c).image = IF "image" \in DOMAIN c THEN images + 1 ELSE item.image
<1>1. PICK r \in Records \cup {Items!None} : r = Items!Named(c, "record", item.record)
    BY ItemShapes, ItemsBounds DEF Items!Named
<1>2. PICK e \in Events \cup {Items!None} : e = Items!Named(c, "event", item.event)
    BY ItemShapes, ItemsBounds DEF Items!Named
<1>3. PICK q \in 0..MaxQuantity : q = Items!Named(c, "quantity", item.quantity)
    BY ItemShapes, ItemsBounds DEF Items!Named
<1>4. Items!Named(c, "trade", item.trade) \in Int
    BY ItemShapes, ItemsBounds DEF Items!Named
<1>5. Items!QuantitiesFit(q, Items!Named(c, "trade", item.trade))
    BY <1>3 DEF Items!Accepts
<1>6. PICK t \in 0..MaxQuantity : t = Items!Named(c, "trade", item.trade) /\ t <= q
    BY <1>4, <1>5, ItemsBounds DEF Items!QuantitiesFit
<1>7. PICK n \in 0..MaxImages : n = IF "image" \in DOMAIN c THEN images + 1 ELSE item.image
    BY ItemShapes DEF Items!ImagesWith
<1>8. PICK linked \in Events \cup {Items!None} :
        /\ linked = IF "record" \in DOMAIN c THEN Items!Link(e, r) ELSE e
        /\ r # Items!None => linked = EventOf[r]
  <2>1. CASE "record" \in DOMAIN c
      BY <2>1, ItemsBounds DEF Items!Link
  <2>2. CASE "record" \notin DOMAIN c
    <3>1. r = item.record
        BY <1>1, <2>2 DEF Items!Named
    <3>2. CASE "event" \in DOMAIN c
        BY <1>2, <2>2, <3>1, <3>2 DEF Items!Accepts, Items!Named
    <3>3. CASE "event" \notin DOMAIN c
      <4>1. e = item.event
          BY <1>2, <3>3 DEF Items!Named
      <4> QED
          BY <2>2, <3>1, <4>1 DEF ItemsInv, ItemSafe, Items!LinksAgree
    <3> QED
        BY <3>2, <3>3
  <2> QED
      BY <2>1, <2>2
<1>9. Items!Merged(c) = [event |-> linked, record |-> r, quantity |-> q, trade |-> t, image |-> n]
    BY <1>1, <1>2, <1>3, <1>6, <1>7, <1>8 DEF Items!Merged
<1>10. q >= 0 /\ 0 <= t /\ t <= q
    BY <1>6
<1> QED
    BY <1>1, <1>3, <1>6, <1>7, <1>8, <1>9, <1>10 DEF Items!ItemType, Items!QuantitiesFit

LEMMA HeldChange ==
    ASSUME ItemsInv, NEW p \in Patches, patch[p].state = "holding"
    PROVE  patch[p].change \in Changes /\ item # Items!NoItem /\ Items!Accepts(patch[p].change)
BY ItemShapes DEF Items!PatchType, ItemsInv, StillAccepted

\* The row is unlocked, and nobody else held it.
LEMMA Released ==
    ASSUME ItemsInv, NEW p \in Patches, patch[p].state = "holding",
           patch' = [patch EXCEPT ![p] = [state |-> "idle"]]
    PROVE  /\ patch' \in [Patches -> Items!PatchType]
           /\ \A q \in Patches : patch'[q].state # "holding"
<1>1. patch' \in [Patches -> Items!PatchType]
    BY ItemShapes DEF Items!PatchType
<1>2. /\ patch'[p].state = "idle"
      /\ \A q \in Patches \ {p} : patch'[q] = patch[q]
    BY ItemShapes
<1>3. \A q \in Patches : patch[q].state = "holding" => q = p
    BY DEF ItemsInv, ItemsAlone
<1> QED
    BY <1>1, <1>2, <1>3

LEMMA PatchFailed ==
    ASSUME ItemsInv, NEW p \in Patches, Items!FailPatch(p)
    PROVE  ItemsInv'
<1>1. PICK c \in Changes : c = patch[p].change
    BY HeldChange DEF Items!FailPatch
<1>2. /\ patch[p].state = "holding"
      /\ Items!ImagesWith(c) <= MaxImages
      /\ files' = files \cup Items!NewImages(c) /\ images' = Items!ImagesWith(c)
      /\ spilled' = spilled \cup Items!NewImages(c)
      /\ patch' = [patch EXCEPT ![p] = [state |-> "idle"]]
      /\ UNCHANGED <<item, logged, events, records, patched, itemForm>>
    BY <1>1 DEF Items!FailPatch, Items!AfterFailure
<1>3. images' \in {images, images + 1} /\ images' <= MaxImages
    BY <1>2 DEF Items!ImagesWith
<1>4. PICK new \in SUBSET {images + 1} : new = Items!NewImages(c)
    BY DEF Items!NewImages
<1>5. new \subseteq 1..images'
    BY <1>2, <1>4, ItemShapes DEF Items!NewImages, Items!ImagesWith
<1>6. patch' \in [Patches -> Items!PatchType]
    BY <1>2, Released
<1>7. ItemsAlone' /\ StillAccepted'
    BY <1>2, Released DEF ItemsAlone, StillAccepted
<1> QED
    BY <1>2, <1>3, <1>4, <1>5, <1>6, <1>7, FormKept, ItemShapes, FileLeft

LEMMA PatchCommitted ==
    ASSUME ItemsInv, NEW p \in Patches, Items!CommitPatch(p)
    PROVE  ItemsInv'
<1>1. PICK c \in Changes : c = patch[p].change
    BY HeldChange DEF Items!CommitPatch
<1>2. /\ patch[p].state = "holding"
      /\ Items!ImagesWith(c) <= MaxImages
      /\ Items!Merged(c).record \in records \cup {Items!None}
      /\ item' = Items!Merged(c) /\ logged' = Items!Log(c) /\ images' = Items!ImagesWith(c)
      /\ patch' = [patch EXCEPT ![p] = [state |-> "idle"]]
      /\ UNCHANGED <<events, records, patched, itemForm>>
    BY <1>1 DEF Items!CommitPatch, Items!Known
<1>3. \/ files' = (files \cup Items!NewImages(c)) \ Items!OldImages(c) /\ spilled' = spilled
      \/ /\ Items!OldImages(c) # {}
         /\ files' = files \cup Items!NewImages(c) /\ spilled' = spilled \cup Items!OldImages(c)
    BY <1>1 DEF Items!CommitPatch
<1>4. item # Items!NoItem /\ Items!Accepts(c)
    BY <1>1, <1>2, HeldChange
<1>5. /\ item' \in Items!ItemType
      /\ item'.record # Items!None => item'.event = EventOf[item'.record]
      /\ Items!QuantitiesFit(item'.quantity, item'.trade)
      /\ item'.quantity = Items!Named(c, "quantity", item.quantity)
      /\ item'.trade = Items!Named(c, "trade", item.trade)
      /\ item'.image = IF "image" \in DOMAIN c THEN images + 1 ELSE item.image
    BY <1>2, <1>4, MergedFits
<1>6. /\ images \in Nat /\ MaxImages \in Nat /\ images' \in 0..MaxImages
      /\ item.image \in 1..images /\ item.image \in files
      /\ files \subseteq 1..images /\ spilled \subseteq 1..images
    BY <1>2, <1>4, ItemShapes DEF Items!ImagesWith
<1>7. files \subseteq spilled \cup {item.image}
    BY <1>4 DEF ItemsInv, ItemSafe, Items!FilesAccounted
<1>8. /\ files' \subseteq 1..images' /\ spilled' \subseteq 1..images'
      /\ item'.image \in files' /\ item'.image \in 1..images'
      /\ files' \subseteq spilled' \cup {item'.image}
  <2>1. CASE "image" \in DOMAIN c
    <3>1. /\ images' = images + 1 /\ item'.image = images + 1
          /\ Items!NewImages(c) = {images + 1} /\ Items!OldImages(c) = {item.image}
        BY <1>2, <1>5, <2>1 DEF Items!ImagesWith, Items!NewImages, Items!OldImages
    <3>2. 1..images \subseteq 1..(images + 1) /\ images + 1 \in 1..(images + 1)
        BY <1>6
    <3>3. item.image # images + 1
        BY <1>6
    <3> QED
        BY <1>3, <1>6, <1>7, <3>1, <3>2, <3>3
  <2>2. CASE "image" \notin DOMAIN c
    <3>1. /\ images' = images /\ item'.image = item.image
          /\ Items!NewImages(c) = {} /\ Items!OldImages(c) = {}
        BY <1>2, <1>5, <2>2 DEF Items!ImagesWith, Items!NewImages, Items!OldImages
    <3> QED
        BY <1>3, <1>6, <1>7, <3>1
  <2> QED
      BY <2>1, <2>2
<1>9. /\ logged = [quantity |-> item.quantity, trade |-> item.trade]
    BY <1>4 DEF ItemsInv, ItemSafe, Items!LogTellsQuantities
<1>10. logged' = [quantity |-> item'.quantity, trade |-> item'.trade]
    BY <1>2, <1>5, <1>9 DEF Items!Log
<1>11. logged' \in LogType
    BY <1>5, <1>10 DEF Items!ItemType, LogType
<1>12. patch' \in [Patches -> Items!PatchType] /\ \A q \in Patches : patch'[q].state # "holding"
    BY <1>2, Released
<1>13. Items!TypeOK'
    BY <1>2, <1>5, <1>6, <1>8, <1>11, <1>12, ItemShapes DEF Items!TypeOK, LogType, FormType
<1>14. Items!LinksAgree' /\ Items!LogTellsQuantities' /\ Items!ImageHasFile'
    BY <1>5, <1>8, <1>10
       DEF Items!LinksAgree, Items!LogTellsQuantities, Items!ImageHasFile
<1>15. Items!FilesAccounted'
  <2>1. item' # Items!NoItem
    <3>1. item'.image # 0
        BY <1>8, <1>6
    <3> QED
        BY <3>1 DEF Items!NoItem
  <2> QED
      BY <1>8, <2>1 DEF Items!FilesAccounted
<1>16. ItemsAlone' /\ StillAccepted'
    BY <1>12 DEF ItemsAlone, StillAccepted
<1>17. ItemKnown' /\ ItemFormSent'
    BY <1>2, <1>8, FormKept DEF ItemKnown, ItemFormSent
<1> QED
    BY <1>13, <1>14, <1>15, <1>16, <1>17 DEF ItemsInv, ItemSafe
LEMMA ItemDeleted ==
    ASSUME ItemsInv, Items!DeleteItem
    PROVE  ItemsInv'
<1>1. /\ item # Items!NoItem /\ \A p \in Patches : patch[p].state # "holding"
      /\ item' = Items!NoItem
      /\ logged' = [quantity |-> 0, trade |-> 0]
      /\ UNCHANGED <<events, records, images, patch, patched, itemForm>>
    BY DEF Items!DeleteItem, Items!Free
<1>2. \/ files' = files \ {item.image} /\ spilled' = spilled
      \/ files' = files /\ spilled' = spilled \cup {item.image}
    BY DEF Items!DeleteItem
<1>3. /\ files \subseteq 1..images /\ spilled \subseteq 1..images /\ item.image \in 1..images
      /\ files \subseteq spilled \cup {item.image}
    BY <1>1, ItemShapes DEF ItemsInv, ItemSafe, Items!FilesAccounted
<1>4. files' \subseteq 1..images /\ spilled' \subseteq 1..images /\ files' \subseteq spilled'
    BY <1>2, <1>3
<1>5. logged' \in LogType
    BY <1>1, ItemsBounds DEF LogType
<1>6. Items!TypeOK'
    BY <1>1, <1>4, <1>5, ItemShapes DEF Items!TypeOK, LogType, FormType
<1>7. /\ Items!LinksAgree' /\ Items!LogTellsQuantities'
      /\ Items!ImageHasFile' /\ Items!FilesAccounted' /\ ItemKnown'
    BY <1>1, <1>4 DEF Items!LinksAgree, Items!LogTellsQuantities, Items!ImageHasFile,
                      Items!FilesAccounted, ItemKnown
<1>8. ItemsAlone' /\ StillAccepted' /\ ItemFormSent'
    BY <1>1, FormKept DEF ItemsAlone, StillAccepted, ItemFormSent
<1> QED
    BY <1>6, <1>7, <1>8 DEF ItemsInv, ItemSafe

\* An event and records about it go.  The item loses its links to them, which
\* it has only while no patch holds its lock.
LEMMA LinksGone ==
    ASSUME ItemsInv, UNCHANGED <<logged, images, files, spilled, patch, patched, itemForm>>,
           events' \subseteq events,
           NEW gone \in SUBSET Records, records' = records \ gone,
           NEW e \in Events \cup {Items!None},
           \A r \in records : EventOf[r] = e /\ e # Items!None => r \in gone,
           item # Items!NoItem =>
               item' = [item EXCEPT !.event = IF @ = e THEN Items!None ELSE @,
                                    !.record = IF @ \in gone THEN Items!None ELSE @],
           item = Items!NoItem => item' = item,
           item # Items!NoItem /\ ~Items!Free =>
               (item.event = e => e = Items!None) /\ item.record \notin gone
    PROVE  ItemsInv'
<1>1. CASE item = Items!NoItem
  <2>1. item' = Items!NoItem
      BY <1>1
  <2>2. Items!TypeOK'
      BY <2>1, ItemShapes DEF Items!TypeOK, LogType, FormType
  <2>3. /\ Items!LinksAgree' /\ Items!LogTellsQuantities'
        /\ Items!ImageHasFile' /\ ItemKnown'
      BY <2>1 DEF Items!LinksAgree, Items!LogTellsQuantities, Items!ImageHasFile, ItemKnown
  <2>4. Items!FilesAccounted'
      BY <1>1, <2>1 DEF ItemsInv, ItemSafe, Items!FilesAccounted
  <2>5. ItemsAlone' /\ StillAccepted' /\ ItemFormSent'
      BY <1>1, FormKept DEF ItemsInv, ItemsAlone, StillAccepted, ItemFormSent
  <2> QED
      BY <2>2, <2>3, <2>4, <2>5 DEF ItemsInv, ItemSafe
<1>2. CASE item # Items!NoItem
  <2>1. /\ item \in Items!ItemType /\ item.record \in records \cup {Items!None}
        /\ item.event \in Events \cup {Items!None}
        /\ item.image \in 1..images /\ item.image \in files
      BY <1>2, ItemShapes
  <2>2. /\ item'.event = (IF item.event = e THEN Items!None ELSE item.event)
        /\ item'.record = (IF item.record \in gone THEN Items!None ELSE item.record)
        /\ item'.quantity = item.quantity /\ item'.trade = item.trade /\ item'.image = item.image
        /\ item' \in Items!ItemType
      BY <1>2, <2>1 DEF Items!ItemType
  <2>3. item' # Items!NoItem
    <3>1. item'.image # 0
        BY <2>1, <2>2
    <3> QED
        BY <3>1 DEF Items!NoItem
  <2>4. Items!TypeOK'
      BY <2>2, ItemShapes DEF Items!TypeOK, LogType, FormType
  <2>5. item.record # Items!None => item.event = EventOf[item.record]
      BY <1>2 DEF ItemsInv, ItemSafe, Items!LinksAgree
  <2>6. Items!LinksAgree'
      BY <2>1, <2>2, <2>5 DEF Items!LinksAgree
  <2>7. Items!LogTellsQuantities' /\ Items!ImageHasFile' /\ Items!FilesAccounted'
      BY <1>2, <2>2, <2>3
         DEF ItemsInv, ItemSafe, Items!LogTellsQuantities, Items!ImageHasFile,
             Items!FilesAccounted
  <2>8. ItemKnown'
      BY <2>1, <2>2 DEF ItemKnown
  <2>9. ItemsAlone' /\ ItemFormSent'
      BY FormKept DEF ItemsInv, ItemsAlone, ItemFormSent
  <2>10. StillAccepted'
    <3>1. CASE Items!Free
        BY <3>1 DEF StillAccepted, Items!Free
    <3>2. CASE ~Items!Free
      <4>1. item'.event = item.event /\ item'.record = item.record
          BY <1>2, <2>2, <3>2
      <4> QED
          BY <2>2, <2>3, <4>1
             DEF ItemsInv, StillAccepted, Items!Accepts, Items!Named
    <3> QED
        BY <3>1, <3>2
  <2> QED
      BY <2>4, <2>6, <2>7, <2>8, <2>9, <2>10 DEF ItemsInv, ItemSafe
<1> QED
    BY <1>1, <1>2

LEMMA RecordDeleted ==
    ASSUME ItemsInv, NEW r \in Records, Items!DeleteRecord(r)
    PROVE  ItemsInv'
<1>1. /\ UNCHANGED <<logged, events, images, files, spilled, patch, patched, itemForm>>
      /\ records' = records \ {r}
      /\ item # Items!NoItem /\ ~Items!Free => item.record # r
      /\ item' = Items!Unlinked(Items!None, {r})
    BY DEF Items!DeleteRecord
<1>2. PICK gone \in SUBSET Records : gone = {r}
    OBVIOUS
<1>3. PICK e \in Events \cup {Items!None} : e = Items!None
    OBVIOUS
<1>4. /\ item # Items!NoItem =>
            item' = [item EXCEPT !.event = IF @ = e THEN Items!None ELSE @,
                                 !.record = IF @ \in gone THEN Items!None ELSE @]
      /\ item = Items!NoItem => item' = item
    BY <1>1, <1>2, <1>3 DEF Items!Unlinked
<1> QED
    BY <1>1, <1>2, <1>3, <1>4, LinksGone

LEMMA EventDeleted ==
    ASSUME ItemsInv, NEW e \in Events, Items!DeleteEvent(e)
    PROVE  ItemsInv'
<1>1. PICK gone \in SUBSET Records : gone = {r \in records : EventOf[r] = e}
    BY ItemShapes
<1>2. /\ UNCHANGED <<logged, images, files, spilled, patch, patched, itemForm>>
      /\ events' = events \ {e} /\ records' = records \ gone
      /\ item # Items!NoItem /\ ~Items!Free => item.event # e /\ item.record \notin gone
      /\ item' = Items!Unlinked(e, gone)
    BY <1>1 DEF Items!DeleteEvent
<1>3. /\ item # Items!NoItem =>
            item' = [item EXCEPT !.event = IF @ = e THEN Items!None ELSE @,
                                 !.record = IF @ \in gone THEN Items!None ELSE @]
      /\ item = Items!NoItem => item' = item
    BY <1>2 DEF Items!Unlinked
<1>4. PICK f \in Events \cup {Items!None} : f = e
    OBVIOUS
<1> QED
    BY <1>1, <1>2, <1>3, <1>4, LinksGone

LEMMA ItemsKept == ItemsInv /\ [PhotosNext \/ ItemsNext \/ EntriesNext]_vars => ItemsInv'
<1>1. ASSUME ItemsInv, Items!Next PROVE ItemsInv'
  <2>1. CASE Items!SendForm \/ Items!LoseForm \/ Items!CreateAgain \/ Items!DeleteItem
      BY <1>1, <2>1, ItemFormSteps, ItemFoundAgain, ItemDeleted
  <2>2. CASE \E e \in Events \cup {Items!None}, r \in Records \cup {Items!None},
                q, t \in 0..MaxQuantity : Items!Create(e, r, q, t)
      BY <1>1, <2>2, ItemCreated
  <2>3. CASE \E p \in Patches :
                \/ Items!RefusePatch(p) \/ Items!LockItem(p)
                \/ Items!CommitPatch(p) \/ Items!FailPatch(p)
                \/ \E c \in Changes : Items!LoadPatch(p, c)
      BY <1>1, <2>3, PatchRefused, ItemLocked, PatchCommitted, PatchFailed, PatchLoaded
  <2>4. CASE \E r \in Records : Items!DeleteRecord(r)
      BY <1>1, <2>4, RecordDeleted
  <2>5. CASE \E e \in Events : Items!DeleteEvent(e)
      BY <1>1, <2>5, EventDeleted
  <2> QED
      BY <1>1, <2>1, <2>2, <2>3, <2>4, <2>5 DEF Items!Next
<1>2. PhotosNext \/ EntriesNext \/ UNCHANGED vars => UNCHANGED itemsVars
    BY DEF PhotosNext, EntriesNext, vars
<1> QED
    BY <1>1, <1>2, ItemsRest DEF ItemsNext

\* ItemSafe: an item got at a visit belongs to the event of that visit, its log
\* tells its quantities, which fit each other, its image has its file, and a
\* file without an item was left by a failure or by a form sent twice, whatever
\* patches, deletions and copies of the form come in between
\* (update_collection_item, which checks everything again under the lock).
THEOREM ItemsHold == Spec => []ItemSafe
<1>1. ItemsInv => ItemSafe
    BY DEF ItemsInv
<1> QED
    BY <1>1, ItemsInit, ItemsKept, PTL DEF Spec
(***************************************************************************)
(* Photos.                                                                 *)
(***************************************************************************)
LEMMA PhotosBounds ==
    /\ Photos!Other \notin Files /\ IsFiniteSet(Files)
    /\ MaxPhotos \in Nat /\ MaxLosses \in Nat /\ MaxOthers \in Nat
<1>1. Photos!IsFiniteSet(Files) <=> IsFiniteSet(Files)
    BY DEF Photos!IsFiniteSet, IsFiniteSet
<1> QED
    BY <1>1, BelongingsAssumption DEF Photos!PhotosAssumption

\* The photos counted, for any numbers of photos of the files.
RowsOf(ph) == {p \in Holders \X (1..MaxPhotos) : p[2] <= ph[p[1]]}

LEMMA CountIsRows ==
    /\ Photos!Count = Cardinality(RowsOf(photos))
    /\ Photos!Count' = Cardinality(RowsOf(photos'))
<1>1. \A S : Photos!Cardinality(S) = Cardinality(S)
    BY DEF Photos!Cardinality, Cardinality
<1>2. /\ Photos!PhotoRows = RowsOf(photos)
      /\ Photos!PhotoRows' = RowsOf(photos')
    BY DEF Photos!PhotoRows, RowsOf, Holders
<1> QED
    BY <1>1, <1>2 DEF Photos!Count

LEMMA RowsFinite ==
    ASSUME NEW ph
    PROVE  IsFiniteSet(RowsOf(ph)) /\ Cardinality(RowsOf(ph)) \in Nat
<1>1. IsFiniteSet(Holders)
    BY PhotosBounds, FS_AddElement DEF Holders
<1>2. IsFiniteSet(1..MaxPhotos)
    BY PhotosBounds, FS_Interval
<1>3. IsFiniteSet(Holders \X (1..MaxPhotos))
    BY <1>1, <1>2, FS_Product
<1>4. RowsOf(ph) \in SUBSET (Holders \X (1..MaxPhotos))
    BY DEF RowsOf
<1>5. IsFiniteSet(RowsOf(ph))
    BY <1>3, <1>4, FS_Subset
<1> QED
    BY <1>5, FS_CardinalityType

LEMMA FewerRows ==
    ASSUME NEW ph \in [Holders -> Int], NEW less \in [Holders -> Int],
           \A f \in Holders : less[f] <= ph[f]
    PROVE  Cardinality(RowsOf(less)) <= Cardinality(RowsOf(ph))
<1>1. RowsOf(less) \in SUBSET RowsOf(ph)
  <2>1. ASSUME NEW p \in RowsOf(less) PROVE p \in RowsOf(ph)
    <3>1. PICK f \in Holders, i \in 1..MaxPhotos : p = <<f, i>> /\ i <= less[f]
        BY <2>1 DEF RowsOf
    <3>2. i <= ph[f]
        BY <3>1, PhotosBounds
    <3> QED
        BY <3>1, <3>2 DEF RowsOf
  <2> QED
      BY <2>1
<1> QED
    BY <1>1, RowsFinite, FS_Subset

LEMMA OneRowMore ==
    ASSUME NEW ph \in [Holders -> Nat], NEW f \in Holders,
           NEW more \in [Holders -> Nat], more = [ph EXCEPT ![f] = @ + 1]
    PROVE  Cardinality(RowsOf(more)) <= Cardinality(RowsOf(ph)) + 1
<1>1. RowsOf(more) \in SUBSET (RowsOf(ph) \cup {<<f, ph[f] + 1>>})
  <2>1. ASSUME NEW p \in RowsOf(more) PROVE p \in RowsOf(ph) \cup {<<f, ph[f] + 1>>}
    <3>1. PICK g \in Holders, i \in 1..MaxPhotos : p = <<g, i>> /\ i <= more[g]
        BY <2>1 DEF RowsOf
    <3>2. CASE i <= ph[g]
        BY <3>1, <3>2 DEF RowsOf
    <3>3. CASE ~(i <= ph[g])
      <4>1. g = f /\ i = ph[f] + 1
          BY <3>1, <3>3, PhotosBounds
      <4> QED
          BY <3>1, <4>1
    <3> QED
        BY <3>2, <3>3
  <2> QED
      BY <2>1
<1>2. /\ IsFiniteSet(RowsOf(ph) \cup {<<f, ph[f] + 1>>})
      /\ Cardinality(RowsOf(ph) \cup {<<f, ph[f] + 1>>}) <= Cardinality(RowsOf(ph)) + 1
  <2> DEFINE x == <<f, ph[f] + 1>>
             S == RowsOf(ph)
  <2>1. IsFiniteSet(S) /\ Cardinality(S) \in Nat
      BY RowsFinite
  <2> HIDE DEF x, S
  <2>2. /\ IsFiniteSet(S \cup {x})
        /\ Cardinality(S \cup {x}) = IF x \in S THEN Cardinality(S) ELSE Cardinality(S) + 1
      BY <2>1, FS_AddElement
  <2>3. IsFiniteSet(S \cup {x}) /\ Cardinality(S \cup {x}) <= Cardinality(S) + 1
      BY <2>1, <2>2
  <2> QED
      BY <2>3 DEF x, S
<1>3. Cardinality(RowsOf(more)) <= Cardinality(RowsOf(ph) \cup {<<f, ph[f] + 1>>})
    BY <1>1, <1>2, FS_Subset
<1>4. /\ Cardinality(RowsOf(more)) \in Nat /\ Cardinality(RowsOf(ph)) \in Nat
      /\ Cardinality(RowsOf(ph) \cup {<<f, ph[f] + 1>>}) \in Nat
    BY <1>2, RowsFinite, FS_CardinalityType
<1> QED
    BY <1>2, <1>3, <1>4

\* The photos of one file, or of no more than one.
LEMMA RowsOfOne ==
    ASSUME NEW f \in Holders, NEW n \in 0..MaxPhotos
    PROVE  IsFiniteSet({f} \X (1..n)) /\ Cardinality({f} \X (1..n)) = n
<1>1. n \in Int /\ 1 \in Int /\ n >= 0
    BY PhotosBounds
<1>2. IsFiniteSet(1..n) /\ Cardinality(1..n) = n
    BY <1>1, FS_Interval
<1>3. IsFiniteSet({f}) /\ Cardinality({f}) = 1
    BY FS_Singleton
<1>4. /\ IsFiniteSet({f} \X (1..n))
      /\ Cardinality({f} \X (1..n)) = Cardinality({f}) * Cardinality(1..n)
    BY <1>2, <1>3, FS_Product
<1> QED
    BY <1>1, <1>2, <1>3, <1>4

LEMMA RoomOfFile ==
    ASSUME NEW ph \in [Holders -> 0..MaxPhotos], NEW f \in Holders,
           Cardinality(RowsOf(ph)) < MaxPhotos
    PROVE  ph[f] + 1 \in 0..MaxPhotos
<1>1. PICK n \in 0..MaxPhotos : n = ph[f]
    OBVIOUS
<1>2. {f} \X (1..n) \in SUBSET RowsOf(ph)
    BY <1>1, PhotosBounds DEF RowsOf
<1>3. n <= Cardinality(RowsOf(ph))
  <2>1. Cardinality({f} \X (1..n)) <= Cardinality(RowsOf(ph))
      BY <1>2, RowsFinite, FS_Subset
  <2> QED
      BY <2>1, RowsOfOne
<1> QED
    BY <1>1, <1>3, RowsFinite, PhotosBounds
PageType ==
    [kind : {"create", "edit"}, state : Photos!States, pending : Seq(Files),
     chosen : SUBSET Files, back : SUBSET Files, tiles : 0..MaxPhotos, waiting : BOOLEAN]

LEMMA PhotoShapes ==
    ASSUME PhotosInv
    PROVE  /\ record \in BOOLEAN /\ photos \in [Holders -> 0..MaxPhotos] /\ saved \subseteq Files
           /\ wire \in [Files -> 0..MaxLosses + 1] /\ handling \in [Holders -> Photos!Fates]
           /\ upload \in PageType
           /\ upload.tiles + Len(upload.pending) <= MaxPhotos
           /\ upload.tiles \in Nat /\ Len(upload.pending) \in Nat
           /\ DOMAIN upload.pending = 1..Len(upload.pending)
           /\ losses \in 0..MaxLosses /\ others \in 0..MaxOthers
<1>1. Photos!TypeOK
    BY DEF PhotosInv
<1>2. /\ record \in BOOLEAN /\ photos \in [Holders -> 0..MaxPhotos] /\ saved \subseteq Files
      /\ wire \in [Files -> 0..MaxLosses + 1] /\ handling \in [Holders -> Photos!Fates]
      /\ losses \in 0..MaxLosses /\ others \in 0..MaxOthers
    BY <1>1 DEF Photos!TypeOK, Holders
<1>3. upload \in PageType /\ upload.tiles + Len(upload.pending) <= MaxPhotos
    BY <1>1 DEF Photos!TypeOK, PageType
<1>4. /\ upload.tiles \in Nat /\ Len(upload.pending) \in Nat
      /\ DOMAIN upload.pending = 1..Len(upload.pending)
    BY <1>3, PhotosBounds DEF PageType
<1> QED
    BY <1>2, <1>3, <1>4

LEMMA ShapesKept ==
    ASSUME record' \in BOOLEAN, photos' \in [Holders -> 0..MaxPhotos], saved' \subseteq Files,
           wire' \in [Files -> 0..MaxLosses + 1], handling' \in [Holders -> Photos!Fates],
           upload' \in PageType, upload'.tiles + Len(upload'.pending) <= MaxPhotos,
           losses' \in 0..MaxLosses, others' \in 0..MaxOthers
    PROVE  Photos!TypeOK'
BY DEF Photos!TypeOK, PageType, Holders

LEMMA PhotosInit == Init => PhotosInv
<1> SUFFICES ASSUME Init PROVE PhotosInv
    OBVIOUS
<1>1. PICK kind \in {"create", "edit"}, n \in 0..MaxPhotos :
        /\ record = (kind = "edit")
        /\ photos = [f \in Holders |-> IF f = Photos!Other THEN n ELSE 0]
        /\ upload = [kind |-> kind, state |-> "editing", pending |-> <<>>, chosen |-> {},
                     back |-> {}, tiles |-> n, waiting |-> FALSE]
    BY DEF Init, Photos!Init, Holders
<1>2. /\ saved = {} /\ wire = [f \in Files |-> 0]
      /\ handling = [f \in Holders |-> "idle"]
      /\ losses = 0 /\ others = 0
    BY DEF Init, Photos!Init, Holders
<1>3. 0 \in 0..MaxPhotos /\ 0 \in 0..MaxLosses + 1 /\ 0 \in 0..MaxLosses /\ 0 \in 0..MaxOthers
    BY PhotosBounds
<1>4. photos \in [Holders -> 0..MaxPhotos]
    BY <1>1, <1>3
<1>5. wire \in [Files -> 0..MaxLosses + 1] /\ handling \in [Holders -> Photos!Fates]
    BY <1>2, <1>3 DEF Photos!Fates
<1>6. /\ upload \in PageType /\ Len(upload.pending) = 0 /\ upload.tiles = n
      /\ upload.tiles + Len(upload.pending) <= MaxPhotos
    BY <1>1, PhotosBounds DEF PageType, Photos!States
<1>7. Photos!TypeOK
  <2>1. record \in BOOLEAN
      BY <1>1
  <2> QED
      BY <1>2, <1>3, <1>4, <1>5, <1>6, <2>1 DEF Photos!TypeOK, PageType, Holders
<1>8. Photos!PhotoLimit
  <2>1. RowsOf(photos) = {Photos!Other} \X (1..n)
    <3>1. ASSUME NEW p \in RowsOf(photos) PROVE p \in {Photos!Other} \X (1..n)
      <4>1. PICK f \in Holders, i \in 1..MaxPhotos : p = <<f, i>> /\ i <= photos[f]
          BY <3>1 DEF RowsOf
      <4>2. f = Photos!Other /\ i \in 1..n
          BY <1>1, <4>1, PhotosBounds
      <4> QED
          BY <4>1, <4>2
    <3>2. ASSUME NEW i \in 1..n PROVE <<Photos!Other, i>> \in RowsOf(photos)
      <4>1. Photos!Other \in Holders
          BY DEF Holders
      <4>2. i \in 1..MaxPhotos /\ i <= photos[Photos!Other]
          BY <1>1, <4>1, PhotosBounds
      <4> QED
          BY <4>1, <4>2 DEF RowsOf
    <3> QED
        BY <3>1, <3>2
  <2>2. Cardinality(RowsOf(photos)) = n
    <3>1. Photos!Other \in Holders
        BY DEF Holders
    <3> QED
        BY <2>1, <3>1, RowsOfOne
  <2> QED
      BY <2>2, CountIsRows, PhotosBounds DEF Photos!PhotoLimit
<1>9. PhotosAlone /\ PlaceKept
    BY <1>2 DEF PhotosAlone, PlaceKept
<1>10. Remembered /\ TokenKnown /\ SentOnce
  <2>1. \A f \in Files : photos[f] = 0 /\ wire[f] = 0 /\ handling[f] = "idle"
      BY <1>1, <1>2, PhotosBounds DEF Holders
  <2>2. Unsent = Files
      BY <1>1 DEF Unsent
  <2> QED
      BY <2>1, <2>2 DEF Remembered, TokenKnown, SentOnce, Once, Fresh
<1>11. PageSteady /\ Chosen /\ NothingForgotten
    BY <1>1, <1>6 DEF PageSteady, Chosen, NothingForgotten
<1>12. OnWire
  <2>1. ~upload.waiting /\ losses = 0 /\ \A f \in Files : wire[f] = 0
      BY <1>1, <1>2
  <2>2. ASSUME NEW f \in Files PROVE wire[f] <= losses
    <3>1. wire[f] = losses /\ losses \in Int
        BY <2>1
    <3> QED
        BY <3>1
  <2> QED
      BY <2>1, <2>2 DEF OnWire
<1> QED
    BY <1>7, <1>8, <1>9, <1>10, <1>11, <1>12 DEF PhotosInv

LEMMA PhotosRest == PhotosInv /\ UNCHANGED photosVars => PhotosInv'
<1> SUFFICES ASSUME PhotosInv, UNCHANGED photosVars PROVE PhotosInv'
    OBVIOUS
<1>1. UNCHANGED <<record, photos, saved, wire, handling, upload, losses, others>>
    BY DEF photosVars
<1>2. Photos!TypeOK'
    BY <1>1 DEF PhotosInv, Photos!TypeOK
<1>3. Photos!PhotoLimit' /\ PlaceKept'
    BY <1>1, CountIsRows DEF PhotosInv, Photos!PhotoLimit, PlaceKept
<1>4. PhotosAlone' /\ Remembered' /\ TokenKnown' /\ SentOnce'
    BY <1>1 DEF PhotosInv, PhotosAlone, Remembered, TokenKnown, SentOnce, Once, Fresh, Unsent
<1>5. PageSteady' /\ Chosen' /\ NothingForgotten' /\ OnWire'
    BY <1>1 DEF PhotosInv, PageSteady, Chosen, NothingForgotten, Queued, OnWire
<1> QED
    BY <1>2, <1>3, <1>4, <1>5 DEF PhotosInv

\* No upload starts or ends and no file is sent: photos, and uploads under way,
\* only become fewer.
Quiet ==
    /\ upload'.kind = upload.kind
    /\ \A f \in Holders : photos'[f] <= photos[f]
    /\ \A f \in Files : wire'[f] <= wire[f]
    /\ handling' = handling /\ saved' = saved
    /\ upload.kind = "create" => Unsent' \subseteq Unsent

LEMMA QuietKept ==
    ASSUME PhotosInv, Quiet, photos' \in [Holders -> 0..MaxPhotos],
           wire' \in [Files -> 0..MaxLosses + 1]
    PROVE  /\ Photos!PhotoLimit' /\ PhotosAlone' /\ PlaceKept' /\ Remembered'
           /\ SentOnce' /\ TokenKnown'
<1>1. /\ photos \in [Holders -> 0..MaxPhotos] /\ wire \in [Files -> 0..MaxLosses + 1]
      /\ photos \in [Holders -> Int] /\ photos' \in [Holders -> Int]
      /\ \A f \in Holders : photos[f] \in Nat /\ photos'[f] \in Nat /\ photos'[f] <= photos[f]
    BY PhotoShapes, PhotosBounds DEF Quiet
<1>2. \A f \in Files : /\ photos[f] \in Nat /\ photos'[f] \in Nat /\ photos'[f] <= photos[f]
                       /\ wire[f] \in Nat /\ wire'[f] \in Nat /\ wire'[f] <= wire[f]
    BY <1>1, PhotosBounds DEF Holders, Quiet
<1>3. Cardinality(RowsOf(photos')) <= Cardinality(RowsOf(photos))
  <2>1. PICK ph \in [Holders -> Int], less \in [Holders -> Int] : ph = photos /\ less = photos'
      BY <1>1
  <2> QED
      BY <1>1, <2>1, FewerRows
<1>4. Cardinality(RowsOf(photos')) \in Nat /\ Cardinality(RowsOf(photos)) \in Nat
    BY RowsFinite
<1>5. Photos!Count' <= Photos!Count /\ Photos!Count' \in Nat /\ Photos!Count \in Nat
    BY <1>3, <1>4, CountIsRows
<1>6. Photos!PhotoLimit'
    BY <1>5, PhotosBounds DEF PhotosInv, Photos!PhotoLimit
<1>7. PlaceKept'
    BY <1>5, PhotosBounds DEF PhotosInv, PlaceKept, Quiet
<1>8. PhotosAlone' /\ Remembered'
    BY <1>2 DEF PhotosInv, PhotosAlone, Remembered, Quiet
<1>9. SentOnce'
  <2>1. ASSUME NEW f \in Files, Once(f) PROVE Once(f)'
      BY <1>2, <2>1 DEF Once, Quiet
  <2>2. ASSUME NEW f \in Files, Fresh(f) PROVE Fresh(f)'
      BY <1>2, <2>2 DEF Fresh, Quiet
  <2>3. Unsent \subseteq Files
    <3>1. \A i \in DOMAIN upload.pending : upload.pending[i] \in Files
        BY PhotoShapes DEF PageType
    <3> QED
        BY <3>1 DEF Unsent
  <2> QED
      BY <2>1, <2>2, <2>3 DEF PhotosInv, SentOnce, Quiet
<1>10. TokenKnown'
    BY <1>2 DEF PhotosInv, TokenKnown, Quiet
<1> QED
    BY <1>6, <1>7, <1>8, <1>9, <1>10
\* The pending files as a page changes them.
LEMMA AppendPending ==
    ASSUME NEW s \in Seq(Files), NEW f \in Files
    PROVE  /\ Append(s, f) \in Seq(Files)
           /\ Len(Append(s, f)) = Len(s) + 1
           /\ DOMAIN Append(s, f) = 1..Len(s) + 1
           /\ \A i \in 1..Len(s) : Append(s, f)[i] = s[i]
           /\ Append(s, f)[Len(s) + 1] = f
OBVIOUS

LEMMA RemovePending ==
    ASSUME NEW s \in Seq(Files), NEW i \in 1..Len(s)
    PROVE  /\ Photos!RemoveAt(s, i) \in Seq(Files)
           /\ Len(Photos!RemoveAt(s, i)) = Len(s) - 1
           /\ DOMAIN Photos!RemoveAt(s, i) = 1..Len(s) - 1
           /\ \A j \in 1..Len(s) - 1 :
                Photos!RemoveAt(s, i)[j] = s[IF j < i THEN j ELSE j + 1]
<1>1. Len(s) \in Nat /\ i \in Int /\ 1 <= i /\ i <= Len(s)
    OBVIOUS
<1>2. /\ SubSeq(s, 1, i - 1) \in Seq(Files) /\ Len(SubSeq(s, 1, i - 1)) = i - 1
      /\ \A j \in 1..i - 1 : SubSeq(s, 1, i - 1)[j] = s[j]
    BY <1>1
<1>3. /\ SubSeq(s, i + 1, Len(s)) \in Seq(Files) /\ Len(SubSeq(s, i + 1, Len(s))) = Len(s) - i
      /\ \A j \in 1..Len(s) - i : SubSeq(s, i + 1, Len(s))[j] = s[i + j]
    BY <1>1
<1>4. Photos!RemoveAt(s, i) = SubSeq(s, 1, i - 1) \o SubSeq(s, i + 1, Len(s))
    BY DEF Photos!RemoveAt
<1>5. PICK a \in Seq(Files), b \in Seq(Files) :
        /\ Photos!RemoveAt(s, i) = a \o b
        /\ Len(a) = i - 1 /\ Len(b) = Len(s) - i
        /\ \A j \in 1..i - 1 : a[j] = s[j]
        /\ \A j \in 1..Len(s) - i : b[j] = s[i + j]
    BY <1>2, <1>3, <1>4
<1>6. /\ a \o b \in Seq(Files) /\ Len(a \o b) = Len(s) - 1
      /\ DOMAIN (a \o b) = 1..Len(s) - 1
  <2>1. a \o b \in Seq(Files) /\ Len(a \o b) = Len(a) + Len(b)
      OBVIOUS
  <2>2. Len(a) + Len(b) = Len(s) - 1
      BY <1>1, <1>5
  <2>3. DOMAIN (a \o b) = 1..Len(a \o b)
      BY <2>1
  <2> QED
      BY <2>1, <2>2, <2>3
<1>7. ASSUME NEW j \in 1..Len(s) - 1
      PROVE  (a \o b)[j] = s[IF j < i THEN j ELSE j + 1]
  <2>1. CASE j < i
    <3>1. j \in 1..Len(a) /\ (a \o b)[j] = a[j]
        BY <1>1, <1>5, <2>1
    <3> QED
        BY <1>1, <1>5, <2>1, <3>1
  <2>2. CASE ~(j < i)
    <3>1. j \in Int /\ j - Len(a) \in 1..Len(b) /\ i + (j - Len(a)) = j + 1
        BY <1>1, <1>5, <2>2
    <3>2. (a \o b)[j] = b[j - Len(a)]
        BY <1>1, <1>5, <2>2
    <3>3. b[j - Len(a)] = s[i + (j - Len(a))]
        BY <1>5, <3>1
    <3> QED
        BY <2>2, <3>1, <3>2, <3>3
  <2> QED
      BY <2>1, <2>2
<1> QED
    BY <1>5, <1>6, <1>7

LEMMA TailPending ==
    ASSUME NEW s \in Seq(Files), s # <<>>
    PROVE  /\ Tail(s) \in Seq(Files)
           /\ Len(s) \in Nat /\ Len(s) > 0 /\ Head(s) = s[1] /\ Head(s) \in Files
           /\ Len(Tail(s)) = Len(s) - 1
           /\ DOMAIN Tail(s) = 1..Len(s) - 1
           /\ \A j \in 1..Len(s) - 1 : Tail(s)[j] = s[j + 1]
OBVIOUS
LEMMA QuietStep ==
    ASSUME PhotosInv, Quiet,
           record' \in BOOLEAN, photos' \in [Holders -> 0..MaxPhotos],
           wire' \in [Files -> 0..MaxLosses + 1],
           upload' \in PageType, upload'.tiles + Len(upload'.pending) <= MaxPhotos,
           losses' \in 0..MaxLosses, others' = others,
           PageSteady', Chosen', NothingForgotten', OnWire'
    PROVE  PhotosInv'
<1>1. Photos!TypeOK'
    BY PhotoShapes, ShapesKept DEF Quiet
<1> QED
    BY <1>1, QuietKept DEF PhotosInv

\* Before the page uploads, it waits for nothing.
LEMMA UnlockedPage ==
    ASSUME PhotosInv, upload.state \in {"editing", "saving"}
    PROVE  /\ ~upload.waiting /\ Unsent = Files
           /\ \A f \in Files : wire[f] <= losses
<1>1. ~upload.waiting
    BY DEF PhotosInv, PageSteady
<1> QED
    BY <1>1 DEF PhotosInv, OnWire, Unsent

LEMMA Same ==
    ASSUME PhotosInv, UNCHANGED <<photos, wire>>
    PROVE  /\ photos' \in [Holders -> 0..MaxPhotos] /\ wire' \in [Files -> 0..MaxLosses + 1]
           /\ \A f \in Holders : photos'[f] <= photos[f]
           /\ \A f \in Files : wire'[f] <= wire[f]
BY PhotoShapes, PhotosBounds

LEMMA FileAdded ==
    ASSUME PhotosInv, NEW f \in Files, Photos!AddFile(f)
    PROVE  PhotosInv'
<1>1. /\ UNCHANGED <<record, photos, saved, wire, handling, losses, others>>
      /\ upload.state \in {"editing", "saving"} /\ f \notin upload.chosen
      /\ upload.tiles + Len(upload.pending) < MaxPhotos
      /\ upload' = [upload EXCEPT !.pending = Append(@, f), !.chosen = @ \cup {f}]
    BY DEF Photos!AddFile, Photos!Unlocked, Photos!HasRoom
<1>2. PICK s \in Seq(Files) : s = upload.pending
    BY PhotoShapes DEF PageType
<1>3. /\ Append(s, f) \in Seq(Files) /\ Len(Append(s, f)) = Len(s) + 1
      /\ DOMAIN Append(s, f) = 1..Len(s) + 1 /\ DOMAIN s = 1..Len(s) /\ Len(s) \in Nat
      /\ \A i \in 1..Len(s) : Append(s, f)[i] = s[i]
      /\ Append(s, f)[Len(s) + 1] = f
    BY AppendPending
<1>4. /\ upload' \in PageType /\ upload'.pending = Append(s, f)
      /\ upload'.chosen = upload.chosen \cup {f} /\ upload'.back = upload.back
      /\ upload'.tiles = upload.tiles /\ upload'.kind = upload.kind
      /\ upload'.state = upload.state /\ upload'.waiting = upload.waiting
    BY <1>1, <1>2, <1>3, PhotoShapes DEF PageType
<1>5. upload'.tiles + Len(upload'.pending) <= MaxPhotos
    BY <1>1, <1>2, <1>3, <1>4, PhotoShapes, PhotosBounds
<1>6. ~upload.waiting /\ \A g \in Files : wire[g] <= losses
    BY <1>1, UnlockedPage
<1>7. Unsent' = Unsent
    BY <1>1, <1>4, UnlockedPage DEF Unsent
<1>8. Quiet
    BY <1>1, <1>4, <1>7, Same DEF Quiet
<1>9. PageSteady'
    BY <1>1, <1>4, <1>6 DEF PageSteady
<1>10. Chosen'
  <2>1. \A i \in 1..Len(s) : s[i] \in upload.chosen
      BY <1>2, <1>3 DEF PhotosInv, Chosen
  <2>2. \A i, j \in 1..Len(s) : s[i] = s[j] => i = j
      BY <1>2, <1>3 DEF PhotosInv, Chosen
  <2>3. \A i \in 1..Len(s) + 1 : i \in 1..Len(s) \/ i = Len(s) + 1
      BY <1>3
  <2>4. \A i \in 1..Len(s) + 1 : Append(s, f)[i] \in upload.chosen \cup {f}
      BY <1>3, <2>1, <2>3
  <2>5. \A i, j \in 1..Len(s) + 1 : Append(s, f)[i] = Append(s, f)[j] => i = j
      BY <1>1, <1>3, <2>1, <2>2, <2>3
  <2> QED
      BY <1>3, <1>4, <2>4, <2>5 DEF Chosen
<1>11. NothingForgotten'
  <2>1. upload.chosen \ upload.back \subseteq saved \cup {s[i] : i \in 1..Len(s)}
      BY <1>2, <1>3 DEF PhotosInv, NothingForgotten, Queued
  <2>2. {s[i] : i \in 1..Len(s)} \cup {f} \subseteq {Append(s, f)[i] : i \in 1..Len(s) + 1}
    <3>1. \A i \in 1..Len(s) : i \in 1..Len(s) + 1
        BY <1>3
    <3>2. Len(s) + 1 \in 1..Len(s) + 1
        BY <1>3
    <3> QED
        BY <1>3, <3>1, <3>2
  <2>3. (upload.chosen \cup {f}) \ upload.back
            \subseteq saved \cup {Append(s, f)[i] : i \in 1..Len(s) + 1}
      BY <2>1, <2>2
  <2>4. Queued' = {Append(s, f)[i] : i \in 1..Len(s) + 1}
      BY <1>3, <1>4 DEF Queued
  <2> QED
      BY <1>1, <1>4, <2>3, <2>4 DEF NothingForgotten
<1>12. OnWire'
    BY <1>1, <1>4, <1>6 DEF OnWire
<1> QED
    BY <1>1, <1>4, <1>5, <1>8, <1>9, <1>10, <1>11, <1>12, PhotoShapes, Same, QuietStep

LEMMA FileTakenBack ==
    ASSUME PhotosInv, NEW i \in DOMAIN upload.pending, Photos!RemoveFile(i)
    PROVE  PhotosInv'
<1>1. /\ UNCHANGED <<record, photos, saved, wire, handling, losses, others>>
      /\ upload.state \in {"editing", "saving"}
      /\ upload' = [upload EXCEPT !.pending = Photos!RemoveAt(@, i),
                                  !.back = @ \cup {upload.pending[i]}]
    BY DEF Photos!RemoveFile, Photos!Unlocked
<1>2. PICK s \in Seq(Files) : s = upload.pending
    BY PhotoShapes DEF PageType
<1>3. PICK k \in 1..Len(s) : k = i
    BY <1>2
<1>4. PICK t \in Seq(Files) :
        /\ t = Photos!RemoveAt(s, k) /\ Len(t) = Len(s) - 1 /\ DOMAIN t = 1..Len(s) - 1
        /\ \A j \in 1..Len(s) - 1 : t[j] = s[IF j < k THEN j ELSE j + 1]
    BY RemovePending
<1>5. /\ upload' \in PageType /\ upload'.pending = t
      /\ upload'.chosen = upload.chosen /\ upload'.back = upload.back \cup {s[k]}
      /\ upload'.tiles = upload.tiles /\ upload'.kind = upload.kind
      /\ upload'.state = upload.state /\ upload'.waiting = upload.waiting
  <2>1. upload' = [upload EXCEPT !.pending = t, !.back = @ \cup {s[k]}]
      BY <1>1, <1>2, <1>3, <1>4
  <2>2. s[k] \in Files
      OBVIOUS
  <2>3. upload \in PageType
      BY PhotoShapes
  <2> QED
      BY <2>1, <2>2, <2>3 DEF PageType
<1>6. upload'.tiles + Len(upload'.pending) <= MaxPhotos
    BY <1>2, <1>4, <1>5, PhotoShapes, PhotosBounds
<1>7. ~upload.waiting /\ \A g \in Files : wire[g] <= losses
    BY <1>1, UnlockedPage
<1>8. Unsent' = Unsent
    BY <1>1, <1>5, UnlockedPage DEF Unsent
<1>9. Quiet
    BY <1>1, <1>5, <1>8, Same DEF Quiet
<1>10. PageSteady'
    BY <1>1, <1>5, <1>7 DEF PageSteady
<1>11. DOMAIN s = 1..Len(s) /\ Len(s) \in Nat
    OBVIOUS
<1>12. Chosen'
  <2>1. \A j \in 1..Len(s) : s[j] \in upload.chosen
      BY <1>2, <1>11 DEF PhotosInv, Chosen
  <2>2. \A j, l \in 1..Len(s) : s[j] = s[l] => j = l
      BY <1>2, <1>11 DEF PhotosInv, Chosen
  <2>3. \A j \in 1..Len(s) - 1 : (IF j < k THEN j ELSE j + 1) \in 1..Len(s)
      BY <1>11
  <2>4. \A j \in 1..Len(s) - 1 : t[j] \in upload.chosen
      BY <1>4, <2>1, <2>3
  <2>5. ASSUME NEW j \in 1..Len(s) - 1, NEW l \in 1..Len(s) - 1, t[j] = t[l]
        PROVE  j = l
    <3>1. (IF j < k THEN j ELSE j + 1) = (IF l < k THEN l ELSE l + 1)
        BY <1>4, <2>2, <2>3, <2>5
    <3> QED
        BY <1>11, <3>1
  <2> QED
      BY <1>4, <1>5, <2>4, <2>5 DEF Chosen
<1>13. NothingForgotten'
  <2>1. upload.chosen \ upload.back \subseteq saved \cup {s[j] : j \in 1..Len(s)}
      BY <1>2, <1>11 DEF PhotosInv, NothingForgotten, Queued
  <2>2. ASSUME NEW j \in 1..Len(s), j # k PROVE s[j] \in {t[l] : l \in 1..Len(s) - 1}
    <3>1. CASE j < k
      <4>1. j \in 1..Len(s) - 1
          BY <1>11, <3>1
      <4> QED
          BY <1>4, <3>1, <4>1
    <3>2. CASE j > k
      <4>1. j - 1 \in 1..Len(s) - 1 /\ ~(j - 1 < k) /\ (j - 1) + 1 = j
          BY <1>11, <3>2
      <4>2. t[j - 1] = s[j]
          BY <1>4, <4>1
      <4> QED
          BY <4>1, <4>2
    <3> QED
        BY <2>2, <3>1, <3>2
  <2>3. upload.chosen \ (upload.back \cup {s[k]}) \subseteq saved \cup {t[l] : l \in 1..Len(s) - 1}
      BY <2>1, <2>2
  <2>4. Queued' = {t[l] : l \in 1..Len(s) - 1}
      BY <1>4, <1>5 DEF Queued
  <2> QED
      BY <1>1, <1>5, <2>3, <2>4 DEF NothingForgotten
<1>14. OnWire'
    BY <1>1, <1>5, <1>7 DEF OnWire
<1> QED
    BY <1>1, <1>5, <1>6, <1>9, <1>10, <1>12, <1>13, <1>14, PhotoShapes, Same, QuietStep
\* The page keeps its files.
LEMMA SameFiles ==
    ASSUME PhotosInv, upload'.pending = upload.pending, upload'.chosen = upload.chosen,
           upload'.back = upload.back, saved \subseteq saved'
    PROVE  Chosen' /\ NothingForgotten'
BY DEF PhotosInv, Chosen, NothingForgotten, Queued

LEMMA WirePerFile ==
    ASSUME PhotosInv
    PROVE  /\ losses \in Nat
           /\ \A f \in Files : /\ wire[f] \in Nat /\ wire[f] <= losses + 1
                               /\ ~(upload.waiting /\ upload.pending[1] = f) => wire[f] <= losses
<1>1. losses \in Nat /\ \A f \in Files : wire[f] \in Nat
    BY PhotoShapes, PhotosBounds
<1> QED
    BY <1>1 DEF PhotosInv, OnWire

LEMMA PhotoDeleted ==
    ASSUME PhotosInv, Photos!DeletePhoto
    PROVE  PhotosInv'
<1>1. /\ UNCHANGED <<record, saved, wire, handling, losses, others>>
      /\ upload.tiles > 0 /\ photos[Photos!Other] > 0
      /\ photos' = [photos EXCEPT ![Photos!Other] = @ - 1]
      /\ upload' = [upload EXCEPT !.tiles = @ - 1]
    BY DEF Photos!DeletePhoto
<1>2. PICK n \in 0..MaxPhotos : n = upload.tiles - 1
    BY <1>1, PhotoShapes, PhotosBounds DEF PageType
<1>3. /\ upload' \in PageType /\ upload'.pending = upload.pending
      /\ upload'.chosen = upload.chosen /\ upload'.back = upload.back
      /\ upload'.tiles = n /\ upload'.kind = upload.kind
      /\ upload'.state = upload.state /\ upload'.waiting = upload.waiting
    BY <1>1, <1>2, PhotoShapes DEF PageType
<1>4. upload'.tiles + Len(upload'.pending) <= MaxPhotos
    BY <1>2, <1>3, PhotoShapes, PhotosBounds
<1>5. /\ photos' \in [Holders -> 0..MaxPhotos]
      /\ \A f \in Holders : photos'[f] <= photos[f]
    BY <1>1, PhotoShapes, PhotosBounds DEF Holders
<1>6. Unsent' = Unsent
    BY <1>3 DEF Unsent
<1>7. Quiet
    BY <1>1, <1>3, <1>5, <1>6, PhotoShapes, PhotosBounds DEF Quiet
<1>8. Chosen' /\ NothingForgotten'
    BY <1>1, <1>3, SameFiles
<1>9. PageSteady' /\ OnWire'
    BY <1>1, <1>3 DEF PhotosInv, PageSteady, OnWire
<1> QED
    BY <1>1, <1>3, <1>4, <1>5, <1>7, <1>8, <1>9, PhotoShapes, QuietStep

\* The state of the page changes before it uploads.
LEMMA StateMoved ==
    ASSUME PhotosInv, UNCHANGED <<photos, saved, wire, handling, losses, others>>,
           record' \in BOOLEAN, upload.state \in {"editing", "saving"},
           NEW state \in {"editing", "saving", "uploading", "done"},
           upload' = [upload EXCEPT !.state = state],
           state = "done" => upload.pending = <<>>,
           state = "uploading" => upload.pending # <<>>
    PROVE  PhotosInv'
<1>1. /\ upload' \in PageType /\ upload'.pending = upload.pending
      /\ upload'.chosen = upload.chosen /\ upload'.back = upload.back
      /\ upload'.tiles = upload.tiles /\ upload'.kind = upload.kind
      /\ upload'.state = state /\ upload'.waiting = upload.waiting
    BY PhotoShapes DEF PageType, Photos!States
<1>2. ~upload.waiting /\ Unsent = Files /\ \A f \in Files : wire[f] <= losses
    BY UnlockedPage
<1>3. Unsent' \subseteq Unsent
  <2>1. \A i \in DOMAIN upload.pending : upload.pending[i] \in Files
      BY PhotoShapes DEF PageType
  <2> QED
      BY <1>1, <1>2, <2>1 DEF Unsent
<1>4. Quiet
    BY <1>1, <1>3, Same DEF Quiet
<1>5. Chosen' /\ NothingForgotten'
    BY <1>1, SameFiles
<1>6. PageSteady' /\ OnWire'
    BY <1>1, <1>2 DEF PageSteady, OnWire
<1>7. upload'.tiles + Len(upload'.pending) <= MaxPhotos
    BY <1>1, PhotoShapes
<1> QED
    BY <1>1, <1>4, <1>5, <1>6, <1>7, PhotoShapes, Same, QuietStep

LEMMA FormMoved ==
    ASSUME PhotosInv, Photos!Submit \/ Photos!Save
    PROVE  PhotosInv'
<1>1. CASE Photos!Submit
  <2>1. PICK state \in {"editing", "saving", "uploading", "done"} : state = "saving"
      OBVIOUS
  <2>2. /\ UNCHANGED <<record, photos, saved, wire, handling, losses, others>>
        /\ upload.state = "editing" /\ upload' = [upload EXCEPT !.state = state]
      BY <1>1, <2>1 DEF Photos!Submit
  <2>3. record' \in BOOLEAN
      BY <2>2, PhotoShapes
  <2> QED
      BY <2>1, <2>2, <2>3, StateMoved
<1>2. CASE Photos!Save
  <2>1. PICK state \in {"editing", "saving", "uploading", "done"} :
            /\ upload' = [upload EXCEPT !.state = state]
            /\ state = "done" => upload.pending = <<>>
            /\ state = "uploading" => upload.pending # <<>>
      BY <1>2 DEF Photos!Save
  <2>2. /\ UNCHANGED <<photos, saved, wire, handling, losses, others>>
        /\ upload.state = "saving" /\ record' \in BOOLEAN
      BY <1>2, PhotoShapes DEF Photos!Save
  <2> QED
      BY <2>1, <2>2, StateMoved
<1> QED
    BY <1>1, <1>2

\* The page is told that its upload failed, or nothing.
Stops == upload' = upload \/ (upload.waiting /\ upload' = Photos!Stop)

LEMMA StopKeeps ==
    ASSUME PhotosInv, Stops, saved \subseteq saved'
    PROVE  /\ upload' \in PageType /\ upload'.tiles + Len(upload'.pending) <= MaxPhotos
           /\ upload'.kind = upload.kind /\ upload'.pending = upload.pending
           /\ upload.kind = "create" => Unsent' \subseteq Unsent
           /\ PageSteady' /\ Chosen' /\ NothingForgotten'
<1>1. CASE upload' = upload
  <2>1. Chosen' /\ NothingForgotten'
      BY <1>1, SameFiles
  <2> QED
      BY <1>1, <2>1, PhotoShapes DEF PhotosInv, PageSteady, Unsent
<1>2. CASE upload.waiting /\ upload' = Photos!Stop
  <2>1. PICK state \in {"editing", "partial"} :
            /\ upload' = [upload EXCEPT !.waiting = FALSE, !.state = state]
            /\ state = "editing" => upload.kind = "edit"
      BY <1>2 DEF Photos!Stop
  <2>2. /\ upload' \in PageType /\ upload'.pending = upload.pending
        /\ upload'.chosen = upload.chosen /\ upload'.back = upload.back
        /\ upload'.tiles = upload.tiles /\ upload'.kind = upload.kind
        /\ upload'.state = state /\ ~upload'.waiting
      BY <2>1, PhotoShapes DEF PageType, Photos!States
  <2>3. Chosen' /\ NothingForgotten'
      BY <2>2, SameFiles
  <2>4. PageSteady'
      BY <2>2 DEF PageSteady
  <2>5. upload.kind = "create" => Unsent' = {}
      BY <2>1, <2>2 DEF Unsent
  <2>6. upload'.tiles + Len(upload'.pending) <= MaxPhotos
      BY <2>2, PhotoShapes
  <2> QED
      BY <2>2, <2>3, <2>4, <2>5, <2>6
<1> QED
    BY <1>1, <1>2 DEF Stops

LEMMA StopWaits ==
    ASSUME PhotosInv, Stops
    PROVE  upload' = upload \/ ~upload'.waiting
BY PhotoShapes DEF Stops, Photos!Stop, PageType

\* Uploads are lost on their way, or given up.
LEMMA UploadLost ==
    ASSUME PhotosInv, Photos!GiveUp \/ \E f \in Files : Photos!Drop(f)
    PROVE  PhotosInv'
<1>1. /\ UNCHANGED <<record, photos, saved, handling, others>>
      /\ losses < MaxLosses /\ losses' = losses + 1 /\ Stops
    BY DEF Photos!GiveUp, Photos!Drop, Stops
<1>2. /\ wire' \in [Files -> 0..MaxLosses + 1]
      /\ \A f \in Files : wire'[f] <= wire[f]
  <2>1. CASE Photos!GiveUp
    <3>1. UNCHANGED <<photos, wire>>
        BY <2>1 DEF Photos!GiveUp
    <3> QED
        BY <3>1, Same
  <2>2. CASE \E f \in Files : Photos!Drop(f)
    <3>1. PICK f \in Files : wire[f] > 0 /\ wire' = [wire EXCEPT ![f] = @ - 1]
        BY <2>2 DEF Photos!Drop
    <3> QED
        BY <3>1, PhotoShapes, PhotosBounds
  <2> QED
      BY <2>1, <2>2
<1>3. losses' \in 0..MaxLosses
    BY <1>1, PhotoShapes, PhotosBounds
<1>4. \A f \in Holders : photos'[f] <= photos[f]
    BY <1>1, PhotoShapes, PhotosBounds
<1>5. /\ upload' \in PageType /\ upload'.tiles + Len(upload'.pending) <= MaxPhotos
      /\ upload'.kind = upload.kind /\ PageSteady' /\ Chosen' /\ NothingForgotten'
      /\ upload.kind = "create" => Unsent' \subseteq Unsent
    BY <1>1, StopKeeps
<1>6. Quiet
    BY <1>1, <1>2, <1>4, <1>5 DEF Quiet
<1>7. OnWire'
  <2>1. ASSUME NEW f \in Files
        PROVE  wire'[f] \in Int /\ wire'[f] <= losses' /\ losses' \in Int
      BY <1>1, <1>2, WirePerFile, PhotosBounds
  <2> QED
      BY <2>1 DEF OnWire
<1> QED
    BY <1>1, <1>2, <1>3, <1>5, <1>6, <1>7, PhotoShapes, QuietStep

LEMMA UploadNotFound ==
    ASSUME PhotosInv, NEW f \in Files, Photos!NotFound(f)
    PROVE  PhotosInv'
<1>1. /\ UNCHANGED <<record, photos, saved, handling, losses, others>>
      /\ wire[f] > 0 /\ wire' = [wire EXCEPT ![f] = @ - 1] /\ Stops
      /\ upload' = upload \/ (upload.pending[1] = f /\ wire[f] = 1)
  <2>1. upload.waiting => Head(upload.pending) = upload.pending[1]
      BY PhotoShapes, TailPending DEF PhotosInv, PageSteady, PageType
  <2> QED
      BY <2>1 DEF Photos!NotFound, Stops
<1>2. /\ wire' \in [Files -> 0..MaxLosses + 1]
      /\ \A g \in Files : wire'[g] <= wire[g] /\ wire'[g] \in Int /\ wire[g] \in Int
      /\ wire'[f] = wire[f] - 1
    BY <1>1, PhotoShapes, PhotosBounds
<1>3. \A g \in Holders : photos'[g] <= photos[g]
    BY <1>1, PhotoShapes, PhotosBounds
<1>4. /\ upload' \in PageType /\ upload'.tiles + Len(upload'.pending) <= MaxPhotos
      /\ upload'.kind = upload.kind /\ PageSteady' /\ Chosen' /\ NothingForgotten'
      /\ upload.kind = "create" => Unsent' \subseteq Unsent
    BY <1>1, StopKeeps
<1>5. Quiet
    BY <1>1, <1>2, <1>3, <1>4 DEF Quiet
<1>6. OnWire'
  <2>1. CASE upload' = upload
    <3>1. ASSUME NEW g \in Files
          PROVE  wire'[g] <= IF upload.waiting /\ upload.pending[1] = g THEN losses + 1 ELSE losses
        BY <1>2, WirePerFile
    <3> QED
        BY <1>1, <2>1, <3>1 DEF OnWire
  <2>2. CASE upload' # upload
    <3>1. ASSUME NEW g \in Files PROVE wire'[g] <= losses
        BY <1>1, <1>2, <2>2, WirePerFile
    <3>2. ~upload'.waiting
        BY <1>1, <2>2, StopWaits
    <3> QED
        BY <1>1, <3>1, <3>2 DEF OnWire
  <2> QED
      BY <2>1, <2>2
<1>7. photos' \in [Holders -> 0..MaxPhotos] /\ losses' \in 0..MaxLosses
    BY <1>1, PhotoShapes
<1> QED
    BY <1>1, <1>2, <1>4, <1>5, <1>6, <1>7, PhotoShapes, QuietStep

\* Photos go, one or all of them.
LEMMA PhotosGone ==
    ASSUME PhotosInv, (\E f \in Holders : Photos!DeleteElsewhere(f)) \/ Photos!DeleteRecord
    PROVE  PhotosInv'
<1>1. /\ UNCHANGED <<saved, wire, handling, upload, losses, others>>
      /\ record' \in BOOLEAN
    BY PhotoShapes DEF Photos!DeleteElsewhere, Photos!DeleteRecord
<1>2. /\ photos' \in [Holders -> 0..MaxPhotos]
      /\ \A g \in Holders : photos'[g] <= photos[g]
  <2>1. CASE \E f \in Holders : Photos!DeleteElsewhere(f)
    <3>1. PICK f \in Holders : photos[f] > 0 /\ photos' = [photos EXCEPT ![f] = @ - 1]
        BY <2>1 DEF Photos!DeleteElsewhere
    <3> QED
        BY <3>1, PhotoShapes, PhotosBounds
  <2>2. CASE Photos!DeleteRecord
    <3>1. photos' = [f \in Holders |-> 0]
        BY <2>2, PhotoShapes DEF Photos!DeleteRecord
    <3> QED
        BY <3>1, PhotoShapes, PhotosBounds
  <2> QED
      BY <2>1, <2>2
<1>3. \A g \in Files : wire'[g] <= wire[g]
    BY <1>1, PhotoShapes, PhotosBounds
<1>4. Quiet
    BY <1>1, <1>2, <1>3 DEF Quiet, Unsent
<1>5. Chosen' /\ NothingForgotten'
    BY <1>1, SameFiles
<1>6. PageSteady' /\ OnWire'
    BY <1>1 DEF PhotosInv, PageSteady, OnWire
<1> QED
    BY <1>1, <1>2, <1>4, <1>5, <1>6, PhotoShapes, QuietStep
LEMMA HeadPending ==
    ASSUME PhotosInv, upload.waiting \/ upload.state = "uploading"
    PROVE  /\ upload.state = "uploading" /\ upload.pending # <<>>
           /\ upload.pending \in Seq(Files) /\ Head(upload.pending) = upload.pending[1]
           /\ upload.pending[1] \in Files /\ 1 \in DOMAIN upload.pending
<1>1. upload.state = "uploading" /\ upload.pending # <<>>
    BY DEF PhotosInv, PageSteady
<1>2. upload.pending \in Seq(Files)
    BY PhotoShapes DEF PageType
<1>3. PICK s \in Seq(Files) : s = upload.pending
    BY <1>2
<1> QED
    BY <1>1, <1>3, TailPending

LEMMA UploadSent ==
    ASSUME PhotosInv, Photos!SendNext
    PROVE  PhotosInv'
<1>1. PICK f \in Files : f = upload.pending[1] /\ f = Head(upload.pending)
    BY HeadPending DEF Photos!SendNext
<1>2. /\ UNCHANGED <<record, photos, saved, handling, losses, others>>
      /\ upload.state = "uploading" /\ ~upload.waiting
      /\ wire' = [wire EXCEPT ![f] = @ + 1]
      /\ upload' = [upload EXCEPT !.waiting = TRUE]
    BY <1>1 DEF Photos!SendNext
<1>3. /\ upload' \in PageType /\ upload'.pending = upload.pending
      /\ upload'.chosen = upload.chosen /\ upload'.back = upload.back
      /\ upload'.tiles = upload.tiles /\ upload'.kind = upload.kind
      /\ upload'.state = upload.state /\ upload'.waiting
    BY <1>2, PhotoShapes DEF PageType
<1>4. /\ losses \in Nat /\ losses <= MaxLosses /\ MaxLosses \in Nat
      /\ \A g \in Files : wire[g] \in Nat /\ wire[g] <= losses
    BY <1>2, WirePerFile, PhotoShapes, PhotosBounds
<1>5. /\ wire'[f] = wire[f] + 1
      /\ \A g \in Files \ {f} : wire'[g] = wire[g]
    BY <1>2, PhotoShapes
<1>6. wire' \in [Files -> 0..MaxLosses + 1]
    BY <1>2, <1>4, <1>5, PhotoShapes
<1>7. Photos!TypeOK'
  <2>1. upload'.tiles + Len(upload'.pending) <= MaxPhotos
      BY <1>3, PhotoShapes
  <2> QED
      BY <1>2, <1>3, <1>6, <2>1, PhotoShapes, ShapesKept
<1>8. Photos!PhotoLimit' /\ PlaceKept'
    BY <1>2, CountIsRows DEF PhotosInv, Photos!PhotoLimit, PlaceKept
<1>9. PhotosAlone' /\ Remembered' /\ TokenKnown'
    BY <1>2, <1>3 DEF PhotosInv, PhotosAlone, Remembered, TokenKnown
<1>10. PageSteady'
    BY <1>2, <1>3, HeadPending DEF PageSteady
<1>11. Chosen' /\ NothingForgotten'
    BY <1>2, <1>3, SameFiles
<1>12. OnWire'
  <2>1. ASSUME NEW g \in Files
        PROVE  wire'[g] <= IF upload'.waiting /\ upload'.pending[1] = g THEN losses + 1 ELSE losses
    <3>1. CASE g = f
        BY <1>1, <1>3, <1>4, <1>5, <3>1
    <3>2. CASE g # f
        BY <1>1, <1>3, <1>4, <1>5, <3>2
    <3> QED
        BY <3>1, <3>2
  <2> QED
      BY <1>2, <2>1 DEF OnWire
<1>13. SentOnce'
  <2>1. ASSUME upload.kind = "create" PROVE SentOnce'
    <3>1. Unsent = {upload.pending[i] : i \in DOMAIN upload.pending}
        BY <1>2 DEF Unsent
    <3>2. Fresh(f) /\ \A g \in Unsent : Fresh(g)
        BY <1>1, <1>2, <2>1, <3>1, HeadPending DEF PhotosInv, SentOnce
    <3>3. Unsent' = {upload.pending[i] : i \in {j \in DOMAIN upload.pending : j > 1}}
        BY <1>2, <1>3 DEF Unsent
    <3>4. \A g \in Unsent' : g \in Unsent /\ g # f
        BY <1>1, <1>2, <3>1, <3>3, HeadPending DEF PhotosInv, Chosen
    <3>5. Unsent \subseteq Files
      <4>1. \A i \in DOMAIN upload.pending : upload.pending[i] \in Files
          BY PhotoShapes DEF PageType
      <4> QED
          BY <3>1, <4>1
    <3>6. ASSUME NEW g \in Unsent' PROVE Fresh(g)'
        BY <1>2, <1>5, <3>2, <3>4, <3>5, <3>6 DEF Fresh
    <3>7. ASSUME NEW g \in Files PROVE Once(g)'
      <4>1. CASE g = f
          BY <1>2, <1>5, <3>2, <4>1 DEF Once, Fresh
      <4>2. CASE g # f
          BY <1>2, <1>5, <2>1, <4>2 DEF PhotosInv, SentOnce, Once
      <4> QED
          BY <4>1, <4>2
    <3> QED
        BY <3>6, <3>7 DEF SentOnce
  <2> QED
      BY <1>3, <2>1 DEF SentOnce
<1> QED
    BY <1>7, <1>8, <1>9, <1>10, <1>11, <1>12, <1>13 DEF PhotosInv

\* An upload gets the lock: what it finds under it stays true until it commits.
LEMMA UploadBegun ==
    ASSUME PhotosInv, NEW f \in Holders, Photos!Begin(f),
           UNCHANGED <<record, photos, saved, upload, losses>>, others' \in 0..MaxOthers,
           \/ f = Photos!Other /\ wire' = wire
           \/ f \in Files /\ wire[f] > 0 /\ wire' = [wire EXCEPT ![f] = @ - 1]
    PROVE  PhotosInv'
<1>1. /\ handling' = [handling EXCEPT ![f] = Photos!Fate(f)]
      /\ \A g \in Holders : handling[g] = "idle"
    BY PhotoShapes DEF Photos!Begin, Photos!MayLock
<1>2. PICK fate \in {"known", "full", "new"} :
        /\ handling'[f] = fate /\ handling' = [handling EXCEPT ![f] = fate]
        /\ fate = "known" => f # Photos!Other /\ photos[f] > 0
        /\ fate = "new" => ~(Photos!Count >= MaxPhotos)
        /\ fate = "new" /\ upload.kind = "edit" /\ f # Photos!Other => ~(photos[f] > 0)
  <2>1. Photos!Fate(f) \in {"known", "full", "new"}
      BY DEF Photos!Fate
  <2>2. handling'[f] = Photos!Fate(f)
      BY <1>1, PhotoShapes
  <2> QED
      BY <1>1, <2>1, <2>2 DEF Photos!Fate, Photos!Tokened
<1>3. /\ \A g \in Holders \ {f} : handling'[g] = "idle"
      /\ handling' \in [Holders -> Photos!Fates]
    BY <1>1, <1>2, PhotoShapes DEF Photos!Fates
<1>4. Files \subseteq Holders /\ Photos!Other \notin Files
    BY PhotosBounds DEF Holders
<1>5. /\ wire' \in [Files -> 0..MaxLosses + 1]
      /\ \A g \in Files : wire'[g] \in Nat /\ wire[g] \in Nat /\ wire'[g] <= wire[g]
      /\ \A g \in Files \ {f} : wire'[g] = wire[g]
      /\ f \in Files => wire'[f] = wire[f] - 1 /\ wire[f] > 0
  <2>1. wire \in [Files -> 0..MaxLosses + 1] /\ \A g \in Files : wire[g] \in Nat
      BY PhotoShapes, PhotosBounds
  <2>2. CASE f \notin Files
      BY <1>4, <2>1, <2>2
  <2>3. CASE f \in Files
    <3>1. wire[f] > 0 /\ wire' = [wire EXCEPT ![f] = @ - 1]
        BY <1>4, <2>3
    <3>2. wire'[f] = wire[f] - 1 /\ \A g \in Files \ {f} : wire'[g] = wire[g]
        BY <2>1, <2>3, <3>1
    <3>3. wire[f] - 1 \in 0..MaxLosses + 1
        BY <2>1, <2>3, <3>1, PhotosBounds
    <3> QED
        BY <2>1, <2>3, <3>1, <3>2, <3>3
  <2> QED
      BY <2>2, <2>3
<1>6. \A g \in Holders : photos[g] \in Nat
    BY PhotoShapes, PhotosBounds
<1>7. Photos!TypeOK'
    BY <1>3, <1>5, PhotoShapes, ShapesKept
<1>8. Photos!PhotoLimit' /\ PlaceKept'
  <2>1. Photos!Count \in Nat /\ Photos!Count' = Photos!Count
      BY CountIsRows, RowsFinite
  <2>2. Photos!PhotoLimit'
      BY <2>1 DEF PhotosInv, Photos!PhotoLimit
  <2>3. \A g \in Holders : handling'[g] = "new" => g = f
      BY <1>3
  <2>4. handling'[f] = "new" => Photos!Count' < MaxPhotos
      BY <1>2, <2>1, PhotosBounds
  <2> QED
      BY <2>2, <2>3, <2>4 DEF PlaceKept
<1>9. PhotosAlone'
    BY <1>3 DEF PhotosAlone
<1>10. Remembered'
  <2>1. \A g \in Files : photos[g] > 0 => g \in saved
      BY DEF PhotosInv, Remembered
  <2>2. ASSUME NEW g \in Files, handling'[g] = "known" PROVE g \in saved
      BY <1>2, <1>3, <1>4, <2>1, <2>2
  <2> QED
      BY <2>1, <2>2 DEF Remembered
<1>11. TokenKnown'
  <2>1. ASSUME upload.kind = "edit", NEW g \in Files, handling'[g] = "new" PROVE photos[g] = 0
    <3>1. g = f /\ f # Photos!Other
        BY <1>3, <1>4, <2>1
    <3> QED
        BY <1>2, <1>6, <2>1, <3>1
  <2> QED
      BY <2>1 DEF PhotosInv, TokenKnown
<1>12. SentOnce'
  <2>1. ASSUME upload.kind = "create" PROVE SentOnce'
    <3>1. Unsent' = Unsent
        BY DEF Unsent
    <3>2. \A g \in Unsent : Fresh(g) /\ g \in Files
      <4>1. \A i \in DOMAIN upload.pending : upload.pending[i] \in Files
          BY PhotoShapes DEF PageType
      <4>2. Unsent \subseteq Files
          BY <4>1 DEF Unsent
      <4> QED
          BY <2>1, <4>2 DEF PhotosInv, SentOnce
    <3>3. ASSUME NEW g \in Unsent PROVE Fresh(g)'
      <4>1. g # f
          BY <1>5, <3>2 DEF Fresh
      <4> QED
          BY <1>3, <1>4, <1>5, <3>2, <4>1 DEF Fresh
    <3>4. ASSUME NEW g \in Files PROVE Once(g)'
      <4>1. Once(g)
          BY <2>1 DEF PhotosInv, SentOnce
      <4>2. CASE g = f
          BY <1>5, <4>1, <4>2 DEF Once
      <4>3. CASE g # f
          BY <1>3, <1>4, <1>5, <4>1, <4>3 DEF Once
      <4> QED
          BY <4>2, <4>3
    <3> QED
        BY <3>1, <3>3, <3>4 DEF SentOnce
  <2> QED
      BY <2>1 DEF SentOnce
<1>13. PageSteady'
    BY DEF PhotosInv, PageSteady
<1>14. Chosen' /\ NothingForgotten'
    BY SameFiles
<1>15. OnWire'
  <2>1. ASSUME NEW g \in Files
        PROVE  wire'[g] <= IF upload.waiting /\ upload.pending[1] = g THEN losses + 1 ELSE losses
      BY <1>5, WirePerFile
  <2> QED
      BY <2>1 DEF OnWire
<1> QED
    BY <1>7, <1>8, <1>9, <1>10, <1>11, <1>12, <1>13, <1>14, <1>15 DEF PhotosInv

LEMMA UploadsBegun ==
    ASSUME PhotosInv, (\E f \in Files : Photos!BeginUpload(f)) \/ Photos!BeginOther
    PROVE  PhotosInv'
<1>1. CASE \E f \in Files : Photos!BeginUpload(f)
  <2>1. PICK f \in Files : Photos!BeginUpload(f)
      BY <1>1
  <2>2. f \in Holders /\ others' \in 0..MaxOthers
      BY <2>1, PhotoShapes DEF Holders, Photos!BeginUpload
  <2> QED
      BY <2>1, <2>2, UploadBegun DEF Photos!BeginUpload
<1>2. CASE Photos!BeginOther
  <2>1. Photos!Other \in Holders /\ others' \in 0..MaxOthers
      BY <1>2, PhotoShapes, PhotosBounds DEF Holders, Photos!BeginOther
  <2>2. PICK f \in Holders : f = Photos!Other
      BY <2>1
  <2> QED
      BY <1>2, <2>1, <2>2, UploadBegun DEF Photos!BeginOther
<1> QED
    BY <1>1, <1>2
\* No file becomes a photo twice.
LEMMA CommitOnce ==
    ASSUME PhotosInv, NEW f \in Holders, handling[f] # "idle",
           \A g \in Holders : handling'[g] = "idle",
           Files \subseteq Holders, \A g \in Holders : photos[g] \in Nat,
           photos'[f] = IF handling[f] = "new" THEN photos[f] + 1 ELSE photos[f],
           \A g \in Holders \ {f} : photos'[g] = photos[g],
           wire' = wire, upload'.kind = upload.kind,
           upload.kind = "create" => Unsent' \subseteq Unsent
    PROVE  SentOnce' /\ TokenKnown'
<1>1. SentOnce'
  <2>1. ASSUME upload.kind = "create" PROVE SentOnce'
    <3>1. Unsent \subseteq Files
      <4>1. \A i \in DOMAIN upload.pending : upload.pending[i] \in Files
          BY PhotoShapes DEF PageType
      <4> QED
          BY <4>1 DEF Unsent
    <3>2. ASSUME NEW g \in Unsent' PROVE Fresh(g)'
      <4>1. g \in Files /\ Fresh(g)
          BY <2>1, <3>1 DEF PhotosInv, SentOnce
      <4>2. g # f
          BY <4>1 DEF Fresh
      <4> QED
          BY <4>1, <4>2 DEF Fresh
    <3>3. ASSUME NEW g \in Files PROVE Once(g)'
      <4>1. Once(g)
          BY <2>1 DEF PhotosInv, SentOnce
      <4>2. wire[g] \in Nat
          BY PhotoShapes, PhotosBounds
      <4>3. CASE g = f
        <5>1. photos[f] = 0 /\ wire[f] # 1
            BY <4>1, <4>3 DEF Once
        <5> QED
            BY <4>1, <4>2, <4>3, <5>1 DEF Once
      <4>4. CASE g # f
          BY <4>1, <4>4 DEF Once
      <4> QED
          BY <4>3, <4>4
    <3> QED
        BY <3>2, <3>3 DEF SentOnce
  <2> QED
      BY <2>1 DEF SentOnce
<1>2. TokenKnown'
  <2>1. ASSUME upload.kind = "edit", NEW g \in Files PROVE photos'[g] <= 1
    <3>1. photos[g] <= 1 /\ (handling[g] = "new" => photos[g] = 0) /\ photos[g] \in Nat
        BY <2>1 DEF PhotosInv, TokenKnown
    <3>2. CASE g = f
        BY <3>1, <3>2
    <3>3. CASE g # f
        BY <3>1, <3>3
    <3> QED
        BY <3>2, <3>3
  <2> QED
      BY <2>1 DEF TokenKnown
<1> QED
    BY <1>1, <1>2

\* The page takes the file whose upload it hears of off its list.
LEMMA UploadTaken ==
    ASSUME PhotosInv, upload.waiting, upload' = Photos!Uploaded,
           saved' = saved \cup {upload.pending[1]} \/ (upload.pending[1] \in saved /\ saved' = saved)
    PROVE  /\ upload' \in PageType /\ upload'.tiles + Len(upload'.pending) <= MaxPhotos
           /\ upload'.kind = upload.kind /\ ~upload'.waiting
           /\ Unsent' \subseteq Unsent
           /\ PageSteady' /\ Chosen' /\ NothingForgotten'
<1>1. PICK s \in Seq(Files) : s = upload.pending /\ s # <<>> /\ upload.state = "uploading"
    BY HeadPending
<1>2. /\ Len(s) \in Nat /\ Len(s) > 0 /\ s[1] \in Files /\ DOMAIN s = 1..Len(s)
      /\ \A j \in 1..Len(s) - 1 : Tail(s)[j] = s[j + 1]
    BY <1>1, TailPending
<1>3. PICK t \in Seq(Files) :
        /\ t = Tail(s) /\ Len(t) = Len(s) - 1 /\ DOMAIN t = 1..Len(s) - 1
        /\ \A j \in 1..Len(s) - 1 : t[j] = s[j + 1]
    BY <1>1, <1>2, TailPending
<1>12. /\ Len(t) = Len(s) - 1 /\ DOMAIN t = 1..Len(s) - 1
       /\ \A j \in 1..Len(s) - 1 : t[j] = s[j + 1]
    BY <1>3
<1>4. PICK state \in {"done", "uploading"} :
        /\ upload' = [upload EXCEPT !.waiting = FALSE, !.pending = t, !.state = state]
        /\ state = "done" <=> Len(s) = 1
    BY <1>1, <1>3 DEF Photos!Uploaded
<1>5. /\ upload' \in PageType /\ upload'.pending = t
      /\ upload'.chosen = upload.chosen /\ upload'.back = upload.back
      /\ upload'.tiles = upload.tiles /\ upload'.kind = upload.kind
      /\ upload'.state = state /\ ~upload'.waiting
    BY <1>4, PhotoShapes DEF PageType, Photos!States
<1>6. upload'.tiles + Len(upload'.pending) <= MaxPhotos
    BY <1>1, <1>2, <1>3, <1>5, PhotoShapes, PhotosBounds
<1>7. PageSteady'
  <2>1. state = "done" => t = <<>>
      BY <1>3, <1>4
  <2>2. state = "uploading" => t # <<>>
    <3>1. state = "uploading" => Len(t) # 0
        BY <1>2, <1>12, <1>4
    <3> QED
        BY <3>1
  <2> QED
      BY <1>5, <2>1, <2>2 DEF PageSteady
<1>8. \A j \in 1..Len(s) - 1 : j + 1 \in 1..Len(s) /\ j + 1 > 1
    BY <1>2
<1>9. Chosen'
  <2>1. \A j \in 1..Len(s) : s[j] \in upload.chosen
      BY <1>1, <1>2 DEF PhotosInv, Chosen
  <2>2. \A j, l \in 1..Len(s) : s[j] = s[l] => j = l
      BY <1>1, <1>2 DEF PhotosInv, Chosen
  <2>3. \A j \in 1..Len(s) - 1 : t[j] \in upload.chosen
      BY <1>3, <1>8, <2>1
  <2>4. ASSUME NEW j \in 1..Len(s) - 1, NEW l \in 1..Len(s) - 1, t[j] = t[l]
        PROVE  j = l
    <3>1. j + 1 = l + 1
        BY <1>3, <1>8, <2>2, <2>4
    <3> QED
        BY <1>2, <3>1
  <2> QED
      BY <1>12, <1>5, <2>3, <2>4 DEF Chosen
<1>10. NothingForgotten'
  <2>1. upload.chosen \ upload.back \subseteq saved \cup {s[j] : j \in 1..Len(s)}
      BY <1>1, <1>2 DEF PhotosInv, NothingForgotten, Queued
  <2>2. ASSUME NEW j \in 1..Len(s), j # 1 PROVE s[j] \in {t[l] : l \in 1..Len(s) - 1}
    <3>1. j - 1 \in 1..Len(s) - 1 /\ (j - 1) + 1 = j
        BY <1>2, <2>2
    <3>2. t[j - 1] = s[j]
        BY <1>3, <3>1
    <3> QED
        BY <3>1, <3>2
  <2>3. s[1] \in saved' /\ saved \subseteq saved'
      BY <1>1
  <2>4. upload.chosen \ upload.back \subseteq saved' \cup {t[l] : l \in 1..Len(s) - 1}
      BY <2>1, <2>2, <2>3
  <2>5. Queued' = {t[l] : l \in 1..Len(s) - 1}
      BY <1>12, <1>5 DEF Queued
  <2> QED
      BY <1>5, <2>4, <2>5 DEF NothingForgotten
<1>11. Unsent' \subseteq Unsent
  <2>1. Unsent = {s[i] : i \in {j \in 1..Len(s) : j > 1}}
      BY <1>1, <1>2 DEF Unsent
  <2>2. Unsent' \subseteq {t[i] : i \in 1..Len(s) - 1}
      BY <1>3, <1>4, <1>5 DEF Unsent
  <2>3. \A i \in 1..Len(s) - 1 : t[i] \in {s[l] : l \in {j \in 1..Len(s) : j > 1}}
      BY <1>3, <1>8
  <2> QED
      BY <2>1, <2>2, <2>3
<1> QED
    BY <1>5, <1>6, <1>7, <1>9, <1>10, <1>11

LEMMA UploadCommitted ==
    ASSUME PhotosInv, NEW f \in Holders, Photos!Commit(f)
    PROVE  PhotosInv'
<1>1. /\ handling[f] # "idle" /\ handling' = [handling EXCEPT ![f] = "idle"]
      /\ UNCHANGED <<record, wire, losses, others>>
      /\ photos' = IF handling[f] = "new" THEN [photos EXCEPT ![f] = @ + 1] ELSE photos
      /\ saved' = IF handling[f] = "new" THEN saved \cup ({f} \cap Files) ELSE saved
    BY DEF Photos!Commit
<1>2. Files \subseteq Holders /\ Photos!Other \notin Files /\ Holders = Files \cup {Photos!Other}
    BY PhotosBounds DEF Holders
<1>3. /\ \A g \in Holders : handling'[g] = "idle"
      /\ handling' \in [Holders -> Photos!Fates]
      /\ \A g \in Holders : handling[g] # "idle" => g = f
    BY <1>1, PhotoShapes DEF PhotosInv, PhotosAlone, Photos!Fates
<1>4. /\ photos \in [Holders -> 0..MaxPhotos] /\ photos \in [Holders -> Nat]
      /\ \A g \in Holders : photos[g] \in Nat
    BY PhotoShapes, PhotosBounds
<1>5. Photos!Count \in Nat /\ Photos!Count = Cardinality(RowsOf(photos))
    BY CountIsRows, RowsFinite
<1>6. handling[f] = "new" => photos[f] + 1 \in 0..MaxPhotos
  <2>1. ASSUME handling[f] = "new" PROVE photos[f] + 1 \in 0..MaxPhotos
    <3>1. Cardinality(RowsOf(photos)) < MaxPhotos
        BY <1>5, <2>1 DEF PhotosInv, PlaceKept
    <3>2. PICK ph \in [Holders -> 0..MaxPhotos] : ph = photos
        BY <1>4
    <3> QED
        BY <3>1, <3>2, RoomOfFile
  <2> QED
      BY <2>1
<1>7. /\ photos' \in [Holders -> 0..MaxPhotos] /\ photos' \in [Holders -> Nat]
      /\ photos'[f] = IF handling[f] = "new" THEN photos[f] + 1 ELSE photos[f]
      /\ \A g \in Holders \ {f} : photos'[g] = photos[g]
  <2>1. CASE handling[f] = "new"
      BY <1>1, <1>4, <1>6, <2>1
  <2>2. CASE handling[f] # "new"
      BY <1>1, <1>4, <2>2
  <2> QED
      BY <2>1, <2>2
<1>8. saved \subseteq saved' /\ saved' \subseteq Files /\ (handling[f] = "new" /\ f \in Files => f \in saved')
    BY <1>1, PhotoShapes
<1>9. Photos!PhotoLimit'
  <2>1. CASE handling[f] = "new"
    <3>1. PICK ph \in [Holders -> Nat], more \in [Holders -> Nat] :
            ph = photos /\ more = photos' /\ more = [ph EXCEPT ![f] = @ + 1]
        BY <1>1, <1>4, <1>7, <2>1
    <3>2. Cardinality(RowsOf(more)) <= Cardinality(RowsOf(ph)) + 1
        BY <3>1, OneRowMore
    <3>3. Photos!Count' <= Photos!Count + 1 /\ Photos!Count' \in Nat
        BY <3>1, <3>2, CountIsRows, RowsFinite
    <3>4. Photos!Count < MaxPhotos
        BY <2>1 DEF PhotosInv, PlaceKept
    <3> QED
        BY <1>5, <3>3, <3>4, PhotosBounds DEF Photos!PhotoLimit
  <2>2. CASE handling[f] # "new"
      BY <1>1, <2>2, CountIsRows DEF PhotosInv, Photos!PhotoLimit
  <2> QED
      BY <2>1, <2>2
<1>10. PhotosAlone' /\ PlaceKept'
    BY <1>3 DEF PhotosAlone, PlaceKept
<1>11. Remembered'
  <2>1. ASSUME NEW g \in Files, photos'[g] > 0 PROVE g \in saved'
    <3>1. CASE g = f /\ handling[f] = "new"
        BY <1>8, <3>1
    <3>2. CASE ~(g = f /\ handling[f] = "new")
      <4>1. photos[g] > 0
          BY <1>2, <1>7, <2>1, <3>2
      <4> QED
          BY <1>8, <4>1 DEF PhotosInv, Remembered
    <3> QED
        BY <3>1, <3>2
  <2> QED
      BY <1>2, <1>3, <2>1 DEF Remembered
<1>12. CASE ~(f \in Files /\ Photos!Awaited(f))
  <2>1. upload' = upload
      BY <1>12 DEF Photos!Commit
  <2>2. Photos!TypeOK'
      BY <1>1, <1>3, <1>7, <1>8, <2>1, PhotoShapes, ShapesKept
  <2>3. PageSteady' /\ OnWire'
      BY <1>1, <2>1 DEF PhotosInv, PageSteady, OnWire
  <2>4. Chosen' /\ NothingForgotten'
      BY <1>8, <2>1, SameFiles
  <2>5. upload'.kind = upload.kind /\ Unsent' \subseteq Unsent
      BY <2>1 DEF Unsent
  <2> QED
      BY <1>1, <1>2, <1>3, <1>4, <1>7, <1>9, <1>10, <1>11, <2>2, <2>3, <2>4, <2>5, CommitOnce
         DEF PhotosInv
<1>13. CASE f \in Files /\ Photos!Awaited(f)
  <2>1. upload.waiting /\ f = upload.pending[1] /\ wire[f] = 0
      BY <1>13, HeadPending DEF Photos!Awaited
  <2>2. upload' = Photos!Stop \/ (handling[f] # "full" /\ upload' = Photos!Uploaded)
      BY <1>13 DEF Photos!Commit
  <2>3. /\ upload' \in PageType /\ upload'.tiles + Len(upload'.pending) <= MaxPhotos
        /\ upload'.kind = upload.kind /\ ~upload'.waiting
        /\ upload.kind = "create" => Unsent' \subseteq Unsent
        /\ PageSteady' /\ Chosen' /\ NothingForgotten'
    <3>1. CASE upload' = Photos!Stop
      <4>1. Stops
          BY <2>1, <3>1 DEF Stops
      <4>2. ~upload'.waiting
          BY <3>1, PhotoShapes DEF Photos!Stop, PageType
      <4> QED
          BY <1>8, <4>1, <4>2, StopKeeps
    <3>2. CASE handling[f] # "full" /\ upload' = Photos!Uploaded
      <4>1. handling[f] \in {"new", "known"}
          BY <1>1, <3>2, PhotoShapes DEF Photos!Fates
      <4>2. saved' = saved \cup {f} \/ (f \in saved /\ saved' = saved)
        <5>1. CASE handling[f] = "new"
            BY <1>1, <1>13, <5>1
        <5>2. CASE handling[f] = "known"
            BY <1>1, <1>13, <5>2 DEF PhotosInv, Remembered
        <5> QED
            BY <4>1, <5>1, <5>2
      <4> QED
          BY <2>1, <3>2, <4>2, UploadTaken
    <3> QED
        BY <2>2, <3>1, <3>2
  <2>4. Photos!TypeOK'
      BY <1>1, <1>3, <1>7, <1>8, <2>3, PhotoShapes, ShapesKept
  <2>5. OnWire'
    <3>1. ASSUME NEW g \in Files PROVE wire[g] <= losses
      <4>1. CASE g = f
          BY <2>1, <4>1, WirePerFile
      <4>2. CASE g # f
          BY <2>1, <4>2, WirePerFile
      <4> QED
          BY <4>1, <4>2
    <3> QED
        BY <1>1, <2>3, <3>1 DEF OnWire
  <2> QED
      BY <1>1, <1>2, <1>3, <1>4, <1>7, <1>9, <1>10, <1>11, <2>3, <2>4, <2>5, CommitOnce
         DEF PhotosInv
<1> QED
    BY <1>12, <1>13

LEMMA PhotosKept == PhotosInv /\ [PhotosNext \/ ItemsNext \/ EntriesNext]_vars => PhotosInv'
<1>1. ASSUME PhotosInv, Photos!Next PROVE PhotosInv'
  <2>1. CASE Photos!DeletePhoto \/ Photos!Submit \/ Photos!Save \/ Photos!SendNext
      BY <1>1, <2>1, PhotoDeleted, FormMoved, UploadSent
  <2>2. CASE Photos!GiveUp \/ \E f \in Files : Photos!Drop(f)
      BY <1>1, <2>2, UploadLost
  <2>3. CASE Photos!BeginOther \/ \E f \in Files : Photos!BeginUpload(f)
      BY <1>1, <2>3, UploadsBegun
  <2>4. CASE Photos!DeleteRecord \/ \E f \in Files \cup {Photos!Other} : Photos!DeleteElsewhere(f)
      BY <1>1, <2>4, PhotosGone DEF Holders
  <2>5. CASE \E i \in DOMAIN upload.pending : Photos!RemoveFile(i)
      BY <1>1, <2>5, FileTakenBack
  <2>6. CASE \E f \in Files : Photos!AddFile(f) \/ Photos!NotFound(f)
      BY <1>1, <2>6, FileAdded, UploadNotFound
  <2>7. CASE \E f \in Files \cup {Photos!Other} : Photos!Commit(f)
      BY <1>1, <2>7, UploadCommitted DEF Holders
  <2> QED
      BY <1>1, <2>1, <2>2, <2>3, <2>4, <2>5, <2>6, <2>7 DEF Photos!Next
<1>2. ItemsNext \/ EntriesNext \/ UNCHANGED vars => UNCHANGED photosVars
    BY DEF ItemsNext, EntriesNext, vars
<1> QED
    BY <1>1, <1>2, PhotosRest DEF PhotosNext

\* PhotosSafe: a record never has more photos than it may, however many uploads
\* arrive at the same time; a file is a photo at most once, also when its upload
\* was given up, arrived late and was sent again; the page is only left when
\* every file that was chosen and not taken back became a photo
\* (create_visit_record_photo under the lock of the record, and the upload loops
\* of visit_create.js and visit_edit.js).
THEOREM PhotosHold == Spec => []PhotosSafe
<1>1. PhotosInv => PhotosSafe
  <2> SUFFICES ASSUME PhotosInv PROVE PhotosSafe
      OBVIOUS
  <2>1. Photos!OnePhotoPerFile
    <3>1. upload.kind \in {"create", "edit"}
        BY PhotoShapes DEF PageType
    <3> QED
        BY <3>1 DEF PhotosInv, SentOnce, TokenKnown, Once, Photos!OnePhotoPerFile
  <2>2. Photos!DoneMeansSaved
    <3>1. ASSUME upload.state = "done" PROVE upload.chosen \ upload.back \subseteq saved
      <4>1. Queued = {}
          BY <3>1 DEF PhotosInv, PageSteady, Queued
      <4> QED
          BY <4>1 DEF PhotosInv, NothingForgotten
    <3> QED
        BY <3>1 DEF Photos!DoneMeansSaved
  <2> QED
      BY <2>1, <2>2 DEF PhotosInv, PhotosSafe
<1> QED
    BY <1>1, PhotosInit, PhotosKept, PTL DEF Spec

==============================================================================
