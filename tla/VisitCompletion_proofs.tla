------------------------ MODULE VisitCompletion_proofs ------------------------
(***************************************************************************)
(* Proofs about VisitCompletion, for any subjects, tokens and number of    *)
(* requests, and with every pair of operations overlapping.  The invariant *)
(* is inductive once it says what a request knows from its last look at    *)
(* the database: that it has seen a row, and that a status it is about to  *)
(* write contradicts no record, unless a record has overtaken it.          *)
(***************************************************************************)
EXTENDS VisitCompletion, TLAPS

\* Requests in progress are of the operations in use and have what they need;
\* a patch or a removal that has loaded its row has seen one.
RequestsFit ==
    \A q \in Requests :
        request[q] # Free =>
            /\ request[q].op \in Operations
            /\ request[q].op = "complete" => request[q].token \in Tokens
            /\ request[q].op \in {"create", "patch"} => request[q].target \in RowStatuses
            /\ request[q].op \in {"patch", "remove"} /\ request[q].phase # "start" =>
                   request[q].seen # NoRow

Entries == [from : RowStatuses \cup {"none"}, to : RowStatuses \cup {"none"}]

TypedInv == TypeOK /\ RequestsFit

-----------------------------------------------------------------------------
\* A request in progress has the fields of a request.
LEMMA InProgress ==
    ASSUME TypedInv, NEW q \in Requests, NEW op, NEW phase, At(q, op, phase)
    PROVE  /\ request[q] \in RequestType
           /\ request[q].op = op
           /\ op \in Operations
           /\ request[q].number \in 1..MaxRequests
           /\ request[q].subject \in VisitSubjects
           /\ request[q].seen \in Rows
           /\ op = "complete" => request[q].token \in Tokens
           /\ op \in {"create", "patch"} => request[q].target \in RowStatuses
           /\ op \in {"patch", "remove"} /\ phase # "start" => request[q].seen # NoRow
<1>1. request[q] \in RequestType /\ request[q].op = op /\ request[q].phase = phase
    BY DEF TypedInv, TypeOK, At
<1>2. /\ op \in Operations
      /\ op = "complete" => request[q].token \in Tokens
      /\ op \in {"create", "patch"} => request[q].target \in RowStatuses
      /\ op \in {"patch", "remove"} /\ phase # "start" => request[q].seen # NoRow
    BY <1>1 DEF TypedInv, RequestsFit, At
<1> QED
    BY <1>1, <1>2 DEF RequestType

\* A status that is logged is an entry more.
LEMMA LoggedType ==
    ASSUME TypeOK, NEW s \in VisitSubjects, NEW old \in RowStatuses \cup {"none"},
           NEW new \in RowStatuses \cup {"none"}
    PROVE  Logged(s, old, new) \in [VisitSubjects -> Seq(Entries)]
<1>1. activity \in [VisitSubjects -> Seq(Entries)]
    BY DEF TypeOK, Entries
<1>2. [from |-> old, to |-> new] \in Entries
    BY DEF Entries
<1> QED
    BY <1>1, <1>2 DEF Logged

\* What a completion writes to the row and the log of its subject.
LEMMA VisitedTypes ==
    ASSUME TypeOK, NEW s \in VisitSubjects, NEW id \in 1..MaxRequests, BecomesVisited(s, id)
    PROVE  /\ row' \in [VisitSubjects -> Rows]
           /\ activity' \in [VisitSubjects -> Seq(Entries)]
           /\ row'[s].status = "visited"
           /\ \A t \in VisitSubjects : t # s => row'[t] = row[t]
<1>1. row \in [VisitSubjects -> Rows] /\ activity \in [VisitSubjects -> Seq(Entries)]
    BY DEF TypeOK, Entries
<1>2. CASE row[s].status = "visited"
    BY <1>1, <1>2 DEF BecomesVisited
<1>3. CASE row[s].status # "visited"
  <2>1. row' = [row EXCEPT ![s] = [id |-> id, status |-> "visited"]]
    BY <1>3 DEF BecomesVisited
  <2>2. [id |-> id, status |-> "visited"] \in Rows
    BY DEF Rows, RowStatuses
  <2>3. row[s].status \in RowStatuses \cup {"none"}
    BY <1>1 DEF Rows, NoRow
  <2>4. Logged(s, row[s].status, "visited") \in [VisitSubjects -> Seq(Entries)]
    BY <2>3, LoggedType DEF RowStatuses
  <2> QED
    BY <1>1, <1>3, <2>1, <2>2, <2>4 DEF BecomesVisited
<1> QED
    BY <1>2, <1>3

\* What a completion writes: types are kept, and either nothing but a failure is
\* noted, or the subject is visited, and a record it adds is of that subject and
\* overtakes the requests past their check.
LEMMA SaveRecordEffect ==
    ASSUME TypedInv, NEW q \in Requests, NEW phase, At(q, "complete", phase),
           NEW id \in 1..MaxRequests, SaveRecord(q, id)
    PROVE  /\ row' \in [VisitSubjects -> Rows]
           /\ activity' \in [VisitSubjects -> Seq(Entries)]
           /\ records' \in SUBSET [token : Tokens, subject : VisitSubjects]
           /\ logged' \in SUBSET Tokens
           /\ trouble' \in SUBSET {"conflict", "error"}
           /\ overtaken' \in SUBSET Requests
           /\ \/ UNCHANGED <<row, records, overtaken>>
              \/ /\ row'[Subject(q)].status = "visited"
                 /\ \A t \in VisitSubjects : t # Subject(q) => row'[t] = row[t]
                 /\ records \subseteq records'
                 /\ \A r \in records' \ records : r.subject = Subject(q)
                 /\ records' = records \/ overtaken' = overtaken \cup Overtaken(Subject(q))
                 /\ overtaken \subseteq overtaken'
<1>1. request[q].subject \in VisitSubjects /\ request[q].token \in Tokens
    BY InProgress
<1>2. /\ row \in [VisitSubjects -> Rows] /\ activity \in [VisitSubjects -> Seq(Entries)]
      /\ records \in SUBSET [token : Tokens, subject : VisitSubjects]
      /\ logged \in SUBSET Tokens /\ trouble \in SUBSET {"conflict", "error"}
      /\ overtaken \in SUBSET Requests
    BY DEF TypedInv, TypeOK, Entries
<1>3. CASE BecomesVisited(Subject(q), id)
  <2>1. /\ row' \in [VisitSubjects -> Rows]
        /\ activity' \in [VisitSubjects -> Seq(Entries)]
        /\ row'[Subject(q)].status = "visited"
        /\ \A t \in VisitSubjects : t # Subject(q) => row'[t] = row[t]
    BY <1>1, <1>3, VisitedTypes DEF Subject, TypedInv
  <2> DEFINE new == [token |-> request[q].token, subject |-> Subject(q)]
  <2>2. new \in [token : Tokens, subject : VisitSubjects] /\ new.subject = Subject(q)
    BY <1>1 DEF Subject
  <2>3. Overtaken(Subject(q)) \subseteq Requests
    BY DEF Overtaken
  <2>4. \/ /\ UNCHANGED <<records, logged, overtaken>>
           /\ trouble' = trouble \/ trouble' = trouble \cup {"error"}
        \/ /\ records' = records \cup {new}
           /\ logged' = logged \cup {request[q].token}
           /\ overtaken' = overtaken \cup Overtaken(Subject(q))
           /\ trouble' = trouble
    BY DEF SaveRecord
  <2> HIDE DEF new
  <2>5. /\ records' \in SUBSET [token : Tokens, subject : VisitSubjects]
        /\ logged' \in SUBSET Tokens
        /\ trouble' \in SUBSET {"conflict", "error"}
        /\ overtaken' \in SUBSET Requests
    BY <1>1, <1>2, <2>2, <2>3, <2>4
  <2>6. /\ records \subseteq records' /\ \A r \in records' \ records : r = new
        /\ records' = records \/ overtaken' = overtaken \cup Overtaken(Subject(q))
        /\ overtaken \subseteq overtaken'
    BY <2>4
  <2> QED
    BY <2>1, <2>2, <2>5, <2>6
<1>4. CASE /\ UNCHANGED <<row, records, activity, logged, overtaken>>
           /\ trouble' = trouble \cup {"error"}
    BY <1>2, <1>4
<1> QED
    BY <1>3, <1>4 DEF SaveRecord

-----------------------------------------------------------------------------
\* How the requests in progress change keeps them fit.
RequestsKept == request' \in [Requests -> RequestType \cup {Free}] /\ RequestsFit'

LEMMA EndsKeeps ==
    ASSUME TypedInv, NEW q \in Requests, Ends(q)
    PROVE  RequestsKept
<1>1. \A p \in Requests : request'[p] = IF p = q THEN Free ELSE request[p]
    BY DEF TypedInv, TypeOK, Ends
<1> QED
    BY <1>1 DEF TypedInv, TypeOK, RequestsFit, RequestsKept, Ends

LEMMA GoesKeeps ==
    ASSUME TypedInv, NEW q \in Requests, NEW op, NEW from, At(q, op, from),
           op \in {"patch", "remove"} => from # "start",
           NEW phase \in Phases, Goes(q, phase)
    PROVE  RequestsKept
<1>1. request[q] \in RequestType
    BY InProgress
<1>2. [request[q] EXCEPT !.phase = phase] \in RequestType
    BY <1>1 DEF RequestType
<1>3. \A p \in Requests :
          request'[p] = IF p = q THEN [request[q] EXCEPT !.phase = phase] ELSE request[p]
    BY DEF TypedInv, TypeOK, Goes
<1>4. request' \in [Requests -> RequestType \cup {Free}]
    BY <1>2 DEF TypedInv, TypeOK, Goes
<1>5. /\ [request[q] EXCEPT !.phase = phase].op = request[q].op
      /\ [request[q] EXCEPT !.phase = phase].token = request[q].token
      /\ [request[q] EXCEPT !.phase = phase].target = request[q].target
      /\ [request[q] EXCEPT !.phase = phase].seen = request[q].seen
    BY <1>1 DEF RequestType
<1>6. request[q] # Free
      /\ (request[q].op \in {"patch", "remove"} => request[q].seen # NoRow)
    BY InProgress DEF At
<1> QED
    BY <1>3, <1>4, <1>5, <1>6 DEF TypedInv, RequestsFit, RequestsKept
-----------------------------------------------------------------------------
\* The rest of the state keeps its types.
RestTyped ==
    /\ row \in [VisitSubjects -> Rows]
    /\ activity \in [VisitSubjects -> Seq(Entries)]
    /\ records \in SUBSET [token : Tokens, subject : VisitSubjects]
    /\ logged \in SUBSET Tokens
    /\ made \in 0..MaxRequests
    /\ trouble \in SUBSET {"conflict", "error"}
    /\ overtaken \in SUBSET Requests
    /\ gaps \in [VisitSubjects -> SUBSET Nat]

\* The invariant in two halves.
Halves == RestTyped /\ request \in [Requests -> RequestType \cup {Free}] /\ RequestsFit

LEMMA TypedParts == TypedInv <=> Halves
BY DEF TypedInv, TypeOK, RestTyped, Entries, Halves

LEMMA TypedNext ==
    ASSUME RestTyped', RequestsKept
    PROVE  TypedInv'
BY DEF TypedInv, TypeOK, RestTyped, Entries, RequestsKept

LEMMA InitTyped == Init => TypedInv
<1> SUFFICES ASSUME Init PROVE TypedInv
    OBVIOUS
<1>1. MaxRequests \in Nat
    BY VisitAssumption
<1>2. << >> \in Seq(Entries)
    OBVIOUS
<1>3. activity \in [VisitSubjects -> Seq(Entries)]
    BY <1>2 DEF Init
<1>4. RestTyped
    BY <1>1, <1>3 DEF Init, RestTyped, Rows
<1>5. request \in [Requests -> RequestType \cup {Free}] /\ RequestsFit
    BY DEF Init, RequestsFit
<1> QED
    BY <1>4, <1>5, TypedParts DEF Halves

-----------------------------------------------------------------------------
(***************************************************************************)
(* One lemma per operation: types are kept.                                *)
(***************************************************************************)

LEMMA ArriveStep ==
    ASSUME TypedInv, NEW q \in Requests, ArriveAny(q)
    PROVE  TypedInv'
<1>1. PICK op \in RequestKinds, s \in VisitSubjects, token \in Tokens \cup {NoToken},
           target \in RowStatuses \cup {"none"} :
          /\ Arrive(q, op, s, token, target)
          /\ op = "complete" => token \in Tokens
          /\ op \in {"create", "patch"} => target \in RowStatuses
    BY DEF ArriveAny, RequestKinds, RowStatuses
<1> DEFINE new == [number |-> made + 1, op |-> op, phase |-> "start", subject |-> s,
                   token |-> token, target |-> target, seen |-> NoRow]
<1>2. made + 1 \in 1..MaxRequests /\ made' \in 0..MaxRequests
    BY <1>1, VisitAssumption DEF Arrive, TypedInv, TypeOK
<1>3. new \in RequestType
    BY <1>2 DEF RequestType, Phases, Rows
<1>4. request' = [request EXCEPT ![q] = new]
    BY <1>1 DEF Arrive
<1>5. request' \in [Requests -> RequestType \cup {Free}]
    BY <1>3, <1>4 DEF TypedInv, TypeOK
<1>6. \A p \in Requests : request'[p] = IF p = q THEN new ELSE request[p]
    BY <1>4 DEF TypedInv, TypeOK
<1>7. new.op \in Operations /\ (new.op = "complete" => new.token \in Tokens)
      /\ (new.op \in {"create", "patch"} => new.target \in RowStatuses)
      /\ new.phase = "start"
    BY <1>1 DEF Arrive
<1>8. RequestsKept
    BY <1>5, <1>6, <1>7 DEF RequestsKept, RequestsFit, TypedInv
<1>9. row' = row /\ records' = records /\ activity' = activity /\ logged' = logged
      /\ trouble' = trouble /\ overtaken' = overtaken /\ gaps' = gaps
    BY <1>1 DEF Arrive
<1>10. RestTyped'
    BY <1>2, <1>9, TypedParts DEF Halves, RestTyped
<1> QED
    BY <1>8, <1>10, TypedNext

LEMMA CompleteStep ==
    ASSUME TypedInv, NEW q \in Requests, Complete(q)
    PROVE  TypedInv'
<1> DEFINE Quiet == row' = row /\ records' = records /\ activity' = activity
                    /\ logged' = logged /\ trouble' \in SUBSET {"conflict", "error"}
                    /\ overtaken' = overtaken
<1>1. PICK phase : At(q, "complete", phase)
    BY DEF Complete, CompleteLook, CompleteInsert, CompleteLookAgain, CompleteInsertAgain
<1>2. request[q].number \in 1..MaxRequests /\ Subject(q) \in VisitSubjects
    BY <1>1, InProgress DEF Subject
<1>3. row \in [VisitSubjects -> Rows] /\ trouble \in SUBSET {"conflict", "error"}
      /\ made \in 0..MaxRequests /\ gaps \in [VisitSubjects -> SUBSET Nat]
    BY DEF TypedInv, TypeOK
<1>4. RowOf(q) # NoRow => RowOf(q).id \in 1..MaxRequests
    BY <1>2, <1>3 DEF RowOf, Rows
<1>5. \/ \E next \in Phases : Goes(q, next) /\ Quiet
      \/ Ends(q) /\ Quiet
      \/ Ends(q) /\ \E id \in 1..MaxRequests : SaveRecord(q, id)
    BY <1>2, <1>3, <1>4 DEF Complete, CompleteLook, CompleteInsert, CompleteLookAgain,
       CompleteInsertAgain, Phases, AfterLoss, FreshId
<1>6. RequestsKept
    BY <1>1, <1>5, EndsKeeps, GoesKeeps
<1>7. made' = made /\ gaps' = gaps
    BY DEF Complete, CompleteLook, CompleteInsert, CompleteLookAgain, CompleteInsertAgain
<1>8. CASE Quiet
  <2>1. RestTyped'
    BY <1>3, <1>7, <1>8, TypedParts DEF Halves, RestTyped
  <2> QED
    BY <1>6, <2>1, TypedNext
<1>9. CASE \E id \in 1..MaxRequests : SaveRecord(q, id)
  <2>1. RestTyped'
    BY <1>1, <1>3, <1>7, <1>9, SaveRecordEffect DEF RestTyped
  <2> QED
    BY <1>6, <2>1, TypedNext
<1> QED
    BY <1>5, <1>8, <1>9

\* A request that only looks and goes on, or ends.
LEMMA QuietStep ==
    ASSUME TypedInv, RequestsKept,
           UNCHANGED <<row, records, activity, logged, made, trouble, overtaken, gaps>>
    PROVE  TypedInv'
<1>1. row' = row /\ records' = records /\ activity' = activity /\ logged' = logged
      /\ made' = made /\ trouble' = trouble /\ overtaken' = overtaken /\ gaps' = gaps
    OBVIOUS
<1>2. RestTyped'
    BY <1>1, TypedParts DEF Halves, RestTyped
<1> QED
    BY <1>2, TypedNext

\* A request that notes the row it found is still a request.
LEMMA NotesKeeps ==
    ASSUME TypedInv, NEW q \in Requests, NEW op, At(q, op, "start"), RowOf(q) # NoRow,
           request' = [request EXCEPT ![q].phase = "loaded", ![q].seen = RowOf(q)]
    PROVE  RequestsKept
<1> DEFINE noted == [request[q] EXCEPT !.phase = "loaded", !.seen = RowOf(q)]
<1>1. request[q] \in RequestType /\ Subject(q) \in VisitSubjects
    BY InProgress DEF Subject
<1>2. RowOf(q) \in Rows
    BY <1>1 DEF TypedInv, TypeOK, RowOf
<1>3. noted \in RequestType
    BY <1>1, <1>2 DEF RequestType, Phases
<1>4. request' = [request EXCEPT ![q] = noted]
    BY <1>1 DEF TypedInv, TypeOK
<1>5. \A p \in Requests : request'[p] = IF p = q THEN noted ELSE request[p]
    BY <1>4 DEF TypedInv, TypeOK
<1>6. request' \in [Requests -> RequestType \cup {Free}]
    BY <1>3, <1>4 DEF TypedInv, TypeOK
<1>7. noted.op = request[q].op /\ noted.token = request[q].token
      /\ noted.target = request[q].target /\ noted.seen # NoRow
    BY <1>1 DEF RequestType
<1>8. request[q] # Free
    BY DEF At
<1> HIDE DEF noted
<1> QED
    BY <1>5, <1>6, <1>7, <1>8 DEF TypedInv, RequestsFit, RequestsKept

\* A write to the row and the log of a subject, and to no record.
LEMMA RowStep ==
    ASSUME TypedInv, RequestsKept,
           row' \in [VisitSubjects -> Rows], activity' \in [VisitSubjects -> Seq(Entries)],
           overtaken' \subseteq overtaken, gaps' \in [VisitSubjects -> SUBSET Nat],
           UNCHANGED <<records, logged, made, trouble>>
    PROVE  TypedInv'
<1>1. records' = records /\ logged' = logged /\ made' = made /\ trouble' = trouble
    OBVIOUS
<1>2. RestTyped'
    BY <1>1, TypedParts DEF Halves, RestTyped
<1> QED
    BY <1>2, TypedNext

\* What a write leaves in the history of gaps.
LEMMA GapsTyped ==
    ASSUME TypedInv, NEW q \in Requests, Subject(q) \in VisitSubjects,
           NEW lengths \in SUBSET Nat, LeavesGaps(q, lengths)
    PROVE  gaps' \in [VisitSubjects -> SUBSET Nat]
BY DEF LeavesGaps, TypedInv, TypeOK

LEMMA LengthsAreNumbers ==
    ASSUME TypedInv, NEW s \in VisitSubjects
    PROVE  Len(activity[s]) \in Nat
<1>1. activity[s] \in Seq(Entries)
    BY DEF TypedInv, TypeOK, Entries
<1> QED
    BY <1>1

LEMMA CreateStep ==
    ASSUME TypedInv, NEW q \in Requests, Create(q)
    PROVE  TypedInv'
<1>1. CASE CreateChecks(q)
  <2>1. At(q, "create", "start") /\ (Goes(q, "checked") \/ Ends(q))
        /\ UNCHANGED <<row, records, activity, logged, made, trouble, overtaken, gaps>>
    BY <1>1 DEF CreateChecks
  <2>2. RequestsKept
    BY <2>1, GoesKeeps, EndsKeeps DEF Phases
  <2> QED
    BY <2>1, <2>2, QuietStep
<1>2. CASE CreateInserts(q)
  <2> DEFINE s == Subject(q)
             target == request[q].target
             new == [id |-> FreshId(q), status |-> target]
  <2>1. At(q, "create", "checked") /\ Ends(q)
        /\ UNCHANGED <<records, logged, made, trouble, gaps>>
        /\ overtaken' \subseteq overtaken
    BY <1>2 DEF CreateInserts
  <2>2. s \in VisitSubjects /\ target \in RowStatuses /\ FreshId(q) \in 1..MaxRequests
    BY <2>1, InProgress DEF Subject, FreshId
  <2>3. RequestsKept
    BY <2>1, EndsKeeps
  <2>4. row \in [VisitSubjects -> Rows] /\ activity \in [VisitSubjects -> Seq(Entries)]
        /\ gaps' \in [VisitSubjects -> SUBSET Nat]
    BY <2>1 DEF TypedInv, TypeOK, Entries
  <2>5. CASE row[s] # NoRow
    <3>1. row' = row /\ activity' = activity
      BY <1>2, <2>5 DEF CreateInserts
    <3> QED
      BY <2>1, <2>3, <2>4, <3>1, RowStep
  <2>6. CASE row[s] = NoRow
    <3>1. row' = [row EXCEPT ![s] = new] /\ activity' = Logged(s, "none", target)
      BY <1>2, <2>6 DEF CreateInserts
    <3>2. new \in Rows
      BY <2>2 DEF Rows
    <3>3. row' \in [VisitSubjects -> Rows]
      BY <2>2, <2>4, <3>1, <3>2
    <3>4. activity' \in [VisitSubjects -> Seq(Entries)]
      BY <2>2, <3>1, LoggedType DEF TypedInv
    <3>5. TypedInv'
      BY <2>1, <2>3, <2>4, <3>3, <3>4, RowStep
    <3> QED
      BY <3>5
  <2> QED
    BY <2>5, <2>6
<1> QED
  BY <1>1, <1>2 DEF Create

LEMMA EraseStep ==
    ASSUME TypedInv, NEW q \in Requests, EraseRecord(q)
    PROVE  TypedInv'
<1>1. row' = row /\ activity' = activity /\ logged' = logged /\ made' = made
      /\ trouble' = trouble /\ overtaken' = overtaken /\ gaps' = gaps /\ Ends(q)
    BY DEF EraseRecord
<1>2. records' \subseteq records
    BY DEF EraseRecord
<1>3. RequestsKept
    BY <1>1, EndsKeeps
<1>4. RestTyped'
    BY <1>1, <1>2, TypedParts DEF Halves, RestTyped
<1> QED
    BY <1>3, <1>4, TypedNext

LEMMA PatchStep ==
    ASSUME TypedInv, NEW q \in Requests, Patch(q)
    PROVE  TypedInv'
<1>1. PICK phase : At(q, "patch", phase)
    BY DEF Patch, PatchLoads, PatchChecks, PatchSaves
<1>2. "patch" \in Operations /\ Subject(q) \in VisitSubjects /\ request[q].target \in RowStatuses
      /\ request[q].seen \in Rows
    BY <1>1, InProgress DEF Subject
<1>3. CASE PatchLoads(q)
  <2>1. RequestsKept
    BY <1>3, EndsKeeps, NotesKeeps DEF PatchLoads
  <2>2. UNCHANGED <<row, records, activity, logged, made, trouble, overtaken, gaps>>
    BY <1>3 DEF PatchLoads
  <2> QED
    BY <1>2, <2>1, <2>2, QuietStep
<1>4. CASE PatchChecks(q)
  <2>1. At(q, "patch", "loaded") /\ (Goes(q, "checked") \/ Ends(q))
        /\ UNCHANGED <<row, records, activity, logged, made, trouble, overtaken, gaps>>
    BY <1>4 DEF PatchChecks
  <2>2. RequestsKept
    BY <2>1, GoesKeeps, EndsKeeps DEF Phases
  <2> QED
    BY <1>2, <2>1, <2>2, QuietStep
<1>5. CASE PatchSaves(q)
  <2> DEFINE s == Subject(q)
             old == request[q].seen
             new == request[q].target
  <2>1. Ends(q) /\ UNCHANGED <<records, logged, made, trouble>>
        /\ overtaken' \subseteq overtaken
    BY <1>5 DEF PatchSaves
  <2>2. RequestsKept
    BY <2>1, EndsKeeps
  <2>3. row \in [VisitSubjects -> Rows] /\ activity \in [VisitSubjects -> Seq(Entries)]
    BY DEF TypedInv, TypeOK, Entries
  <2>6. gaps' \in [VisitSubjects -> SUBSET Nat]
    <3>1. {Len(activity[s])} \in SUBSET Nat /\ gaps \in [VisitSubjects -> SUBSET Nat]
      BY <1>2, LengthsAreNumbers DEF TypedInv, TypeOK
    <3> QED
      BY <1>2, <1>5, <3>1, GapsTyped DEF PatchSaves
  <2>4. CASE UNCHANGED <<row, activity>>
    BY <1>2, <2>1, <2>2, <2>3, <2>4, <2>6, RowStep
  <2>5. CASE /\ row[s].id = old.id
             /\ row' = [row EXCEPT ![s].status = new]
             /\ activity' = IF old.status = new THEN activity
                            ELSE Logged(s, old.status, new)
    <3>1. old.status \in RowStatuses \cup {"none"}
      BY <1>2 DEF Rows, NoRow
    <3>2. activity' \in [VisitSubjects -> Seq(Entries)]
      BY <1>2, <2>3, <2>5, <3>1, LoggedType DEF TypedInv
    <3>3. old # NoRow
      BY <1>5, InProgress DEF PatchSaves
    <3>4. row[s] # NoRow
      BY <1>2, <2>5, <3>3 DEF Rows, NoRow
    <3> QED
      BY <1>2, <2>1, <2>2, <2>3, <2>5, <2>6, <3>2, <3>4, RowStep DEF Rows
  <2> QED
    BY <1>2, <1>5, <2>4, <2>5 DEF PatchSaves
<1> QED
  BY <1>3, <1>4, <1>5 DEF Patch

LEMMA RemoveStep ==
    ASSUME TypedInv, NEW q \in Requests, Remove(q)
    PROVE  TypedInv'
<1>1. PICK phase : At(q, "remove", phase)
    BY DEF Remove, RemoveLoads, RemoveDeletes
<1>2. "remove" \in Operations /\ Subject(q) \in VisitSubjects /\ request[q].seen \in Rows
    BY <1>1, InProgress DEF Subject
<1>3. CASE RemoveLoads(q)
  <2>1. RequestsKept
    BY <1>3, EndsKeeps, NotesKeeps DEF RemoveLoads
  <2>2. UNCHANGED <<row, records, activity, logged, made, trouble, overtaken, gaps>>
    BY <1>3 DEF RemoveLoads
  <2> QED
    BY <1>2, <2>1, <2>2, QuietStep
<1>4. CASE RemoveDeletes(q)
  <2> DEFINE s == Subject(q)
             old == request[q].seen
  <2>1. Ends(q) /\ UNCHANGED <<records, logged, made, trouble, overtaken>>
    BY <1>4 DEF RemoveDeletes
  <2>2. RequestsKept
    BY <2>1, EndsKeeps
  <2>3. row \in [VisitSubjects -> Rows] /\ NoRow \in Rows
    BY DEF TypedInv, TypeOK, Rows
  <2>4. row' = row \/ row' = [row EXCEPT ![s] = NoRow]
    BY <1>4 DEF RemoveDeletes
  <2>5. row' \in [VisitSubjects -> Rows]
    BY <2>3, <2>4
  <2>6. old.status \in RowStatuses \cup {"none"}
    BY <1>2 DEF Rows, NoRow
  <2>7. activity' = Logged(s, old.status, "none")
    BY <1>4 DEF RemoveDeletes
  <2>8. activity' \in [VisitSubjects -> Seq(Entries)]
    BY <1>2, <2>6, <2>7, LoggedType DEF TypedInv
  <2>9. gaps' \in [VisitSubjects -> SUBSET Nat]
    <3> DEFINE more == IF row[s].id \in {0, old.id} THEN {} ELSE {Len(activity[s]) + 1}
    <3>1. {Len(activity[s])} \cup more \in SUBSET Nat
      BY <1>2, LengthsAreNumbers
    <3>2. LeavesGaps(q, {Len(activity[s])} \cup more)
      BY <1>4 DEF RemoveDeletes
    <3> HIDE DEF more
    <3> QED
      BY <1>2, <3>1, <3>2, GapsTyped
  <2> QED
    BY <1>2, <2>1, <2>2, <2>5, <2>8, <2>9, RowStep
<1> QED
  BY <1>3, <1>4 DEF Remove

-----------------------------------------------------------------------------
\* Every step of every request keeps the types.
LEMMA TypedStep == TypedInv /\ [Next]_vars => TypedInv'
<1> SUFFICES ASSUME TypedInv, [Next]_vars PROVE TypedInv'
    OBVIOUS
<1>1. CASE Next
  <2>1. PICK q \in Requests :
            ArriveAny(q) \/ Complete(q) \/ Create(q) \/ Patch(q) \/ Remove(q) \/ EraseRecord(q)
    BY <1>1 DEF Next
  <2> QED
    BY <2>1, ArriveStep, CompleteStep, CreateStep, PatchStep, RemoveStep, EraseStep
<1>2. CASE UNCHANGED vars
    BY <1>2 DEF vars, TypedInv, TypeOK, RequestsFit
<1> QED
    BY <1>1, <1>2

\* The state is of its types, whatever the operations in use: a status is never
\* anything but planned, visited or missed, and a patch that finds its row gone
\* never brings it back.
THEOREM VisitTypeCorrect == Spec => []TypeOK
<1>1. TypedInv => TypeOK
    BY DEF TypedInv
<1> QED
    BY InitTyped, TypedStep, <1>1, PTL DEF Spec

-----------------------------------------------------------------------------
(***************************************************************************)
(* A status that contradicts a record comes from a request that the record *)
(* has overtaken.                                                          *)
(***************************************************************************)

\* A creation or a patch that is past its check contradicts no record, unless a
\* record of its subject was saved since.
ChecksHold ==
    \A q \in Requests :
        request[q] # Free /\ request[q].phase = "checked" /\ q \notin overtaken =>
            StatusFits(Subject(q), request[q].target)

\* The other requests stay where they are; this one ends, or goes on knowing
\* that its status fits.
GoesOnFitting(q) ==
    /\ \A p \in Requests : p # q => request'[p] = request[p]
    /\ \/ request'[q] = Free
       \/ request'[q].phase = "checked" => StatusFits(Subject(q), request[q].target)'

\* A record more overtakes the requests past their check; whoever was overtaken
\* remains so, but for the request that takes the step.
RecordsOvertake(q) ==
    /\ \A r \in records' \ records : Overtaken(r.subject) \subseteq overtaken'
    /\ overtaken \subseteq overtaken' \cup {q}

LEMMA ChecksKeep ==
    ASSUME ChecksHold, NEW q \in Requests, GoesOnFitting(q), RecordsOvertake(q)
    PROVE  ChecksHold'
<1> SUFFICES ASSUME NEW p \in Requests, request'[p] # Free, request'[p].phase = "checked",
                    p \notin overtaken'
             PROVE  StatusFits(Subject(p), request[p].target)'
    BY DEF ChecksHold
<1>1. CASE p = q
    BY <1>1 DEF GoesOnFitting
<1>2. CASE p # q
  <2>1. request'[p] = request[p] /\ p \notin overtaken
    BY <1>2 DEF GoesOnFitting, RecordsOvertake
  <2>2. StatusFits(Subject(p), request[p].target)
    BY <2>1 DEF ChecksHold
  <2>3. CASE request[p].target = "visited"
    BY <2>1, <2>3 DEF StatusFits
  <2>4. CASE request[p].target # "visited"
    <3>1. ASSUME NEW r \in records', r.subject = Subject(p) PROVE FALSE
      <4>1. r \notin records
        BY <2>2, <2>4, <3>1 DEF StatusFits, HasRecord
      <4>2. p \in Overtaken(r.subject)
        BY <2>1, <2>4, <3>1 DEF Overtaken, Subject
      <4> QED
        BY <4>1, <4>2 DEF RecordsOvertake
    <3>2. (Subject(p))' = Subject(p)
      BY <2>1 DEF Subject
    <3>3. HasRecord(Subject(p))' => \E r \in records' : r.subject = Subject(p)
      BY <3>2 DEF HasRecord
    <3> QED
      BY <3>1, <3>3 DEF StatusFits
  <2> QED
    BY <2>3, <2>4
<1> QED
    BY <1>1, <1>2

\* What RecordMeansVisited says of one step.
ContradictsRightly ==
    \A s \in VisitSubjects :
        Contradicted(s)' =>
            /\ \/ Contradicted(s)
               \/ \E q \in overtaken : Subject(q) = s /\ request'[q] = Free
            /\ \A r \in records' \ records : r.subject # s

\* Rows go away or stay, and no record comes.
LEMMA LessIsRight ==
    ASSUME \A s \in VisitSubjects : row'[s] = row[s] \/ row'[s] = NoRow, records' \subseteq records
    PROVE  ContradictsRightly
BY DEF ContradictsRightly, Contradicted, HasRecord, NoRow

\* A request that is past its check writes its status: if that contradicts a
\* record, the request was overtaken.
LEMMA WriteIsRight ==
    ASSUME ChecksHold, NEW q \in Requests, request[q] # Free, request[q].phase = "checked",
           request'[q] = Free, row'[Subject(q)].status = request[q].target,
           \A t \in VisitSubjects : t # Subject(q) => row'[t] = row[t], records' = records
    PROVE  ContradictsRightly
<1> SUFFICES ASSUME NEW s \in VisitSubjects, Contradicted(s)'
             PROVE  /\ \/ Contradicted(s)
                       \/ \E p \in overtaken : Subject(p) = s /\ request'[p] = Free
                    /\ \A r \in records' \ records : r.subject # s
    BY DEF ContradictsRightly
<1>1. HasRecord(s)
    BY DEF Contradicted, HasRecord
<1>2. CASE s # Subject(q)
    BY <1>1, <1>2 DEF Contradicted
<1>3. CASE s = Subject(q)
  <2>1. request[q].target \in {"planned", "missed"}
    BY <1>3 DEF Contradicted
  <2>2. q \in overtaken
    BY <1>1, <1>3, <2>1 DEF ChecksHold, StatusFits
  <2> QED
    BY <1>3, <2>2
<1> QED
    BY <1>2, <1>3

-----------------------------------------------------------------------------
\* How a request goes on, as the others see it.
LEMMA EndsFitting ==
    ASSUME TypedInv, NEW q \in Requests, Ends(q)
    PROVE  GoesOnFitting(q)
BY DEF Ends, GoesOnFitting, TypedInv, TypeOK

LEMMA GoesFitting ==
    ASSUME TypedInv, NEW q \in Requests, NEW op, NEW from, At(q, op, from),
           NEW phase, Goes(q, phase), records' = records,
           phase = "checked" => StatusFits(Subject(q), request[q].target)
    PROVE  GoesOnFitting(q)
<1>1. request[q] \in RequestType
    BY InProgress
<1>2. /\ request'[q] = [request[q] EXCEPT !.phase = phase]
      /\ \A p \in Requests : p # q => request'[p] = request[p]
    BY DEF Goes, TypedInv, TypeOK
<1>3. /\ request'[q].phase = phase
      /\ request'[q].subject = request[q].subject /\ request'[q].target = request[q].target
    BY <1>1, <1>2 DEF RequestType
<1>4. StatusFits(Subject(q), request[q].target) => StatusFits(Subject(q), request[q].target)'
    BY <1>3 DEF StatusFits, HasRecord, Subject
<1> QED
    BY <1>2, <1>3, <1>4 DEF GoesOnFitting

LEMMA NotesFitting ==
    ASSUME TypedInv, NEW q \in Requests, NEW op, At(q, op, "start"),
           request' = [request EXCEPT ![q].phase = "loaded", ![q].seen = RowOf(q)]
    PROVE  GoesOnFitting(q)
<1>1. request[q] \in RequestType
    BY InProgress
<1>2. /\ request'[q].phase = "loaded"
      /\ \A p \in Requests : p # q => request'[p] = request[p]
    BY <1>1 DEF TypedInv, TypeOK, RequestType
<1> QED
    BY <1>2 DEF GoesOnFitting

\* A step that adds no record and forgets no overtaken request but its own.
LEMMA NobodyOvertaken ==
    ASSUME NEW q, records' \subseteq records, overtaken' = overtaken \/ overtaken' = overtaken \ {q}
    PROVE  RecordsOvertake(q)
BY DEF RecordsOvertake

-----------------------------------------------------------------------------
\* One lemma per operation: its checks hold, and it contradicts rightly.
LEMMA ArriveAgrees ==
    ASSUME TypedInv, ChecksHold, NEW q \in Requests, ArriveAny(q)
    PROVE  ChecksHold' /\ ContradictsRightly
<1>1. row' = row /\ records' = records /\ overtaken' = overtaken
    BY DEF ArriveAny, Arrive
<1>2. /\ request'[q].phase = "start"
      /\ \A p \in Requests : p # q => request'[p] = request[p]
    BY DEF ArriveAny, Arrive, TypedInv, TypeOK
<1>3. GoesOnFitting(q)
    BY <1>2 DEF GoesOnFitting
<1> QED
    BY <1>1, <1>3, NobodyOvertaken, ChecksKeep, LessIsRight

LEMMA CompleteAgrees ==
    ASSUME TypedInv, ChecksHold, NEW q \in Requests, Complete(q)
    PROVE  ChecksHold' /\ ContradictsRightly
<1>1. PICK phase : At(q, "complete", phase)
    BY DEF Complete, CompleteLook, CompleteInsert, CompleteLookAgain, CompleteInsertAgain
<1>2. FreshId(q) \in 1..MaxRequests /\ Subject(q) \in VisitSubjects
    BY <1>1, InProgress DEF Subject, FreshId
<1>3. RowOf(q) # NoRow => RowOf(q).id \in 1..MaxRequests
    BY <1>2 DEF RowOf, Rows, TypedInv, TypeOK
<1>4. \/ (\E next \in {"absent", "lost", "second"} : Goes(q, next))
         /\ UNCHANGED <<row, records, overtaken>>
      \/ Ends(q) /\ UNCHANGED <<row, records, overtaken>>
      \/ Ends(q) /\ \E id \in 1..MaxRequests : SaveRecord(q, id)
    BY <1>2, <1>3 DEF Complete, CompleteLook, CompleteInsert, CompleteLookAgain,
       CompleteInsertAgain, AfterLoss
<1>5. CASE UNCHANGED <<row, records, overtaken>>
  <2>1. row' = row /\ records' = records /\ overtaken' = overtaken
    BY <1>5
  <2>2. GoesOnFitting(q)
    BY <1>1, <1>4, <2>1, GoesFitting, EndsFitting
  <2> QED
    BY <2>1, <2>2, NobodyOvertaken, ChecksKeep, LessIsRight
<1>6. CASE Ends(q) /\ \E id \in 1..MaxRequests : SaveRecord(q, id)
  <2>1. GoesOnFitting(q)
    BY <1>6, EndsFitting
  <2>2. \/ UNCHANGED <<row, records, overtaken>>
        \/ /\ row'[Subject(q)].status = "visited"
           /\ \A t \in VisitSubjects : t # Subject(q) => row'[t] = row[t]
           /\ records \subseteq records'
           /\ \A r \in records' \ records : r.subject = Subject(q)
           /\ records' = records \/ overtaken' = overtaken \cup Overtaken(Subject(q))
           /\ overtaken \subseteq overtaken'
    BY <1>1, <1>6, SaveRecordEffect
  <2>3. RecordsOvertake(q)
    BY <2>2 DEF RecordsOvertake
  <2>4. ContradictsRightly
    <3>1. CASE UNCHANGED <<row, records, overtaken>>
      BY <3>1, LessIsRight
    <3>2. CASE ~UNCHANGED <<row, records, overtaken>>
      BY <2>2, <3>2 DEF ContradictsRightly, Contradicted, HasRecord
    <3> QED
      BY <3>1, <3>2
  <2> QED
    BY <2>1, <2>3, <2>4, ChecksKeep
<1> QED
    BY <1>4, <1>5, <1>6

LEMMA CreateAgrees ==
    ASSUME TypedInv, ChecksHold, NEW q \in Requests, Create(q)
    PROVE  ChecksHold' /\ ContradictsRightly
<1>1. CASE CreateChecks(q)
  <2>1. /\ At(q, "create", "start") /\ row' = row /\ records' = records
        /\ overtaken' = overtaken
        /\ \/ Ends(q)
           \/ Goes(q, "checked") /\ StatusFits(Subject(q), request[q].target)
    BY <1>1 DEF CreateChecks
  <2>2. GoesOnFitting(q)
    BY <2>1, GoesFitting, EndsFitting
  <2> QED
    BY <2>1, <2>2, NobodyOvertaken, ChecksKeep, LessIsRight
<1>2. CASE CreateInserts(q)
  <2> DEFINE new == [id |-> FreshId(q), status |-> request[q].target]
  <2>1. /\ At(q, "create", "checked") /\ Ends(q) /\ records' = records
        /\ overtaken' = overtaken \ {q}
    BY <1>2 DEF CreateInserts
  <2>2. Subject(q) \in VisitSubjects
    BY <2>1, InProgress DEF Subject
  <2>3. ChecksHold'
    BY <2>1, EndsFitting, NobodyOvertaken, ChecksKeep
  <2>4. CASE row' = row
    BY <2>1, <2>3, <2>4, LessIsRight
  <2>5. CASE row' = [row EXCEPT ![Subject(q)] = new]
    <3>1. /\ row'[Subject(q)].status = request[q].target
          /\ \A t \in VisitSubjects : t # Subject(q) => row'[t] = row[t]
      BY <2>2, <2>5 DEF TypedInv, TypeOK
    <3>2. request'[q] = Free
      BY <2>1 DEF Ends, TypedInv, TypeOK
    <3> QED
      BY <2>1, <2>3, <3>1, <3>2, WriteIsRight DEF At
  <2> QED
    BY <1>2, <2>4, <2>5 DEF CreateInserts
<1> QED
    BY <1>1, <1>2 DEF Create

LEMMA PatchAgrees ==
    ASSUME TypedInv, ChecksHold, NEW q \in Requests, Patch(q)
    PROVE  ChecksHold' /\ ContradictsRightly
<1>1. CASE PatchLoads(q)
  <2>1. At(q, "patch", "start") /\ row' = row /\ records' = records /\ overtaken' = overtaken
    BY <1>1 DEF PatchLoads
  <2>2. GoesOnFitting(q)
    BY <1>1, <2>1, EndsFitting, NotesFitting DEF PatchLoads
  <2> QED
    BY <2>1, <2>2, NobodyOvertaken, ChecksKeep, LessIsRight
<1>2. CASE PatchChecks(q)
  <2>1. /\ At(q, "patch", "loaded") /\ row' = row /\ records' = records
        /\ overtaken' = overtaken
        /\ \/ Ends(q)
           \/ Goes(q, "checked") /\ StatusFits(Subject(q), request[q].target)
    BY <1>2 DEF PatchChecks
  <2>2. GoesOnFitting(q)
    BY <2>1, GoesFitting, EndsFitting
  <2> QED
    BY <2>1, <2>2, NobodyOvertaken, ChecksKeep, LessIsRight
<1>3. CASE PatchSaves(q)
  <2>1. /\ At(q, "patch", "checked") /\ Ends(q) /\ records' = records
        /\ overtaken' = overtaken \ {q}
        /\ row' = row \/ row' = [row EXCEPT ![Subject(q)].status = request[q].target]
    BY <1>3 DEF PatchSaves
  <2>2. Subject(q) \in VisitSubjects
    BY <2>1, InProgress DEF Subject
  <2>3. ChecksHold'
    BY <2>1, EndsFitting, NobodyOvertaken, ChecksKeep
  <2>4. CASE row' = row
    BY <2>1, <2>3, <2>4, LessIsRight
  <2>5. CASE row' = [row EXCEPT ![Subject(q)].status = request[q].target]
    <3>1. row[Subject(q)] \in Rows
      BY <2>2 DEF TypedInv, TypeOK
    <3>2. /\ row'[Subject(q)].status = request[q].target
          /\ \A t \in VisitSubjects : t # Subject(q) => row'[t] = row[t]
      BY <2>2, <2>5, <3>1 DEF TypedInv, TypeOK, Rows, NoRow
    <3>3. request'[q] = Free
      BY <2>1 DEF Ends, TypedInv, TypeOK
    <3> QED
      BY <2>1, <2>3, <3>2, <3>3, WriteIsRight DEF At
  <2> QED
    BY <2>1, <2>4, <2>5
<1> QED
    BY <1>1, <1>2, <1>3 DEF Patch

LEMMA RemoveAgrees ==
    ASSUME TypedInv, ChecksHold, NEW q \in Requests, Remove(q)
    PROVE  ChecksHold' /\ ContradictsRightly
<1>1. PICK phase : At(q, "remove", phase)
    BY DEF Remove, RemoveLoads, RemoveDeletes
<1>2. records' = records /\ overtaken' = overtaken
    BY DEF Remove, RemoveLoads, RemoveDeletes
<1>3. row' = row \/ row' = [row EXCEPT ![Subject(q)] = NoRow]
    BY DEF Remove, RemoveLoads, RemoveDeletes
<1>4. \A t \in VisitSubjects : row'[t] = row[t] \/ row'[t] = NoRow
    BY <1>3 DEF TypedInv, TypeOK
<1>5. GoesOnFitting(q)
    BY EndsFitting, NotesFitting DEF Remove, RemoveLoads, RemoveDeletes
<1> QED
    BY <1>2, <1>4, <1>5, NobodyOvertaken, ChecksKeep, LessIsRight

LEMMA EraseAgrees ==
    ASSUME TypedInv, ChecksHold, NEW q \in Requests, EraseRecord(q)
    PROVE  ChecksHold' /\ ContradictsRightly
<1>1. Ends(q) /\ row' = row /\ records' \subseteq records /\ overtaken' = overtaken
    BY DEF EraseRecord
<1> QED
    BY <1>1, EndsFitting, NobodyOvertaken, ChecksKeep, LessIsRight

LEMMA AgreesStep ==
    TypedInv /\ ChecksHold /\ [Next]_vars => ChecksHold' /\ ContradictsRightly
<1> SUFFICES ASSUME TypedInv, ChecksHold, [Next]_vars
             PROVE  ChecksHold' /\ ContradictsRightly
    OBVIOUS
<1>1. CASE Next
  <2>1. PICK q \in Requests :
            ArriveAny(q) \/ Complete(q) \/ Create(q) \/ Patch(q) \/ Remove(q) \/ EraseRecord(q)
    BY <1>1 DEF Next
  <2> QED
    BY <2>1, ArriveAgrees, CompleteAgrees, CreateAgrees, PatchAgrees, RemoveAgrees, EraseAgrees
<1>2. CASE UNCHANGED vars
  <2>1. row' = row /\ records' = records /\ request' = request /\ overtaken' = overtaken
    BY <1>2 DEF vars
  <2>2. ChecksHold'
    BY <2>1 DEF ChecksHold, StatusFits, HasRecord, Subject
  <2> QED
    BY <2>1, <2>2, LessIsRight
<1> QED
    BY <1>1, <1>2

\* However many completions, creations, patches, removals and deletions of
\* records run at the same time and wherever they interleave, only a creation or
\* a patch that a record has overtaken ever sets a status against a record, and
\* a record that is saved leaves its subject visited.
THEOREM RecordsAndRowsAgree == Spec => RecordMeansVisited
<1> DEFINE Inv == TypedInv /\ ChecksHold
<1>1. Init => Inv
    BY InitTyped DEF Init, ChecksHold
<1>2. Inv /\ [Next]_vars => Inv' /\ ContradictsRightly
    BY TypedStep, AgreesStep
<1>3. Inv /\ [Next]_vars => [ContradictsRightly]_vars
    BY <1>2
<1> HIDE DEF Inv
<1> QED
    BY <1>1, <1>2, <1>3, PTL DEF Spec, RecordMeansVisited, ContradictsRightly

-----------------------------------------------------------------------------
(***************************************************************************)
(* Losing the insertion of a row.                                          *)
(***************************************************************************)

\* The status of the subject was removed once; entries stay in the log.
Removed(s) == \E i \in 1..Len(activity[s]) : activity[s][i].to = "none"

\* A completion that lost its first insertion had a row to find, and one that
\* did not find it at the second look lost it to a removal.
LosersInv ==
    /\ \A q \in Requests :
           At(q, "complete", "lost") => RowOf(q) # NoRow \/ Removed(Subject(q))
    /\ \A q \in Requests : At(q, "complete", "second") => Removed(Subject(q))
    /\ "conflict" \in trouble => \E s \in VisitSubjects : Removed(s)

\* Rows go away by removals only, and removals stay in the log.
RowsGoByRemoval ==
    \A s \in VisitSubjects :
        /\ row[s] # NoRow => row'[s] # NoRow \/ Removed(s)'
        /\ Removed(s) => Removed(s)'

\* What an entry more says about removals.
LEMMA LoggedRemoval ==
    ASSUME TypedInv, NEW s \in VisitSubjects, NEW old \in RowStatuses \cup {"none"},
           NEW new \in RowStatuses \cup {"none"}, activity' = Logged(s, old, new)
    PROVE  /\ \A t \in VisitSubjects : Removed(t) => Removed(t)'
           /\ new = "none" => Removed(s)'
<1> DEFINE entry == [from |-> old, to |-> new]
<1>1. activity \in [VisitSubjects -> Seq(Entries)] /\ entry \in Entries
    BY DEF TypedInv, TypeOK, Entries
<1>2. activity'[s] = Append(activity[s], entry)
      /\ \A t \in VisitSubjects : t # s => activity'[t] = activity[t]
    BY <1>1 DEF Logged
<1>3. entry.to = new
    OBVIOUS
<1> HIDE DEF entry
<1>4. /\ activity[s] \in Seq(Entries)
      /\ Len(activity'[s]) = Len(activity[s]) + 1
      /\ Len(activity[s]) \in Nat
      /\ \A i \in 1..Len(activity[s]) : activity'[s][i] = activity[s][i]
      /\ activity'[s][Len(activity[s]) + 1] = entry
    BY <1>1, <1>2
<1>5. Removed(s) => Removed(s)'
    BY <1>4 DEF Removed
<1>6. new = "none" => Removed(s)'
    BY <1>3, <1>4 DEF Removed
<1>7. \A t \in VisitSubjects : t # s => (Removed(t) => Removed(t)')
    BY <1>2 DEF Removed
<1> QED
    BY <1>5, <1>6, <1>7

LEMMA SameRowsAndLog ==
    ASSUME UNCHANGED <<row, activity>>
    PROVE  RowsGoByRemoval
BY DEF RowsGoByRemoval, Removed

LEMMA CompleteRemovesNothing ==
    ASSUME TypedInv, NEW q \in Requests, Complete(q)
    PROVE  RowsGoByRemoval
<1>1. PICK phase : At(q, "complete", phase)
    BY DEF Complete, CompleteLook, CompleteInsert, CompleteLookAgain, CompleteInsertAgain
<1>2. FreshId(q) \in 1..MaxRequests /\ Subject(q) \in VisitSubjects
    BY <1>1, InProgress DEF Subject, FreshId
<1>3. RowOf(q) # NoRow => RowOf(q).id \in 1..MaxRequests
    BY <1>2 DEF RowOf, Rows, TypedInv, TypeOK
<1>4. \/ UNCHANGED <<row, activity>>
      \/ \E id \in 1..MaxRequests : SaveRecord(q, id)
    BY <1>2, <1>3 DEF Complete, CompleteLook, CompleteInsert, CompleteLookAgain,
       CompleteInsertAgain
<1>5. \/ UNCHANGED <<row, activity>>
      \/ \E id \in 1..MaxRequests : BecomesVisited(Subject(q), id)
    BY <1>4 DEF SaveRecord
<1>6. ASSUME NEW id \in 1..MaxRequests, BecomesVisited(Subject(q), id),
             ~UNCHANGED <<row, activity>>
      PROVE  RowsGoByRemoval
  <2>1. /\ row'[Subject(q)].status = "visited"
        /\ \A t \in VisitSubjects : t # Subject(q) => row'[t] = row[t]
    BY <1>2, <1>6, VisitedTypes DEF TypedInv
  <2>2. activity' = Logged(Subject(q), row[Subject(q)].status, "visited")
    BY <1>6 DEF BecomesVisited
  <2>3. row[Subject(q)].status \in RowStatuses \cup {"none"}
        /\ "visited" \in RowStatuses \cup {"none"}
    BY <1>2 DEF TypedInv, TypeOK, Rows, NoRow, RowStatuses
  <2>4. \A t \in VisitSubjects : Removed(t) => Removed(t)'
    BY <1>2, <2>2, <2>3, LoggedRemoval
  <2>5. \A t \in VisitSubjects : row[t] # NoRow => row'[t] # NoRow
    BY <2>1 DEF NoRow
  <2> QED
    BY <2>4, <2>5 DEF RowsGoByRemoval
<1> QED
    BY <1>5, <1>6, SameRowsAndLog

LEMMA CreateRemovesNothing ==
    ASSUME TypedInv, NEW q \in Requests, Create(q)
    PROVE  RowsGoByRemoval
<1>1. CASE UNCHANGED <<row, activity>>
    BY <1>1, SameRowsAndLog
<1>2. CASE CreateInserts(q) /\ RowOf(q) = NoRow
  <2> DEFINE s == Subject(q)
             target == request[q].target
             new == [id |-> FreshId(q), status |-> target]
  <2>1. At(q, "create", "checked")
    BY <1>2 DEF CreateInserts
  <2>2. s \in VisitSubjects /\ target \in RowStatuses
    BY <2>1, InProgress DEF Subject
  <2>3. row' = [row EXCEPT ![s] = new] /\ activity' = Logged(s, "none", target)
    BY <1>2 DEF CreateInserts, RowOf
  <2>4. \A t \in VisitSubjects : row[t] # NoRow => row'[t] # NoRow
    BY <1>2, <2>2, <2>3 DEF TypedInv, TypeOK, RowOf
  <2>5. \A t \in VisitSubjects : Removed(t) => Removed(t)'
    BY <2>2, <2>3, LoggedRemoval
  <2> QED
    BY <2>4, <2>5 DEF RowsGoByRemoval
<1> QED
    BY <1>1, <1>2 DEF Create, CreateChecks, CreateInserts, RowOf

LEMMA PatchRemovesNothing ==
    ASSUME TypedInv, NEW q \in Requests, Patch(q)
    PROVE  RowsGoByRemoval
<1>1. CASE UNCHANGED <<row, activity>>
    BY <1>1, SameRowsAndLog
<1>2. CASE PatchSaves(q) /\ row' = [row EXCEPT ![Subject(q)].status = request[q].target]
  <2> DEFINE s == Subject(q)
             old == request[q].seen
             new == request[q].target
             saved == [row[s] EXCEPT !.status = new]
  <2>1. At(q, "patch", "checked")
    BY <1>2 DEF PatchSaves
  <2>2. s \in VisitSubjects /\ new \in RowStatuses /\ old \in Rows
    BY <2>1, InProgress DEF Subject
  <2>3. activity' = activity \/ activity' = Logged(s, old.status, new)
    BY <1>2 DEF PatchSaves
  <2>4. old.status \in RowStatuses \cup {"none"}
    BY <2>2 DEF Rows, NoRow
  <2>5. \A t \in VisitSubjects : Removed(t) => Removed(t)'
    BY <2>2, <2>3, <2>4, LoggedRemoval DEF Removed
  <2>6. row[s] \in Rows
    BY <2>2 DEF TypedInv, TypeOK
  <2>7. row'[s] = saved /\ \A t \in VisitSubjects : t # s => row'[t] = row[t]
    BY <1>2, <2>2 DEF TypedInv, TypeOK
  <2>8. saved.status = new
    BY <2>6 DEF Rows, NoRow
  <2>9. row'[s] # NoRow
    BY <2>2, <2>7, <2>8 DEF NoRow, RowStatuses
  <2> QED
    BY <2>5, <2>7, <2>9 DEF RowsGoByRemoval
<1> QED
    BY <1>1, <1>2 DEF Patch, PatchLoads, PatchChecks, PatchSaves

LEMMA RemoveIsLogged ==
    ASSUME TypedInv, NEW q \in Requests, Remove(q)
    PROVE  RowsGoByRemoval
<1>1. CASE RemoveLoads(q)
    BY <1>1, SameRowsAndLog DEF RemoveLoads
<1>2. CASE RemoveDeletes(q)
  <2> DEFINE old == request[q].seen
  <2>1. At(q, "remove", "loaded")
    BY <1>2 DEF RemoveDeletes
  <2>2. Subject(q) \in VisitSubjects /\ old \in Rows
    BY <2>1, InProgress DEF Subject
  <2>7. PICK s \in VisitSubjects : s = Subject(q)
    BY <2>2
  <2>3. old.status \in RowStatuses \cup {"none"}
    BY <2>2 DEF Rows, NoRow
  <2>4. activity' = Logged(s, old.status, "none")
    BY <1>2, <2>7 DEF RemoveDeletes
  <2>5. Removed(s)' /\ \A t \in VisitSubjects : Removed(t) => Removed(t)'
    BY <2>2, <2>3, <2>4, LoggedRemoval
  <2>6. \A t \in VisitSubjects : t # s => row'[t] = row[t]
    BY <1>2, <2>7 DEF RemoveDeletes, TypedInv, TypeOK
  <2> QED
    BY <2>5, <2>6 DEF RowsGoByRemoval
<1> QED
    BY <1>1, <1>2 DEF Remove

\* The other requests stay where they are: what they know stays true.
LEMMA LosersKeep ==
    ASSUME TypedInv, LosersInv, RowsGoByRemoval, NEW q \in Requests,
           \A p \in Requests : p # q => request'[p] = request[p],
           At(q, "complete", "lost")' => (RowOf(q) # NoRow)' \/ Removed(Subject(q))',
           At(q, "complete", "second")' => Removed(Subject(q))',
           "conflict" \in trouble' => "conflict" \in trouble \/ \E s \in VisitSubjects : Removed(s)
    PROVE  LosersInv'
<1>1. ASSUME NEW p \in Requests, p # q
      PROVE  /\ At(p, "complete", "lost")' => (RowOf(p) # NoRow)' \/ Removed(Subject(p))'
             /\ At(p, "complete", "second")' => Removed(Subject(p))'
  <2>1. request'[p] = request[p] /\ (Subject(p))' = Subject(p)
    BY <1>1 DEF Subject
  <2>2. \A phase : At(p, "complete", phase)' => At(p, "complete", phase)
    BY <2>1 DEF At
  <2>3. ASSUME NEW phase, At(p, "complete", phase) PROVE Subject(p) \in VisitSubjects
    BY <2>3, InProgress DEF Subject
  <2> QED
    BY <2>1, <2>2, <2>3 DEF LosersInv, RowsGoByRemoval, RowOf, Removed
<1>2. "conflict" \in trouble' => \E s \in VisitSubjects : Removed(s)'
    BY DEF LosersInv, RowsGoByRemoval
<1> QED
    BY <1>1, <1>2 DEF LosersInv

LEMMA CompleteLosers ==
    ASSUME TypedInv, LosersInv, NEW q \in Requests, Complete(q)
    PROVE  LosersInv'
<1>1. RowsGoByRemoval
    BY CompleteRemovesNothing
<1>2. PICK phase : At(q, "complete", phase)
    BY DEF Complete, CompleteLook, CompleteInsert, CompleteLookAgain, CompleteInsertAgain
<1>3. request[q] \in RequestType /\ Subject(q) \in VisitSubjects
    BY <1>2, InProgress DEF Subject
<1>4. \/ Ends(q)
      \/ Goes(q, "absent")
      \/ Goes(q, "lost") /\ RowOf(q) # NoRow /\ UNCHANGED row
      \/ Goes(q, "second") /\ RowOf(q) = NoRow /\ At(q, "complete", "lost")
    BY DEF Complete, CompleteLook, CompleteInsert, CompleteLookAgain, CompleteInsertAgain,
           AfterLoss
<1>5. \A p \in Requests : p # q => request'[p] = request[p]
    BY <1>4 DEF Ends, Goes, TypedInv, TypeOK
<1>6. "conflict" \in trouble' => "conflict" \in trouble \/ \E s \in VisitSubjects : Removed(s)
  <2>1. CASE At(q, "complete", "second")
    BY <1>3, <2>1 DEF LosersInv
  <2>2. CASE trouble' = trouble \/ trouble' = trouble \cup {"error"}
    BY <2>2
  <2> QED
    BY <2>1, <2>2 DEF Complete, CompleteLook, CompleteInsert, CompleteLookAgain,
                      CompleteInsertAgain, SaveRecord
<1>7. CASE Ends(q)
  <2>1. request'[q] = Free
    BY <1>7 DEF Ends, TypedInv, TypeOK
  <2> QED
    BY <1>1, <1>5, <1>6, <2>1, LosersKeep DEF At
<1>8. ASSUME NEW next \in {"absent", "lost", "second"}, Goes(q, next),
             next = "lost" => RowOf(q) # NoRow /\ UNCHANGED row,
             next = "second" => RowOf(q) = NoRow /\ At(q, "complete", "lost")
      PROVE  LosersInv'
  <2>1. request'[q].phase = next /\ request'[q].subject = request[q].subject
    BY <1>3, <1>8 DEF Goes, RequestType, TypedInv, TypeOK
  <2>2. At(q, "complete", "lost")' => (RowOf(q) # NoRow)'
    BY <1>8, <2>1 DEF At, RowOf, Subject
  <2>3. At(q, "complete", "second")' => Removed(Subject(q))'
    <3>1. next = "second" => Removed(Subject(q))
      BY <1>8 DEF LosersInv
    <3>2. (Subject(q))' = Subject(q)
      BY <2>1 DEF Subject
    <3> QED
      BY <1>1, <1>3, <2>1, <3>1, <3>2 DEF At, RowsGoByRemoval, Removed
  <2> QED
    BY <1>1, <1>5, <1>6, <2>2, <2>3, LosersKeep
<1> QED
    BY <1>4, <1>7, <1>8

\* Whatever is not a completion has no loser in it.
LEMMA OtherLosers ==
    ASSUME TypedInv, LosersInv, NEW q \in Requests,
           ArriveAny(q) \/ Create(q) \/ Patch(q) \/ Remove(q) \/ EraseRecord(q)
    PROVE  LosersInv'
<1>1. RowsGoByRemoval
  <2>1. ArriveAny(q) \/ EraseRecord(q) => UNCHANGED <<row, activity>>
    BY DEF ArriveAny, Arrive, EraseRecord
  <2> QED
    BY <2>1, SameRowsAndLog, CreateRemovesNothing, PatchRemovesNothing, RemoveIsLogged
<1>2. trouble' = trouble
    BY DEF ArriveAny, Arrive, EraseRecord, Create, CreateChecks, CreateInserts, Patch,
           PatchLoads, PatchChecks, PatchSaves, Remove, RemoveLoads, RemoveDeletes
<1>3. CASE ArriveAny(q)
  <2>1. request'[q].phase = "start" /\ \A p \in Requests : p # q => request'[p] = request[p]
    BY <1>3 DEF ArriveAny, Arrive, TypedInv, TypeOK
  <2> QED
    BY <1>1, <1>2, <2>1, LosersKeep DEF At
<1>4. CASE Create(q) \/ Patch(q) \/ Remove(q) \/ EraseRecord(q)
  <2>1. PICK op \in {"create", "patch", "remove", "erase"} : \E phase : At(q, op, phase)
    BY <1>4 DEF EraseRecord, Create, CreateChecks, CreateInserts, Patch,
           PatchLoads, PatchChecks, PatchSaves, Remove, RemoveLoads, RemoveDeletes
  <2>2. request[q] \in RequestType /\ request[q].op = op
    BY <2>1, InProgress
  <2>3. \/ Ends(q) \/ Goes(q, "checked")
        \/ request' = [request EXCEPT ![q].phase = "loaded", ![q].seen = RowOf(q)]
    BY <1>4 DEF EraseRecord, Create, CreateChecks, CreateInserts, Patch,
           PatchLoads, PatchChecks, PatchSaves, Remove, RemoveLoads, RemoveDeletes
  <2>4. /\ request'[q] = Free \/ request'[q].op = op
        /\ \A p \in Requests : p # q => request'[p] = request[p]
    BY <2>2, <2>3 DEF Ends, Goes, RequestType, TypedInv, TypeOK
  <2>5. \A phase1 : ~At(q, "complete", phase1)'
    BY <2>4 DEF At
  <2> QED
    BY <1>1, <1>2, <2>4, <2>5, LosersKeep
<1> QED
    BY <1>3, <1>4

\* Completions and creations that race each other for a row never cost a
\* completion: only a removal in between makes it fail with a conflict.
THEOREM LosersRecover == Spec => []CompletionsSucceed
<1>1. Init => LosersInv
    BY DEF Init, LosersInv, At
<1>2. TypedInv /\ LosersInv /\ [Next]_vars => LosersInv'
  <2> SUFFICES ASSUME TypedInv, LosersInv, [Next]_vars PROVE LosersInv'
    OBVIOUS
  <2>1. CASE Next
    BY <2>1, CompleteLosers, OtherLosers DEF Next
  <2>2. CASE UNCHANGED vars
    BY <2>2 DEF vars, LosersInv, At, RowOf, Subject, Removed
  <2> QED
    BY <2>1, <2>2
<1>3. LosersInv => CompletionsSucceed
    BY DEF LosersInv, CompletionsSucceed, Removed
<1> QED
    BY <1>1, <1>2, <1>3, InitTyped, TypedStep, PTL DEF Spec
-----------------------------------------------------------------------------
(***************************************************************************)
(* The history of a subject.                                               *)
(***************************************************************************)

EndOf(log, i) == IF i = 0 THEN "none" ELSE log[i].to

\* The entries of a log follow one another and lead to the status, but for the
\* given lengths.
Tells(log, status, breaks) ==
    /\ \A i \in 1..Len(log) :
           /\ log[i].from # log[i].to
           /\ i - 1 \notin breaks => log[i].from = EndOf(log, i - 1)
    /\ Len(log) \notin breaks => status = EndOf(log, Len(log))

LEMMA HistoryTells ==
    ActivityTellsHistory <=> \A s \in VisitSubjects : Tells(activity[s], row[s].status, gaps[s])
BY DEF ActivityTellsHistory, Tells, EndOf

\* One entry more: it starts where the log ends, or leaves a gap, and ends in the
\* new status, or leaves a gap.
LEMMA TellsOn ==
    ASSUME NEW log \in Seq(Entries), NEW status, NEW breaks, Tells(log, status, breaks),
           NEW old \in RowStatuses \cup {"none"}, NEW new \in RowStatuses \cup {"none"},
           NEW next, NEW more, breaks \subseteq more,
           old # new, Len(log) \notin more => old = status,
           Len(log) + 1 \notin more => next = new
    PROVE  Tells(Append(log, [from |-> old, to |-> new]), next, more)
<1> DEFINE entry == [from |-> old, to |-> new]
           longer == Append(log, entry)
<1>1. entry \in Entries /\ entry.from = old /\ entry.to = new
    BY DEF Entries
<1> HIDE DEF entry
<1>2. /\ Len(log) \in Nat /\ Len(longer) = Len(log) + 1
      /\ \A i \in 1..Len(log) : longer[i] = log[i]
      /\ longer[Len(log) + 1] = entry
    BY <1>1
<1> HIDE DEF longer
<1>3. \A i \in 0..Len(log) : EndOf(longer, i) = EndOf(log, i)
    BY <1>2 DEF EndOf
<1>4. ASSUME NEW i \in 1..Len(longer)
      PROVE  /\ longer[i].from # longer[i].to
             /\ i - 1 \notin more => longer[i].from = EndOf(longer, i - 1)
  <2>1. CASE i \in 1..Len(log)
    <3>1. longer[i] = log[i] /\ EndOf(longer, i - 1) = EndOf(log, i - 1)
      BY <1>2, <1>3, <2>1
    <3> QED
      BY <2>1, <3>1 DEF Tells
  <2>2. CASE i = Len(log) + 1
    <3>1. longer[i] = entry /\ i - 1 = Len(log)
      BY <1>2, <2>2
    <3>2. Len(log) \notin more => old = EndOf(log, Len(log))
      BY DEF Tells
    <3>3. EndOf(longer, Len(log)) = EndOf(log, Len(log))
      BY <1>2, <1>3
    <3> QED
      BY <1>1, <3>1, <3>2, <3>3
  <2> QED
    BY <1>2, <2>1, <2>2
<1>5. EndOf(longer, Len(longer)) = new
    BY <1>1, <1>2 DEF EndOf
<1>6. Tells(longer, next, more)
    BY <1>2, <1>4, <1>5 DEF Tells
<1> QED
    BY <1>6 DEF longer, entry

LEMMA SameHistory ==
    ActivityTellsHistory /\ UNCHANGED <<row, activity, gaps>> => ActivityTellsHistory'
BY DEF ActivityTellsHistory

\* A step that touches the row, the log and the gaps of one subject only.
OnlyOf(s) ==
    \A t \in VisitSubjects :
        t # s => row'[t] = row[t] /\ activity'[t] = activity[t] /\ gaps'[t] = gaps[t]

LEMMA TellsNext ==
    ASSUME ActivityTellsHistory, NEW s \in VisitSubjects, OnlyOf(s),
           Tells(activity'[s], row'[s].status, gaps'[s])
    PROVE  ActivityTellsHistory'
<1>1. \A t \in VisitSubjects : Tells(activity'[t], row'[t].status, gaps'[t])
    BY HistoryTells DEF OnlyOf
<1> QED
    BY <1>1 DEF ActivityTellsHistory, Tells, EndOf

\* A transaction that logs what it does to the status of one subject.
LEMMA LogsStatus ==
    ASSUME TypedInv, ActivityTellsHistory, NEW s \in VisitSubjects,
           NEW old \in RowStatuses \cup {"none"}, NEW new \in RowStatuses \cup {"none"},
           old # new, activity' = Logged(s, old, new),
           \A t \in VisitSubjects : t # s => row'[t] = row[t] /\ gaps'[t] = gaps[t],
           gaps[s] \subseteq gaps'[s],
           Len(activity[s]) \notin gaps'[s] => old = row[s].status,
           Len(activity[s]) + 1 \notin gaps'[s] => row'[s].status = new
    PROVE  ActivityTellsHistory'
<1> DEFINE entry == [from |-> old, to |-> new]
<1>1. activity \in [VisitSubjects -> Seq(Entries)]
    BY DEF TypedInv, TypeOK, Entries
<1>2. activity' = [activity EXCEPT ![s] = Append(@, entry)]
    BY DEF Logged
<1>3. Tells(activity[s], row[s].status, gaps[s])
    BY HistoryTells
<1>4. PICK log \in Seq(Entries) : log = activity[s]
    BY <1>1
<1>5. Tells(Append(log, entry), row'[s].status, gaps'[s])
  <2>1. PICK status, next, breaks, more :
            /\ status = row[s].status /\ next = row'[s].status
            /\ breaks = gaps[s] /\ more = gaps'[s]
    OBVIOUS
  <2>2. /\ Tells(log, status, breaks) /\ breaks \subseteq more
        /\ Len(log) \notin more => old = status
        /\ Len(log) + 1 \notin more => next = new
    BY <1>3, <1>4, <2>1
  <2>3. Tells(Append(log, entry), next, more)
    BY <2>2, TellsOn
  <2> QED
    BY <2>1, <2>3
<1> HIDE DEF entry
<1>6. /\ activity'[s] = Append(log, entry)
      /\ \A t \in VisitSubjects : t # s => activity'[t] = activity[t]
    BY <1>1, <1>2, <1>4
<1>7. OnlyOf(s)
    BY <1>6 DEF OnlyOf
<1> QED
    BY <1>5, <1>6, <1>7, TellsNext

\* What a write says about the gaps of its subject and of the others.
LEMMA GapsGrow ==
    ASSUME TypedInv, NEW q \in Requests, NEW s \in VisitSubjects, s = Subject(q),
           NEW lengths, LeavesGaps(q, lengths)
    PROVE  /\ gaps[s] \subseteq gaps'[s]
           /\ row[s] # request[q].seen => lengths \subseteq gaps'[s]
           /\ \A t \in VisitSubjects : t # s => gaps'[t] = gaps[t]
<1>1. gaps \in [VisitSubjects -> SUBSET Nat]
    BY DEF TypedInv, TypeOK
<1>2. CASE row[s] = request[q].seen
    BY <1>2 DEF LeavesGaps, RowOf
<1>3. CASE row[s] # request[q].seen
    BY <1>1, <1>3 DEF LeavesGaps, RowOf
<1> QED
    BY <1>2, <1>3

-----------------------------------------------------------------------------
LEMMA CompleteHistory ==
    ASSUME TypedInv, ActivityTellsHistory, NEW q \in Requests, Complete(q)
    PROVE  ActivityTellsHistory'
<1>1. PICK phase : At(q, "complete", phase)
    BY DEF Complete, CompleteLook, CompleteInsert, CompleteLookAgain, CompleteInsertAgain
<1>2. PICK s \in VisitSubjects : s = Subject(q)
    BY <1>1, InProgress DEF Subject
<1>3. gaps' = gaps
    BY DEF Complete, CompleteLook, CompleteInsert, CompleteLookAgain, CompleteInsertAgain
<1>4. \/ UNCHANGED <<row, activity>>
      \/ \E id : SaveRecord(q, id)
    BY DEF Complete, CompleteLook, CompleteInsert, CompleteLookAgain, CompleteInsertAgain
<1>5. \/ UNCHANGED <<row, activity>>
      \/ \E id : BecomesVisited(s, id)
    BY <1>2, <1>4 DEF SaveRecord
<1>6. CASE UNCHANGED <<row, activity>>
    BY <1>3, <1>6, SameHistory
<1>7. ASSUME NEW id, BecomesVisited(s, id), ~UNCHANGED <<row, activity>>
      PROVE  ActivityTellsHistory'
  <2>1. PICK old : old = row[s].status
    OBVIOUS
  <2>2. /\ old # "visited" /\ activity' = Logged(s, old, "visited")
        /\ row' = [row EXCEPT ![s] = [id |-> id, status |-> "visited"]]
    BY <1>7, <2>1 DEF BecomesVisited
  <2>3. old \in RowStatuses \cup {"none"} /\ "visited" \in RowStatuses \cup {"none"}
    BY <2>1 DEF TypedInv, TypeOK, Rows, NoRow, RowStatuses
  <2>4. /\ row'[s].status = "visited"
        /\ \A t \in VisitSubjects : t # s => row'[t] = row[t]
    BY <2>2 DEF TypedInv, TypeOK
  <2> QED
    BY <1>3, <2>1, <2>2, <2>3, <2>4, LogsStatus
<1> QED
    BY <1>5, <1>6, <1>7

LEMMA CreateHistory ==
    ASSUME TypedInv, ActivityTellsHistory, NEW q \in Requests, Create(q)
    PROVE  ActivityTellsHistory'
<1>1. PICK phase : At(q, "create", phase)
    BY DEF Create, CreateChecks, CreateInserts
<1>2. PICK s \in VisitSubjects, target \in RowStatuses :
          s = Subject(q) /\ target = request[q].target
    BY <1>1, InProgress DEF Subject
<1>3. gaps' = gaps
    BY DEF Create, CreateChecks, CreateInserts
<1>4. CASE UNCHANGED <<row, activity>>
    BY <1>3, <1>4, SameHistory
<1>5. CASE CreateInserts(q) /\ row[s] = NoRow
  <2>1. PICK new : new = [id |-> FreshId(q), status |-> target]
    OBVIOUS
  <2>2. activity' = Logged(s, "none", target) /\ row' = [row EXCEPT ![s] = new]
    BY <1>2, <1>5, <2>1 DEF CreateInserts
  <2>3. /\ row'[s].status = target
        /\ \A t \in VisitSubjects : t # s => row'[t] = row[t]
    BY <2>1, <2>2 DEF TypedInv, TypeOK
  <2>4. /\ row[s].status = "none" /\ target # "none"
        /\ "none" \in RowStatuses \cup {"none"} /\ target \in RowStatuses \cup {"none"}
    BY <1>5 DEF NoRow, RowStatuses
  <2> QED
    BY <1>3, <2>2, <2>3, <2>4, LogsStatus
<1> QED
    BY <1>2, <1>4, <1>5 DEF Create, CreateChecks, CreateInserts

\* A patch that finds its row unchanged goes on where the log ends; one that
\* does not leaves a gap.
LEMMA PatchHistory ==
    ASSUME TypedInv, ActivityTellsHistory, NEW q \in Requests, Patch(q)
    PROVE  ActivityTellsHistory'
<1>1. PICK phase : At(q, "patch", phase)
    BY DEF Patch, PatchLoads, PatchChecks, PatchSaves
<1>2. PICK s \in VisitSubjects, new \in RowStatuses, old \in Rows :
          s = Subject(q) /\ new = request[q].target /\ old = request[q].seen
    BY <1>1, InProgress DEF Subject
<1>3. CASE UNCHANGED <<row, activity, gaps>>
    BY <1>3, SameHistory
<1>4. CASE PatchSaves(q) /\ row[s].id = old.id
  <2>1. /\ row' = [row EXCEPT ![s].status = new]
        /\ activity' = IF old.status = new THEN activity ELSE Logged(s, old.status, new)
        /\ LeavesGaps(q, {Len(activity[s])})
    BY <1>2, <1>4 DEF PatchSaves
  <2>2. /\ gaps[s] \subseteq gaps'[s]
        /\ row[s] # old => Len(activity[s]) \in gaps'[s]
        /\ \A t \in VisitSubjects : t # s => gaps'[t] = gaps[t]
    BY <1>2, <2>1, GapsGrow
  <2>3. row[s] \in Rows
    BY DEF TypedInv, TypeOK
  <2>4. row'[s].status = new /\ \A t \in VisitSubjects : t # s => row'[t] = row[t]
    BY <2>1, <2>3 DEF TypedInv, TypeOK, Rows, NoRow
  <2>5. old.status \in RowStatuses \cup {"none"} /\ new \in RowStatuses \cup {"none"}
    BY DEF Rows, NoRow
  <2>6. CASE old.status = new
    <3>1. Tells(activity[s], row[s].status, gaps[s]) /\ activity' = activity
      BY <2>1, <2>6, HistoryTells
    <3>2. Tells(activity'[s], row'[s].status, gaps'[s])
      BY <2>2, <2>4, <2>6, <3>1 DEF Tells
    <3>3. OnlyOf(s)
      BY <2>2, <2>4, <3>1 DEF OnlyOf
    <3> QED
      BY <3>2, <3>3, TellsNext
  <2>7. CASE old.status # new
    BY <2>1, <2>2, <2>4, <2>5, <2>7, LogsStatus
  <2> QED
    BY <2>6, <2>7
<1> QED
    BY <1>2, <1>3, <1>4 DEF Patch, PatchLoads, PatchChecks, PatchSaves

\* A removal logs that the status ends, with what it had loaded.
LEMMA RemoveHistory ==
    ASSUME TypedInv, ActivityTellsHistory, NEW q \in Requests, Remove(q)
    PROVE  ActivityTellsHistory'
<1>1. CASE RemoveLoads(q)
    BY <1>1, SameHistory DEF RemoveLoads
<1>2. CASE RemoveDeletes(q)
  <2>1. At(q, "remove", "loaded")
    BY <1>2 DEF RemoveDeletes
  <2>2. PICK s \in VisitSubjects, old \in Rows :
            s = Subject(q) /\ old = request[q].seen /\ old # NoRow
    BY <2>1, InProgress DEF Subject
  <2> DEFINE more == IF row[s].id \in {0, old.id} THEN {} ELSE {Len(activity[s]) + 1}
  <2>3. /\ row' = IF row[s].id = old.id THEN [row EXCEPT ![s] = NoRow] ELSE row
        /\ activity' = Logged(s, old.status, "none")
        /\ LeavesGaps(q, {Len(activity[s])} \cup more)
    BY <1>2, <2>2 DEF RemoveDeletes
  <2>4. /\ gaps[s] \subseteq gaps'[s]
        /\ row[s] # old => {Len(activity[s])} \cup more \subseteq gaps'[s]
        /\ \A t \in VisitSubjects : t # s => gaps'[t] = gaps[t]
    BY <2>2, <2>3, GapsGrow
  <2>5. row \in [VisitSubjects -> Rows] /\ row[s] \in Rows
    BY DEF TypedInv, TypeOK
  <2>6. \A t \in VisitSubjects : t # s => row'[t] = row[t]
    BY <2>3, <2>5
  <2>7. /\ old.status \in RowStatuses \cup {"none"} /\ old.status # "none"
        /\ "none" \in RowStatuses \cup {"none"}
    BY <2>2 DEF Rows, NoRow, RowStatuses
  <2>8. Len(activity[s]) \notin gaps'[s] => old.status = row[s].status
    BY <2>4
  <2>9. Len(activity[s]) + 1 \notin gaps'[s] => row'[s].status = "none"
    <3>1. CASE row[s].id = old.id
      <4>1. row'[s] = NoRow
        BY <2>3, <2>5, <3>1
      <4> QED
        BY <4>1 DEF NoRow
    <3>2. CASE row[s].id # old.id /\ row[s].id = 0
      <4>1. row'[s] = row[s] /\ row[s] = NoRow
        BY <2>3, <2>5, <3>2 DEF Rows, NoRow
      <4> QED
        BY <4>1 DEF NoRow
    <3>3. CASE row[s].id \notin {0, old.id}
      BY <2>4, <3>3
    <3> QED
      BY <3>1, <3>2, <3>3
  <2> QED
    BY <2>3, <2>4, <2>6, <2>7, <2>8, <2>9, LogsStatus
<1> QED
    BY <1>1, <1>2 DEF Remove

\* The log of a subject tells its history without a transition missing, doubled
\* or invented, whatever overlaps: completions, creations, patches and removals
\* that race for one row each log what they did to it, and only a patch or a
\* removal that finds another row than it loaded leaves a gap.
THEOREM HistoryIsTold == Spec => []ActivityTellsHistory
<1>1. Init => ActivityTellsHistory
  <2> SUFFICES ASSUME Init PROVE ActivityTellsHistory
    OBVIOUS
  <2>1. ASSUME NEW s \in VisitSubjects PROVE Tells(activity[s], row[s].status, gaps[s])
    <3>1. activity[s] = << >> /\ row[s].status = "none" /\ Len(activity[s]) = 0
      BY DEF Init, NoRow
    <3> QED
      BY <3>1 DEF Tells, EndOf
  <2> QED
    BY <2>1, HistoryTells
<1>2. TypedInv /\ ActivityTellsHistory /\ [Next]_vars => ActivityTellsHistory'
  <2> SUFFICES ASSUME TypedInv, ActivityTellsHistory, [Next]_vars
               PROVE  ActivityTellsHistory'
    OBVIOUS
  <2>1. CASE Next
    <3>1. PICK q \in Requests :
              ArriveAny(q) \/ Complete(q) \/ Create(q) \/ Patch(q) \/ Remove(q) \/ EraseRecord(q)
      BY <2>1 DEF Next
    <3>2. ArriveAny(q) \/ EraseRecord(q) => UNCHANGED <<row, activity, gaps>>
      BY DEF ArriveAny, Arrive, EraseRecord
    <3> QED
      BY <3>1, <3>2, CompleteHistory, CreateHistory, PatchHistory, RemoveHistory, SameHistory
  <2>2. CASE UNCHANGED vars
    BY <2>2, SameHistory DEF vars
  <2> QED
    BY <2>1, <2>2
<1> QED
    BY <1>1, <1>2, InitTyped, TypedStep, PTL DEF Spec
=============================================================================
