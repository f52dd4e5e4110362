-------------------------- MODULE DraftReview_proofs --------------------------
(***************************************************************************)
(* Proofs about DraftReview: the decisions on the server's side and what   *)
(* the open page shows of them, for every number of drafts, reviewers'     *)
(* requests and contents.                                                  *)
(***************************************************************************)
EXTENDS DraftReview, WellFoundedInduction, TLAPS

\* What the proofs need of the types.
RequestsType == request \in [Requests -> RequestType \cup {Idle}]
LogType == log \in [Drafts -> [Decisions -> Nat]]
DraftType == draft \in [Drafts -> Statuses] /\ content \in [Drafts -> Contents]
EventType == event \in [Drafts -> BOOLEAN]
Types == RequestsType /\ LogType /\ DraftType /\ EventType

-----------------------------------------------------------------------------
(***************************************************************************)
(* What a step does to the requests.                                       *)
(***************************************************************************)

LEMMA ItemDoneEffect ==
    ASSUME RequestsType, NEW r \in Requests, NEW d \in Drafts, NEW good \in BOOLEAN,
           request[r].state \in {"sent", "holding"}, request' = ItemDone(r, d, good)
    PROVE  /\ RequestsType'
           /\ request'[r].state # "holding"
           /\ \A q \in Requests : q # r => request'[q] = request[q]
<1>1. request[r] \in RequestType
    BY DEF RequestsType, Idle
<1> DEFINE left == request[r].left \ {d}
           ok == IF good THEN request[r].ok \cup {d} ELSE request[r].ok
           state == IF left = {} THEN "answered" ELSE "sent"
           done == [request[r] EXCEPT !.left = left, !.item = NoDraft, !.ok = ok,
                                      !.state = state]
<1>2. left \in SUBSET Drafts /\ ok \in SUBSET Drafts /\ state \in {"answered", "sent"}
    BY <1>1 DEF RequestType
<1>3. \/ request' = [request EXCEPT ![r] = Idle]
      \/ request' = [request EXCEPT ![r] = done]
    BY <1>1 DEF ItemDone, RequestsType, RequestType
<1> HIDE DEF left, ok, state
<1>4. done \in RequestType /\ done.state # "holding"
    BY <1>1, <1>2 DEF RequestType
<1> HIDE DEF done
<1>5. Idle.state # "holding"
    BY DEF Idle
<1> QED
    BY <1>3, <1>4, <1>5 DEF RequestsType

LEMMA StartEffect ==
    ASSUME RequestsType, NEW r \in Requests, NEW d \in Drafts, StartApproval(r, d)
    PROVE  /\ RequestsType'
           /\ request'[r].state = "holding" /\ request'[r].item = d
           /\ \A q \in Requests : q # r => request'[q] = request[q]
<1>1. request[r] \in RequestType
    BY DEF StartApproval, Takes, RequestsType, Idle
<1> DEFINE held == [request[r] EXCEPT !.state = "holding", !.item = d]
<1>2. request' = [request EXCEPT ![r] = held]
    BY <1>1 DEF StartApproval, RequestsType
<1>3. held \in RequestType /\ held.state = "holding" /\ held.item = d
    BY <1>1 DEF RequestType
<1> HIDE DEF held
<1> QED
    BY <1>2, <1>3 DEF RequestsType

\* Making, confirming, cancelling and losing requests, and loading the page:

\* nobody starts to hold a draft with it.
LEMMA PageEffect ==
    ASSUME RequestsType, NEW r \in Requests, 
           \/ Confirm(r) \/ Cancel(r) \/ Answer(r) \/ LoseAnswer(r)
           \/ \E d \in Drafts : ApproveElsewhere(r, d)
           \/ \E kind \in Kinds, ds \in SUBSET Drafts : Click(r, kind, ds)
    PROVE  /\ RequestsType'
           /\ request'[r].state # "holding"
           /\ \A q \in Requests : q # r => request'[q] = request[q]
           /\ UNCHANGED <<draft, content, event, log>>
<1>1. ASSUME NEW next \in RequestType \cup {Idle}, next.state # "holding",
             request' = [request EXCEPT ![r] = next]
      PROVE  /\ RequestsType'
             /\ request'[r].state # "holding"
             /\ \A q \in Requests : q # r => request'[q] = request[q]
    BY <1>1 DEF RequestsType
<1>2. CASE Confirm(r)
  <2>1. request[r] \in RequestType
    BY <1>2 DEF Confirm, RequestsType, Idle
  <2> DEFINE sent == [request[r] EXCEPT !.state = "sent"]
  <2>2. sent \in RequestType /\ sent.state # "holding"
    BY <2>1 DEF RequestType
  <2>3. request' = [request EXCEPT ![r] = sent]
    BY <1>2, <2>1 DEF Confirm, RequestsType
  <2>4. UNCHANGED <<draft, content, event, log>>
    BY <1>2 DEF Confirm
  <2> HIDE DEF sent
  <2> QED
    BY <1>1, <2>2, <2>3, <2>4
<1>3. CASE Cancel(r) \/ Answer(r) \/ LoseAnswer(r)
  <2>1. request' = [request EXCEPT ![r] = Idle] /\ UNCHANGED <<draft, content, event, log>>
    BY <1>3 DEF Cancel, Answer, LoseAnswer
  <2>2. Idle.state # "holding"
    BY DEF Idle
  <2> QED
    BY <1>1, <2>1, <2>2
<1>4. ASSUME NEW state \in {"asked", "sent"}, NEW kind \in Kinds, NEW queue \in BOOLEAN,
             NEW ds \in SUBSET Drafts,
             request' = [request EXCEPT ![r] = NewRequest(state, kind, queue, ds)]
      PROVE  /\ RequestsType'
             /\ request'[r].state # "holding"
             /\ \A q \in Requests : q # r => request'[q] = request[q]
  <2> DEFINE new == NewRequest(state, kind, queue, ds)
  <2>1. new \in RequestType /\ new.state # "holding"
    BY DEF NewRequest, RequestType
  <2> HIDE DEF new
  <2> QED
    BY <1>1, <1>4, <2>1 DEF new
<1>5. ASSUME NEW d \in Drafts, ApproveElsewhere(r, d)
      PROVE  /\ request' = [request EXCEPT ![r] = NewRequest("sent", "approve", FALSE, {d})]
             /\ UNCHANGED <<draft, content, event, log>>
    BY <1>5 DEF ApproveElsewhere
<1>6. ASSUME NEW kind \in Kinds, NEW ds \in SUBSET Drafts, Click(r, kind, ds)
      PROVE  /\ request' = [request EXCEPT ![r] = NewRequest("asked", kind, TRUE, ds)]
             /\ UNCHANGED <<draft, content, event, log>>
    BY <1>6 DEF Click
<1>7. \A d \in Drafts : {d} \in SUBSET Drafts
    OBVIOUS
<1> QED
    BY <1>2, <1>3, <1>4, <1>5, <1>6, <1>7 DEF Kinds

LEMMA OpenPageEffect ==
    ASSUME RequestsType, NEW tab \in {"pending", "all"}, OpenPage(tab)
    PROVE  /\ RequestsType'
           /\ \A q \in Requests :
                  request'[q].state = "holding" =>
                      request[q].state = "holding" /\ request'[q].item = request[q].item
           /\ UNCHANGED <<draft, content, event, log>>
<1> DEFINE Kept(r) == [request[r] EXCEPT !.queue = FALSE]
<1>1. /\ \A r \in Requests : request'[r] \in {request[r], Idle, Kept(r)}
      /\ \A r \in Requests : request'[r] = Kept(r) => request[r] \in RequestType
                                                      \/ request'[r] = request[r]
      /\ request' = [r \in Requests |-> request'[r]]
      /\ UNCHANGED <<draft, content, event, log>>
    BY DEF OpenPage, RequestsType
<1>2. \A r \in Requests : request[r] \in RequestType =>
          /\ Kept(r) \in RequestType
          /\ Kept(r).state = request[r].state /\ Kept(r).item = request[r].item
    BY DEF RequestType
<1>3. Idle.state # "holding"
    BY DEF Idle
<1> HIDE DEF Kept
<1>4. \A r \in Requests : request'[r] \in RequestType \cup {Idle}
    BY <1>1, <1>2 DEF RequestsType
<1>5. RequestsType'
    BY <1>1, <1>4 DEF RequestsType
<1> QED
    BY <1>1, <1>2, <1>3, <1>5

-----------------------------------------------------------------------------
(***************************************************************************)
(* A draft that is held stays as it was found.                             *)
(***************************************************************************)

\* An approval under way holds a pending draft that can be published, its
\* event aside: nobody decides or edits it meanwhile.
HeldFits ==
    \A r \in Requests :
        request[r].state = "holding" =>
            LET d == request[r].item IN
            /\ d \in Drafts /\ draft[d] = "pending"
            /\ content[d].title = "text" /\ content[d].ordered /\ content[d].known

\* No two approvals hold the same draft.
OneHolder ==
    \A r, q \in Requests :
        /\ request[r].state = "holding" /\ request[q].state = "holding"
        /\ request[r].item = request[q].item
        => r = q

ReviewInv == Types /\ HeldFits /\ OneHolder /\ LogTellsStatus

\* A step after which nobody holds a draft who did not hold it before, and

\* that leaves the drafts that are held alone.
LEMMA NoNewHolder ==
    ASSUME HeldFits, OneHolder,
           \A q \in Requests :
               request'[q].state = "holding" =>
                   request[q].state = "holding" /\ request'[q].item = request[q].item,
           \A q \in Requests :
               request'[q].state = "holding" =>
                   /\ draft'[request[q].item] = draft[request[q].item]
                   /\ content'[request[q].item] = content[request[q].item]
    PROVE  HeldFits' /\ OneHolder'
BY DEF HeldFits, OneHolder

LEMMA SameLog ==
    ASSUME LogTellsStatus, UNCHANGED <<draft, log>>
    PROVE  LogTellsStatus'
BY DEF LogTellsStatus

LEMMA SameData ==
    ASSUME Types, RequestsType', UNCHANGED <<draft, content, event, log>>
    PROVE  Types'
BY DEF Types, LogType, DraftType, EventType

\* What one decision adds to the log of its draft.
LEMMA LogEntry ==
    ASSUME LogType, NEW d \in Drafts, NEW entry \in Decisions,
           log' = [log EXCEPT ![d][entry] = @ + 1]
    PROVE  /\ LogType'
           /\ log'[d][entry] = log[d][entry] + 1
           /\ \A other \in Decisions : other # entry => log'[d][other] = log[d][other]
           /\ \A e \in Drafts : e # d => log'[e] = log[e]
<1>1. log[d] \in [Decisions -> Nat] /\ log[d][entry] + 1 \in Nat
    BY DEF LogType
<1>2. log' = [log EXCEPT ![d] = [log[d] EXCEPT ![entry] = log[d][entry] + 1]]
    BY <1>1 DEF LogType
<1> DEFINE entries == [log[d] EXCEPT ![entry] = log[d][entry] + 1]
<1>3. /\ entries \in [Decisions -> Nat] /\ entries[entry] = log[d][entry] + 1
      /\ \A other \in Decisions : other # entry => entries[other] = log[d][other]
    BY <1>1
<1> HIDE DEF entries
<1>4. log'[d] = entries /\ \A e \in Drafts : e # d => log'[e] = log[e]
    BY <1>2 DEF LogType, entries
<1>5. LogType'
    BY <1>2, <1>3 DEF LogType, entries
<1> QED
    BY <1>3, <1>4, <1>5

\* A rejection and a reopening move the count of the log with the status.
LEMMA DecideKeepsLog ==
    ASSUME Types, LogTellsStatus, NEW d \in Drafts,
           \/ Decide(d, "pending", "rejected", "rejected")
           \/ Decide(d, "rejected", "pending", "reopened")
    PROVE  LogTellsStatus' /\ LogType' /\ DraftType' /\ EventType'
<1>1. /\ LogType'
      /\ log'[d]["approved"] = log[d]["approved"]
      /\ \A e \in Drafts : e # d => log'[e] = log[e]
      /\ \/ /\ draft[d] = "pending" /\ draft' = [draft EXCEPT ![d] = "rejected"]
            /\ log'[d]["rejected"] = log[d]["rejected"] + 1
            /\ log'[d]["reopened"] = log[d]["reopened"]
         \/ /\ draft[d] = "rejected" /\ draft' = [draft EXCEPT ![d] = "pending"]
            /\ log'[d]["rejected"] = log[d]["rejected"]
            /\ log'[d]["reopened"] = log[d]["reopened"] + 1
  <2>1. CASE Decide(d, "pending", "rejected", "rejected")
    BY <2>1, LogEntry DEF Decide, Decisions, Types
  <2>2. CASE Decide(d, "rejected", "pending", "reopened")
    BY <2>2, LogEntry DEF Decide, Decisions, Types
  <2> QED
    BY <2>1, <2>2
<1>2. DraftType' /\ EventType'
  <2>1. UNCHANGED <<content, event>>
    BY DEF Decide
  <2> QED
    BY <1>1, <2>1 DEF Types, DraftType, EventType, Statuses
<1>3. LogTellsStatus'
  <2> SUFFICES ASSUME NEW e \in Drafts
               PROVE  /\ log'[e]["approved"] = IF draft'[e] = "approved" THEN 1 ELSE 0
                      /\ log'[e]["rejected"] - log'[e]["reopened"]
                         = IF draft'[e] = "rejected" THEN 1 ELSE 0
    BY DEF LogTellsStatus
  <2>1. /\ log[e]["approved"] = IF draft[e] = "approved" THEN 1 ELSE 0
        /\ log[e]["rejected"] - log[e]["reopened"]
           = IF draft[e] = "rejected" THEN 1 ELSE 0
    BY DEF LogTellsStatus
  <2>2. CASE e # d
    <3>1. draft'[e] = draft[e] /\ log'[e] = log[e]
      BY <1>1, <2>2 DEF Types, DraftType
    <3> QED
      BY <2>1, <3>1
  <2>3. CASE e = d
    <3>1. log[d]["rejected"] \in Nat /\ log[d]["reopened"] \in Nat
      BY DEF Types, LogType, Decisions
    <3>2. d \in DOMAIN draft
      BY DEF Types, DraftType
    <3>3. CASE draft[d] = "pending"
      <4>1. draft'[d] = "rejected"
        BY <1>1, <3>2, <3>3
      <4> QED
        BY <1>1, <2>1, <2>3, <3>1, <3>3, <4>1
    <3>4. CASE draft[d] = "rejected"
      <4>1. draft'[d] = "pending"
        BY <1>1, <3>2, <3>4
      <4> QED
        BY <1>1, <2>1, <2>3, <3>1, <3>4, <4>1
    <3> QED
      BY <1>1, <3>3, <3>4
  <2> QED
    BY <2>2, <2>3
<1> QED
    BY <1>1, <1>2, <1>3
-----------------------------------------------------------------------------
(***************************************************************************)
(* The invariant is kept.                                                  *)
(***************************************************************************)

\* Nobody holds a draft that is not locked.
LEMMA NotHeld ==
    ASSUME NEW d \in Drafts, ~Locked(d)
    PROVE  \A q \in Requests : request[q].state = "holding" => request[q].item # d
BY DEF Locked

LEMMA RegisterStep == ReviewInv /\ (\E d \in Drafts : Register(d)) => ReviewInv'
<1> SUFFICES ASSUME ReviewInv, NEW d \in Drafts, Register(d) PROVE ReviewInv'
    OBVIOUS
<1> USE DEF ReviewInv
<1>1. PICK c \in Contents : content' = [content EXCEPT ![d] = c]
    BY DEF Register
<1>2. /\ draft[d] = "absent" /\ draft' = [draft EXCEPT ![d] = "pending"]
      /\ UNCHANGED <<event, log, request>>
    BY DEF Register
<1>3. DraftType /\ DraftType'
    BY <1>1, <1>2 DEF Types, DraftType, Statuses
<1>4. Types'
    BY <1>2, <1>3 DEF Types, RequestsType, LogType, EventType
<1>5. draft'[d] = "pending" /\ \A e \in Drafts : e # d => /\ draft'[e] = draft[e]
                                                          /\ content'[e] = content[e]
    BY <1>1, <1>2, <1>3 DEF DraftType
<1>6. \A q \in Requests : request[q].state = "holding" =>
          request[q].item \in Drafts /\ request[q].item # d
    BY <1>2 DEF HeldFits
<1>7. HeldFits' /\ OneHolder'
    BY <1>2, <1>5, <1>6, NoNewHolder
<1>8. LogTellsStatus'
    BY <1>2, <1>5 DEF LogTellsStatus
<1> QED
    BY <1>4, <1>7, <1>8

LEMMA UpdateStep == ReviewInv /\ (\E d \in Drafts : Update(d)) => ReviewInv'
<1> SUFFICES ASSUME ReviewInv, NEW d \in Drafts, Update(d) PROVE ReviewInv'
    OBVIOUS
<1> USE DEF ReviewInv
<1>1. PICK c \in Contents : content' = [content EXCEPT ![d] = c]
    BY DEF Update, Accepted
<1>2. UNCHANGED <<draft, event, log, request>> /\ ~Locked(d)
    BY DEF Update, Elsewhere, MayUpdate
<1>3. DraftType /\ DraftType'
    BY <1>1, <1>2 DEF Types, DraftType
<1>4. Types'
    BY <1>2, <1>3 DEF Types, RequestsType, LogType, EventType
<1>5. \A e \in Drafts : e # d => content'[e] = content[e]
    BY <1>1, <1>3 DEF DraftType
<1>6. \A q \in Requests : request[q].state = "holding" =>
          request[q].item \in Drafts /\ request[q].item # d
    BY <1>2, NotHeld DEF HeldFits
<1>7. HeldFits' /\ OneHolder'
    BY <1>2, <1>5, <1>6, NoNewHolder
<1> QED
    BY <1>2, <1>4, <1>7, SameLog

LEMMA OtherEventStep == ReviewInv /\ (\E d \in Drafts : OtherEvent(d)) => ReviewInv'
<1> SUFFICES ASSUME ReviewInv, NEW d \in Drafts, OtherEvent(d) PROVE ReviewInv'
    OBVIOUS
<1> USE DEF ReviewInv
<1>1. UNCHANGED <<draft, content, log, request>>
    BY DEF OtherEvent
<1>2. EventType'
    BY DEF OtherEvent, Types, EventType
<1>3. Types'
    BY <1>1, <1>2 DEF Types, RequestsType, LogType, DraftType
<1> QED
    BY <1>1, <1>3, NoNewHolder, SameLog

\* A decision of another reviewer, or of an item of a bulk rejection.
LEMMA DecideStep ==
    ASSUME ReviewInv, NEW d \in Drafts,
           \/ Decide(d, "pending", "rejected", "rejected")
           \/ Decide(d, "rejected", "pending", "reopened"),
           RequestsType',
           \A q \in Requests :
               request'[q].state = "holding" =>
                   request[q].state = "holding" /\ request'[q].item = request[q].item
    PROVE  ReviewInv'
<1> USE DEF ReviewInv
<1>1. LogTellsStatus' /\ LogType' /\ DraftType' /\ EventType'
    BY DecideKeepsLog
<1>2. ~Locked(d) /\ UNCHANGED content
    BY DEF Decide
<1>3. \A e \in Drafts : e # d => draft'[e] = draft[e]
    BY DEF Decide, Types, DraftType
<1>4. \A q \in Requests : request[q].state = "holding" =>
          request[q].item \in Drafts /\ request[q].item # d
    BY <1>2, NotHeld DEF HeldFits
<1>5. HeldFits' /\ OneHolder'
    BY <1>2, <1>3, <1>4, NoNewHolder
<1> QED
    BY <1>1, <1>5 DEF Types

LEMMA ElsewhereStep ==
    ReviewInv /\ (\E d \in Drafts : RejectElsewhere(d) \/ Reopen(d)) => ReviewInv'
<1> SUFFICES ASSUME ReviewInv, NEW d \in Drafts, RejectElsewhere(d) \/ Reopen(d)
             PROVE  ReviewInv'
    OBVIOUS
<1>1. /\ UNCHANGED request
      /\ \/ Decide(d, "pending", "rejected", "rejected")
         \/ Decide(d, "rejected", "pending", "reopened")
    BY DEF RejectElsewhere, Reopen, Elsewhere
<1>2. RequestsType'
    BY <1>1 DEF ReviewInv, Types, RequestsType
<1> QED
    BY <1>1, <1>2, DecideStep

\* A refused or failed item leaves everything but its request alone.
LEMMA GivesUpStep ==
    ReviewInv /\ (\E r \in Requests, d \in Drafts : RefuseItem(r, d) \/ FailItem(r, d))
    => ReviewInv'
<1> SUFFICES ASSUME ReviewInv, NEW r \in Requests, NEW d \in Drafts,
                    RefuseItem(r, d) \/ FailItem(r, d)
             PROVE  ReviewInv'
    OBVIOUS
<1> USE DEF ReviewInv
<1>1. /\ request[r].state \in {"sent", "holding"} /\ request' = ItemDone(r, d, FALSE)
      /\ UNCHANGED <<draft, content, event, log>>
    BY DEF RefuseItem, FailItem, Takes
<1>2. /\ RequestsType'
      /\ request'[r].state # "holding"
      /\ \A q \in Requests : q # r => request'[q] = request[q]
    BY <1>1, ItemDoneEffect DEF Types
<1>3. HeldFits' /\ OneHolder'
    BY <1>1, <1>2, NoNewHolder
<1> QED
    BY <1>1, <1>2, <1>3, SameData, SameLog

LEMMA RejectItemStep ==
    ReviewInv /\ (\E r \in Requests, d \in Drafts : RejectItem(r, d)) => ReviewInv'
<1> SUFFICES ASSUME ReviewInv, NEW r \in Requests, NEW d \in Drafts, RejectItem(r, d)
             PROVE  ReviewInv'
    OBVIOUS
<1>1. /\ request[r].state \in {"sent", "holding"} /\ request' = ItemDone(r, d, TRUE)
      /\ Decide(d, "pending", "rejected", "rejected")
    BY DEF RejectItem, Takes
<1>2. /\ RequestsType'
      /\ request'[r].state # "holding"
      /\ \A q \in Requests : q # r => request'[q] = request[q]
    BY <1>1, ItemDoneEffect DEF ReviewInv, Types
<1> QED
    BY <1>1, <1>2, DecideStep

\* An approval begins with a lock nobody else has and what it found under it.
LEMMA StartStep ==
    ReviewInv /\ (\E r \in Requests, d \in Drafts : StartApproval(r, d)) => ReviewInv'
<1> SUFFICES ASSUME ReviewInv, NEW r \in Requests, NEW d \in Drafts, StartApproval(r, d)
             PROVE  ReviewInv'
    OBVIOUS
<1> USE DEF ReviewInv
<1>1. /\ ~Locked(d) /\ draft[d] = "pending"
      /\ content[d].title = "text" /\ content[d].ordered /\ content[d].known
      /\ UNCHANGED <<draft, content, event, log>>
    BY DEF StartApproval, Takes, Publishable
<1>2. /\ RequestsType'
      /\ request'[r].state = "holding" /\ request'[r].item = d
      /\ \A q \in Requests : q # r => request'[q] = request[q]
    BY StartEffect DEF Types
<1>3. HeldFits'
  <2> SUFFICES ASSUME NEW q \in Requests, request'[q].state = "holding"
               PROVE  LET e == request'[q].item IN
                      /\ e \in Drafts /\ draft[e] = "pending"
                      /\ content[e].title = "text" /\ content[e].ordered /\ content[e].known
    BY <1>1 DEF HeldFits
  <2>1. CASE q = r
    BY <1>1, <1>2, <2>1
  <2>2. CASE q # r
    BY <1>2, <2>2 DEF HeldFits
  <2> QED
    BY <2>1, <2>2
<1>4. OneHolder'
    BY <1>1, <1>2, NotHeld DEF OneHolder
<1> QED
    BY <1>1, <1>2, <1>3, <1>4, SameData, SameLog

\* An approval ends with the event and the status together, or with neither.
LEMMA FinishStep == ReviewInv /\ (\E r \in Requests : FinishApproval(r)) => ReviewInv'
<1> SUFFICES ASSUME ReviewInv, NEW r \in Requests, FinishApproval(r) PROVE ReviewInv'
    OBVIOUS
<1> USE DEF ReviewInv
<1>1. PICK d \in Drafts : d = request[r].item /\ draft[d] = "pending"
    BY DEF HeldFits, FinishApproval
<1>2. request[r].state = "holding" /\ UNCHANGED content
    BY DEF FinishApproval
<1>3. ASSUME NEW good \in BOOLEAN, request' = ItemDone(r, d, good)
      PROVE  /\ RequestsType'
             /\ request'[r].state # "holding"
             /\ \A q \in Requests : q # r => request'[q] = request[q]
    BY <1>2, <1>3, ItemDoneEffect DEF Types
<1>4. CASE ~MayInsert(d)
  <2>1. request' = ItemDone(r, d, FALSE) /\ UNCHANGED <<draft, content, event, log>>
    BY <1>1, <1>4 DEF FinishApproval
  <2>2. HeldFits' /\ OneHolder'
    BY <1>3, <2>1, NoNewHolder
  <2> QED
    BY <1>3, <2>1, <2>2, SameData, SameLog
<1>5. CASE MayInsert(d)
  <2>1. /\ event' = [event EXCEPT ![d] = TRUE]
        /\ draft' = [draft EXCEPT ![d] = "approved"]
        /\ log' = [log EXCEPT ![d]["approved"] = @ + 1]
        /\ request' = ItemDone(r, d, TRUE)
    BY <1>1, <1>5 DEF FinishApproval
  <2>2. DraftType' /\ EventType'
    BY <1>2, <2>1 DEF Types, DraftType, EventType, Statuses
  <2>3. draft'[d] = "approved" /\ \A e \in Drafts : e # d => draft'[e] = draft[e]
    BY <2>1 DEF Types, DraftType
  <2>4. /\ LogType'
        /\ log'[d]["approved"] = log[d]["approved"] + 1
        /\ log'[d]["rejected"] = log[d]["rejected"]
        /\ log'[d]["reopened"] = log[d]["reopened"]
        /\ \A e \in Drafts : e # d => log'[e] = log[e]
    BY <2>1, LogEntry DEF Types, Decisions
  <2>5. LogTellsStatus'
    <3> SUFFICES ASSUME NEW e \in Drafts
                 PROVE  /\ log'[e]["approved"] = IF draft'[e] = "approved" THEN 1 ELSE 0
                        /\ log'[e]["rejected"] - log'[e]["reopened"]
                           = IF draft'[e] = "rejected" THEN 1 ELSE 0
      BY DEF LogTellsStatus
    <3>1. /\ log[e]["approved"] = IF draft[e] = "approved" THEN 1 ELSE 0
          /\ log[e]["rejected"] - log[e]["reopened"]
             = IF draft[e] = "rejected" THEN 1 ELSE 0
      BY DEF LogTellsStatus
    <3>2. CASE e # d
      BY <2>3, <2>4, <3>1, <3>2
    <3>3. CASE e = d
      BY <1>1, <2>3, <2>4, <3>1, <3>3
    <3> QED
      BY <3>2, <3>3
  <2>6. \A q \in Requests : request[q].state = "holding" /\ q # r =>
            request[q].item \in Drafts /\ request[q].item # d
    BY <1>1, <1>2 DEF HeldFits, OneHolder
  <2>7. \A q \in Requests : request'[q].state = "holding" => q # r /\ request'[q] = request[q]
    BY <1>3, <2>1
  <2>8. HeldFits' /\ OneHolder'
    BY <1>2, <2>3, <2>6, <2>7, NoNewHolder
  <2> QED
    BY <1>3, <2>1, <2>2, <2>4, <2>5, <2>8 DEF Types
<1> QED
    BY <1>4, <1>5

LEMMA PageStep ==
    ASSUME ReviewInv,
           \/ \E tab \in {"pending", "all"} : OpenPage(tab)
           \/ \E step \in {-1, 1} : MoveCurrent(step)
           \/ \E r \in Requests :
                  \/ Confirm(r) \/ Cancel(r) \/ Answer(r) \/ LoseAnswer(r)
                  \/ \E d \in Drafts : ApproveElsewhere(r, d)
                  \/ \E kind \in Kinds, ds \in SUBSET Drafts : Click(r, kind, ds)
           \/ UNCHANGED vars
    PROVE  ReviewInv'
<1> USE DEF ReviewInv
<1>1. /\ RequestsType'
      /\ \A q \in Requests :
             request'[q].state = "holding" =>
                 request[q].state = "holding" /\ request'[q].item = request[q].item
      /\ UNCHANGED <<draft, content, event, log>>
  <2>1. CASE \E tab \in {"pending", "all"} : OpenPage(tab)
    BY <2>1, OpenPageEffect DEF Types
  <2>2. CASE (\E step \in {-1, 1} : MoveCurrent(step)) \/ UNCHANGED vars
    <3>1. UNCHANGED <<draft, content, event, log, request>>
      BY <2>2 DEF MoveCurrent, vars
    <3> QED
      BY <3>1 DEF Types, RequestsType
  <2>3. CASE \E r \in Requests :
                 \/ Confirm(r) \/ Cancel(r) \/ Answer(r) \/ LoseAnswer(r)
                 \/ \E d \in Drafts : ApproveElsewhere(r, d)
                 \/ \E kind \in Kinds, ds \in SUBSET Drafts : Click(r, kind, ds)
    BY <2>3, PageEffect DEF Types
  <2> QED
    BY <2>1, <2>2, <2>3
<1>2. HeldFits' /\ OneHolder'
    BY <1>1, NoNewHolder
<1> QED
    BY <1>1, <1>2, SameData, SameLog

LEMMA StepReview == ReviewInv /\ [Next]_vars => ReviewInv'
BY RegisterStep, UpdateStep, OtherEventStep, ElsewhereStep, GivesUpStep, RejectItemStep,
   StartStep, FinishStep, PageStep
   DEF Next, Serve

LEMMA InitReview == Init => ReviewInv
<1> SUFFICES ASSUME Init PROVE ReviewInv
    OBVIOUS
<1>1. Idle.state # "holding"
    BY DEF Idle
<1>2. \A r \in Requests : request[r].state # "holding"
    BY <1>1 DEF Init
<1>3. RequestsType /\ EventType
    BY DEF Init, RequestsType, EventType
<1>4. LogType /\ \A d \in Drafts, k \in Decisions : log[d][k] = 0
    BY DEF Init, LogType
<1>5. DraftType
  <2>1. (CHOOSE c \in Contents : TRUE) \in Contents
    BY ReviewAssumption
  <2> QED
    BY <2>1 DEF Init, DraftType, Statuses
<1>6. LogTellsStatus
    BY <1>4 DEF Init, LogTellsStatus, Decisions
<1> QED
    BY <1>2, <1>3, <1>4, <1>5, <1>6 DEF ReviewInv, Types, HeldFits, OneHolder

\* Two reviewers, a bulk request and the page of a draft may decide the same

\* draft at the same time: the audit log always tells its status.
THEOREM LogIsTrue == Spec => []LogTellsStatus
<1>1. ReviewInv => LogTellsStatus
    BY DEF ReviewInv
<1> QED
    BY <1>1, InitReview, StepReview, PTL DEF Spec
-----------------------------------------------------------------------------
(***************************************************************************)
(* Approving is publishing.                                                *)
(***************************************************************************)

\* Only the end of an approval that inserts its event approves a draft.
LEMMA ApprovedByInsertion ==
    ASSUME ReviewInv, [Next]_vars, NEW d \in Drafts,
           draft'[d] = "approved", draft[d] # "approved"
    PROVE  \E r \in Requests : FinishApproval(r) /\ d = request[r].item /\ MayInsert(d)
<1> USE DEF ReviewInv, Types, DraftType
<1>1. ASSUME NEW e \in Drafts, Register(e) PROVE FALSE
    BY <1>1 DEF Register
<1>2. ASSUME NEW e \in Drafts,
             \/ Decide(e, "pending", "rejected", "rejected")
             \/ Decide(e, "rejected", "pending", "reopened")
      PROVE  FALSE
    BY <1>2 DEF Decide
<1>3. ASSUME NEW r \in Requests, FinishApproval(r)
      PROVE  d = request[r].item /\ MayInsert(d)
    BY <1>3 DEF FinishApproval
<1>4. ~UNCHANGED draft
    OBVIOUS
<1> QED
    BY <1>1, <1>2, <1>3, <1>4
       DEF Next, Serve, vars, OtherEvent, RejectElsewhere, Reopen, Update, OpenPage,
           MoveCurrent, RefuseItem, StartApproval, FailItem, RejectItem, Confirm, Cancel,
           Answer, LoseAnswer, ApproveElsewhere, Click

\* A draft becomes approved with its event, from contents that pass what the

\* review page checks: edits and decisions that raced the approval waited.
THEOREM ApprovalIsPublication == Spec => ApprovalPublishes
<1>1. ASSUME ReviewInv, [Next]_vars, NEW d \in Drafts,
             draft'[d] = "approved", draft[d] # "approved"
      PROVE  /\ draft[d] = "pending" /\ ~event[d] /\ event'[d]
             /\ \A check \in DOMAIN PublishFieldChecks(d) : PublishFieldChecks(d)[check]
  <2>1. PICK r \in Requests : FinishApproval(r) /\ d = request[r].item /\ MayInsert(d)
    BY <1>1, ApprovedByInsertion
  <2>2. /\ draft[d] = "pending"
        /\ content[d].title = "text" /\ content[d].ordered /\ content[d].known
    BY <1>1, <2>1 DEF FinishApproval, ReviewInv, HeldFits
  <2>3. ~event[d] /\ event'[d]
    BY <1>1, <2>1 DEF FinishApproval, MayInsert, ReviewInv, Types, EventType
  <2>4. \A check \in DOMAIN PublishFieldChecks(d) : PublishFieldChecks(d)[check]
    <3>1. /\ content[d].title # "blank" /\ content[d].title # "url"
          /\ content[d].ordered = TRUE /\ content[d].known = TRUE
      <4>1. content[d] \in [title : Titles, ordered : BOOLEAN, known : BOOLEAN]
        BY <1>1, ReviewAssumption DEF ReviewInv, Types, DraftType
      <4> QED
        BY <2>2, <4>1
    <3>2. PublishFieldChecks(d) = [title |-> TRUE, title_not_url |-> TRUE,
              official_url_unique |-> TRUE, period |-> TRUE, vocabulary |-> TRUE]
      BY <2>3, <3>1 DEF PublishFieldChecks
    <3> QED
      BY <3>2
  <2> QED
    BY <2>2, <2>3, <2>4
<1>2. ReviewInv /\ [Next]_vars =>
        [\A d \in Drafts : draft'[d] = "approved" /\ draft[d] # "approved" =>
            /\ draft[d] = "pending" /\ ~event[d] /\ event'[d]
            /\ \A check \in DOMAIN PublishFieldChecks(d) : PublishFieldChecks(d)[check]]_vars
    BY <1>1
<1> QED
    BY <1>2, InitReview, StepReview, PTL DEF Spec, ApprovalPublishes

-----------------------------------------------------------------------------
(***************************************************************************)
(* The open page.                                                          *)
(***************************************************************************)

PageType ==
    page \in [tab : {"pending", "all"}, rows : SUBSET Drafts,
             chip : [Drafts -> Statuses], current : Drafts \cup {NoDraft}]

\* The draft has had the status that is said of it; "approved" is final.
Happened(d, status) ==
    /\ status = "approved" => draft[d] = "approved"
    /\ status = "rejected" => log[d]["rejected"] > 0

ChipsTrue == \A d \in Drafts : Happened(d, page.chip[d])

\* What a request counts as done is done, also while its answer is on the way.
AnswersTrue ==
    \A r \in Requests : request[r] \in RequestType =>
        \A d \in request[r].ok : Happened(d, TargetStatus(r))

\* Who holds a draft is about to approve it.
HoldersApprove ==
    \A r \in Requests : request[r].state = "holding" => request[r].kind = "approve"

\* A set of drafts has a greatest and a least one.
LEMMA LeastDraft ==
    ASSUME NEW T, T \subseteq Nat, T # {}
    PROVE  \E x \in T : \A y \in T : x <= y
<1> DEFINE R == OpToRel(<, Nat)
<1>1. IsWellFoundedOn(R, Nat)
    BY NatLessThanWellFounded
<1>2. \A x \in Nat, y \in Nat : x < y => <<x, y>> \in R
    BY DEF OpToRel
<1> HIDE DEF R
<1>3. PICK x \in T : \A y \in T : ~ (<<y, x>> \in R)
    BY <1>1, WFMin
<1>4. ASSUME NEW y \in T
      PROVE  x <= y
    <2>1. x \in Nat /\ y \in Nat /\ ~ (y < x)
        BY <1>2, <1>3
    <2> QED
        BY <2>1
<1> QED
    BY <1>4

LEMMA MinIsOne ==
    ASSUME NEW S \in SUBSET Drafts, S # {}
    PROVE  Min(S) \in S
<1>1. S \subseteq Nat
    BY ReviewAssumption DEF Drafts
<1>2. \E x \in S : \A y \in S : x <= y
    BY <1>1, LeastDraft
<1> QED
    BY <1>2 DEF Min

LEMMA MaxIsOne ==
    ASSUME NEW S \in SUBSET Drafts, S # {}
    PROVE  Max(S) \in S
<1> DEFINE T == {NumDrafts - d : d \in S}
<1>1. /\ NumDrafts \in Nat
      /\ \A d \in S : d \in Nat /\ d <= NumDrafts
    BY ReviewAssumption DEF Drafts
<1>2. T \subseteq Nat /\ T # {}
    BY <1>1
<1>3. PICK x \in T : \A y \in T : x <= y
    <2> HIDE DEF T
    <2> QED
        BY <1>2, LeastDraft
<1>4. PICK d \in S : x = NumDrafts - d
    BY DEF T
<1>5. \A e \in S : NumDrafts - d <= NumDrafts - e
    BY <1>3, <1>4 DEF T
<1>6. \A e \in S : d >= e
    BY <1>1, <1>5
<1> QED
    BY <1>6 DEF Max

\* The page has a current row again after any of its rows have gone.
LEMMA AdvanceFindsRow ==
    ASSUME NEW rest \in SUBSET Drafts, NEW d \in Drafts
    PROVE  IF rest = {} THEN Advance(rest, d) = NoDraft ELSE Advance(rest, d) \in rest
<1> DEFINE lower == {e \in rest : e < d}
<1>1. lower \in SUBSET Drafts /\ lower \subseteq rest
    OBVIOUS
<1>2. lower # {} => Max(lower) \in rest
    BY <1>1, MaxIsOne
<1>3. rest # {} => Min(rest) \in rest
    BY MinIsOne
<1> QED
    BY <1>2, <1>3 DEF Advance

LEMMA FirstRowIsRow ==
    ASSUME NEW rows \in SUBSET Drafts
    PROVE  IF rows = {} THEN FirstRow(rows) = NoDraft ELSE FirstRow(rows) \in rows
BY MaxIsOne DEF FirstRow

\* What an answer that did happen does to the page.
LEMMA ApplySucceededEffect ==
    ASSUME PageType, ChipsTrue, CurrentRowExists, NEW ds \in SUBSET Drafts,
           NEW status \in Statuses, \A d \in ds : Happened(d, status),
           page' = ApplySucceeded(page, ds, status), UNCHANGED <<draft, log>>
    PROVE  PageType' /\ ChipsTrue' /\ CurrentRowExists'
<1> DEFINE chip == [d \in Drafts |-> IF d \in ds THEN status ELSE page.chip[d]]
           rest == page.rows \ ds
           current == IF page.current \in ds \cap page.rows
                      THEN Advance(rest, page.current) ELSE page.current
<1>1. /\ page.rows \in SUBSET Drafts /\ page.chip \in [Drafts -> Statuses]
      /\ page.tab \in {"pending", "all"} /\ page.current \in Drafts \cup {NoDraft}
      /\ DOMAIN page = {"tab", "rows", "chip", "current"}
    BY DEF PageType
<1>2. /\ page'.tab = page.tab
      /\ page'.chip = chip
      /\ page'.rows = IF page.tab = "pending" THEN rest ELSE page.rows
      /\ page'.current = IF page.tab = "pending" THEN current ELSE page.current
      /\ page' = [tab |-> page'.tab, rows |-> page'.rows, chip |-> page'.chip,
                  current |-> page'.current]
    <2> DEFINE marked == [page EXCEPT !.chip =
                             [d \in Drafts |-> IF d \in ds THEN status ELSE @[d]]]
    <2>1. marked = [tab |-> page.tab, rows |-> page.rows, chip |-> chip,
                    current |-> page.current]
        BY <1>1 DEF PageType
    <2>2. page' = IF page.tab = "pending" THEN RemoveRows(marked, ds) ELSE marked
        BY <2>1 DEF ApplySucceeded
    <2> HIDE DEF marked, chip
    <2>3. RemoveRows(marked, ds) = [tab |-> page.tab, rows |-> rest, chip |-> chip,
                                    current |-> current]
        <3>1. /\ marked.tab = page.tab /\ marked.rows = page.rows /\ marked.chip = chip
              /\ marked.current = page.current
              /\ DOMAIN marked = {"tab", "rows", "chip", "current"}
            BY <2>1
        <3>2. RemoveRows(marked, ds) = [marked EXCEPT !.rows = rest, !.current = current]
            BY <3>1 DEF RemoveRows
        <3> HIDE DEF rest, current
        <3> QED
            BY <2>1, <3>2
    <2> HIDE DEF rest, current
    <2> QED
        BY <2>1, <2>2, <2>3
<1>3. chip \in [Drafts -> Statuses] /\ \A d \in Drafts : Happened(d, chip[d])
    BY <1>1 DEF ChipsTrue
<1>4. rest \in SUBSET Drafts
    BY <1>1
<1>5. IF rest = {} THEN current = NoDraft ELSE current \in rest
    <2>1. CASE page.current \in ds \cap page.rows
        <3>1. current = Advance(rest, page.current) /\ page.current \in Drafts
            BY <2>1, <1>1
        <3> HIDE DEF rest, current
        <3> QED
            BY <3>1, <1>4, AdvanceFindsRow
    <2>2. CASE page.current \notin ds \cap page.rows
        BY <2>2 DEF CurrentRowExists
    <2> QED
        BY <2>1, <2>2
<1> HIDE DEF chip, rest, current
<1>6. page'.current \in Drafts \cup {NoDraft} /\ page'.rows \in SUBSET Drafts
    BY <1>1, <1>2, <1>4, <1>5
<1>7. PageType'
    BY <1>1, <1>2, <1>3, <1>6 DEF PageType
<1>8. ChipsTrue'
    BY <1>2, <1>3 DEF ChipsTrue, Happened
<1>9. CurrentRowExists'
    BY <1>2, <1>5 DEF CurrentRowExists
<1> QED
    BY <1>7, <1>8, <1>9

\* What changes a draft's status or its log.
LEMMA ChangesOfDrafts ==
    [Next]_vars =>
        \/ UNCHANGED <<draft, log>>
        \/ \E d \in Drafts :
               \/ Register(d)
               \/ Decide(d, "pending", "rejected", "rejected")
               \/ Decide(d, "rejected", "pending", "reopened")
        \/ \E r \in Requests : FinishApproval(r) /\ MayInsert(request[r].item)
BY DEF Next, Serve, vars, OtherEvent, RejectElsewhere, Reopen, Update, OpenPage,
       MoveCurrent, RefuseItem, StartApproval, FinishApproval, FailItem, RejectItem, Confirm,
       Cancel, Answer, LoseAnswer, ApproveElsewhere, Click

\* "approved" is final, and entries of the log stay.
LEMMA HappenedStays ==
    ASSUME ReviewInv, [Next]_vars
    PROVE  \A d \in Drafts, status \in Statuses : Happened(d, status) => Happened(d, status)'
<1> USE DEF ReviewInv, Types
<1> SUFFICES ASSUME NEW d \in Drafts
             PROVE  /\ draft[d] = "approved" => draft'[d] = "approved"
                    /\ log[d]["rejected"] > 0 => log'[d]["rejected"] > 0
    BY DEF Happened
<1>1. log[d]["rejected"] \in Nat /\ d \in DOMAIN draft
    BY DEF LogType, DraftType, Decisions
<1>2. ASSUME NEW e \in Drafts, Register(e)
      PROVE  /\ draft[d] = "approved" => draft'[d] = "approved"
             /\ log'[d] = log[d]
    BY <1>2 DEF Register, DraftType
<1>3. ASSUME NEW e \in Drafts,
             \/ Decide(e, "pending", "rejected", "rejected")
             \/ Decide(e, "rejected", "pending", "reopened")
      PROVE  /\ draft[d] = "approved" => draft'[d] = "approved"
             /\ log[d]["rejected"] > 0 => log'[d]["rejected"] > 0
    <2>1. draft[d] = "approved" => draft'[d] = "approved"
        BY <1>3 DEF Decide, DraftType
    <2>2. CASE Decide(e, "pending", "rejected", "rejected")
        <3>1. log'[d]["rejected"] >= log[d]["rejected"]
            BY <1>1, <2>2, LogEntry DEF Decide, Decisions
        <3> QED
            BY <1>1, <2>1, <3>1, <2>2, LogEntry DEF Decide, Decisions
    <2>3. CASE Decide(e, "rejected", "pending", "reopened")
        BY <2>1, <2>3, LogEntry DEF Decide, Decisions
    <2> QED
        BY <1>3, <2>2, <2>3
<1>4. ASSUME NEW r \in Requests, FinishApproval(r), MayInsert(request[r].item)
      PROVE  /\ draft[d] = "approved" => draft'[d] = "approved"
             /\ log[d]["rejected"] > 0 => log'[d]["rejected"] > 0
    <2>1. PICK e \in Drafts : e = request[r].item
        BY <1>4 DEF FinishApproval, HeldFits
    <2>2. /\ draft' = [draft EXCEPT ![e] = "approved"]
          /\ log' = [log EXCEPT ![e]["approved"] = @ + 1]
        BY <1>4, <2>1 DEF FinishApproval
    <2>3. log'[d]["rejected"] = log[d]["rejected"]
        BY <2>2, LogEntry DEF Decisions
    <2> QED
        BY <2>2, <2>3 DEF DraftType
<1> QED
    BY <1>2, <1>3, <1>4, ChangesOfDrafts
\* A step adds to a request only drafts whose decision has happened by then.
Follows(r) ==
    request'[r] \in RequestType =>
        /\ request'[r].state = "holding" => request'[r].kind = "approve"
        /\ \A d \in request'[r].ok :
               \/ request[r] \in RequestType /\ request'[r].kind = request[r].kind
                  /\ d \in request[r].ok
               \/ Happened(d, TargetStatus(r))'

LEMMA AnswersFollow ==
    ASSUME ReviewInv, AnswersTrue, [Next]_vars, \A r \in Requests : Follows(r), RequestsType'
    PROVE  AnswersTrue' /\ HoldersApprove'
<1>1. AnswersTrue'
  <2> SUFFICES ASSUME NEW r \in Requests, request'[r] \in RequestType, NEW d \in request'[r].ok
               PROVE  Happened(d, TargetStatus(r))'
    BY DEF AnswersTrue
  <2>1. d \in Drafts /\ TargetStatus(r) \in Statuses
    BY DEF RequestType, TargetStatus, Statuses
  <2>2. CASE request[r] \in RequestType /\ request'[r].kind = request[r].kind
             /\ d \in request[r].ok
    <3>1. Happened(d, TargetStatus(r)) /\ TargetStatus(r)' = TargetStatus(r)
      BY <2>2 DEF AnswersTrue, TargetStatus
    <3> QED
      BY <2>1, <3>1, HappenedStays DEF Happened
  <2> QED
    BY <2>2 DEF Follows
<1>2. HoldersApprove'
    BY DEF Follows, HoldersApprove, RequestsType, Idle
<1> QED
    BY <1>1, <1>2

\* Only request r changes.
LEMMA OneFollows ==
    ASSUME RequestsType, HoldersApprove, NEW r \in Requests,
           \A q \in Requests : q # r => request'[q] = request[q], Follows(r)
    PROVE  \A q \in Requests : Follows(q)
<1> SUFFICES ASSUME NEW q \in Requests, q # r PROVE Follows(q)
    OBVIOUS
<1>1. request'[q] = request[q]
    OBVIOUS
<1> QED
    BY <1>1 DEF Follows, HoldersApprove

LEMMA ItemDoneFollows ==
    ASSUME RequestsType, HoldersApprove, NEW r \in Requests, NEW d \in Drafts,
           NEW good \in BOOLEAN, request[r].state \in {"sent", "holding"},
           request' = ItemDone(r, d, good),
           good => IF request[r].kind = "approve" THEN draft'[d] = "approved"
                   ELSE log'[d]["rejected"] > 0
    PROVE  \A q \in Requests : Follows(q)
<1>1. request[r] \in RequestType
    BY DEF RequestsType, Idle
<1>2. \/ request'[r] = Idle
      \/ /\ request'[r].kind = request[r].kind
         /\ request'[r].state # "holding"
         /\ request'[r].ok = IF good THEN request[r].ok \cup {d} ELSE request[r].ok
    BY <1>1 DEF ItemDone, RequestsType, RequestType
<1>3. Idle \notin RequestType
    BY DEF Idle, RequestType
<1>4. \A e \in request'[r].ok : request'[r] # Idle /\ e \notin request[r].ok =>
          good /\ e = d
    BY <1>2
<1>5. Follows(r)
  <2> SUFFICES ASSUME request'[r] \in RequestType PROVE Follows(r)
    BY DEF Follows
  <2>1. ASSUME good PROVE Happened(d, TargetStatus(r))'
    <3>1. TargetStatus(r)' = IF request[r].kind = "approve" THEN "approved" ELSE "rejected"
        BY <1>2, <1>3 DEF TargetStatus
    <3> QED
        BY <2>1, <3>1 DEF Happened
  <2> QED
    BY <1>1, <1>2, <1>3, <1>4, <2>1 DEF Follows
<1> QED
    BY <1>5, OneFollows, ItemDoneEffect

LEMMA ServeFollows ==
    ASSUME ReviewInv, HoldersApprove, NEW r \in Requests, Serve(r)
    PROVE  \A q \in Requests : Follows(q)
<1> USE DEF ReviewInv, Types
<1>1. ASSUME NEW d \in Drafts, RefuseItem(r, d) \/ FailItem(r, d)
      PROVE  \A q \in Requests : Follows(q)
  <2>1. request[r].state \in {"sent", "holding"} /\ request' = ItemDone(r, d, FALSE)
    BY <1>1 DEF RefuseItem, FailItem, Takes
  <2> QED
    BY <2>1, ItemDoneFollows
<1>2. ASSUME NEW d \in Drafts, RejectItem(r, d)
      PROVE  \A q \in Requests : Follows(q)
  <2>1. /\ request[r].state = "sent" /\ request[r].kind = "reject"
        /\ request' = ItemDone(r, d, TRUE)
        /\ log' = [log EXCEPT ![d]["rejected"] = @ + 1]
    BY <1>2 DEF RejectItem, Takes, Decide
  <2>2. log[d]["rejected"] \in Nat /\ log'[d]["rejected"] = log[d]["rejected"] + 1
    BY <2>1, LogEntry DEF Decisions, LogType
  <2>3. log'[d]["rejected"] > 0
    BY <2>2
  <2> QED
    BY <2>1, <2>3, ItemDoneFollows
<1>3. ASSUME NEW d \in Drafts, StartApproval(r, d)
      PROVE  \A q \in Requests : Follows(q)
  <2>1. request[r] \in RequestType /\ request[r].kind = "approve"
    BY <1>3 DEF StartApproval, Takes, RequestsType, Idle
  <2>2. request'[r].kind = request[r].kind /\ request'[r].ok = request[r].ok
    BY <1>3, <2>1 DEF StartApproval, RequestsType, RequestType
  <2>3. Follows(r)
    BY <2>1, <2>2 DEF Follows
  <2> QED
    BY <1>3, <2>3, StartEffect, OneFollows
<1>4. ASSUME FinishApproval(r)
      PROVE  \A q \in Requests : Follows(q)
  <2>1. PICK d \in Drafts : d = request[r].item
    BY <1>4 DEF FinishApproval, HeldFits
  <2>2. request[r].state = "holding" /\ request[r].kind = "approve"
    BY <1>4 DEF FinishApproval, HoldersApprove
  <2>3. CASE MayInsert(d)
    <3>1. request' = ItemDone(r, d, TRUE) /\ draft' = [draft EXCEPT ![d] = "approved"]
        BY <1>4, <2>1, <2>3 DEF FinishApproval
    <3>2. draft'[d] = "approved"
        BY <3>1 DEF DraftType
    <3> QED
        BY <2>2, <3>1, <3>2, ItemDoneFollows
  <2>4. CASE ~MayInsert(d)
    <3>1. request' = ItemDone(r, d, FALSE)
        BY <1>4, <2>1, <2>4 DEF FinishApproval
    <3> QED
        BY <2>2, <3>1, ItemDoneFollows
  <2> QED
    BY <2>3, <2>4
<1> QED
    BY <1>1, <1>2, <1>3, <1>4 DEF Serve

LEMMA ReviewerFollows ==
    ASSUME RequestsType, HoldersApprove, NEW r \in Requests,
           \/ Confirm(r) \/ Cancel(r) \/ Answer(r) \/ LoseAnswer(r)
           \/ \E d \in Drafts : ApproveElsewhere(r, d)
           \/ \E kind \in Kinds, ds \in SUBSET Drafts : Click(r, kind, ds)
    PROVE  \A q \in Requests : Follows(q)
<1>1. Idle \notin RequestType
    BY DEF Idle, RequestType
<1>2. CASE Confirm(r)
  <2>1. request[r] \in RequestType
    BY <1>2 DEF Confirm, RequestsType, Idle
  <2>2. request'[r].kind = request[r].kind /\ request'[r].ok = request[r].ok
    BY <1>2, <2>1 DEF Confirm, RequestsType, RequestType
  <2> QED
    BY <2>1, <2>2, PageEffect, <1>2, OneFollows DEF Follows
<1>3. CASE Cancel(r) \/ Answer(r) \/ LoseAnswer(r)
  <2>1. request'[r] = Idle
    BY <1>3 DEF Cancel, Answer, LoseAnswer, RequestsType
  <2>2. Follows(r)
    BY <1>1, <2>1 DEF Follows
  <2> QED
    BY <2>2, PageEffect, <1>3, OneFollows
<1>4. ASSUME request'[r].ok = {}, request'[r].state # "holding"
      PROVE  Follows(r)
    BY <1>4 DEF Follows
<1>5. CASE \/ \E d \in Drafts : ApproveElsewhere(r, d)
           \/ \E kind \in Kinds, ds \in SUBSET Drafts : Click(r, kind, ds)
  <2>1. request'[r].ok = {} /\ request'[r].state # "holding"
    BY <1>5 DEF ApproveElsewhere, Click, RequestsType, NewRequest
  <2> QED
    BY <1>4, <1>5, <2>1, PageEffect, OneFollows
<1> QED
    BY <1>2, <1>3, <1>5

LEMMA OpenPageFollows ==
    ASSUME RequestsType, HoldersApprove, NEW tab \in {"pending", "all"}, OpenPage(tab)
    PROVE  \A q \in Requests : Follows(q)
<1> SUFFICES ASSUME NEW q \in Requests PROVE Follows(q)
    OBVIOUS
<1>1. Idle \notin RequestType
    BY DEF Idle, RequestType
<1>2. \/ request'[q] = request[q] \/ request'[q] = Idle
      \/ request'[q] = [request[q] EXCEPT !.queue = FALSE] /\ request[q] \in RequestType
    BY DEF OpenPage, RequestsType
<1>3. request[q] \in RequestType =>
          LET kept == [request[q] EXCEPT !.queue = FALSE] IN
          /\ kept.kind = request[q].kind /\ kept.ok = request[q].ok
          /\ kept.state = request[q].state
    BY DEF RequestType
<1> QED
    BY <1>1, <1>2, <1>3 DEF Follows, HoldersApprove
\* What the page shows.
Shown == PageType /\ ChipsTrue /\ CurrentRowExists

LEMMA SamePage ==
    ASSUME ReviewInv, [Next]_vars, Shown, UNCHANGED page
    PROVE  Shown'
<1>1. PageType'
    BY DEF Shown, PageType
<1>2. CurrentRowExists'
    BY DEF Shown, CurrentRowExists
<1>3. ASSUME NEW d \in Drafts PROVE Happened(d, page.chip[d])'
  <2>1. page.chip[d] \in Statuses /\ Happened(d, page.chip[d]) /\ page'.chip[d] = page.chip[d]
    BY DEF Shown, PageType, ChipsTrue
  <2> QED
    BY <2>1, HappenedStays DEF Happened
<1>4. ChipsTrue'
    BY <1>3 DEF ChipsTrue
<1> QED
    BY <1>1, <1>2, <1>4 DEF Shown

\* A page that is loaded shows the statuses as they are.
LEMMA OpenPageShows ==
    ASSUME ReviewInv, NEW tab \in {"pending", "all"}, OpenPage(tab)
    PROVE  Shown'
<1> DEFINE Listed(d) == draft[d] = "pending" \/ (tab = "all" /\ draft[d] # "absent")
           rows == {d \in Drafts : Listed(d)}
           chip == [d \in Drafts |-> IF Listed(d) THEN draft[d] ELSE "absent"]
<1>1. /\ page' = [tab |-> tab, rows |-> rows, chip |-> chip, current |-> FirstRow(rows)]
      /\ UNCHANGED <<draft, log>>
    BY DEF OpenPage
<1>2. rows \in SUBSET Drafts
    OBVIOUS
<1>3. chip \in [Drafts -> Statuses]
    BY DEF ReviewInv, Types, DraftType, Statuses
<1>4. ASSUME NEW d \in Drafts PROVE Happened(d, chip[d])
  <2>1. chip[d] \in {draft[d], "absent"}
    OBVIOUS
  <2>2. draft[d] = "rejected" => log[d]["rejected"] > 0
    <3>1. log[d]["rejected"] \in Nat /\ log[d]["reopened"] \in Nat
        BY DEF ReviewInv, Types, LogType, Decisions
    <3>2. log[d]["rejected"] - log[d]["reopened"] = IF draft[d] = "rejected" THEN 1 ELSE 0
        BY DEF ReviewInv, LogTellsStatus
    <3> QED
        BY <3>1, <3>2
  <2> HIDE DEF chip
  <2> QED
    BY <2>1, <2>2 DEF Happened
<1> HIDE DEF rows, chip
<1>5. IF rows = {} THEN FirstRow(rows) = NoDraft ELSE FirstRow(rows) \in rows
    BY <1>2, FirstRowIsRow
<1>6. PageType'
    BY <1>1, <1>2, <1>3, <1>5 DEF PageType
<1>7. ChipsTrue'
    BY <1>1, <1>4 DEF ChipsTrue, Happened
<1>8. CurrentRowExists'
    BY <1>1, <1>5 DEF CurrentRowExists
<1> QED
    BY <1>6, <1>7, <1>8 DEF Shown

\* The keys move from one row to another.
LEMMA MoveCurrentShows ==
    ASSUME Shown, NEW step \in {-1, 1}, MoveCurrent(step)
    PROVE  Shown'
<1> DEFINE from == IF page.current \in page.rows THEN page.current ELSE FirstRow(page.rows)
           lower == {d \in page.rows : d < from}
           higher == {d \in page.rows : d > from}
           to == IF step = 1 /\ lower # {} THEN Max(lower)
                 ELSE IF step = -1 /\ higher # {} THEN Min(higher) ELSE from
<1>1. /\ page.rows \in SUBSET Drafts /\ page.rows # {}
      /\ page' = [page EXCEPT !.current = to] /\ UNCHANGED <<draft, log>>
    BY DEF Shown, PageType, MoveCurrent
<1>2. from \in page.rows
    BY <1>1, FirstRowIsRow
<1>3. lower \in SUBSET Drafts /\ higher \in SUBSET Drafts
    BY <1>1
<1>4. (lower # {} => Max(lower) \in page.rows) /\ (higher # {} => Min(higher) \in page.rows)
    BY <1>3, MaxIsOne, MinIsOne
<1> HIDE DEF from
<1>5. to \in page.rows
    BY <1>2, <1>4
<1> HIDE DEF to
<1>6. page' = [tab |-> page.tab, rows |-> page.rows, chip |-> page.chip, current |-> to]
    BY <1>1 DEF Shown, PageType
<1>7. PageType' /\ CurrentRowExists'
    BY <1>1, <1>5, <1>6 DEF Shown, PageType, CurrentRowExists
<1>8. ChipsTrue'
    BY <1>1, <1>6 DEF Shown, ChipsTrue, Happened
<1> QED
    BY <1>7, <1>8 DEF Shown

\* An answer may come late; what it says has happened all the same.
LEMMA AnswerShows ==
    ASSUME RequestsType, Shown, AnswersTrue, NEW r \in Requests, Answer(r)
    PROVE  Shown'
<1>1. request[r] \in RequestType
    BY DEF Answer, RequestsType, Idle
<1>2. PICK ds \in SUBSET Drafts : ds = request[r].ok
    BY <1>1 DEF RequestType
<1>3. PICK status \in Statuses : status = TargetStatus(r)
    BY DEF TargetStatus, Statuses
<1>4. \A d \in ds : Happened(d, status)
    BY <1>1, <1>2, <1>3 DEF AnswersTrue
<1>5. page' = ApplySucceeded(page, ds, status) /\ UNCHANGED <<draft, log>>
    BY <1>2, <1>3 DEF Answer, Receives
<1> QED
    BY <1>4, <1>5, ApplySucceededEffect DEF Shown

-----------------------------------------------------------------------------
PageInv == ReviewInv /\ Shown /\ AnswersTrue /\ HoldersApprove

\* The steps that change the page, and the others.
LEMMA PageOrNot ==
    [Next]_vars =>
        \/ \E tab \in {"pending", "all"} : OpenPage(tab)
        \/ \E step \in {-1, 1} : MoveCurrent(step)
        \/ \E r \in Requests : Answer(r)
        \/ UNCHANGED page
BY DEF Next, Serve, vars, Register, OtherEvent, RejectElsewhere, Reopen, Decide, Update,
       RefuseItem, StartApproval, FinishApproval, FailItem, RejectItem, Confirm, Cancel,
       LoseAnswer, ApproveElsewhere, Click

LEMMA StepPage == PageInv /\ [Next]_vars => PageInv'
<1> SUFFICES ASSUME PageInv, [Next]_vars PROVE PageInv'
    OBVIOUS
<1> USE DEF PageInv
<1>1. ReviewInv'
    BY StepReview
<1>2. RequestsType /\ RequestsType'
    BY <1>1 DEF ReviewInv, Types
<1>3. Shown'
    BY <1>2, PageOrNot, SamePage, OpenPageShows, MoveCurrentShows, AnswerShows
<1>4. \A q \in Requests : Follows(q)
  <2>1. CASE UNCHANGED request
    BY <2>1 DEF Follows, HoldersApprove
  <2>2. CASE \E r \in Requests : Serve(r)
    BY <2>2, ServeFollows
  <2>3. CASE \E tab \in {"pending", "all"} : OpenPage(tab)
    BY <1>2, <2>3, OpenPageFollows
  <2>4. CASE \E r \in Requests :
                 \/ Confirm(r) \/ Cancel(r) \/ Answer(r) \/ LoseAnswer(r)
                 \/ \E d \in Drafts : ApproveElsewhere(r, d)
                 \/ \E kind \in Kinds, ds \in SUBSET Drafts : Click(r, kind, ds)
    BY <1>2, <2>4, ReviewerFollows
  <2>5. \/ UNCHANGED request
        \/ \E r \in Requests : Serve(r)
        \/ \E tab \in {"pending", "all"} : OpenPage(tab)
        \/ \E r \in Requests :
               \/ Confirm(r) \/ Cancel(r) \/ Answer(r) \/ LoseAnswer(r)
               \/ \E d \in Drafts : ApproveElsewhere(r, d)
               \/ \E kind \in Kinds, ds \in SUBSET Drafts : Click(r, kind, ds)
    BY DEF Next, vars, Register, OtherEvent, RejectElsewhere, Reopen, Elsewhere, Update,
           MoveCurrent
  <2> QED
    BY <2>1, <2>2, <2>3, <2>4, <2>5
<1>5. AnswersTrue' /\ HoldersApprove'
    BY <1>2, <1>4, AnswersFollow
<1> QED
    BY <1>1, <1>3, <1>5

LEMMA InitPage == Init => PageInv
<1> SUFFICES ASSUME Init PROVE PageInv
    OBVIOUS
<1>1. ReviewInv
    BY InitReview
<1>2. Idle \notin RequestType /\ Idle.state # "holding"
    BY DEF Idle, RequestType
<1>3. AnswersTrue /\ HoldersApprove
    BY <1>2 DEF Init, AnswersTrue, HoldersApprove
<1>4. Shown
    BY DEF Init, EmptyPage, Shown, PageType, ChipsTrue, Happened, CurrentRowExists, Statuses
<1> QED
    BY <1>1, <1>3, <1>4 DEF PageInv

\* Answers come late, in any order or never, while others decide and reopen:

\* the page shows no decision that was not made, and has a current row while it
\* has rows.
THEOREM PageIsTrue == Spec => []PageTellsTruth
<1>1. PageInv => PageTellsTruth
    BY DEF PageInv, Shown, ChipsTrue, Happened, PageTellsTruth
<1> QED
    BY <1>1, InitPage, StepPage, PTL DEF Spec
================================================================================
