---------------------------- MODULE MCDraftReview ----------------------------
(* Two drafts, two requests at a time. *)
EXTENDS DraftReview, SequencesExt

ContentValues == {[title |-> "text", ordered |-> TRUE, known |-> TRUE],
                  [title |-> "blank", ordered |-> TRUE, known |-> TRUE]}

\* removeDraftRow as it is written: one row out of the list of rows.
RemoveDraftRow(pg, d) ==
    LET Other(x) == x # d
        rest == SelectSeq(pg.rows, Other)
        at == CHOOSE i \in 1..Len(pg.rows) : pg.rows[i] = d
    IN
    IF ~Contains(pg.rows, d) THEN pg
    ELSE [rows |-> rest,
          current |-> IF pg.current # d THEN pg.current
                      ELSE IF rest = <<>> THEN NoDraft
                      ELSE rest[IF at > Len(rest) THEN Len(rest) ELSE at]]

\* Removing the rows one by one, in any order, is removing them at once.
ASSUME RemovalAssumption ==
    \A rows \in SUBSET (1..4), ds \in SUBSET (1..4) :
        \A current \in IF rows = {} THEN {NoDraft} ELSE rows, order \in SetToSeqs(ds) :
            LET before == [rows |-> SetToSortSeq(rows, >), current |-> current]
                one == FoldLeft(RemoveDraftRow, before, order)
                all == RemoveRows([rows |-> rows, current |-> current], ds)
            IN one.current = all.current /\ ToSet(one.rows) = all.rows
==============================================================================
