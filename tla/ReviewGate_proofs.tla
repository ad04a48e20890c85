-------------------------- MODULE ReviewGate_proofs --------------------------
(***************************************************************************)
(* Proofs about the review gate, for any candidates, flags, bands and      *)
(* bounds.                                                                 *)
(***************************************************************************)
EXTENDS ReviewGate, SequenceTheorems, TLAPS

-----------------------------------------------------------------------------
(* Lemmas about what the model is built from.                              *)

\* A session that holds the stored row commits exactly the row it computed.
LEMMA FlushOwn ==
    ASSUME NEW row \in ComparisonRows, NEW new \in ComparisonRows,
           new.rubric_id = row.rubric_id
    PROVE  Flush(row, row, new) = new
  BY DEF Flush, Column, ComparisonRows

\* What a reopening does, by the status it finds.
LEMMA ReopenedFacts ==
    ASSUME NEW row \in ComparisonRows
    PROVE  /\ Reopened(row) \in ComparisonRows
           /\ Reopened(row).rubric_id = row.rubric_id
           /\ Reopened(row).status = "pending_review"
           /\ row.status = "reviewed" =>
                  /\ Reopened(row).revision = row.revision + 1
                  /\ Reopened(row).approved_at = None
           /\ row.status = "pending_review" => Reopened(row) = row
<1>1. CASE row.status = "reviewed"
  <2> DEFINE new == [status |-> "pending_review", revision |-> row.revision + 1,
                     approved_at |-> None, rubric_id |-> row.rubric_id]
  <2>1. Reopened(row) = new
    BY <1>1 DEF Reopened, ComparisonRows
  <2>2. new \in ComparisonRows
    BY DEF ComparisonRows, Statuses
  <2>3. QED
    BY <1>1, <2>1, <2>2
<1>2. CASE row.status = "pending_review"
  BY <1>2 DEF Reopened
<1>3. QED
  BY <1>1, <1>2 DEF ComparisonRows, Statuses

\* What an approval makes of the row.
LEMMA SignedRow ==
    ASSUME NEW row \in ComparisonRows, NEW n \in Nat \cup {None}
    PROVE  LET new == [row EXCEPT !.status = "reviewed", !.approved_at = n]
           IN  /\ new \in ComparisonRows
               /\ new.status = "reviewed"
               /\ new.revision = row.revision
               /\ new.approved_at = n
               /\ new.rubric_id = row.rubric_id
<1>1. [row EXCEPT !.status = "reviewed", !.approved_at = n] \in ComparisonRows
  BY ZenonT(30) DEF ComparisonRows, Statuses
<1>2. QED
  BY <1>1 DEF ComparisonRows

\* Appending to a log: its rows keep their ids, the new row gets the next one.
LEMMA AppendFacts ==
    ASSUME NEW S, NEW s \in Seq(S), NEW e \in S
    PROVE  /\ Append(s, e) \in Seq(S)
           /\ Append(s, e) # <<>>
           /\ Len(Append(s, e)) = Len(s) + 1
           /\ DOMAIN Append(s, e) = DOMAIN s \cup {Len(s) + 1}
           /\ Len(s) + 1 \notin DOMAIN s
           /\ \A i \in DOMAIN s : Append(s, e)[i] = s[i]
           /\ Append(s, e)[Len(s) + 1] = e
  OBVIOUS

\* A prefix of a log is not changed by what is appended after it.
LEMMA PrefixStable ==
    ASSUME NEW S, NEW s \in Seq(S), NEW e \in S, NEW n \in 0 .. Len(s)
    PROVE  SubSeq(Append(s, e), 1, n) = SubSeq(s, 1, n)
  OBVIOUS

\* A whole log is the prefix up to its last row.
LEMMA WholePrefix ==
    ASSUME NEW S, NEW s \in Seq(S)
    PROVE  SubSeq(s, 1, Len(s)) = s
  OBVIOUS

-----------------------------------------------------------------------------
(* What each handler stores when it has the stored row in hand.            *)

LEMMA ActionEffect ==
    ASSUME TypeOK, NEW a, NEW c, NEW t, RecordAction(a, c, t)
    PROVE  /\ Acceptable(a, c, t)
           /\ Row(a, c, t, Reopened(comparison).revision) \in ActionRows
           /\ comparison' = Reopened(comparison)
           /\ review_actions' =
                  Append(review_actions, Row(a, c, t, Reopened(comparison).revision))
           /\ UNCHANGED <<candidate_responses, rubrics, exported>>
<1>1. Reopened(comparison) \in ComparisonRows
      /\ Reopened(comparison).rubric_id = comparison.rubric_id
  BY ReopenedFacts DEF TypeOK
<1>2. comparison' = Reopened(comparison)
  BY <1>1, FlushOwn DEF RecordAction, RecordActionFrom, TypeOK
<1>3. Acceptable(a, c, t)
  BY DEF RecordAction, RecordActionFrom
<1>4. c \in Candidates /\ t \in Flags \cup Bands /\ a \in ReviewActions
  BY <1>3, GateAssumption DEF Acceptable
<1>5. Row(a, c, t, Reopened(comparison).revision) \in ActionRows
  BY <1>1, <1>4 DEF Row, ActionRows, ComparisonRows
<1>6. QED
  BY <1>2, <1>3, <1>5 DEF RecordAction, RecordActionFrom, Insert

LEMMA ResponseEffect ==
    ASSUME TypeOK, NEW c, NEW f, RecordResponse(c, f)
    PROVE  \E row \in ResponseRows :
               /\ row.revision = Reopened(comparison).revision
               /\ candidate_responses' = Append(candidate_responses, row)
               /\ Len(candidate_responses) < MaxResponses
               /\ comparison' = Reopened(comparison)
               /\ UNCHANGED <<review_actions, rubrics, exported>>
<1> DEFINE row == [candidate |-> c, flag |-> f,
                   revision |-> Reopened(comparison).revision]
<1>1. Reopened(comparison) \in ComparisonRows
      /\ Reopened(comparison).rubric_id = comparison.rubric_id
  BY ReopenedFacts DEF TypeOK
<1>2. comparison' = Reopened(comparison)
  BY <1>1, FlushOwn DEF RecordResponse, RecordResponseFrom, TypeOK
<1>3. c \in Candidates /\ f \in Flags \cup {None}
  BY GateAssumption DEF RecordResponse, RecordResponseFrom
<1>4. row \in ResponseRows
  BY <1>1, <1>3 DEF ResponseRows, ComparisonRows
<1>5. /\ candidate_responses' = Append(candidate_responses, row)
      /\ Len(candidate_responses) < MaxResponses
      /\ UNCHANGED <<review_actions, rubrics, exported>>
  BY DEF RecordResponse, RecordResponseFrom
<1>6. QED
  BY <1>2, <1>4, <1>5

LEMMA ApproveEffect ==
    ASSUME TypeOK, Approve
    PROVE  /\ Row("approve", None, None, comparison.revision) \in ActionRows
           /\ comparison' = [comparison EXCEPT !.status = "reviewed",
                                               !.approved_at = Len(review_actions) + 1]
           /\ comparison' \in ComparisonRows
           /\ review_actions' =
                  Append(review_actions, Row("approve", None, None, comparison.revision))
           /\ UNCHANGED <<candidate_responses, rubrics, exported>>
<1> DEFINE new == [comparison EXCEPT !.status = "reviewed",
                                     !.approved_at = Len(review_actions) + 1]
<1>1. Len(review_actions) \in Nat
  BY LenProperties DEF TypeOK
<1>2. new \in ComparisonRows /\ new.rubric_id = comparison.rubric_id
  <2>1. comparison \in ComparisonRows
    BY DEF TypeOK
  <2>2. Len(review_actions) + 1 \in Nat \cup {None}
    BY <1>1
  <2>3. QED
    BY <2>1, <2>2, SignedRow, Zenon
<1>3. comparison' = new
  BY <1>2, FlushOwn DEF Approve, ApproveFrom, TypeOK
<1>4. Row("approve", None, None, comparison.revision) \in ActionRows
  BY DEF TypeOK, Row, ActionRows, ComparisonRows
<1>5. QED
  BY <1>2, <1>3, <1>4 DEF Approve, ApproveFrom, Insert

-----------------------------------------------------------------------------
(* Type correctness.                                                       *)

LEMMA TypedColumns ==
    ASSUME TypeOK
    PROVE  /\ comparison \in ComparisonRows
           /\ comparison.revision \in Nat
           /\ comparison.status \in Statuses
           /\ review_actions \in Seq(ActionRows)
           /\ candidate_responses \in Seq(ResponseRows)
           /\ \A i \in DOMAIN review_actions : review_actions[i].revision \in Nat
           /\ \A i \in DOMAIN candidate_responses :
                  candidate_responses[i].revision \in Nat
<1>1. ASSUME NEW i \in DOMAIN review_actions
      PROVE  review_actions[i].revision \in Nat
  <2>1. review_actions[i] \in ActionRows
    BY DEF TypeOK
  <2>2. QED
    BY <2>1 DEF ActionRows
<1>2. ASSUME NEW i \in DOMAIN candidate_responses
      PROVE  candidate_responses[i].revision \in Nat
  <2>1. candidate_responses[i] \in ResponseRows
    BY DEF TypeOK
  <2>2. QED
    BY <2>1 DEF ResponseRows
<1>3. QED
  BY <1>1, <1>2 DEF TypeOK, ComparisonRows

LEMMA PayloadTyped ==
    ASSUME TypeOK
    PROVE  Payload(comparison, rubrics, review_actions, review_actions,
                   candidate_responses, review_actions) \in Payloads
<1>1. /\ comparison.revision \in Nat
      /\ rubrics \in Nat
      /\ Len(review_actions) \in Nat
  BY LenProperties DEF TypeOK, ComparisonRows
<1>2. DOMAIN candidate_responses \in SUBSET Nat
  BY DEF TypeOK
<1>3. Dismissed(review_actions) \in SUBSET (Candidates \X Flags)
  BY DEF Dismissed
<1>4. Overrides(review_actions) \in SUBSET (Candidates \X Bands)
  BY DEF Overrides
<1>5. QED
  BY <1>1, <1>2, <1>3, <1>4 DEF Payload, Payloads

LEMMA TypeStep ==
    ASSUME TypeOK, [Next]_vars
    PROVE  TypeOK'
<1>1. ASSUME NEW a, NEW c, NEW t, RecordAction(a, c, t)
      PROVE  TypeOK'
  <2>1. Reopened(comparison) \in ComparisonRows
    BY ReopenedFacts DEF TypeOK
  <2>2. QED
    BY <1>1, <2>1, ActionEffect, AppendFacts DEF TypeOK
<1>2. ASSUME NEW c, NEW f, RecordResponse(c, f)
      PROVE  TypeOK'
  <2>1. Reopened(comparison) \in ComparisonRows
    BY ReopenedFacts DEF TypeOK
  <2>2. PICK row \in ResponseRows :
             /\ candidate_responses' = Append(candidate_responses, row)
             /\ comparison' = Reopened(comparison)
             /\ UNCHANGED <<review_actions, rubrics, exported>>
    BY <1>2, ResponseEffect
  <2>3. candidate_responses' \in Seq(ResponseRows)
    BY <2>2, AppendFacts DEF TypeOK
  <2>4. QED
    BY <2>1, <2>2, <2>3 DEF TypeOK
<1>3. CASE Approve
  BY <1>3, ApproveEffect, AppendFacts DEF TypeOK
<1>4. CASE Export
  BY <1>4, PayloadTyped DEF Export, TypeOK
<1>5. CASE SaveRubric
  BY <1>5 DEF SaveRubric, TypeOK
<1>6. CASE UNCHANGED vars
  BY <1>6 DEF vars, TypeOK
<1>7. QED
  BY <1>1, <1>2, <1>3, <1>4, <1>5, <1>6 DEF Next

\* Every column of every table holds a value of its kind, however many
\* actions, responses and rubrics the comparison collects.
THEOREM TypeCorrect == Spec => []TypeOK
<1>1. Init => TypeOK
  BY DEF Init, TypeOK, ComparisonRows, Statuses
<1>2. TypeOK /\ [Next]_vars => TypeOK'
  BY TypeStep
<1>3. QED
  BY <1>1, <1>2, PTL DEF Spec

-----------------------------------------------------------------------------
(* Replay: the tables reconstruct the comparison row.                      *)

\* A gate that is waiting for a signature has none on the revision at hand.
LEMMA PendingIsUnsigned ==
    ASSUME TypeOK, ReplayReconstructs, RevisionLedger,
           comparison.status = "pending_review",
           NEW i \in DOMAIN review_actions, IsApproval(review_actions, i)
    PROVE  review_actions[i].revision < comparison.revision
<1> DEFINE n == Len(review_actions)
<1>1. /\ review_actions \in Seq(ActionRows)
      /\ comparison.revision \in Nat
      /\ \A k \in DOMAIN review_actions : review_actions[k].revision \in Nat
  BY TypedColumns
<1>2. n \in DOMAIN review_actions /\ i <= n /\ review_actions # <<>>
  BY <1>1
<1>3. review_actions[i].revision <= comparison.revision
  BY DEF ReplayReconstructs, RowsWithinRevision
<1>4. ASSUME review_actions[i].revision = comparison.revision
      PROVE  FALSE
  <2>1. review_actions[n].revision <= comparison.revision
    BY <1>2 DEF ReplayReconstructs, RowsWithinRevision
  <2>2. review_actions[i].revision <= review_actions[n].revision
    BY <1>1, <1>2 DEF RevisionLedger, FiledInOrder
  <2>3. review_actions[n].revision = comparison.revision
    BY <1>1, <1>2, <1>4, <2>1, <2>2
  <2>4. IsApproval(review_actions, n)
    BY <1>1, <1>2, <1>4, <2>3 DEF RevisionLedger, FiledInOrder
  <2>5. ApprovedLast(review_actions, comparison)
    BY <1>2, <2>3, <2>4 DEF ApprovedLast
  <2>6. QED
    BY <2>5 DEF ReplayReconstructs
<1>5. QED
  BY <1>1, <1>3, <1>4

LEMMA ReplayStep ==
    ASSUME TypeOK, ReplayReconstructs, [Next]_vars
    PROVE  ReplayReconstructs'
<1> USE DEF IsApproval
<1>1. /\ comparison \in ComparisonRows
      /\ comparison.revision \in Nat
      /\ comparison.status \in Statuses
      /\ review_actions \in Seq(ActionRows)
      /\ candidate_responses \in Seq(ResponseRows)
      /\ \A i \in DOMAIN review_actions : review_actions[i].revision \in Nat
      /\ \A i \in DOMAIN candidate_responses : candidate_responses[i].revision \in Nat
  BY TypedColumns
<1>2. /\ Reopened(comparison) \in ComparisonRows
      /\ Reopened(comparison).revision \in Nat
      /\ Reopened(comparison).status = "pending_review"
      /\ Reopened(comparison).approved_at = None
      /\ comparison.status = "reviewed"
             => Reopened(comparison).revision = comparison.revision + 1
      /\ comparison.status # "reviewed"
             => Reopened(comparison).revision = comparison.revision
  BY <1>1, ReopenedFacts DEF ReplayReconstructs, ComparisonRows, Statuses
<1>3. ASSUME NEW a, NEW c, NEW t, RecordAction(a, c, t)
      PROVE  ReplayReconstructs'
  <2> DEFINE row == Row(a, c, t, Reopened(comparison).revision)
             n == Len(review_actions)
  <2>1. /\ a # "approve"
        /\ row \in ActionRows
        /\ comparison' = Reopened(comparison)
        /\ review_actions' = Append(review_actions, row)
        /\ candidate_responses' = candidate_responses
    BY <1>3, ActionEffect DEF Acceptable, ReviewActions, FlagActions
  <2>2. /\ DOMAIN review_actions' = DOMAIN review_actions \cup {n + 1}
        /\ Len(review_actions') = n + 1
        /\ review_actions'[n + 1] = row
        /\ \A i \in DOMAIN review_actions : review_actions'[i] = review_actions[i]
    BY <1>1, <2>1, AppendFacts
  <2>3. row.revision = comparison'.revision /\ row.action = a
    BY <2>1 DEF Row
  <2>4. comparison.revision <= comparison'.revision
    BY <1>1, <1>2, <2>1
  <2>5. RowsWithinRevision'
    <3>1. \A i \in DOMAIN review_actions :
              review_actions[i].revision <= comparison'.revision
      BY <1>1, <1>2, <2>1, <2>4 DEF ReplayReconstructs, RowsWithinRevision
    <3>2. \A i \in DOMAIN candidate_responses :
              candidate_responses[i].revision <= comparison'.revision
      BY <1>1, <1>2, <2>1, <2>4 DEF ReplayReconstructs, RowsWithinRevision
    <3>3. comparison'.revision <= comparison'.revision
      BY <1>2, <2>1
    <3>4. QED
      BY <2>1, <2>2, <2>3, <3>1, <3>2, <3>3 DEF RowsWithinRevision
  <2>6. RevisionIsCarried'
    BY <2>1, <2>2, <2>3 DEF RevisionIsCarried
  <2>7. ~ApprovedLast(review_actions', comparison')
    BY <2>1, <2>2, <2>3 DEF ApprovedLast
  <2>8. comparison'.status = "pending_review" /\ comparison'.approved_at = None
    BY <1>2, <2>1
  <2>9. QED
    BY <2>5, <2>6, <2>7, <2>8 DEF ReplayReconstructs, ApprovedLast
<1>4. ASSUME NEW c, NEW f, RecordResponse(c, f)
      PROVE  ReplayReconstructs'
  <2> DEFINE n == Len(candidate_responses)
             m == Len(review_actions)
  <2>1. PICK row \in ResponseRows :
             /\ row.revision = Reopened(comparison).revision
             /\ candidate_responses' = Append(candidate_responses, row)
             /\ comparison' = Reopened(comparison)
             /\ review_actions' = review_actions
    BY <1>4, ResponseEffect
  <2>2. /\ DOMAIN candidate_responses' = DOMAIN candidate_responses \cup {n + 1}
        /\ candidate_responses'[n + 1] = row
        /\ \A i \in DOMAIN candidate_responses :
               candidate_responses'[i] = candidate_responses[i]
    BY <1>1, <2>1, AppendFacts
  <2>3. row.revision = comparison'.revision
    BY <2>1
  <2>4. comparison.revision <= comparison'.revision
    BY <1>1, <1>2, <2>1
  <2>5. RowsWithinRevision'
    <3>1. \A i \in DOMAIN review_actions :
              review_actions[i].revision <= comparison'.revision
      BY <1>1, <1>2, <2>1, <2>4 DEF ReplayReconstructs, RowsWithinRevision
    <3>2. \A i \in DOMAIN candidate_responses :
              candidate_responses[i].revision <= comparison'.revision
      BY <1>1, <1>2, <2>1, <2>4 DEF ReplayReconstructs, RowsWithinRevision
    <3>3. comparison'.revision <= comparison'.revision
      BY <1>2, <2>1
    <3>4. QED
      BY <2>1, <2>2, <2>3, <3>1, <3>2, <3>3 DEF RowsWithinRevision
  <2>6. RevisionIsCarried'
    BY <2>1, <2>2, <2>3 DEF RevisionIsCarried
  <2>7. ~ApprovedLast(review_actions', comparison')
    <3>1. CASE comparison.status = "reviewed"
      <4>1. comparison'.revision = comparison.revision + 1
        BY <1>2, <2>1, <3>1
      <4>2. review_actions # <<>> => m \in DOMAIN review_actions
        BY <1>1
      <4>3. review_actions # <<>> =>
                review_actions[m].revision <= comparison.revision
        BY <4>2 DEF ReplayReconstructs, RowsWithinRevision
      <4>4. review_actions # <<>> =>
                review_actions[m].revision # comparison'.revision
        BY <1>1, <4>1, <4>2, <4>3
      <4>5. QED
        BY <2>1, <4>4 DEF ApprovedLast
    <3>2. CASE comparison.status = "pending_review"
      <4>1. comparison'.revision = comparison.revision
        BY <1>2, <2>1, <3>2
      <4>2. ~ApprovedLast(review_actions, comparison)
        BY <3>2 DEF ReplayReconstructs
      <4>3. QED
        BY <2>1, <4>1, <4>2 DEF ApprovedLast
    <3>3. QED
      BY <1>1, <3>1, <3>2 DEF Statuses
  <2>8. comparison'.status = "pending_review" /\ comparison'.approved_at = None
    BY <1>2, <2>1
  <2>9. QED
    BY <2>5, <2>6, <2>7, <2>8 DEF ReplayReconstructs, ApprovedLast
<1>5. CASE Approve
  <2> DEFINE row == Row("approve", None, None, comparison.revision)
             n == Len(review_actions)
  <2>1. /\ row \in ActionRows
        /\ review_actions' = Append(review_actions, row)
        /\ candidate_responses' = candidate_responses
        /\ comparison' = [comparison EXCEPT !.status = "reviewed", !.approved_at = n + 1]
    BY <1>5, ApproveEffect
  <2>2. /\ DOMAIN review_actions' = DOMAIN review_actions \cup {n + 1}
        /\ review_actions' # <<>>
        /\ Len(review_actions') = n + 1
        /\ review_actions'[n + 1] = row
        /\ \A i \in DOMAIN review_actions : review_actions'[i] = review_actions[i]
    BY <1>1, <2>1, AppendFacts
  <2>3. n + 1 \in Nat \cup {None}
    BY <1>1, LenProperties
  <2>4. /\ comparison'.status = "reviewed"
        /\ comparison'.revision = comparison.revision
        /\ comparison'.approved_at = n + 1
    BY <1>1, <2>1, <2>3, SignedRow, Zenon
  <2>5. row.revision = comparison'.revision /\ row.action = "approve"
    BY <2>4 DEF Row
  <2>6. RowsWithinRevision'
    BY <1>1, <2>1, <2>2, <2>4, <2>5 DEF ReplayReconstructs, RowsWithinRevision
  <2>7. RevisionIsCarried'
    BY <2>2, <2>5 DEF RevisionIsCarried
  <2>8. ApprovedLast(review_actions', comparison')
    BY <2>2, <2>5 DEF ApprovedLast
  <2>9. QED
    BY <2>2, <2>4, <2>6, <2>7, <2>8 DEF ReplayReconstructs, ApprovedLast
<1>6. CASE UNCHANGED <<comparison, review_actions, candidate_responses>>
  BY <1>6 DEF ReplayReconstructs, RowsWithinRevision, RevisionIsCarried, ApprovedLast
<1>7. QED
  BY <1>3, <1>4, <1>5, <1>6 DEF Next, vars, Export, SaveRubric

-----------------------------------------------------------------------------
(* The ledger: an approval closes the revision it covers.                  *)

LEMMA LedgerStep ==
    ASSUME TypeOK, ReplayReconstructs, RevisionLedger, [Next]_vars
    PROVE  RevisionLedger'
<1> USE DEF IsApproval
<1>1. /\ comparison \in ComparisonRows
      /\ comparison.revision \in Nat
      /\ comparison.status \in Statuses
      /\ review_actions \in Seq(ActionRows)
      /\ candidate_responses \in Seq(ResponseRows)
      /\ \A i \in DOMAIN review_actions : review_actions[i].revision \in Nat
      /\ \A i \in DOMAIN candidate_responses : candidate_responses[i].revision \in Nat
      /\ Len(review_actions) \in Nat
      /\ DOMAIN review_actions = 1 .. Len(review_actions)
      /\ Len(candidate_responses) \in Nat
      /\ DOMAIN candidate_responses = 1 .. Len(candidate_responses)
  BY TypedColumns, LenProperties
<1>2. /\ Reopened(comparison).revision \in Nat
      /\ comparison.status = "reviewed"
             => Reopened(comparison).revision = comparison.revision + 1
      /\ comparison.status # "reviewed"
             => Reopened(comparison).revision = comparison.revision
  BY <1>1, ReopenedFacts DEF ComparisonRows, Statuses
<1>3. \A i \in DOMAIN review_actions :
          /\ review_actions[i].revision <= Reopened(comparison).revision
          /\ IsApproval(review_actions, i)
                 => review_actions[i].revision < Reopened(comparison).revision
  <2> SUFFICES ASSUME NEW i \in DOMAIN review_actions
               PROVE  /\ review_actions[i].revision <= Reopened(comparison).revision
                      /\ IsApproval(review_actions, i)
                             => review_actions[i].revision < Reopened(comparison).revision
    OBVIOUS
  <2>1. review_actions[i].revision <= comparison.revision
    BY DEF ReplayReconstructs, RowsWithinRevision
  <2>2. CASE comparison.status = "reviewed"
    BY <1>1, <1>2, <2>1, <2>2
  <2>3. CASE comparison.status = "pending_review"
    BY <1>1, <1>2, <2>1, <2>3, PendingIsUnsigned
  <2>4. QED
    BY <1>1, <2>2, <2>3 DEF Statuses
\* Every revision below the one a reopening leaves is approved.
<1>4. \A r \in 0 .. Reopened(comparison).revision - 1 :
          \E i \in DOMAIN review_actions :
              IsApproval(review_actions, i) /\ review_actions[i].revision = r
  <2> SUFFICES ASSUME NEW r \in 0 .. Reopened(comparison).revision - 1
               PROVE  \E i \in DOMAIN review_actions :
                          IsApproval(review_actions, i) /\ review_actions[i].revision = r
    OBVIOUS
  <2>1. CASE r \in 0 .. comparison.revision - 1
    BY <2>1 DEF RevisionLedger
  <2>2. CASE comparison.status = "reviewed" /\ r = comparison.revision
    <3>1. ApprovedLast(review_actions, comparison)
      BY <2>2 DEF ReplayReconstructs
    <3>2. Len(review_actions) \in DOMAIN review_actions
      BY <1>1, <3>1 DEF ApprovedLast
    <3>3. QED
      BY <2>2, <3>1, <3>2 DEF ApprovedLast
  <2>3. QED
    BY <1>1, <1>2, <2>1, <2>2
<1>5. ASSUME NEW row \in ActionRows,
             review_actions' = Append(review_actions, row),
             \A i \in DOMAIN review_actions :
                 /\ review_actions[i].revision <= row.revision
                 /\ IsApproval(review_actions, i) /\ row.action # "approve"
                        => review_actions[i].revision < row.revision,
             candidate_responses' = candidate_responses
      PROVE  FiledInOrder'
  <2> DEFINE n == Len(review_actions)
  <2>1. /\ DOMAIN review_actions' = DOMAIN review_actions \cup {n + 1}
        /\ review_actions'[n + 1] = row
        /\ \A i \in DOMAIN review_actions : review_actions'[i] = review_actions[i]
    BY <1>1, <1>5, AppendFacts
  <2>2. ASSUME NEW i \in DOMAIN review_actions', NEW j \in DOMAIN review_actions', i < j
        PROVE  /\ review_actions'[i].revision <= review_actions'[j].revision
               /\ IsApproval(review_actions', i) /\ ~IsApproval(review_actions', j)
                      => review_actions'[i].revision < review_actions'[j].revision
    <3>1. i \in DOMAIN review_actions
      BY <1>1, <2>1, <2>2
    <3>2. CASE j \in DOMAIN review_actions
      BY <2>1, <2>2, <3>1, <3>2 DEF RevisionLedger, FiledInOrder
    <3>3. CASE j = n + 1
      BY <1>5, <2>1, <3>1, <3>3
    <3>4. QED
      BY <2>1, <3>2, <3>3
  <2>3. QED
    BY <1>5, <2>2 DEF RevisionLedger, FiledInOrder
<1>6. ASSUME NEW a, NEW c, NEW t, RecordAction(a, c, t)
      PROVE  RevisionLedger'
  <2> DEFINE row == Row(a, c, t, Reopened(comparison).revision)
             n == Len(review_actions)
  <2>1. /\ row \in ActionRows
        /\ comparison' = Reopened(comparison)
        /\ review_actions' = Append(review_actions, row)
        /\ candidate_responses' = candidate_responses
    BY <1>6, ActionEffect
  <2>2. row.revision = Reopened(comparison).revision
    BY DEF Row
  <2>3. FiledInOrder'
    BY <1>3, <1>5, <2>1, <2>2
  <2>4. /\ DOMAIN review_actions' = DOMAIN review_actions \cup {n + 1}
        /\ \A i \in DOMAIN review_actions : review_actions'[i] = review_actions[i]
    BY <1>1, <2>1, AppendFacts
  <2>5. QED
    BY <1>4, <2>1, <2>3, <2>4 DEF RevisionLedger
<1>7. ASSUME NEW c, NEW f, RecordResponse(c, f)
      PROVE  RevisionLedger'
  <2> DEFINE n == Len(candidate_responses)
  <2>1. PICK row \in ResponseRows :
             /\ row.revision = Reopened(comparison).revision
             /\ candidate_responses' = Append(candidate_responses, row)
             /\ comparison' = Reopened(comparison)
             /\ review_actions' = review_actions
    BY <1>7, ResponseEffect
  <2>2. /\ DOMAIN candidate_responses' = DOMAIN candidate_responses \cup {n + 1}
        /\ candidate_responses'[n + 1] = row
        /\ \A i \in DOMAIN candidate_responses :
               candidate_responses'[i] = candidate_responses[i]
    BY <1>1, <2>1, AppendFacts
  <2>3. comparison.revision <= Reopened(comparison).revision
    BY <1>1, <1>2
  <2>4. \A i \in DOMAIN candidate_responses :
            candidate_responses[i].revision <= row.revision
    BY <1>1, <1>2, <2>1, <2>3 DEF ReplayReconstructs, RowsWithinRevision
  <2>5. ASSUME NEW i \in DOMAIN candidate_responses',
               NEW j \in DOMAIN candidate_responses', i < j
        PROVE  candidate_responses'[i].revision <= candidate_responses'[j].revision
    <3>1. i \in DOMAIN candidate_responses
      BY <1>1, <2>2, <2>5
    <3>2. CASE j \in DOMAIN candidate_responses
      BY <2>2, <2>5, <3>1, <3>2 DEF RevisionLedger, FiledInOrder
    <3>3. CASE j = n + 1
      BY <2>2, <2>4, <3>1, <3>3
    <3>4. QED
      BY <2>2, <3>2, <3>3
  <2>6. FiledInOrder'
    BY <2>1, <2>5 DEF RevisionLedger, FiledInOrder
  <2>7. QED
    BY <1>4, <2>1, <2>6 DEF RevisionLedger
<1>8. CASE Approve
  <2> DEFINE row == Row("approve", None, None, comparison.revision)
             n == Len(review_actions)
  <2>1. /\ row \in ActionRows
        /\ review_actions' = Append(review_actions, row)
        /\ candidate_responses' = candidate_responses
        /\ comparison' = [comparison EXCEPT !.status = "reviewed", !.approved_at = n + 1]
    BY <1>8, ApproveEffect
  <2>2. row.revision = comparison.revision /\ row.action = "approve"
    BY DEF Row
  <2>3. n + 1 \in Nat \cup {None}
    BY <1>1
  <2>4. comparison'.revision = comparison.revision
    BY <1>1, <2>1, <2>3, SignedRow, Zenon
  <2>5. FiledInOrder'
    BY <1>5, <2>1, <2>2 DEF ReplayReconstructs, RowsWithinRevision
  <2>6. /\ DOMAIN review_actions' = DOMAIN review_actions \cup {n + 1}
        /\ \A i \in DOMAIN review_actions : review_actions'[i] = review_actions[i]
    BY <1>1, <2>1, AppendFacts
  <2>7. QED
    BY <2>4, <2>5, <2>6 DEF RevisionLedger
<1>9. CASE UNCHANGED <<comparison, review_actions, candidate_responses>>
  BY <1>9 DEF RevisionLedger, FiledInOrder
<1>10. QED
  BY <1>6, <1>7, <1>8, <1>9 DEF Next, vars, Export, SaveRubric

-----------------------------------------------------------------------------
(* The export: what left is what was signed.                               *)

LEMMA ExportStep ==
    ASSUME TypeOK, ReplayReconstructs, RevisionLedger, ExportIsSigned, [Next]_vars
    PROVE  ExportIsSigned'
<1>1. /\ comparison \in ComparisonRows
      /\ comparison.revision \in Nat
      /\ comparison.status \in Statuses
      /\ review_actions \in Seq(ActionRows)
      /\ candidate_responses \in Seq(ResponseRows)
      /\ Len(review_actions) \in Nat
      /\ DOMAIN review_actions = 1 .. Len(review_actions)
      /\ \A i \in DOMAIN review_actions : review_actions[i].revision \in Nat
  BY TypedColumns, LenProperties
\* A row appended to the log leaves the exported prefix of it alone.
<1>2. ASSUME NEW row \in ActionRows,
             review_actions' = Append(review_actions, row),
             UNCHANGED <<candidate_responses, exported>>
      PROVE  ExportIsSigned'
  <2> SUFFICES ASSUME exported # None
               PROVE  ExportIsSigned'
    BY <1>2 DEF ExportIsSigned
  <2>1. exported.audit \in DOMAIN review_actions
    BY DEF ExportIsSigned
  <2>2. exported.audit \in 0 .. Len(review_actions)
    BY <1>1, <2>1
  <2>3. SubSeq(review_actions', 1, exported.audit) = SubSeq(review_actions, 1, exported.audit)
    BY <1>1, <1>2, <2>2, PrefixStable
  <2>4. /\ exported.audit \in DOMAIN review_actions'
        /\ review_actions'[exported.audit] = review_actions[exported.audit]
    BY <1>1, <1>2, <2>1, AppendFacts
  <2>5. QED
    BY <1>2, <2>3, <2>4 DEF ExportIsSigned, IsApproval
<1>3. ASSUME NEW a, NEW c, NEW t, RecordAction(a, c, t)
      PROVE  ExportIsSigned'
  BY <1>2, <1>3, ActionEffect
<1>4. CASE Approve
  BY <1>2, <1>4, ApproveEffect
\* A response is filed under a revision nobody has signed, let alone exported.
<1>5. ASSUME NEW c, NEW f, RecordResponse(c, f)
      PROVE  ExportIsSigned'
  <2> DEFINE n == Len(candidate_responses)
             at == exported.audit
  <2>1. PICK row \in ResponseRows :
             /\ row.revision = Reopened(comparison).revision
             /\ candidate_responses' = Append(candidate_responses, row)
             /\ UNCHANGED <<review_actions, exported>>
    BY <1>5, ResponseEffect
  <2> SUFFICES ASSUME exported # None
               PROVE  ExportIsSigned'
    BY <2>1 DEF ExportIsSigned
  <2>2. /\ DOMAIN candidate_responses' = DOMAIN candidate_responses \cup {n + 1}
        /\ candidate_responses'[n + 1] = row
        /\ \A i \in DOMAIN candidate_responses :
               candidate_responses'[i] = candidate_responses[i]
    BY <1>1, <2>1, AppendFacts
  <2>3. /\ at \in DOMAIN review_actions
        /\ IsApproval(review_actions, at)
        /\ review_actions[at].revision = exported.revision
    BY DEF ExportIsSigned
  <2>4. row.revision > exported.revision
    <3>1. review_actions[at].revision <= comparison.revision
      BY <2>3 DEF ReplayReconstructs, RowsWithinRevision
    <3>2. CASE comparison.status = "reviewed"
      <4>1. row.revision = comparison.revision + 1
        BY <1>1, <2>1, <3>2, ReopenedFacts
      <4>2. QED
        BY <1>1, <2>3, <3>1, <4>1
    <3>3. CASE comparison.status = "pending_review"
      <4>1. row.revision = comparison.revision
        BY <1>1, <2>1, <3>3, ReopenedFacts
      <4>2. review_actions[at].revision < comparison.revision
        BY <2>3, <3>3, PendingIsUnsigned
      <4>3. QED
        BY <1>1, <2>3, <4>1, <4>2
    <3>4. QED
      BY <1>1, <3>2, <3>3 DEF Statuses
  <2>5. exported.revision \in Nat /\ row.revision \in Nat
    BY <1>1, <2>3 DEF ResponseRows
  <2>6. ~(row.revision <= exported.revision)
    BY <2>4, <2>5
  <2>7. {i \in DOMAIN candidate_responses' :
             candidate_responses'[i].revision <= exported.revision}
            = {i \in DOMAIN candidate_responses :
                   candidate_responses[i].revision <= exported.revision}
    BY <2>2, <2>6
  <2>8. QED
    BY <2>1, <2>7 DEF ExportIsSigned, IsApproval
<1>6. CASE Export
  <2> DEFINE n == Len(review_actions)
             sent == Payload(comparison, rubrics, review_actions, review_actions,
                             candidate_responses, review_actions)
  <2>1. /\ comparison.status = "reviewed"
        /\ exported' = sent
        /\ UNCHANGED <<review_actions, candidate_responses>>
    BY <1>6 DEF Export, MayExport
  <2>2. ApprovedLast(review_actions, comparison)
    BY <2>1 DEF ReplayReconstructs
  <2>3. n \in DOMAIN review_actions
    BY <1>1, <2>2 DEF ApprovedLast
  <2>4. SubSeq(review_actions, 1, n) = review_actions
    BY <1>1, WholePrefix
  <2>5. /\ sent.audit = n
        /\ sent.revision = comparison.revision
        /\ sent.dismissed = Dismissed(review_actions)
        /\ sent.overrides = Overrides(review_actions)
        /\ sent.heard = DOMAIN candidate_responses
    BY DEF Payload
  <2>6. DOMAIN candidate_responses =
            {i \in DOMAIN candidate_responses :
                 candidate_responses[i].revision <= comparison.revision}
    BY DEF ReplayReconstructs, RowsWithinRevision
  <2>7. /\ exported'.audit \in DOMAIN review_actions'
        /\ IsApproval(review_actions', exported'.audit)
        /\ review_actions'[exported'.audit].revision = exported'.revision
    BY <2>1, <2>2, <2>3, <2>5 DEF ApprovedLast, IsApproval
  <2>8. /\ exported'.dismissed = Dismissed(SubSeq(review_actions', 1, exported'.audit))
        /\ exported'.overrides = Overrides(SubSeq(review_actions', 1, exported'.audit))
    BY <2>1, <2>4, <2>5
  <2>9. exported'.heard = {i \in DOMAIN candidate_responses' :
                               candidate_responses'[i].revision <= exported'.revision}
    BY <2>1, <2>5, <2>6
  <2>10. QED
    BY <2>7, <2>8, <2>9 DEF ExportIsSigned
<1>7. CASE UNCHANGED <<review_actions, candidate_responses, exported>>
  BY <1>7 DEF ExportIsSigned, IsApproval
<1>8. QED
  BY <1>3, <1>4, <1>5, <1>6, <1>7 DEF Next, vars, SaveRubric

-----------------------------------------------------------------------------

\* The four invariants together: each step needs what the others say of the
\* state it starts from.
GateInvariant == TypeOK /\ ReplayReconstructs /\ RevisionLedger /\ ExportIsSigned

LEMMA GateInductive == Spec => []GateInvariant
<1>1. Init => GateInvariant
  BY DEF Init, GateInvariant, TypeOK, ComparisonRows, Statuses, ReplayReconstructs,
         RowsWithinRevision, RevisionIsCarried, ApprovedLast, RevisionLedger,
         FiledInOrder, ExportIsSigned
<1>2. GateInvariant /\ [Next]_vars => GateInvariant'
  BY TypeStep, ReplayStep, LedgerStep, ExportStep DEF GateInvariant
<1>3. QED
  BY <1>1, <1>2, PTL DEF Spec

\* The actions and the responses, replayed in order, give back the comparison
\* row (models.py, ReviewAction), for any number of reviewers' requests.
THEOREM ReplayAlways == Spec => []ReplayReconstructs
<1>1. GateInvariant => ReplayReconstructs
  BY DEF GateInvariant
<1>2. QED
  BY <1>1, GateInductive, PTL

\* An approval covers exactly the revision it saw: nothing is ever filed under
\* an approved revision (review.py, record_action and record_response).
THEOREM LedgerAlways == Spec => []RevisionLedger
<1>1. GateInvariant => RevisionLedger
  BY DEF GateInvariant
<1>2. QED
  BY <1>1, GateInductive, PTL

\* Nothing leaves without a signature on exactly what leaves (review.py,
\* export_payload), as long as requests do not overlap.
THEOREM ExportAlwaysSigned == Spec => []ExportIsSigned
<1>1. GateInvariant => ExportIsSigned
  BY DEF GateInvariant
<1>2. QED
  BY <1>1, GateInductive, PTL

-----------------------------------------------------------------------------
(* The gate implements GatePromise: every handler either does one thing    *)
(* the promise allows or leaves what the promise speaks of unchanged.      *)

\* What one more row does to what the log says: the last row about a flag of a
\* candidate decides whether it is dismissed.
LEMMA DismissedAppend ==
    ASSUME NEW log \in Seq(ActionRows), NEW row \in ActionRows,
           NEW p \in Candidates \X Flags
    PROVE  p \in Dismissed(Append(log, row)) <=>
               IF row.action \in FlagActions /\ About(row) = p
               THEN row.action = "flag_dismiss"
               ELSE p \in Dismissed(log)
<1> DEFINE new == Append(log, row)
           n == Len(log)
           Concerns(l, j) == l[j].action \in FlagActions /\ About(l[j]) = p
           Stands(l, i) == /\ l[i].action = "flag_dismiss"
                           /\ About(l[i]) = p
                           /\ \A j \in DOMAIN l : j > i => ~Concerns(l, j)
<1>1. /\ n \in Nat
      /\ DOMAIN log = 1 .. n
      /\ DOMAIN new = DOMAIN log \cup {n + 1}
      /\ new[n + 1] = row
      /\ \A i \in DOMAIN log : new[i] = log[i]
  BY AppendFacts, LenProperties
<1>2. \A l : p \in Dismissed(l) <=> \E i \in DOMAIN l : Stands(l, i)
  BY DEF Dismissed
<1>3. CASE row.action \in FlagActions /\ About(row) = p
  <2>1. \A i \in DOMAIN log : n + 1 > i
    BY <1>1
  <2>2. Concerns(new, n + 1)
    BY <1>1, <1>3
  <2>3. \A i \in DOMAIN log : ~Stands(new, i)
    BY <1>1, <2>1, <2>2
  <2>4. Stands(new, n + 1) <=> row.action = "flag_dismiss"
    BY <1>1, <1>3
  <2>5. QED
    BY <1>1, <1>2, <1>3, <2>3, <2>4
<1>4. CASE ~(row.action \in FlagActions /\ About(row) = p)
  <2>1. ~Concerns(new, n + 1)
    BY <1>1, <1>4
  <2>2. ~Stands(new, n + 1)
    BY <1>1, <1>4 DEF FlagActions
  <2>3. \A i \in DOMAIN log : Stands(new, i) <=> Stands(log, i)
    BY <1>1, <2>1
  <2> HIDE DEF Stands, Concerns, new
  <2>4. (\E i \in DOMAIN new : Stands(new, i)) <=> (\E i \in DOMAIN log : Stands(log, i))
    BY <1>1, <2>2, <2>3
  <2>5. p \in Dismissed(new) <=> p \in Dismissed(log)
    BY <1>2, <2>4
  <2>6. QED
    BY <1>4, <2>5 DEF new
<1>5. QED
  BY <1>3, <1>4

LEMMA OverridesAppend ==
    ASSUME NEW log \in Seq(ActionRows), NEW row \in ActionRows,
           NEW p \in Candidates \X Bands
    PROVE  p \in Overrides(Append(log, row)) <=>
               IF row.action = "band_override" /\ row.candidate = p[1]
               THEN About(row) = p
               ELSE p \in Overrides(log)
<1> DEFINE new == Append(log, row)
           n == Len(log)
           Concerns(l, j) == l[j].action = "band_override" /\ l[j].candidate = p[1]
           Stands(l, i) == /\ l[i].action = "band_override"
                           /\ About(l[i]) = p
                           /\ \A j \in DOMAIN l : j > i => ~Concerns(l, j)
<1>1. /\ n \in Nat
      /\ DOMAIN log = 1 .. n
      /\ DOMAIN new = DOMAIN log \cup {n + 1}
      /\ new[n + 1] = row
      /\ \A i \in DOMAIN log : new[i] = log[i]
  BY AppendFacts, LenProperties
<1>2. \A l : p \in Overrides(l) <=> \E i \in DOMAIN l : Stands(l, i)
  BY DEF Overrides
<1>3. CASE row.action = "band_override" /\ row.candidate = p[1]
  <2>1. \A i \in DOMAIN log : n + 1 > i
    BY <1>1
  <2>2. Concerns(new, n + 1)
    BY <1>1, <1>3
  <2>3. \A i \in DOMAIN log : ~Stands(new, i)
    BY <1>1, <2>1, <2>2
  <2>4. Stands(new, n + 1) <=> About(row) = p
    BY <1>1, <1>3
  <2>5. QED
    BY <1>1, <1>2, <1>3, <2>3, <2>4
<1>4. CASE ~(row.action = "band_override" /\ row.candidate = p[1])
  <2>1. ~Concerns(new, n + 1)
    BY <1>1, <1>4
  <2>2. ~Stands(new, n + 1)
    BY <1>1, <1>4 DEF About
  <2>3. \A i \in DOMAIN log : Stands(new, i) <=> Stands(log, i)
    BY <1>1, <2>1
  <2> HIDE DEF Stands, Concerns, new
  <2>4. (\E i \in DOMAIN new : Stands(new, i)) <=> (\E i \in DOMAIN log : Stands(log, i))
    BY <1>1, <2>2, <2>3
  <2>5. p \in Overrides(new) <=> p \in Overrides(log)
    BY <1>2, <2>4
  <2>6. QED
    BY <1>4, <2>5 DEF new
<1>5. QED
  BY <1>3, <1>4

\* The four kinds of row, by what they do to the two sets.
LEMMA RowEffects ==
    ASSUME NEW log \in Seq(ActionRows), NEW row \in ActionRows
    PROVE  /\ row.action # "band_override" =>
                  Overrides(Append(log, row)) = Overrides(log)
           /\ row.action \notin FlagActions =>
                  Dismissed(Append(log, row)) = Dismissed(log)
           /\ row.action = "flag_dismiss" /\ About(row) \in Candidates \X Flags =>
                  Dismissed(Append(log, row)) = Dismissed(log) \cup {About(row)}
           /\ row.action = "flag_confirm" /\ About(row) \in Candidates \X Flags =>
                  Dismissed(Append(log, row)) = Dismissed(log) \ {About(row)}
           /\ row.action = "band_override" /\ About(row) \in Candidates \X Bands =>
                  Overrides(Append(log, row)) =
                      {o \in Overrides(log) : o[1] # row.candidate} \cup {About(row)}
<1> DEFINE new == Append(log, row)
<1>1. /\ Dismissed(new) \subseteq Candidates \X Flags
      /\ Dismissed(log) \subseteq Candidates \X Flags
  BY DEF Dismissed
<1>2. /\ Overrides(new) \subseteq Candidates \X Bands
      /\ Overrides(log) \subseteq Candidates \X Bands
  BY DEF Overrides
<1>3. \A p \in Candidates \X Flags :
          p \in Dismissed(new) <=>
              IF row.action \in FlagActions /\ About(row) = p
              THEN row.action = "flag_dismiss"
              ELSE p \in Dismissed(log)
  BY DismissedAppend
<1>4. \A p \in Candidates \X Bands :
          p \in Overrides(new) <=>
              IF row.action = "band_override" /\ row.candidate = p[1]
              THEN About(row) = p
              ELSE p \in Overrides(log)
  BY OverridesAppend
<1> HIDE DEF new
<1>5. row.action # "band_override" => Overrides(new) = Overrides(log)
  BY <1>2, <1>4
<1>6. row.action \notin FlagActions => Dismissed(new) = Dismissed(log)
  BY <1>1, <1>3
<1>7. row.action = "flag_dismiss" /\ About(row) \in Candidates \X Flags =>
          Dismissed(new) = Dismissed(log) \cup {About(row)}
  BY <1>1, <1>3 DEF FlagActions
<1>8. row.action = "flag_confirm" /\ About(row) \in Candidates \X Flags =>
          Dismissed(new) = Dismissed(log) \ {About(row)}
  BY <1>1, <1>3 DEF FlagActions
<1>9. ASSUME row.action = "band_override", About(row) \in Candidates \X Bands
      PROVE  Overrides(new) =
                 {o \in Overrides(log) : o[1] # row.candidate} \cup {About(row)}
  <2>1. About(row)[1] = row.candidate
    BY DEF About
  <2>2. \A p \in Candidates \X Bands :
            p \in Overrides(new) <=>
                IF row.candidate = p[1] THEN About(row) = p ELSE p \in Overrides(log)
    BY <1>4, <1>9
  <2>3. QED
    BY <1>2, <1>9, <2>1, <2>2
<1>10. QED
  BY <1>5, <1>6, <1>7, <1>8, <1>9 DEF new

-----------------------------------------------------------------------------
(* The refinement, one step per action.                                    *)

LEMMA InitRefines ==
    ASSUME Init
    PROVE  Promise!Init
<1>1. Dismissed(<<>>) = {} /\ Overrides(<<>>) = {}
  BY DEF Dismissed, Overrides
<1>2. DOMAIN <<>> = {}
  OBVIOUS
<1>3. SignedView = None /\ ShippedView = None
  BY DEF Init, SignedView, ShippedView
<1>4. QED
  BY <1>1, <1>2, <1>3 DEF Init, Promise!Init

\* What the signed view is when the gate is open: all there is.
LEMMA OpenView ==
    ASSUME TypeOK, ReplayReconstructs, comparison.status = "reviewed"
    PROVE  SignedView = Promise!View
<1>1. review_actions \in Seq(ActionRows)
  BY TypedColumns
<1>2. comparison.approved_at = Len(review_actions)
  BY DEF ReplayReconstructs
<1>3. SubSeq(review_actions, 1, comparison.approved_at) = review_actions
  BY <1>1, <1>2, WholePrefix
<1>4. {i \in DOMAIN candidate_responses :
           candidate_responses[i].revision <= comparison.revision}
          = DOMAIN candidate_responses
  BY DEF ReplayReconstructs, RowsWithinRevision
<1>5. QED
  BY <1>3, <1>4 DEF SignedView, Promise!View

LEMMA ActionRefines ==
    ASSUME TypeOK, ReplayReconstructs, NEW a, NEW c, NEW t, RecordAction(a, c, t)
    PROVE  Promise!Next
<1> DEFINE row == Row(a, c, t, Reopened(comparison).revision)
<1>1. /\ Acceptable(a, c, t)
      /\ row \in ActionRows
      /\ comparison' = Reopened(comparison)
      /\ review_actions' = Append(review_actions, row)
      /\ candidate_responses' = candidate_responses
      /\ exported' = exported
  BY ActionEffect
<1>2. row.action = a /\ row.candidate = c /\ About(row) = <<c, t>>
  BY DEF Row, About
<1>3. review_actions \in Seq(ActionRows)
  BY TypedColumns
<1>4. SignedView' = None
  <2>1. comparison'.status = "pending_review"
    BY <1>1, TypedColumns, ReopenedFacts
  <2>2. QED
    BY <2>1 DEF SignedView
<1>5. UNCHANGED <<DOMAIN candidate_responses, ShippedView>>
  BY <1>1 DEF ShippedView
<1>6. CASE a = "flag_dismiss"
  <2>1. c \in Candidates /\ t \in Flags
    BY <1>1, <1>6, GateAssumption DEF Acceptable, FlagActions
  <2>2. Dismissed(review_actions') = Dismissed(review_actions) \cup {<<c, t>>}
    BY <1>1, <1>2, <1>3, <1>6, <2>1, RowEffects
  <2>3. Overrides(review_actions') = Overrides(review_actions)
    BY <1>1, <1>2, <1>3, <1>6, RowEffects
  <2>4. Promise!Dismiss(c, t)
    BY <1>4, <1>5, <2>2, <2>3 DEF Promise!Dismiss
  <2>5. QED
    BY <2>1, <2>4 DEF Promise!Next
<1>7. CASE a = "flag_confirm"
  <2>1. c \in Candidates /\ t \in Flags
    BY <1>1, <1>7, GateAssumption DEF Acceptable, FlagActions
  <2>2. Dismissed(review_actions') = Dismissed(review_actions) \ {<<c, t>>}
    BY <1>1, <1>2, <1>3, <1>7, <2>1, RowEffects
  <2>3. Overrides(review_actions') = Overrides(review_actions)
    BY <1>1, <1>2, <1>3, <1>7, RowEffects
  <2>4. Promise!Confirm(c, t)
    BY <1>4, <1>5, <2>2, <2>3 DEF Promise!Confirm
  <2>5. QED
    BY <2>1, <2>4 DEF Promise!Next
<1>8. CASE a = "band_override"
  <2>1. c \in Candidates /\ t \in Bands
    BY <1>1, <1>8 DEF Acceptable, FlagActions
  <2>2. Dismissed(review_actions') = Dismissed(review_actions)
    BY <1>1, <1>2, <1>3, <1>8, RowEffects DEF FlagActions
  <2>3. Overrides(review_actions') =
            {o \in Overrides(review_actions) : o[1] # c} \cup {<<c, t>>}
    BY <1>1, <1>2, <1>3, <1>8, <2>1, RowEffects
  <2>4. Promise!Override(c, t)
    BY <1>4, <1>5, <2>2, <2>3 DEF Promise!Override
  <2>5. QED
    BY <2>1, <2>4 DEF Promise!Next
<1>9. QED
  BY <1>1, <1>6, <1>7, <1>8 DEF Acceptable, ReviewActions, FlagActions

LEMMA ResponseRefines ==
    ASSUME TypeOK, ReplayReconstructs, NEW c, NEW f, RecordResponse(c, f)
    PROVE  Promise!Next
<1> DEFINE id == Len(candidate_responses) + 1
<1>1. PICK row \in ResponseRows :
           /\ candidate_responses' = Append(candidate_responses, row)
           /\ Len(candidate_responses) < MaxResponses
           /\ comparison' = Reopened(comparison)
           /\ review_actions' = review_actions
           /\ exported' = exported
  BY ResponseEffect
<1>2. /\ candidate_responses \in Seq(ResponseRows)
      /\ Len(candidate_responses) \in Nat
  BY TypedColumns, LenProperties
<1>3. id \in 1 .. MaxResponses
  BY <1>1, <1>2, GateAssumption
<1>4. /\ DOMAIN candidate_responses' = DOMAIN candidate_responses \cup {id}
      /\ id \notin DOMAIN candidate_responses
  BY <1>1, <1>2, AppendFacts
<1>5. SignedView' = None
  <2>1. comparison'.status = "pending_review"
    BY <1>1, TypedColumns, ReopenedFacts
  <2>2. QED
    BY <2>1 DEF SignedView
<1>6. UNCHANGED <<Dismissed(review_actions), Overrides(review_actions), ShippedView>>
  BY <1>1 DEF ShippedView
<1>7. Promise!Hear(id)
  BY <1>4, <1>5, <1>6 DEF Promise!Hear
<1>8. QED
  BY <1>3, <1>7 DEF Promise!Next

LEMMA ApproveRefines ==
    ASSUME TypeOK, TypeOK', ReplayReconstructs, ReplayReconstructs', Approve
    PROVE  Promise!Next
<1> DEFINE row == Row("approve", None, None, comparison.revision)
<1>1. /\ row \in ActionRows
      /\ review_actions' = Append(review_actions, row)
      /\ comparison' = [comparison EXCEPT !.status = "reviewed",
                                          !.approved_at = Len(review_actions) + 1]
      /\ candidate_responses' = candidate_responses
      /\ exported' = exported
  BY ApproveEffect
<1>2. review_actions \in Seq(ActionRows) /\ comparison \in ComparisonRows
  BY TypedColumns
<1>3. row.action = "approve"
  BY DEF Row
<1>4. /\ Dismissed(review_actions') = Dismissed(review_actions)
      /\ Overrides(review_actions') = Overrides(review_actions)
  BY <1>1, <1>2, <1>3, RowEffects DEF FlagActions
<1>5. comparison'.status = "reviewed"
  <2>1. Len(review_actions) + 1 \in Nat \cup {None}
    BY <1>2, LenProperties
  <2>2. QED
    BY <1>1, <1>2, <2>1, SignedRow, Zenon
<1>6. SignedView' = Promise!View'
  <2>1. review_actions' \in Seq(ActionRows)
    BY DEF TypeOK
  <2>2. comparison'.approved_at = Len(review_actions')
    BY <1>5 DEF ReplayReconstructs
  <2>3. SubSeq(review_actions', 1, comparison'.approved_at) = review_actions'
    BY <2>1, <2>2, WholePrefix
  <2>4. {i \in DOMAIN candidate_responses' :
             candidate_responses'[i].revision <= comparison'.revision}
            = DOMAIN candidate_responses'
    BY DEF ReplayReconstructs, RowsWithinRevision
  <2>5. QED
    BY <1>5, <2>3, <2>4 DEF SignedView, Promise!View
<1>7. Promise!View' = Promise!View
  BY <1>1, <1>4 DEF Promise!View
<1>8. UNCHANGED ShippedView
  BY <1>1 DEF ShippedView
<1>9. Promise!Sign
  BY <1>1, <1>4, <1>6, <1>7, <1>8 DEF Promise!Sign
<1>10. QED
  BY <1>9 DEF Promise!Next

LEMMA ExportRefines ==
    ASSUME TypeOK, TypeOK', ReplayReconstructs, Export
    PROVE  Promise!Next
<1> DEFINE sent == Payload(comparison, rubrics, review_actions, review_actions,
                           candidate_responses, review_actions)
<1>1. /\ comparison.status = "reviewed"
      /\ exported' = sent
      /\ UNCHANGED <<comparison, review_actions, candidate_responses>>
  BY DEF Export, MayExport
<1>2. SignedView = Promise!View
  BY <1>1, OpenView
<1>3. exported' # None
  BY <1>1, PayloadTyped, NoneAssumption
<1>4. ShippedView' = Promise!View
  BY <1>1, <1>3 DEF ShippedView, Payload, Promise!View
<1>5. UNCHANGED SignedView
  BY <1>1 DEF SignedView
<1>6. Promise!Ship
  BY <1>1, <1>2, <1>4, <1>5 DEF Promise!Ship
<1>7. QED
  BY <1>6 DEF Promise!Next

LEMMA StepRefines ==
    ASSUME GateInvariant, GateInvariant', [Next]_vars
    PROVE  [Promise!Next]_(Promise!vars)
<1>1. TypeOK /\ TypeOK' /\ ReplayReconstructs /\ ReplayReconstructs'
  BY DEF GateInvariant
<1>2. CASE UNCHANGED <<comparison, review_actions, candidate_responses, exported>>
  BY <1>2 DEF Promise!vars, SignedView, ShippedView
<1>3. CASE \E a, c, t : RecordAction(a, c, t)
  BY <1>1, <1>3, ActionRefines
<1>4. CASE \E c, f : RecordResponse(c, f)
  BY <1>1, <1>4, ResponseRefines
<1>5. CASE Approve
  BY <1>1, <1>5, ApproveRefines
<1>6. CASE Export
  BY <1>1, <1>6, ExportRefines
<1>7. QED
  BY <1>2, <1>3, <1>4, <1>5, <1>6 DEF Next, vars, SaveRubric

\* The gate of review.py keeps the promise: every behaviour of the handlers is
\* a behaviour of GatePromise, where what ships is exactly what was signed and
\* anything said after a signature takes it away.
THEOREM GateKeepsPromise == Spec => ImplementsPromise
<1>1. Init => Promise!Init
  BY InitRefines
<1>2. GateInvariant /\ GateInvariant' /\ [Next]_vars => [Promise!Next]_(Promise!vars)
  BY StepRefines
<1>3. QED
  BY <1>1, <1>2, GateInductive, PTL DEF Spec, Promise!Spec, ImplementsPromise

=============================================================================
