----------------------------- MODULE ReviewGate -----------------------------
(***************************************************************************)
(* The human review gate of one comparison (review.py) over the durable    *)
(* store (models.py, store.py), with every request handled from its first  *)
(* read to its commit before the next one begins: the command line, and    *)
(* the HTTP service as long as requests do not overlap. ReviewSessions     *)
(* reuses these handlers for requests that do overlap.                     *)
(*                                                                         *)
(* A handler works on the copy of the comparison row its session loaded;   *)
(* what the commit then does to the stored row is Flush. Here the copy is  *)
(* the stored row itself.                                                  *)
(*                                                                         *)
(* Data is abstracted to what the gate tells apart: a row's id is its      *)
(* place in its table, a timestamp of approval is the id of the approve    *)
(* row, and the free text, the actors and the machine's scores are left    *)
(* out: no handler of the gate writes a score.                             *)
(***************************************************************************)
EXTENDS Naturals, Sequences

CONSTANTS
    Candidates,     \* the candidates of the comparison, one entry each
    Flags,          \* flag ids
    FlagsOf,        \* FlagsOf[c]: the flags in the dossier of c
    Bands,          \* the non-empty targets a band override may carry
    None,           \* SQL NULL, and no export yet
    MaxActions,     \* bound on the rows of review_actions
    MaxResponses,   \* bound on the rows of candidate_responses
    MaxRubrics      \* bound on the rows stored under the rubric's name

ASSUME GateAssumption ==
    /\ FlagsOf \in [Candidates -> SUBSET Flags]
    /\ MaxActions \in Nat
    /\ MaxResponses \in Nat
    /\ MaxRubrics \in Nat

VARIABLES
    comparison,          \* the row of comparisons
    review_actions,      \* the table of that name, in id order
    candidate_responses, \* the table of that name, in id order
    rubrics,             \* rubrics stored under the comparison's rubric name
    exported             \* the last payload that left, None before the first

vars == <<comparison, review_actions, candidate_responses, rubrics, exported>>

FlagActions == {"flag_dismiss", "flag_confirm"}
ReviewActions == FlagActions \cup {"band_override"}

Statuses == {"pending_review", "reviewed"}

-----------------------------------------------------------------------------
(* What the log says: a replay of the rows in id order, where a later row  *)
(* supersedes an earlier one about the same flag, or the same candidate.   *)

About(row) == <<row.candidate, row.target>>

Dismissed(log) ==
    {p \in Candidates \X Flags :
        \E i \in DOMAIN log :
            /\ log[i].action = "flag_dismiss"
            /\ About(log[i]) = p
            /\ \A j \in DOMAIN log :
                   j > i => ~(log[j].action \in FlagActions /\ About(log[j]) = p)}

Overrides(log) ==
    {p \in Candidates \X Bands :
        \E i \in DOMAIN log :
            /\ log[i].action = "band_override"
            /\ About(log[i]) = p
            /\ \A j \in DOMAIN log :
                   j > i => ~(log[j].action = "band_override" /\ log[j].candidate = p[1])}

-----------------------------------------------------------------------------
(* What a commit writes: the ORM updates only the columns whose value the  *)
(* session changed from what it loaded.                                    *)

Column(stored, loaded, new) == IF new # loaded THEN new ELSE stored

Flush(stored, loaded, new) ==
    [stored EXCEPT !.status = Column(stored.status, loaded.status, new.status),
                   !.revision = Column(stored.revision, loaded.revision, new.revision),
                   !.approved_at =
                       Column(stored.approved_at, loaded.approved_at, new.approved_at)]

\* A reopening that forgets to open a new revision.
MutReopenedSameRevision(row) ==
    IF row.status = "reviewed"
    THEN [row EXCEPT !.status = "pending_review", !.approved_at = None]
    ELSE row

\* A reopening that runs whatever the status is.
MutReopenedAlways(row) ==
    [row EXCEPT !.revision = @ + 1, !.status = "pending_review", !.approved_at = None]

\* A handler that writes its row and leaves the gate as it found it.
MutNotReopened(row) == row

\* A reopening that leaves the timestamp of the approval it took back.
MutReopenedKeepsTime(row) ==
    IF row.status = "reviewed"
    THEN [row EXCEPT !.revision = @ + 1, !.status = "pending_review"]
    ELSE row

\* "An approved comparison that hears anything more is pending again."
Reopened(row) ==
    IF row.status = "reviewed"
    THEN [row EXCEPT !.revision = @ + 1, !.status = "pending_review", !.approved_at = None]
    ELSE row

Row(action, c, t, revision) ==
    [action |-> action, candidate |-> c, target |-> t, revision |-> revision]

\* _append: the row carries the revision of the session's own copy.
Insert(row) ==
    /\ Len(review_actions) < MaxActions
    /\ review_actions' = Append(review_actions, row)

-----------------------------------------------------------------------------
(* The handlers. `loaded` is the comparison as the session read it.        *)

\* The checks record_action makes before it changes anything.
Acceptable(a, c, t) ==
    /\ a \in ReviewActions
    /\ c \in Candidates
    /\ IF a \in FlagActions THEN t \in FlagsOf[c] ELSE t \in Bands

RecordActionFrom(loaded, a, c, t) ==
    /\ Acceptable(a, c, t)
    /\ Insert(Row(a, c, t, Reopened(loaded).revision))
    /\ comparison' = Flush(comparison, loaded, Reopened(loaded))
    /\ UNCHANGED <<candidate_responses, rubrics, exported>>

\* A response may answer one flag, or the whole assessment (no flag).
RecordResponseFrom(loaded, c, f) ==
    /\ c \in Candidates
    /\ f \in FlagsOf[c] \cup {None}
    /\ Len(candidate_responses) < MaxResponses
    /\ candidate_responses' =
           Append(candidate_responses,
                  [candidate |-> c, flag |-> f, revision |-> Reopened(loaded).revision])
    /\ comparison' = Flush(comparison, loaded, Reopened(loaded))
    /\ UNCHANGED <<review_actions, rubrics, exported>>

\* An approval that writes the status and forgets the row of the log.
MutApproveFrom(loaded) ==
    /\ comparison' = [comparison EXCEPT !.status = "reviewed",
                                        !.approved_at = Len(review_actions)]
    /\ UNCHANGED <<review_actions, candidate_responses, rubrics, exported>>

\* approve checks neither the status nor what its caller was looking at.
ApproveFrom(loaded) ==
    /\ Insert(Row("approve", None, None, loaded.revision))
    /\ comparison' =
           Flush(comparison, loaded,
                 [loaded EXCEPT !.status = "reviewed",
                                !.approved_at = Len(review_actions) + 1])
    /\ UNCHANGED <<candidate_responses, rubrics, exported>>

\* An export that leaves the check to its caller.
MutMayExport(row) == TRUE

MayExport(row) == row.status = "reviewed"

\* effective_result and export_payload. Each argument is what one query of
\* the session returned: the comparison row, the latest rubric of that name,
\* the log (for the dismissals), the log (for the overrides), the responses,
\* and the log (for the audit).
Payload(row, latest, log1, log2, responses, log3) ==
    [revision  |-> row.revision,
     rubric    |-> latest,
     dismissed |-> Dismissed(log1),
     overrides |-> Overrides(log2),
     heard     |-> DOMAIN responses,
     audit     |-> Len(log3)]

-----------------------------------------------------------------------------

\* create_comparison: a new row, scored with the rubric stored last.
Init ==
    /\ comparison = [status |-> "pending_review", revision |-> 0,
                     approved_at |-> None, rubric_id |-> 1]
    /\ review_actions = <<>>
    /\ candidate_responses = <<>>
    /\ rubrics = 1
    /\ exported = None

RecordAction(a, c, t) == RecordActionFrom(comparison, a, c, t)

RecordResponse(c, f) == RecordResponseFrom(comparison, c, f)

Approve == ApproveFrom(comparison)

Export ==
    /\ MayExport(comparison)
    /\ exported' = Payload(comparison, rubrics, review_actions, review_actions,
                           candidate_responses, review_actions)
    /\ UNCHANGED <<comparison, review_actions, candidate_responses, rubrics>>

\* A reweight is a new row under the same name; no row is ever edited.
SaveRubric ==
    /\ rubrics < MaxRubrics
    /\ rubrics' = rubrics + 1
    /\ UNCHANGED <<comparison, review_actions, candidate_responses, exported>>

Next ==
    \/ \E a \in ReviewActions, c \in Candidates, t \in Flags \cup Bands : RecordAction(a, c, t)
    \/ \E c \in Candidates, f \in Flags \cup {None} : RecordResponse(c, f)
    \/ Approve
    \/ Export
    \/ SaveRubric

Spec == Init /\ [][Next]_vars

-----------------------------------------------------------------------------
(* Properties.                                                             *)

ActionRows ==
    [action : ReviewActions \cup {"approve"}, candidate : Candidates \cup {None},
     target : Flags \cup Bands \cup {None}, revision : Nat]

ResponseRows ==
    [candidate : Candidates, flag : Flags \cup {None}, revision : Nat]

Payloads ==
    [revision : Nat, rubric : Nat, dismissed : SUBSET (Candidates \X Flags),
     overrides : SUBSET (Candidates \X Bands), heard : SUBSET Nat, audit : Nat]

ComparisonRows ==
    [status : Statuses, revision : Nat, approved_at : Nat \cup {None}, rubric_id : Nat]

\* NULL is not an export.
ASSUME NoneAssumption == None \notin Payloads

\* Every column holds a value of its kind.
TypeOK ==
    /\ comparison \in ComparisonRows
    /\ review_actions \in Seq(ActionRows)
    /\ candidate_responses \in Seq(ResponseRows)
    /\ rubrics \in Nat
    /\ exported \in Payloads \cup {None}

\* Is row i of the log an approval?
IsApproval(log, i) == log[i].action = "approve"

\* No row is filed under a revision the comparison has not reached.
RowsWithinRevision ==
    /\ \A i \in DOMAIN review_actions :
           review_actions[i].revision <= comparison.revision
    /\ \A i \in DOMAIN candidate_responses :
           candidate_responses[i].revision <= comparison.revision

\* A revision after the first was opened by a row that carries it.
RevisionIsCarried ==
    comparison.revision > 0 =>
        \/ \E i \in DOMAIN review_actions :
               review_actions[i].revision = comparison.revision
        \/ \E i \in DOMAIN candidate_responses :
               candidate_responses[i].revision = comparison.revision

\* Does the log end in an approval of the row's revision?
ApprovedLast(log, row) ==
    /\ log # <<>>
    /\ IsApproval(log, Len(log))
    /\ log[Len(log)].revision = row.revision

\* The two tables alone reconstruct the comparison row: its revision is the
\* highest any row carries, it is reviewed exactly when the last action is an
\* approval of that revision, and approved_at is the time of that action.
\* (models.py, ReviewAction: "Replaying these rows in order reconstructs any
\* state a comparison has held", read with the responses' table.)
ReplayReconstructs ==
    /\ RowsWithinRevision
    /\ RevisionIsCarried
    /\ comparison.status = "reviewed" <=> ApprovedLast(review_actions, comparison)
    /\ comparison.approved_at =
           IF comparison.status = "reviewed" THEN Len(review_actions) ELSE None

\* Rows are filed in the order of their revisions, and nothing is filed under
\* a revision once it has been approved.
FiledInOrder ==
    /\ \A i, j \in DOMAIN review_actions :
           i < j => /\ review_actions[i].revision <= review_actions[j].revision
                    /\ IsApproval(review_actions, i) /\ ~IsApproval(review_actions, j)
                           => review_actions[i].revision < review_actions[j].revision
    /\ \A i, j \in DOMAIN candidate_responses :
           i < j => candidate_responses[i].revision <= candidate_responses[j].revision

\* "An approval covers exactly the revision it saw": no revision takes a row
\* after its approval, and a new one is only opened on top of an approved one.
RevisionLedger ==
    /\ FiledInOrder
    /\ \A r \in 0 .. comparison.revision - 1 :
           \E i \in DOMAIN review_actions :
               IsApproval(review_actions, i) /\ review_actions[i].revision = r

\* An exported file carries the signature that covers it: the audit log in it
\* ends in an approval of the exported revision, the human changes in it are
\* the ones that log explains, and every response filed by then is in it.
ExportIsSigned ==
    exported # None =>
        /\ exported.audit \in DOMAIN review_actions
        /\ IsApproval(review_actions, exported.audit)
        /\ review_actions[exported.audit].revision = exported.revision
        /\ exported.dismissed = Dismissed(SubSeq(review_actions, 1, exported.audit))
        /\ exported.overrides = Overrides(SubSeq(review_actions, 1, exported.audit))
        /\ exported.heard = {i \in DOMAIN candidate_responses :
                               candidate_responses[i].revision <= exported.revision}

\* The gate implements its promise. The signed view is the one the log and
\* the responses held at the approve row the comparison points at.
SignedView ==
    IF comparison.status = "reviewed"
    THEN LET log == SubSeq(review_actions, 1, comparison.approved_at)
         IN [dismissed |-> Dismissed(log),
             overrides |-> Overrides(log),
             heard |-> {i \in DOMAIN candidate_responses :
                            candidate_responses[i].revision <= comparison.revision}]
    ELSE None

ShippedView ==
    IF exported = None THEN None
    ELSE [dismissed |-> exported.dismissed, overrides |-> exported.overrides,
          heard |-> exported.heard]

Promise == INSTANCE GatePromise WITH
    ResponseIds <- 1 .. MaxResponses,
    dismissed <- Dismissed(review_actions),
    overrides <- Overrides(review_actions),
    heard     <- DOMAIN candidate_responses,
    signed    <- SignedView,
    shipped   <- ShippedView

ImplementsPromise == Promise!Spec

=============================================================================
