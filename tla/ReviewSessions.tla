--------------------------- MODULE ReviewSessions ---------------------------
(***************************************************************************)
(* The review gate served to overlapping requests (api/main.py): the       *)
(* endpoints are plain functions, so each request runs on a thread of its  *)
(* own with a database session of its own.                                 *)
(*                                                                         *)
(* SQLite opens a transaction at the first write of a session, not at its  *)
(* first read, so a session's SELECTs each see the latest commit and       *)
(* nothing holds the comparison between the read a handler decides on and  *)
(* the commit. A write request is two steps: Load (get_comparison), then   *)
(* the handler of ReviewGate on the loaded copy, whose inserts and updates *)
(* become visible together at the commit, under SQLite's one write lock.   *)
(* An export is Load, then one step per query, on the loaded status.       *)
(***************************************************************************)
EXTENDS Naturals, SequencesExt, FiniteSetsExt

CONSTANTS
    Reviewers,      \* threads serving the endpoints that write
    Readers,        \* threads serving the export endpoint
    Candidates, Flags, FlagsOf, Bands, None, MaxActions, MaxResponses

VARIABLES
    comparison, review_actions, candidate_responses, rubrics, exported,
    session         \* what each thread's request has read so far

tables == <<comparison, review_actions, candidate_responses, rubrics, exported>>
vars == <<comparison, review_actions, candidate_responses, rubrics, exported, session>>

\* save_rubric is one insert, which no query below is compared with: the rubric
\* is left as the comparison was created with it (ReviewGate reweights it).
Gate == INSTANCE ReviewGate WITH MaxRubrics <- 1

\* NULL is not a time, and the flags are those of the candidates.
ASSUME SessionsAssumption ==
    /\ FlagsOf \in [Candidates -> SUBSET Flags]
    /\ {MaxActions, MaxResponses} \subseteq Nat
    /\ None \notin Nat

Threads == Reviewers \cup Readers

\* No request on this thread.
Idle == [at |-> "idle"]

Enter(s, state) == session' = [session EXCEPT ![s] = state]

-----------------------------------------------------------------------------
(* Requests that write.                                                    *)

\* get_comparison: the copy of the row the handler goes on to use.
Load(s, request) ==
    /\ session[s] = Idle
    /\ Enter(s, [at |-> request, row |-> comparison])
    /\ UNCHANGED tables

\* The copy of the comparison the handler of thread s decides on.
Loaded(s) == session[s].row

CommitAction(s) ==
    /\ session[s].at = "write"
    /\ \E a \in Gate!ReviewActions, c \in Candidates, t \in Flags \cup Bands :
           Gate!RecordActionFrom(Loaded(s), a, c, t)
    /\ Enter(s, Idle)

CommitResponse(s) ==
    /\ session[s].at = "write"
    /\ \E c \in Candidates, f \in Flags \cup {None} :
           Gate!RecordResponseFrom(Loaded(s), c, f)
    /\ Enter(s, Idle)

CommitApprove(s) ==
    /\ session[s].at = "write"
    /\ Gate!ApproveFrom(Loaded(s))
    /\ Enter(s, Idle)

\* A request refused by its handler (a flag that is not there, a body with no
\* actor), or one whose transaction fails: nothing of it is stored.
Rollback(s) ==
    /\ session[s].at = "write"
    /\ Enter(s, Idle)
    /\ UNCHANGED tables

-----------------------------------------------------------------------------
(* The export. Rows are only ever appended, so what a query returned is    *)
(* kept as the number of rows it found.                                    *)

\* The gate: the status of the loaded copy decides, once.
OpenExport(s) ==
    /\ session[s].at = "export"
    /\ IF Gate!MayExport(Loaded(s))
       THEN Enter(s, [at |-> "rubric", row |-> Loaded(s), latest |-> rubrics])
       ELSE Enter(s, Idle)
    /\ UNCHANGED tables

\* A query of the export: thread s leaves `from` and keeps the answer.
Query(s, from, to, field, answer) ==
    /\ session[s].at = from
    /\ Enter(s, [f \in DOMAIN session[s] \cup {field} |->
                    CASE f = "at" -> to
                      [] f = field -> answer
                      [] OTHER -> session[s][f]])
    /\ UNCHANGED tables

ReadDismissals(s) ==
    Query(s, "rubric", "dismissals", "log1", Len(review_actions))

ReadOverrides(s) ==
    Query(s, "dismissals", "overrides", "log2", Len(review_actions))

ReadResponses(s) ==
    Query(s, "overrides", "responses", "heard", Len(candidate_responses))

\* An export whose audit log is the one the dismissals were read from.
MutReadAudit(s) ==
    /\ session[s].at = "responses"
    /\ LET done == session[s]
           rows(n) == SubSeq(review_actions, 1, n)
       IN exported' = Gate!Payload(done.row, done.latest, rows(done.log1),
                                   rows(done.log2),
                                   SubSeq(candidate_responses, 1, done.heard),
                                   rows(done.log1))
    /\ Enter(s, Idle)
    /\ UNCHANGED <<comparison, review_actions, candidate_responses, rubrics>>

\* The last query, and the response that leaves.
ReadAudit(s) ==
    /\ session[s].at = "responses"
    /\ LET done == session[s]
           rows(n) == SubSeq(review_actions, 1, n)
       IN exported' = Gate!Payload(done.row, done.latest, rows(done.log1),
                                   rows(done.log2),
                                   SubSeq(candidate_responses, 1, done.heard),
                                   review_actions)
    /\ Enter(s, Idle)
    /\ UNCHANGED <<comparison, review_actions, candidate_responses, rubrics>>

-----------------------------------------------------------------------------

Init ==
    /\ Gate!Init
    /\ session = [s \in Threads |-> Idle]

WriteRequest(s) ==
    \/ Load(s, "write")
    \/ CommitAction(s)
    \/ CommitResponse(s)
    \/ CommitApprove(s)
    \/ Rollback(s)

ExportRequest(s) ==
    \/ Load(s, "export")
    \/ OpenExport(s)
    \/ ReadDismissals(s)
    \/ ReadOverrides(s)
    \/ ReadResponses(s)
    \/ ReadAudit(s)

Next ==
    \/ \E s \in Reviewers : WriteRequest(s)
    \/ \E s \in Readers : ExportRequest(s)

Spec == Init /\ [][Next]_vars

-----------------------------------------------------------------------------
(* Properties that survive the overlap.                                    *)

Approvals(log) == {i \in DOMAIN log : Gate!IsApproval(log, i)}

\* However requests overlap, a revision number is only reached on top of that
\* many signatures: revision r stands on at least r approvals, and a reviewed
\* revision on one more, in the table and in every copy a thread still holds.
\* (Two reopenings may share one number; neither can invent an approval.)
RevisionsAreSigned ==
    LET signed == Cardinality(Approvals(review_actions))
        Backed(row) == row.revision + (IF row.status = "reviewed" THEN 1 ELSE 0) <= signed
    IN  /\ Backed(comparison)
        /\ \A s \in Threads : session[s] # Idle => Backed(session[s].row)

\* A reviewed comparison always names the approval that made it so: approved_at
\* is set, and is the time of an approval in the log.
ReviewedNamesItsApproval ==
    comparison.status = "reviewed" =>
        comparison.approved_at \in Approvals(review_actions)

\* Whatever commits during an export, the audit log in the file explains every
\* human change in the file, and holds an approval that came before it left.
ExportIsExplained ==
    exported # None =>
        LET audit == SubSeq(review_actions, 1, exported.audit)
        IN  /\ Approvals(audit) # {}
            /\ \A p \in exported.dismissed :
                   \E i \in DOMAIN audit :
                       audit[i].action = "flag_dismiss" /\ Gate!About(audit[i]) = p
            /\ \A p \in exported.overrides :
                   \E i \in DOMAIN audit :
                       audit[i].action = "band_override" /\ Gate!About(audit[i]) = p

-----------------------------------------------------------------------------
(* What the documentation says and the overlap breaks.                     *)

\* README, "any later review action bumps the revision and reopens the gate":
\* a comparison stands reviewed only while the approval is the last action.
ReviewedIsCurrent ==
    comparison.status = "reviewed" => Last(review_actions).action = "approve"

=============================================================================
