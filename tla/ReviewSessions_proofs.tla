----------------------- MODULE ReviewSessions_proofs -----------------------
(***************************************************************************)
(* What survives when requests to the review gate overlap, for any number  *)
(* of threads and any candidates, flags and bands.                         *)
(*                                                                         *)
(* A handler decides on a copy that may be out of date, so none of the     *)
(* properties is inductive about the tables alone. What a thread holds was *)
(* true of a shorter log (Holds): its row is backed by approvals of the    *)
(* log, its time of approval is a row of the log, and what its queries     *)
(* found is a prefix of the log. The log only grows, and a commit writes   *)
(* over the stored row no more than its copy can answer for.               *)
(***************************************************************************)
EXTENDS ReviewSessions, FiniteSetTheorems, TLAPS

\* Is the row's revision, and the approval it claims, backed by that many
\* signatures?
Backed(row, signed) ==
    row.revision + (IF row.status = "reviewed" THEN 1 ELSE 0) <= signed

Signatures(log) == Cardinality(Approvals(log))

\* A row of the table comparisons as it is or was.
Founded(row) ==
    /\ row \in Gate!ComparisonRows
    /\ row.approved_at \in DOMAIN review_actions \cup {None}
    /\ Backed(row, Signatures(review_actions))

\* What a thread that serves a request has read.
Holds(state) ==
    /\ {"at", "row"} \subseteq DOMAIN state
    /\ Founded(state.row)
    /\ state.at \in {"rubric", "dismissals", "overrides", "responses"} =>
           state.row.status = "reviewed"
    /\ state.at \in {"dismissals", "overrides", "responses"} =>
           /\ "log1" \in DOMAIN state
           /\ state.log1 \in 0 .. Len(review_actions)
    /\ state.at \in {"overrides", "responses"} =>
           /\ "log2" \in DOMAIN state
           /\ state.log2 \in 0 .. Len(review_actions)

\* The audit log of an export is a prefix of the log.
Audited == exported # None => exported.audit \in 0 .. Len(review_actions)

SessionInvariant ==
    /\ review_actions \in Seq(Gate!ActionRows)
    /\ Founded(comparison)
    /\ session = [s \in Threads |-> session[s]]
    /\ \A s \in Threads : session[s] # Idle => Holds(session[s])
    /\ ReviewedNamesItsApproval
    /\ Audited
    /\ ExportIsExplained

-----------------------------------------------------------------------------
(* The log.                                                                *)

\* The rows of a log keep their ids, and the next one gets the next id.
LEMMA AppendFacts ==
    ASSUME NEW log \in Seq(Gate!ActionRows), NEW row \in Gate!ActionRows
    PROVE  /\ Append(log, row) \in Seq(Gate!ActionRows)
           /\ Len(log) \in Nat
           /\ Len(Append(log, row)) = Len(log) + 1
           /\ DOMAIN log = 1 .. Len(log)
           /\ DOMAIN Append(log, row) = DOMAIN log \cup {Len(log) + 1}
           /\ Len(log) + 1 \notin DOMAIN log
           /\ \A i \in DOMAIN log : Append(log, row)[i] = log[i]
           /\ Append(log, row)[Len(log) + 1] = row
  OBVIOUS

\* The approvals of a log are finitely many.
LEMMA SignaturesFacts ==
    ASSUME NEW log \in Seq(Gate!ActionRows)
    PROVE  IsFiniteSet(Approvals(log)) /\ Signatures(log) \in Nat
<1>1. Approvals(log) \in SUBSET (1 .. Len(log)) /\ Len(log) \in Nat
  BY DEF Approvals
<1>2. IsFiniteSet(1 .. Len(log))
  BY <1>1, FS_Interval
<1> QED
  BY <1>1, <1>2, FS_Subset, FS_CardinalityType DEF Signatures

\* An approval adds one signature, any other row none.
LEMMA NextSignature ==
    ASSUME NEW log \in Seq(Gate!ActionRows), NEW row \in Gate!ActionRows
    PROVE  /\ Approvals(log) \subseteq Approvals(Append(log, row))
           /\ Signatures(Append(log, row)) =
                  Signatures(log) + IF row.action = "approve" THEN 1 ELSE 0
           /\ row.action = "approve" => Len(log) + 1 \in Approvals(Append(log, row))
<1> DEFINE next == Append(log, row)
           n == Len(log) + 1
<1>1. /\ DOMAIN next = DOMAIN log \cup {n}
      /\ n \notin DOMAIN log
      /\ \A i \in DOMAIN log : next[i] = log[i]
      /\ next[n] = row
  BY AppendFacts
<1> HIDE DEF next, n
<1>2. IsFiniteSet(Approvals(log)) /\ Signatures(log) \in Nat
  BY SignaturesFacts
<1>3. CASE row.action = "approve"
  <2>1. Approvals(next) = Approvals(log) \cup {n} /\ n \notin Approvals(log)
    BY <1>1, <1>3 DEF Approvals, Gate!IsApproval
  <2>2. Cardinality(Approvals(log) \cup {n}) = Cardinality(Approvals(log)) + 1
    BY <1>2, <2>1, FS_AddElement
  <2> QED
    BY <1>3, <2>1, <2>2 DEF Signatures, next, n
<1>4. CASE row.action # "approve"
  <2>1. Approvals(next) = Approvals(log)
    BY <1>1, <1>4 DEF Approvals, Gate!IsApproval
  <2> QED
    BY <1>2, <1>4, <2>1 DEF Signatures, next
<1> QED
  BY <1>3, <1>4

\* The log keeps its rows and their signatures.
LogGrows ==
    /\ review_actions' \in Seq(Gate!ActionRows)
    /\ DOMAIN review_actions \subseteq DOMAIN review_actions'
    /\ Len(review_actions) \in Nat
    /\ Len(review_actions) <= Len(review_actions')
    /\ \A i \in DOMAIN review_actions : review_actions'[i] = review_actions[i]
    /\ Signatures(review_actions) \in Nat
    /\ Signatures(review_actions) <= Signatures(review_actions)'
    /\ Signatures(review_actions)' \in Nat

LEMMA InsertGrows ==
    ASSUME review_actions \in Seq(Gate!ActionRows), NEW row \in Gate!ActionRows,
           review_actions' = Append(review_actions, row)
    PROVE  /\ LogGrows
           /\ Approvals(review_actions) \subseteq Approvals(review_actions)'
           /\ Signatures(review_actions)' =
                  Signatures(review_actions) + IF row.action = "approve" THEN 1 ELSE 0
           /\ row.action = "approve" => Len(review_actions) + 1 \in Approvals(review_actions)'
<1>1. /\ review_actions' \in Seq(Gate!ActionRows)
      /\ Len(review_actions) \in Nat
      /\ Len(review_actions') = Len(review_actions) + 1
      /\ DOMAIN review_actions' = DOMAIN review_actions \cup {Len(review_actions) + 1}
      /\ \A i \in DOMAIN review_actions : review_actions'[i] = review_actions[i]
  BY AppendFacts
<1>2. /\ Approvals(review_actions) \subseteq Approvals(review_actions')
      /\ Signatures(review_actions') =
             Signatures(review_actions) + IF row.action = "approve" THEN 1 ELSE 0
      /\ row.action = "approve" => Len(review_actions) + 1 \in Approvals(review_actions')
  BY NextSignature
<1>3. Signatures(review_actions) \in Nat
  BY SignaturesFacts
<1>4. /\ Signatures(review_actions)' = Signatures(review_actions')
      /\ Approvals(review_actions)' = Approvals(review_actions')
  BY DEF Signatures, Approvals, Gate!IsApproval
<1> QED
  BY <1>1, <1>2, <1>3, <1>4 DEF LogGrows

LEMMA SameLogGrows ==
    ASSUME review_actions \in Seq(Gate!ActionRows), UNCHANGED review_actions
    PROVE  LogGrows /\ Approvals(review_actions)' = Approvals(review_actions)
<1>1. Len(review_actions) \in Nat /\ Signatures(review_actions) \in Nat
  BY SignaturesFacts
<1>2. /\ Signatures(review_actions)' = Signatures(review_actions)
      /\ Approvals(review_actions)' = Approvals(review_actions)
  BY DEF Signatures, Approvals, Gate!IsApproval
<1> QED
  BY <1>1, <1>2 DEF LogGrows

-----------------------------------------------------------------------------
(* What was true of a shorter log.                                         *)

LEMMA FoundedStays ==
    ASSUME LogGrows, NEW row, Founded(row)
    PROVE  Founded(row)'
<1>1. row.revision \in Nat
  BY DEF Founded, Gate!ComparisonRows
<1> QED
  BY <1>1 DEF Founded, LogGrows, Backed, Gate!ComparisonRows, Gate!Statuses

LEMMA HoldsStays ==
    ASSUME LogGrows, NEW state, Holds(state)
    PROVE  Holds(state)'
<1>1. Founded(state.row)'
  BY FoundedStays DEF Holds
<1>2. Len(review_actions)' = Len(review_actions')
  OBVIOUS
<1>3. Len(review_actions') \in Nat
  BY DEF LogGrows
<1> QED
  BY <1>1, <1>2, <1>3 DEF Holds, LogGrows

\* The rows of a prefix.
LEMMA PrefixRows ==
    ASSUME NEW log \in Seq(Gate!ActionRows), NEW n \in 0 .. Len(log)
    PROVE  /\ DOMAIN SubSeq(log, 1, n) = 1 .. n
           /\ \A i \in 1 .. n : i \in DOMAIN log /\ SubSeq(log, 1, n)[i] = log[i]
           /\ SubSeq(log, 1, n) \in Seq(Gate!ActionRows)
           /\ n = Len(log) => SubSeq(log, 1, n) = log
  OBVIOUS

\* A prefix of the log is not changed by what is appended after it.
LEMMA PrefixStays ==
    ASSUME review_actions \in Seq(Gate!ActionRows), LogGrows,
           NEW n \in 0 .. Len(review_actions)
    PROVE  SubSeq(review_actions', 1, n) = SubSeq(review_actions, 1, n)
<1>1. n \in 0 .. Len(review_actions') /\ review_actions' \in Seq(Gate!ActionRows)
  BY DEF LogGrows
<1>2. \A i \in 1 .. n : SubSeq(review_actions', 1, n)[i] = SubSeq(review_actions, 1, n)[i]
  BY <1>1, PrefixRows DEF LogGrows
<1>3. /\ DOMAIN SubSeq(review_actions, 1, n) = 1 .. n
      /\ DOMAIN SubSeq(review_actions', 1, n) = 1 .. n
      /\ SubSeq(review_actions, 1, n) \in Seq(Gate!ActionRows)
      /\ SubSeq(review_actions', 1, n) \in Seq(Gate!ActionRows)
  BY <1>1, PrefixRows
<1>4. SubSeq(review_actions, 1, n) = [i \in 1 .. n |-> SubSeq(review_actions, 1, n)[i]]
  BY <1>3
<1>5. SubSeq(review_actions', 1, n) = [i \in 1 .. n |-> SubSeq(review_actions', 1, n)[i]]
  BY <1>3
<1> QED
  BY <1>2, <1>4, <1>5

\* What was exported stays explained.
LEMMA ExportStays ==
    ASSUME SessionInvariant, LogGrows, UNCHANGED exported
    PROVE  Audited' /\ ExportIsExplained'
<1>1. Audited'
  BY DEF SessionInvariant, Audited, LogGrows
<1>2. CASE exported # None
  <2>1. exported.audit \in 0 .. Len(review_actions)
    BY <1>2 DEF SessionInvariant, Audited
  <2>2. SubSeq(review_actions', 1, exported.audit) = SubSeq(review_actions, 1, exported.audit)
    BY <2>1, PrefixStays DEF SessionInvariant
  <2>3. PICK audit : audit = SubSeq(review_actions, 1, exported.audit)
    OBVIOUS
  <2>4. /\ Approvals(audit) # {}
        /\ \A p \in exported.dismissed :
               \E i \in DOMAIN audit :
                   audit[i].action = "flag_dismiss" /\ Gate!About(audit[i]) = p
        /\ \A p \in exported.overrides :
               \E i \in DOMAIN audit :
                   audit[i].action = "band_override" /\ Gate!About(audit[i]) = p
    BY <1>2, <2>3 DEF SessionInvariant, ExportIsExplained
  <2>5. SubSeq(review_actions', 1, exported'.audit) = audit /\ exported' = exported
    BY <2>2, <2>3
  <2> QED
    BY <1>1, <2>4, <2>5 DEF ExportIsExplained
<1> QED
  BY <1>1, <1>2 DEF ExportIsExplained

\* A change a prefix of the log makes is a row of the log.
LEMMA ChangesHaveRows ==
    ASSUME NEW log \in Seq(Gate!ActionRows), NEW n \in 0 .. Len(log)
    PROVE  /\ \A p \in Gate!Dismissed(SubSeq(log, 1, n)) :
                  \E i \in DOMAIN log : log[i].action = "flag_dismiss" /\ Gate!About(log[i]) = p
           /\ \A p \in Gate!Overrides(SubSeq(log, 1, n)) :
                  \E i \in DOMAIN log : log[i].action = "band_override" /\ Gate!About(log[i]) = p
<1> DEFINE prefix == SubSeq(log, 1, n)
<1>1. \A i \in DOMAIN prefix : i \in DOMAIN log /\ prefix[i] = log[i]
  BY PrefixRows
<1> HIDE DEF prefix
<1>2. ASSUME NEW p \in Gate!Dismissed(prefix)
      PROVE  \E i \in DOMAIN log : log[i].action = "flag_dismiss" /\ Gate!About(log[i]) = p
  <2>1. PICK i \in DOMAIN prefix : prefix[i].action = "flag_dismiss" /\ Gate!About(prefix[i]) = p
    BY <1>2 DEF Gate!Dismissed
  <2> QED
    BY <1>1, <2>1
<1>3. ASSUME NEW p \in Gate!Overrides(prefix)
      PROVE  \E i \in DOMAIN log : log[i].action = "band_override" /\ Gate!About(log[i]) = p
  <2>1. PICK i \in DOMAIN prefix : prefix[i].action = "band_override" /\ Gate!About(prefix[i]) = p
    BY <1>3 DEF Gate!Overrides
  <2> QED
    BY <1>1, <2>1
<1> QED
  BY <1>2, <1>3 DEF prefix

-----------------------------------------------------------------------------
(* The commits.                                                            *)

LEMMA FlushFacts ==
    ASSUME NEW stored \in Gate!ComparisonRows, NEW loaded \in Gate!ComparisonRows,
           NEW new \in Gate!ComparisonRows
    PROVE  LET row == Gate!Flush(stored, loaded, new)
           IN  /\ row \in Gate!ComparisonRows
               /\ row.status = IF new.status # loaded.status THEN new.status ELSE stored.status
               /\ row.revision =
                      IF new.revision # loaded.revision THEN new.revision ELSE stored.revision
               /\ row.approved_at =
                      IF new.approved_at # loaded.approved_at
                      THEN new.approved_at ELSE stored.approved_at
<1> DEFINE row == Gate!Flush(stored, loaded, new)
           status == IF new.status # loaded.status THEN new.status ELSE stored.status
           revision == IF new.revision # loaded.revision THEN new.revision ELSE stored.revision
           approved_at == IF new.approved_at # loaded.approved_at
                          THEN new.approved_at ELSE stored.approved_at
<1>1. row = [stored EXCEPT !.status = status, !.revision = revision,
                           !.approved_at = approved_at]
  BY DEF Gate!Flush, Gate!Column
<1>2. /\ status \in Gate!Statuses /\ revision \in Nat
      /\ approved_at \in Nat \cup {None}
  BY DEF Gate!ComparisonRows
<1> HIDE DEF row, status, revision, approved_at
<1>3. /\ row \in Gate!ComparisonRows
      /\ row.status = status /\ row.revision = revision /\ row.approved_at = approved_at
  BY <1>1, <1>2 DEF Gate!ComparisonRows
<1> QED
  BY <1>3 DEF row, status, revision, approved_at

\* What a reopening does, by the status it finds.
LEMMA ReopenedFacts ==
    ASSUME NEW row \in Gate!ComparisonRows
    PROVE  /\ Gate!Reopened(row) \in Gate!ComparisonRows
           /\ row.status = "reviewed" =>
                  /\ Gate!Reopened(row).status = "pending_review"
                  /\ Gate!Reopened(row).revision = row.revision + 1
                  /\ Gate!Reopened(row).approved_at = None
           /\ row.status # "reviewed" => Gate!Reopened(row) = row
<1>1. CASE row.status = "reviewed"
  <2> DEFINE new == [status |-> "pending_review", revision |-> row.revision + 1,
                     approved_at |-> None, rubric_id |-> row.rubric_id]
  <2>1. Gate!Reopened(row) = new
    BY <1>1 DEF Gate!Reopened, Gate!ComparisonRows
  <2>2. new \in Gate!ComparisonRows
    BY DEF Gate!ComparisonRows, Gate!Statuses
  <2> QED
    BY <1>1, <2>1, <2>2
<1>2. CASE row.status # "reviewed"
  BY <1>2 DEF Gate!Reopened
<1> QED
  BY <1>1, <1>2

\* A commit that reopens, on a copy that may be out of date: it closes the gate,
\* on a revision its copy was signed for, or leaves the row as it is.
LEMMA ReopeningIsFounded ==
    ASSUME SessionInvariant, LogGrows, NEW loaded, Founded(loaded),
           Approvals(review_actions) \subseteq Approvals(review_actions)',
           comparison' = Gate!Flush(comparison, loaded, Gate!Reopened(loaded))
    PROVE  Founded(comparison)' /\ ReviewedNamesItsApproval'
<1>1. /\ loaded \in Gate!ComparisonRows /\ comparison \in Gate!ComparisonRows
      /\ Founded(comparison)
  BY DEF SessionInvariant, Founded
<1>2. Gate!Reopened(loaded) \in Gate!ComparisonRows
  BY <1>1, ReopenedFacts
<1>3. /\ comparison' \in Gate!ComparisonRows
      /\ comparison'.status = IF Gate!Reopened(loaded).status # loaded.status
                              THEN Gate!Reopened(loaded).status ELSE comparison.status
      /\ comparison'.revision = IF Gate!Reopened(loaded).revision # loaded.revision
                                THEN Gate!Reopened(loaded).revision ELSE comparison.revision
      /\ comparison'.approved_at = IF Gate!Reopened(loaded).approved_at # loaded.approved_at
                                   THEN Gate!Reopened(loaded).approved_at
                                   ELSE comparison.approved_at
  BY <1>1, <1>2, FlushFacts
<1>4. /\ loaded.revision \in Nat /\ comparison.revision \in Nat
      /\ Signatures(review_actions) \in Nat /\ Signatures(review_actions)' \in Nat
      /\ Signatures(review_actions) <= Signatures(review_actions)'
  BY <1>1 DEF LogGrows, Gate!ComparisonRows
<1>5. CASE loaded.status = "reviewed"
  <2>1. /\ comparison'.status = "pending_review"
        /\ comparison'.revision = loaded.revision + 1
        /\ comparison'.approved_at \in {None, comparison.approved_at}
    BY <1>1, <1>3, <1>4, <1>5, ReopenedFacts
  <2>2. loaded.revision + 1 <= Signatures(review_actions)
    BY <1>5 DEF Founded, Backed
  <2>3. Backed(comparison, Signatures(review_actions))'
    BY <1>4, <2>1, <2>2 DEF Backed
  <2>4. comparison'.approved_at \in DOMAIN review_actions' \cup {None}
    BY <1>1, <2>1 DEF Founded, LogGrows
  <2> QED
    BY <1>3, <2>1, <2>3, <2>4 DEF Founded, ReviewedNamesItsApproval
<1>6. CASE loaded.status # "reviewed"
  <2>1. /\ comparison'.status = comparison.status
        /\ comparison'.revision = comparison.revision
        /\ comparison'.approved_at = comparison.approved_at
    BY <1>1, <1>3, <1>6, ReopenedFacts
  <2>2. Founded(comparison)'
    BY <1>1, <1>3, <1>4, <2>1 DEF Founded, LogGrows, Backed
  <2>3. ReviewedNamesItsApproval'
    BY <2>1 DEF SessionInvariant, ReviewedNamesItsApproval
  <2> QED
    BY <2>2, <2>3
<1> QED
  BY <1>5, <1>6

\* An approval, on a copy that may be out of date: its row signs the revision
\* the stored row has, and the stored row takes the time of this approval.
LEMMA ApprovalIsFounded ==
    ASSUME SessionInvariant, NEW loaded, Founded(loaded), Gate!ApproveFrom(loaded)
    PROVE  /\ LogGrows
           /\ Founded(comparison)' /\ ReviewedNamesItsApproval'
           /\ UNCHANGED exported
<1> DEFINE n == Len(review_actions) + 1
           row == Gate!Row("approve", None, None, loaded.revision)
           new == [loaded EXCEPT !.status = "reviewed", !.approved_at = n]
<1>1. /\ loaded \in Gate!ComparisonRows /\ comparison \in Gate!ComparisonRows
      /\ review_actions \in Seq(Gate!ActionRows)
      /\ Len(review_actions) \in Nat
      /\ loaded.revision \in Nat /\ comparison.revision \in Nat
      /\ loaded.approved_at \in DOMAIN review_actions \cup {None}
  BY DEF SessionInvariant, Founded, Gate!ComparisonRows
<1>2. row \in Gate!ActionRows /\ row.action = "approve"
  BY <1>1 DEF Gate!Row, Gate!ActionRows
<1>3. /\ review_actions' = Append(review_actions, row)
      /\ comparison' = Gate!Flush(comparison, loaded, new)
      /\ UNCHANGED exported
  BY DEF Gate!ApproveFrom, Gate!Insert
<1>4. n \in Nat /\ n \in DOMAIN review_actions' /\ n # loaded.approved_at
  <2>1. n \in Nat /\ n \notin DOMAIN review_actions
    BY <1>1
  <2>2. n \in DOMAIN review_actions'
    BY <1>1, <1>2, <1>3, AppendFacts
  <2>3. n # None
    BY <2>1, SessionsAssumption
  <2> QED
    BY <1>1, <2>1, <2>2, <2>3
<1> HIDE DEF n, row
<1>5. /\ new \in Gate!ComparisonRows
      /\ new.status = "reviewed" /\ new.revision = loaded.revision /\ new.approved_at = n
  BY <1>1, <1>4 DEF Gate!ComparisonRows, Gate!Statuses
<1> HIDE DEF new
<1>6. /\ LogGrows
      /\ Signatures(review_actions)' = Signatures(review_actions) + 1
      /\ n \in Approvals(review_actions)'
      /\ Signatures(review_actions) \in Nat
  <2>1. /\ LogGrows
        /\ Signatures(review_actions)' =
               Signatures(review_actions) + IF row.action = "approve" THEN 1 ELSE 0
        /\ Len(review_actions) + 1 \in Approvals(review_actions)'
    BY <1>1, <1>2, <1>3, InsertGrows
  <2> QED
    BY <1>2, <2>1 DEF n, LogGrows
<1>7. /\ comparison' \in Gate!ComparisonRows
      /\ comparison'.status \in {"reviewed", comparison.status}
      /\ comparison'.revision = comparison.revision
      /\ comparison'.approved_at = n
  BY <1>1, <1>3, <1>4, <1>5, FlushFacts
<1>8. Backed(comparison, Signatures(review_actions))'
  <2>1. comparison.revision <= Signatures(review_actions)
    BY <1>1, <1>6 DEF SessionInvariant, Founded, Backed
  <2> QED
    BY <1>1, <1>6, <1>7, <2>1 DEF Backed
<1>9. Founded(comparison)' /\ ReviewedNamesItsApproval'
  BY <1>4, <1>6, <1>7, <1>8 DEF Founded, ReviewedNamesItsApproval
<1> QED
  BY <1>3, <1>6, <1>9

LEMMA ActionIsFounded ==
    ASSUME SessionInvariant, NEW loaded, Founded(loaded), NEW a, NEW c, NEW t,
           Gate!RecordActionFrom(loaded, a, c, t)
    PROVE  /\ LogGrows
           /\ Founded(comparison)' /\ ReviewedNamesItsApproval'
           /\ UNCHANGED exported
<1> DEFINE row == Gate!Row(a, c, t, Gate!Reopened(loaded).revision)
<1>1. /\ review_actions' = Append(review_actions, row)
      /\ comparison' = Gate!Flush(comparison, loaded, Gate!Reopened(loaded))
      /\ UNCHANGED exported
      /\ Gate!Acceptable(a, c, t)
  BY DEF Gate!RecordActionFrom, Gate!Insert
<1>2. row \in Gate!ActionRows
  <2>1. Gate!Reopened(loaded).revision \in Nat
    BY ReopenedFacts DEF Founded, Gate!ComparisonRows
  <2>2. c \in Candidates /\ t \in Flags \cup Bands /\ a \in Gate!ReviewActions
    BY <1>1, SessionsAssumption DEF Gate!Acceptable
  <2> QED
    BY <2>1, <2>2 DEF Gate!Row, Gate!ActionRows
<1> HIDE DEF row
<1>3. LogGrows /\ Approvals(review_actions) \subseteq Approvals(review_actions)'
  BY <1>1, <1>2, InsertGrows DEF SessionInvariant
<1> QED
  BY <1>1, <1>3, ReopeningIsFounded

LEMMA ResponseIsFounded ==
    ASSUME SessionInvariant, NEW loaded, Founded(loaded), NEW c, NEW f,
           Gate!RecordResponseFrom(loaded, c, f)
    PROVE  /\ LogGrows
           /\ Founded(comparison)' /\ ReviewedNamesItsApproval'
           /\ UNCHANGED exported
<1>1. /\ comparison' = Gate!Flush(comparison, loaded, Gate!Reopened(loaded))
      /\ UNCHANGED <<review_actions, exported>>
  BY DEF Gate!RecordResponseFrom
<1>2. LogGrows /\ Approvals(review_actions) \subseteq Approvals(review_actions)'
  BY <1>1, SameLogGrows DEF SessionInvariant
<1> QED
  BY <1>1, <1>2, ReopeningIsFounded

-----------------------------------------------------------------------------
(* Each step keeps the invariant.                                          *)

LEMMA InitSessions == Init => SessionInvariant
<1> SUFFICES ASSUME Init
             PROVE  SessionInvariant
  OBVIOUS
<1>1. /\ review_actions = <<>> /\ exported = None
      /\ comparison = [status |-> "pending_review", revision |-> 0,
                       approved_at |-> None, rubric_id |-> 1]
  BY DEF Init, Gate!Init
<1>2. review_actions \in Seq(Gate!ActionRows)
  BY <1>1
<1>3. Founded(comparison)
  <2>1. comparison \in Gate!ComparisonRows
    BY <1>1 DEF Gate!ComparisonRows, Gate!Statuses
  <2>2. Signatures(review_actions) \in Nat
    BY <1>2, SignaturesFacts
  <2> QED
    BY <1>1, <2>1, <2>2 DEF Founded, Backed
<1>4. session = [s \in Threads |-> session[s]] /\ \A s \in Threads : session[s] = Idle
  BY DEF Init
<1> QED
  BY <1>1, <1>2, <1>3, <1>4
     DEF SessionInvariant, ReviewedNamesItsApproval, Audited, ExportIsExplained

\* The thread of a request goes on to a state that is still true.
LEMMA NextState ==
    ASSUME SessionInvariant, LogGrows, NEW s \in Threads, NEW state, Enter(s, state),
           state # Idle => Holds(state)'
    PROVE  /\ session' = [v \in Threads |-> session'[v]]
           /\ \A v \in Threads : session'[v] # Idle => Holds(session[v])'
<1>1. /\ session' = [v \in Threads |-> session'[v]]
      /\ \A v \in Threads : session'[v] = IF v = s THEN state ELSE session[v]
  BY DEF SessionInvariant, Enter
<1>2. ASSUME NEW v \in Threads, session'[v] # Idle
      PROVE  Holds(session[v])'
  <2>1. PICK now : now = session'[v]
    OBVIOUS
  <2>2. Holds(now)'
    <3>1. CASE v = s
      BY <1>1, <1>2, <2>1, <3>1
    <3>2. CASE v # s
      BY <1>1, <1>2, <2>1, <3>2, HoldsStays DEF SessionInvariant
    <3> QED
      BY <3>1, <3>2
  <2> QED
    BY <2>1, <2>2 DEF Holds, Founded
<1> QED
  BY <1>1, <1>2

\* A step of one thread that leaves the tables as they are.
LEMMA ReadKeeps ==
    ASSUME SessionInvariant, NEW s \in Threads, NEW state, Enter(s, state),
           UNCHANGED tables, state # Idle => Holds(state)
    PROVE  SessionInvariant'
<1>1. UNCHANGED <<comparison, review_actions, exported>>
  BY DEF tables
<1>2. LogGrows
  BY <1>1, SameLogGrows DEF SessionInvariant
<1>3. state # Idle => Holds(state)'
  BY <1>2, HoldsStays
<1>4. /\ session' = [v \in Threads |-> session'[v]]
      /\ \A v \in Threads : session'[v] # Idle => Holds(session[v])'
  BY <1>2, <1>3, NextState
<1>5. Founded(comparison)'
  <2>1. PICK row : row = comparison
    OBVIOUS
  <2>2. Founded(row)'
    BY <1>2, <2>1, FoundedStays DEF SessionInvariant
  <2> QED
    BY <1>1, <2>1, <2>2 DEF Founded
<1>6. Audited' /\ ExportIsExplained'
  BY <1>1, <1>2, ExportStays
<1>7. ReviewedNamesItsApproval' /\ review_actions' \in Seq(Gate!ActionRows)
  BY <1>1 DEF SessionInvariant, ReviewedNamesItsApproval, Approvals, Gate!IsApproval
<1> QED
  BY <1>4, <1>5, <1>6, <1>7 DEF SessionInvariant

\* A handler's commit, after which its thread is idle.
LEMMA CommitKeeps ==
    ASSUME SessionInvariant, NEW s \in Threads, Enter(s, Idle), LogGrows,
           Founded(comparison)', ReviewedNamesItsApproval', UNCHANGED exported
    PROVE  SessionInvariant'
<1>1. /\ session' = [v \in Threads |-> session'[v]]
      /\ \A v \in Threads : session'[v] # Idle => Holds(session[v])'
  BY NextState
<1>2. Audited' /\ ExportIsExplained'
  BY ExportStays
<1>3. review_actions' \in Seq(Gate!ActionRows)
  BY DEF LogGrows
<1> QED
  BY <1>1, <1>2, <1>3 DEF SessionInvariant

\* A thread that is not idle holds what it has read.
LEMMA BusyHolds ==
    ASSUME SessionInvariant, NEW s \in Threads, session[s].at # "idle"
    PROVE  Holds(session[s]) /\ Founded(Loaded(s))
<1>1. session[s] # Idle
  BY DEF Idle
<1> QED
  BY <1>1 DEF SessionInvariant, Holds, Loaded

LEMMA LoadKeeps ==
    ASSUME SessionInvariant, NEW s \in Threads, NEW request \in {"write", "export"},
           Load(s, request)
    PROVE  SessionInvariant'
<1> DEFINE state == [at |-> request, row |-> comparison]
<1>1. PICK now : now = state
  OBVIOUS
<1>2. Enter(s, now) /\ UNCHANGED tables
  BY <1>1 DEF Load
<1>3. Holds(now)
  BY <1>1 DEF SessionInvariant, Holds
<1> QED
  BY <1>2, <1>3, ReadKeeps

LEMMA WriteKeeps ==
    ASSUME SessionInvariant, NEW s \in Threads, WriteRequest(s)
    PROVE  SessionInvariant'
<1>1. CASE Load(s, "write")
  BY <1>1, LoadKeeps
<1>2. CASE CommitAction(s) \/ CommitResponse(s) \/ CommitApprove(s)
  <2>1. session[s].at = "write" /\ Enter(s, Idle)
    BY <1>2 DEF CommitAction, CommitResponse, CommitApprove
  <2>2. PICK loaded : loaded = Loaded(s)
    OBVIOUS
  <2>3. Founded(loaded)
    BY <2>1, <2>2, BusyHolds
  <2>4. \/ \E a, c, t : Gate!RecordActionFrom(loaded, a, c, t)
        \/ \E c, f : Gate!RecordResponseFrom(loaded, c, f)
        \/ Gate!ApproveFrom(loaded)
    BY <1>2, <2>2 DEF CommitAction, CommitResponse, CommitApprove
  <2>5. /\ LogGrows
        /\ Founded(comparison)' /\ ReviewedNamesItsApproval'
        /\ UNCHANGED exported
    BY <2>3, <2>4, ActionIsFounded, ResponseIsFounded, ApprovalIsFounded
  <2> QED
    BY <2>1, <2>5, CommitKeeps
<1>3. CASE Rollback(s)
  BY <1>3, ReadKeeps DEF Rollback
<1> QED
  BY <1>1, <1>2, <1>3 DEF WriteRequest

\* What a thread holds after a query: the answer, and all it held before.
Answered(now, next, to, field, answer) ==
    /\ DOMAIN next = DOMAIN now \cup {field}
    /\ next["at"] = to
    /\ next[field] = answer
    /\ \A other \in DOMAIN now : other \notin {"at", field} => next[other] = now[other]

LEMMA QueryFacts ==
    ASSUME NEW s \in Threads, NEW from, NEW to, NEW field, NEW answer,
           Query(s, from, to, field, answer), field # "at", "at" \in DOMAIN session[s]
    PROVE  \E next : /\ Enter(s, next) /\ UNCHANGED tables
                     /\ Answered(session[s], next, to, field, answer)
<1> DEFINE next == [f \in DOMAIN session[s] \cup {field} |->
                       CASE f = "at" -> to
                         [] f = field -> answer
                         [] OTHER -> session[s][f]]
<1>1. Enter(s, next) /\ UNCHANGED tables
  BY DEF Query
<1>2. Answered(session[s], next, to, field, answer)
  BY DEF Answered
<1> HIDE DEF next
<1> QED
  BY <1>1, <1>2

\* What the log held when a query read it, the log still holds.
LEMMA ReadsKeep ==
    ASSUME SessionInvariant, NEW s \in Threads,
           \/ ReadDismissals(s)
           \/ ReadOverrides(s)
           \/ ReadResponses(s)
    PROVE  SessionInvariant'
<1>1. PICK length : length = Len(review_actions) /\ length \in Nat
  BY DEF SessionInvariant
<1>2. PICK heard : heard = Len(candidate_responses)
  OBVIOUS
<1>3. PICK now : now = session[s]
  OBVIOUS
<1>4. Holds(now) /\ "at" \in DOMAIN session[s]
  BY <1>3, BusyHolds DEF ReadDismissals, ReadOverrides, ReadResponses, Query, Holds
<1>5. CASE ReadDismissals(s)
  <2>1. Query(s, "rubric", "dismissals", "log1", length)
    BY <1>1, <1>5 DEF ReadDismissals
  <2>2. \E next : /\ Enter(s, next) /\ UNCHANGED tables
                  /\ Answered(session[s], next, "dismissals", "log1", length)
    BY <1>4, <2>1, QueryFacts
  <2>3. PICK next : /\ Enter(s, next) /\ UNCHANGED tables
                    /\ Answered(now, next, "dismissals", "log1", length)
    BY <1>3, <2>2
  <2>4. now.at = "rubric"
    BY <1>3, <2>1 DEF Query
  <2>5. /\ next.row = now.row
        /\ next.at = "dismissals"
        /\ next.log1 = length
    BY <1>4, <2>3, <2>4 DEF Holds, Answered
  <2>6. Holds(next)
    BY <1>1, <1>4, <2>3, <2>4, <2>5 DEF Holds, Answered
  <2> QED
    BY <2>3, <2>6, ReadKeeps
<1>6. CASE ReadOverrides(s)
  <2>1. Query(s, "dismissals", "overrides", "log2", length)
    BY <1>1, <1>6 DEF ReadOverrides
  <2>2. \E next : /\ Enter(s, next) /\ UNCHANGED tables
                  /\ Answered(session[s], next, "overrides", "log2", length)
    BY <1>4, <2>1, QueryFacts
  <2>3. PICK next : /\ Enter(s, next) /\ UNCHANGED tables
                    /\ Answered(now, next, "overrides", "log2", length)
    BY <1>3, <2>2
  <2>4. now.at = "dismissals"
    BY <1>3, <2>1 DEF Query
  <2>5. /\ next.row = now.row
        /\ next.at = "overrides"
        /\ next.log2 = length
        /\ next.log1 = now.log1
    BY <1>4, <2>3, <2>4 DEF Holds, Answered
  <2>6. Holds(next)
    BY <1>1, <1>4, <2>3, <2>4, <2>5 DEF Holds, Answered
  <2> QED
    BY <2>3, <2>6, ReadKeeps
<1>7. CASE ReadResponses(s)
  <2>1. Query(s, "overrides", "responses", "heard", heard)
    BY <1>2, <1>7 DEF ReadResponses
  <2>2. \E next : /\ Enter(s, next) /\ UNCHANGED tables
                  /\ Answered(session[s], next, "responses", "heard", heard)
    BY <1>4, <2>1, QueryFacts
  <2>3. PICK next : /\ Enter(s, next) /\ UNCHANGED tables
                    /\ Answered(now, next, "responses", "heard", heard)
    BY <1>3, <2>2
  <2>4. now.at = "overrides"
    BY <1>3, <2>1 DEF Query
  <2>5. /\ next.row = now.row
        /\ next.at = "responses"
        /\ next.log1 = now.log1
        /\ next.log2 = now.log2
    BY <1>4, <2>3, <2>4 DEF Holds, Answered
  <2>6. Holds(next)
    BY <1>1, <1>4, <2>3, <2>4, <2>5 DEF Holds, Answered
  <2> QED
    BY <2>3, <2>6, ReadKeeps
<1> QED
  BY <1>5, <1>6, <1>7

\* The gate of the export, on the copy the thread holds.
LEMMA OpenKeeps ==
    ASSUME SessionInvariant, NEW s \in Threads, OpenExport(s)
    PROVE  SessionInvariant'
<1>1. PICK row : row = Loaded(s)
  OBVIOUS
<1>2. Founded(row)
  BY <1>1, BusyHolds DEF OpenExport
<1>3. CASE Gate!MayExport(row)
  <2>1. PICK state : state = [at |-> "rubric", row |-> row, latest |-> rubrics]
    OBVIOUS
  <2>2. Enter(s, state) /\ UNCHANGED tables
    BY <1>1, <1>3, <2>1 DEF OpenExport
  <2>3. Holds(state)
    BY <1>2, <1>3, <2>1 DEF Holds, Gate!MayExport
  <2> QED
    BY <2>2, <2>3, ReadKeeps
<1>4. CASE ~ Gate!MayExport(row)
  BY <1>1, <1>4, ReadKeeps DEF OpenExport
<1> QED
  BY <1>3, <1>4

\* The export that leaves is explained by the log its audit was read from.
LEMMA ExportKeeps ==
    ASSUME SessionInvariant, NEW s \in Threads, ReadAudit(s)
    PROVE  SessionInvariant'
<1>1. PICK done : done = session[s]
  OBVIOUS
<1>2. /\ Founded(done.row)
      /\ done.row.status = "reviewed"
      /\ done.log1 \in 0 .. Len(review_actions)
      /\ done.log2 \in 0 .. Len(review_actions)
  BY <1>1, BusyHolds DEF ReadAudit, Holds
<1>3. /\ exported' = Gate!Payload(done.row, done.latest,
                                  SubSeq(review_actions, 1, done.log1),
                                  SubSeq(review_actions, 1, done.log2),
                                  SubSeq(candidate_responses, 1, done.heard),
                                  review_actions)
      /\ UNCHANGED <<comparison, review_actions>>
      /\ Enter(s, Idle)
  BY <1>1 DEF ReadAudit
<1>4. /\ exported'.audit = Len(review_actions)
      /\ exported'.dismissed = Gate!Dismissed(SubSeq(review_actions, 1, done.log1))
      /\ exported'.overrides = Gate!Overrides(SubSeq(review_actions, 1, done.log2))
  BY <1>3 DEF Gate!Payload
<1>5. /\ review_actions \in Seq(Gate!ActionRows)
      /\ Len(review_actions) \in 0 .. Len(review_actions)
      /\ SubSeq(review_actions, 1, Len(review_actions)) = review_actions
  BY PrefixRows DEF SessionInvariant
<1>6. Approvals(review_actions) # {}
  <2>1. Signatures(review_actions) \in Nat /\ Signatures(review_actions) # 0
    BY <1>2, <1>5, SignaturesFacts DEF Founded, Backed, Gate!ComparisonRows
  <2> QED
    BY <2>1, FS_EmptySet DEF Signatures
<1>7. LogGrows
  BY <1>3, SameLogGrows DEF SessionInvariant
<1>8. Audited' /\ ExportIsExplained'
  <2>1. /\ \A p \in Gate!Dismissed(SubSeq(review_actions, 1, done.log1)) :
               \E i \in DOMAIN review_actions :
                   review_actions[i].action = "flag_dismiss" /\ Gate!About(review_actions[i]) = p
        /\ \A p \in Gate!Overrides(SubSeq(review_actions, 1, done.log2)) :
               \E i \in DOMAIN review_actions :
                   review_actions[i].action = "band_override" /\ Gate!About(review_actions[i]) = p
    BY <1>2, <1>5, ChangesHaveRows
  <2>2. PICK log : log = review_actions
    OBVIOUS
  <2>3. SubSeq(review_actions', 1, exported'.audit) = log
    BY <1>3, <1>4, <1>5, <2>2
  <2>4. Audited'
    BY <1>3, <1>4, <1>5 DEF Audited
  <2>5. /\ Approvals(log) # {}
        /\ \A p \in exported'.dismissed :
               \E i \in DOMAIN log : log[i].action = "flag_dismiss" /\ Gate!About(log[i]) = p
        /\ \A p \in exported'.overrides :
               \E i \in DOMAIN log : log[i].action = "band_override" /\ Gate!About(log[i]) = p
    BY <1>4, <1>6, <2>1, <2>2
  <2> QED
    BY <2>3, <2>4, <2>5 DEF ExportIsExplained
<1>9. /\ session' = [v \in Threads |-> session'[v]]
      /\ \A v \in Threads : session'[v] # Idle => Holds(session[v])'
  BY <1>3, <1>7, NextState
<1>10. Founded(comparison)'
  <2>1. PICK row : row = comparison
    OBVIOUS
  <2>2. Founded(row)'
    BY <1>7, <2>1, FoundedStays DEF SessionInvariant
  <2> QED
    BY <1>3, <2>1, <2>2 DEF Founded
<1>11. ReviewedNamesItsApproval' /\ review_actions' \in Seq(Gate!ActionRows)
  BY <1>3 DEF SessionInvariant, ReviewedNamesItsApproval, Approvals, Gate!IsApproval
<1> QED
  BY <1>8, <1>9, <1>10, <1>11 DEF SessionInvariant

LEMMA StepSessions == SessionInvariant /\ [Next]_vars => SessionInvariant'
<1> SUFFICES ASSUME SessionInvariant, [Next]_vars
             PROVE  SessionInvariant'
  OBVIOUS
<1>1. CASE \E s \in Reviewers : WriteRequest(s)
  BY <1>1, WriteKeeps DEF Threads
<1>2. CASE \E s \in Readers : ExportRequest(s)
  <2>1. PICK s \in Threads : ExportRequest(s)
    BY <1>2 DEF Threads
  <2> QED
    BY <2>1, LoadKeeps, OpenKeeps, ReadsKeep, ExportKeeps DEF ExportRequest
<1>3. CASE UNCHANGED vars
  BY <1>3 DEF vars, SessionInvariant, Founded, Holds, Backed, Signatures, Approvals,
              Gate!IsApproval, ReviewedNamesItsApproval, Audited, ExportIsExplained,
              Gate!About
<1> QED
  BY <1>1, <1>2, <1>3 DEF Next

-----------------------------------------------------------------------------
(* What holds however the requests overlap.                                *)

\* What the tables hold is founded on the log, and so is what every thread still
\* holds of them.
THEOREM SessionsAreSound == Spec => []SessionInvariant
<1> QED
  BY InitSessions, StepSessions, PTL DEF Spec

\* However requests overlap, a revision number is only reached on top of that
\* many signatures, in the table and in every copy a thread still holds.
THEOREM RevisionsStandOnSignatures == Spec => []RevisionsAreSigned
<1>1. SessionInvariant => RevisionsAreSigned
  BY DEF SessionInvariant, RevisionsAreSigned, Founded, Holds, Backed, Signatures
<1> QED
  BY <1>1, SessionsAreSound, PTL

\* However requests overlap, a reviewed comparison names the approval in the log
\* that made it so.
THEOREM ReviewedHasApproval == Spec => []ReviewedNamesItsApproval
<1>1. SessionInvariant => ReviewedNamesItsApproval
  BY DEF SessionInvariant
<1> QED
  BY <1>1, SessionsAreSound, PTL

\* Whatever commits during an export, its audit log explains every human change
\* in the file and holds an approval.
THEOREM ExportsAreExplained == Spec => []ExportIsExplained
<1>1. SessionInvariant => ExportIsExplained
  BY DEF SessionInvariant
<1> QED
  BY <1>1, SessionsAreSound, PTL

=============================================================================
