------------------------------- MODULE Dossier -------------------------------
(***************************************************************************)
(* What a run leaves behind for ranking and review: the parts of a dossier *)
(* (dossier.py) that a score or a reviewer depends on, from how reading    *)
(* each repository ended (pipeline.py) and from the reconciliation of the  *)
(* claims. Prose, headline and open questions are left out.                *)
(***************************************************************************)
EXTENDS Reconcile

CONSTANT
    Finding         \* Finding[check]: its family, severity and confidence (per cent)

\* How the read of one repository ended:
\*   read      it was cloned, read and analysed;
\*   lost      the clone failed or ran out of time: there is nothing;
\*   checked   the analysis failed after the provenance checks;
\*   examined  it failed after every check, building the evidence;
\*   judged    it failed in its last step, taking fingerprints.
Outcomes == {"read", "lost", "checked", "examined", "judged"}

\* "A repository that fails partway should keep whatever it did manage."
FindingsKept(work, outcome) ==
    CASE outcome \in {"read", "examined", "judged"} -> work.checks
      [] outcome = "checked" -> {k \in work.checks : Finding[k].family = "provenance"}
      [] outcome = "lost" -> {}

\* The repositories the reconciliation has evidence from: an error set after
\* the evidence was built does not take it back.
WithEvidence(outcome) == {r \in DOMAIN outcome : outcome[r] \in {"read", "judged"}}

Analysed(outcome) == {r \in DOMAIN outcome : outcome[r] = "read"}

\* _red_flags: each contradicted claim, then each finding above info. A flag
\* id is a digest of the flag, so here a flag is its own id.
RedFlags(works, outcome, results) ==
    {[check |-> "contradicted_claim", about |-> x.claim] :
        x \in {y \in results : y.verdict = "contradicted"}}
    \cup UNION {{[check |-> k, about |-> r] :
                    k \in {f \in FindingsKept(works[r], outcome[r]) :
                              Finding[f].severity # "info"}} : r \in DOMAIN outcome}

\* build_dossier, with _analysis_coverage and _code_quality_snapshot. `account`
\* is how many repositories the account holds, read or not.
DossierOf(works, claims, outcome, account) ==
    LET results == Reconciliations(works, claims, WithEvidence(outcome))
        analysed == Analysed(outcome)
        Count(v) == Cardinality({x \in results : x.verdict = v})
    IN  [red_flags    |-> RedFlags(works, outcome, results),
         considered   |-> IF account > Cardinality(DOMAIN outcome)
                          THEN account ELSE Cardinality(DOMAIN outcome),
         analysed     |-> Cardinality(analysed),
         authored     |-> Cardinality({r \in analysed : works[r].lines > 0}),
         deep         |-> Cardinality({r \in analysed : works[r].deep}),
         claims       |-> Cardinality({x \in results : x.claim # None}),
         resolved     |-> Count("corroborated") + Count("contradicted"),
         corroborated |-> Count("corroborated"),
         contradicted |-> Count("contradicted"),
         cited        |-> UNION {x.repositories : x \in {y \in results : y.claim # None}},
         snapshot     |-> analysed]

=============================================================================
