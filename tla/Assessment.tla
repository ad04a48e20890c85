----------------------------- MODULE Assessment -----------------------------
(***************************************************************************)
(* From an account to a place in the list: what is read of a portfolio is  *)
(* reconciled with what the candidate's documents claim (Claims,           *)
(* Reconcile), kept as a dossier (Dossier), scored and ranked (Ranking),   *)
(* stored as a comparison (store.py) and shown again with the human's      *)
(* dismissals and the latest rubric (review.py, effective_result).         *)
(*                                                                         *)
(* A portfolio never changes here. What changes is how much of it the      *)
(* latest run could read, which flags a human dismissed, and the weights.  *)
(* The documents never change either, but reading them may fail, and a     *)
(* language model may be asked and answer this or that.                    *)
(***************************************************************************)
EXTENDS Ranking

CONSTANTS
    Portfolios,     \* Portfolios[c]: the portfolios candidate c may have
    Accounts,       \* how many repositories an account may hold, read or not
    Rubrics,        \* the payloads a recruiter may submit under the name
    Labels, Redacted, Headings, ShortWords,
                    \* the words of the documents: see Claims
    Readings,       \* how reading the documents may go: see CollectClaims
    Values,         \* words that occur in documents only as labelled values
    MaxReruns       \* bound on the runs after the first

ASSUME AssessmentAssumption ==
    /\ DOMAIN Portfolios \subseteq Nat
    /\ IsFiniteSet(DOMAIN Portfolios)
    /\ Accounts \subseteq Nat
    /\ MaxReruns \in Nat

Said == INSTANCE Claims

Candidates == DOMAIN Portfolios

\* A portfolio has finitely many repositories, with findings the table grades.
ASSUME PortfoliosAssumption ==
    /\ "contradicted_claim" \in DOMAIN Finding
    /\ \A c \in Candidates : \A p \in Portfolios[c] :
           /\ IsFiniteSet(DOMAIN p.works)
           /\ \A r \in DOMAIN p.works : p.works[r].checks \subseteq DOMAIN Finding

\* The texts of the documents are lists of words.
IsList(s) == s \in Seq(Range(s))

\* A protected value stands behind its label: on a line of the resume anywhere, in
\* a text of the export within its sentence. No document has the mark.
LabelledResume(resume) ==
    /\ IsList(resume.lines)
    /\ \A line \in Range(resume.lines) :
           /\ IsList(line) /\ Redacted \notin Range(line)
           /\ \A i \in 1 .. Len(line) :
                  line[i] \in Values => \E k \in 1 .. (i - 1) : line[k] \in Labels

Labelled(text) ==
    /\ IsList(text) /\ Redacted \notin Range(text)
    /\ \A i \in 1 .. Len(text) : text[i] \in Values =>
           \E k \in 1 .. (i - 1) :
               text[k] \in Labels /\ \A j \in k .. (i - 1) : text[j] = "." => text[j + 1] = ","

LabelledExport(export) ==
    IF export.form = "csv"
    THEN /\ IsList(export.rows)
         /\ \A row \in Range(export.rows) :
                /\ Labelled(row.company) /\ Labelled(row.title)
                /\ Labelled(row.description) /\ Labelled(row.dates)
    ELSE /\ IsList(export.positions) /\ IsList(export.skills) /\ IsList(export.endorsements)
         /\ \A row \in Range(export.positions) :
                Labelled(row.company) /\ Labelled(row.title) /\ Labelled(row.description)
         /\ \A name \in Range(export.skills) \cup Range(export.endorsements) : Labelled(name)

\* A resume and an export are two documents (documents.py reads no .csv or .json,
\* linkedin.py nothing else).
Presented(resume, linkedin) ==
    /\ resume # None => LabelledResume(resume)
    /\ linkedin # None => LabelledExport(linkedin)
    /\ resume # None /\ linkedin # None => resume.document # linkedin.document

ASSUME DocumentsAssumption ==
    \A c \in Candidates : \A p \in Portfolios[c] : Presented(p.resume, p.linkedin)

\* What the program writes itself is no protected value.
ASSUME WordsAssumption ==
    /\ {",", "endorsed"} \cap (Values \cup {Redacted}) = {}
    /\ "," \notin Labels /\ Redacted \notin Values

\* The model returns a list, and leaves words out, or none.
Readable(how) ==
    IsList(how.items) /\ \A i \in 1 .. Len(how.items) : how.items[i].leaving \in Nat

ASSUME ReadingsAssumption == \A how \in Readings : Readable(how)

\* Weights are numbers (_check_dimensions refuses others), of dimensions that can
\* be listed.
ASSUME RubricsAssumption ==
    \A payload \in Rubrics :
        /\ DOMAIN payload = {"weights", "bars", "custom"}
        /\ IsFiniteSet(DOMAIN payload.custom)
        /\ \A name \in DOMAIN payload.weights : payload.weights[name] \in Int

VARIABLES
    portfolio,      \* portfolio[c]: the selected repositories, the resume, the export
    account,        \* account[c]: the repositories on the account
    outcome,        \* outcome[c][r]: how the last run left repository r
    reading,        \* reading[c]: how the last run read the documents
    stated,         \* stated[c]: the claims it collected
    reruns,
    rubric,         \* the latest rubric of the name
    dossier,        \* dossier[c]: the dossier stored last
    comparison,     \* the stored comparison: the rubric and the machine's scores
    dismissed,      \* dismissed[c]: the flags a human dismissed in it
    shown           \* what effective_result returns: a score for each candidate

vars == <<portfolio, account, outcome, reading, stated, reruns, rubric, dossier,
          comparison, dismissed, shown>>

Repositories(c) == DOMAIN portfolio[c].works

-----------------------------------------------------------------------------

\* A cohort ranked without the handles: equals get the same place.
MutMachineRank(scores, c) ==
    IF c \in Scored(scores)
    THEN 1 + Cardinality({b \in Scored(scores) : scores[b].score > scores[c].score})
    ELSE None

\* create_comparison ranks with a sort of its own.
MachineRank(scores, c) ==
    IF c \in Scored(scores)
    THEN 1 + Cardinality({b \in Scored(scores) :
                             \/ scores[b].score > scores[c].score
                             \/ scores[b].score = scores[c].score /\ b < c})
    ELSE None

\* Every document could be read, and no model was asked.
Plain == [resume |-> TRUE, linkedin |-> TRUE, model |-> "absent", items |-> <<>>]

\* What is collected are claims.
ASSUME ClaimsAssumption ==
    \A c \in Candidates : \A p \in Portfolios[c], how \in Readings \cup {Plain} :
        None \notin Range(Said!CollectClaims(p.resume, p.linkedin, how).claims)

\* collect_claims over candidate c's documents, read as `how` says.
Collect(c, how) == Said!CollectClaims(portfolio[c].resume, portfolio[c].linkedin, how)

\* build_dossier over what the run could read.
Analyse(c, results, claims) ==
    DossierOf(portfolio[c].works, claims, results, account[c])

\* What create_comparison stores of the scores.
Machine(scores) ==
    [c \in Candidates |-> [score |-> scores[c].score, rank |-> MachineRank(scores, c)]]

Init ==
    /\ portfolio \in [Candidates -> UNION {Portfolios[c] : c \in Candidates}]
    /\ \A c \in Candidates : portfolio[c] \in Portfolios[c]
    /\ account \in [Candidates -> Accounts]
    /\ outcome = [c \in Candidates |-> [r \in Repositories(c) |-> "read"]]
    /\ reading = [c \in Candidates |-> Plain]
    /\ stated = [c \in Candidates |-> Collect(c, Plain)]
    /\ reruns = 0
    /\ \E payload \in Rubrics : Loads(payload) /\ rubric = Loaded(payload)
    /\ dossier = [c \in Candidates |-> Analyse(c, outcome[c], stated[c].claims)]
    /\ dismissed = [c \in Candidates |-> {}]
    /\ shown = [c \in Candidates |-> ScoreCandidate(dossier[c], rubric, {})]
    /\ comparison = [rubric |-> rubric, machine |-> Machine(shown)]

\* effective_result: scored again, without what was dismissed, by the latest rubric.
Show ==
    shown' = [c \in Candidates |-> ScoreCandidate(dossier'[c], rubric', dismissed'[c])]

\* Candidate c is analysed again and a new comparison is created, in which
\* nothing is dismissed yet. Against the last run one thing went otherwise:
\* how the read of repository r ended, or how reading the documents went.
Rerun(c) ==
    /\ reruns < MaxReruns
    /\ reruns' = reruns + 1
    /\ dossier' = [dossier EXCEPT ![c] = Analyse(c, outcome'[c], stated'[c].claims)]
    /\ dismissed' = [x \in Candidates |-> {}]
    /\ UNCHANGED <<portfolio, account, rubric>>
    /\ Show
    /\ comparison' = [rubric |-> rubric, machine |-> Machine(shown')]

Reanalyse(c, r, end) ==
    /\ outcome[c][r] # end
    /\ outcome' = [outcome EXCEPT ![c][r] = end]
    /\ UNCHANGED <<reading, stated>>
    /\ Rerun(c)

Reread(c, how) ==
    /\ reruns < MaxReruns
    /\ reading' = [reading EXCEPT ![c] = how]
    /\ stated' = [stated EXCEPT ![c] = Collect(c, how)]
    /\ stated # stated'
    /\ UNCHANGED outcome
    /\ Rerun(c)

Dismiss(c, flag) ==
    /\ flag \notin dismissed[c]
    /\ dismissed' = [dismissed EXCEPT ![c] = @ \cup {flag}]
    /\ UNCHANGED <<portfolio, account, outcome, reading, stated, reruns, rubric, dossier,
                   comparison>>
    /\ Show

Confirm(c, flag) ==
    /\ flag \in dismissed[c]
    /\ dismissed' = [dismissed EXCEPT ![c] = @ \ {flag}]
    /\ UNCHANGED <<portfolio, account, outcome, reading, stated, reruns, rubric, dossier,
                   comparison>>
    /\ Show

\* A payload that does not load is refused, and changes nothing.
Reweight(payload) ==
    /\ Loads(payload)
    /\ rubric' = Loaded(payload)
    /\ UNCHANGED <<portfolio, account, outcome, reading, stated, reruns, dossier, comparison,
                   dismissed>>
    /\ Show

Next ==
    \/ \E c \in Candidates : \E r \in Repositories(c), end \in Outcomes : Reanalyse(c, r, end)
    \/ \E c \in Candidates, how \in Readings : Reread(c, how)
    \/ \E c \in Candidates : \E flag \in dossier[c].red_flags :
           Dismiss(c, flag) \/ Confirm(c, flag)
    \/ \E payload \in Rubrics : Reweight(payload)

Spec == Init /\ [][Next]_vars

-----------------------------------------------------------------------------
(* Properties.                                                             *)

\* Scoring never raises: whatever a run could read, and whatever stands
\* dismissed, each dimension passes the checks DimensionScore makes of itself
\* (a coverage is a share, a score has coverage and evidence, and the reverse).
ScoringNeverRaises ==
    \A c \in Candidates :
        \A d \in DOMAIN shown[c].dimensions : WellFormed(shown[c].dimensions[d])

\* A human's dismissal only ever helps the candidate it is about: no lower
\* score, no worse place, no new breach of a bar, and the same band width; and
\* it cannot make a dimension unmeasured by taking its evidence away.
DismissalNeverHurts ==
    [][\A c \in Candidates :
           dismissed[c] # dismissed'[c] /\ dismissed[c] \subseteq dismissed'[c] =>
               /\ shown'[c].width = shown[c].width
               /\ shown'[c].breaches \subseteq shown[c].breaches
               /\ \A d \in DOMAIN shown[c].dimensions :
                      Measured(shown[c].dimensions[d]) => Measured(shown'[c].dimensions[d])
               /\ shown[c].score # None =>
                      /\ shown'[c].score >= shown[c].score
                      /\ RankOf(shown', c) <= RankOf(shown, c)]_vars

\* The dimensions that judge a sample of the account.
OfRepositories(score) == DOMAIN score.dimensions \ {"claim_corroboration"}

\* "Thin evidence widens a confidence band, it never lowers a score": the same
\* repositories read from a larger account give the same scores, and every
\* dimension that judges repositories owns up to the smaller share.
UnreadOnlyWidens ==
    \A c \in Candidates :
        LET small == shown[c]
            large == ScoreCandidate([dossier[c] EXCEPT !.considered = @ + 1],
                                    rubric, dismissed[c])
        IN  /\ large.score = small.score
            /\ large.width >= small.width
            /\ \A d \in OfRepositories(small) :
                   Measured(small.dimensions[d]) =>
                       large.dimensions[d].coverage < small.dimensions[d].coverage

\* The two orders agree: as long as nothing stands dismissed and the rubric is
\* the one it was scored with, a comparison shows the machine's own scores in
\* the machine's own order, also after flags were dismissed and confirmed again.
MachineOrderShown ==
    (rubric = comparison.rubric /\ \A c \in Candidates : dismissed[c] = {}) =>
        \A c \in Candidates :
            /\ shown[c].score = comparison.machine[c].score
            /\ RankOf(shown, c) = comparison.machine[c].rank

\* "No protected attribute reaches a claim, a model, or a log": a value that
\* stands beside its label, on a line of the resume or in a sentence of the
\* export, is in no statement and no quote of a claim, was not sent to the
\* model, and where a claim shows the mark its document is on record.
LabelledValuesStayOut ==
    \A c \in Candidates :
        /\ \A n \in DOMAIN stated[c].sent : Range(stated[c].sent[n]) \cap Values = {}
        /\ \A n \in DOMAIN stated[c].claims :
               LET claim == stated[c].claims[n]
                   words == Range(claim.text) \cup Range(claim.excerpt)
               IN  /\ words \cap Values = {}
                   /\ Redacted \in words =>
                          IF portfolio[c].resume # None
                             /\ claim.document = portfolio[c].resume.document
                          THEN "resume" \in stated[c].redactions
                          ELSE "linkedin" \in stated[c].redactions

\* The sources are independent: whatever became of the export and of the model,
\* a readable resume is claimed as when it was read plainly, first and in the
\* same words; and whatever became of the resume and of the model, each
\* statement of a readable export is claimed, in its own words or the resume's.
SourcesAreIndependent ==
    [][\A c \in Candidates : reading[c] # reading'[c] =>
           LET resume == Said!CollectClaims(portfolio[c].resume, None, Plain).claims
               export == Said!CollectClaims(None, portfolio[c].linkedin, Plain).claims
               claims == stated'[c].claims
           IN  /\ reading'[c].resume =>
                      /\ Len(resume) <= Len(claims)
                      /\ \A n \in DOMAIN resume : claims[n] = resume[n]
               /\ reading'[c].linkedin =>
                      \A n \in DOMAIN export :
                          \E m \in DOMAIN claims : Said!Key(claims[m]) = Said!Key(export[n])]_vars

\* The model never restates: of two claims of one kind about one line of the
\* resume, both were made without it, so a recruiter is not asked the same
\* question twice.
ModelNeverRestates ==
    [][\A c \in Candidates : reading[c] = Plain /\ reading'[c] # Plain =>
           LET claims == stated'[c].claims
           IN  \A m, n \in DOMAIN claims :
                   /\ m # n
                   /\ claims[m].document = claims[n].document
                   /\ claims[m].locator = claims[n].locator
                   /\ claims[m].kind = claims[n].kind
                   => \E k \in DOMAIN stated[c].claims : stated[c].claims[k] = claims[n]]_vars

-----------------------------------------------------------------------------
(* What the documentation says and the code breaks.                        *)

\* "Analysis failure is never evidence against anyone": a run that could not
\* clone a repository raises no flag the run that read it did not raise.
FailureNeverAccuses ==
    [][\A c \in Candidates : \A r \in Repositories(c) :
           outcome[c][r] = "read" /\ outcome'[c][r] = "lost" =>
               dossier'[c].red_flags \subseteq dossier[c].red_flags]_vars

=============================================================================
