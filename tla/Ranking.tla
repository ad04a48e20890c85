------------------------------- MODULE Ranking -------------------------------
(***************************************************************************)
(* Scoring a dossier against a rubric (rank/dimensions.py, rank/score.py,  *)
(* rubric.py) and ordering a cohort (rank/compare.py).                     *)
(*                                                                         *)
(* Scores, coverages and widths are in millionths, the precision the code  *)
(* rounds the scores to and what score_candidate returns; the coverages of *)
(* the dimensions that judge repositories it keeps as quotients, finer     *)
(* than here. Weights, severities and confidences are in hundredths.       *)
(* Evidence is abstracted to whether there is any; tie groups are in       *)
(* Cohort, drivers and prose are left out.                                 *)
(***************************************************************************)
EXTENDS Dossier, FiniteSetsExt, TLC

One == 1000000

ASSUME NoneAssumption == None \notin Int

\* round(n / d, 6) of a quotient in millionths.
Quotient(n, d) == (2 * n + d) \div (2 * d)

Capped(n) == Min({One, n})

-----------------------------------------------------------------------------
(* Rubrics: weights, minimum bars and custom dimensions by name.           *)

DEFAULT_WEIGHTS ==
    [authenticity |-> 30, code_quality |-> 20, claim_corroboration |-> 20,
     test_quality |-> 15, security |-> 10, breadth |-> 5]

DIMENSIONS == DOMAIN DEFAULT_WEIGHTS

\* The weights a rubric names, and the default ones for the rest.
WithDefaults(weights) ==
    [name \in DIMENSIONS \cup DOMAIN weights |->
        IF name \in DOMAIN weights THEN weights[name] ELSE DEFAULT_WEIGHTS[name]]

\* Rubric.from_dict refuses what it could not score anyone with: a custom
\* dimension that redefines a built-in one, reads no check or has no weight, a
\* name nobody knows, a negative weight or a bar outside [0, 1].
Loads(payload) ==
    LET custom == DOMAIN payload.custom
        known == DIMENSIONS \cup custom
    IN  /\ custom \cap DIMENSIONS = {}
        /\ \A name \in custom : payload.custom[name] # {}
        /\ custom \subseteq DOMAIN payload.weights
        /\ DOMAIN payload.weights \subseteq known
        /\ \A name \in DOMAIN payload.weights : payload.weights[name] >= 0
        /\ \E name \in known : WithDefaults(payload.weights)[name] > 0
        /\ DOMAIN payload.bars \subseteq known
        /\ \A name \in DOMAIN payload.bars : payload.bars[name] \in 0 .. One

\* The rubric a payload loads as. Only the ratios of the weights matter, so
\* they are not scaled to add up to one.
Loaded(payload) == [payload EXCEPT !.weights = WithDefaults(@)]

-----------------------------------------------------------------------------
(* The dimensions. Each returns a score, the share of what was judged that *)
(* was seen, and whether it cites anything.                                *)

SEVERITY_PENALTY == [critical |-> 100, high |-> 60, medium |-> 30, low |-> 15, info |-> 0]

\* The table of findings is finite, and grades each of them.
ASSUME FindingAssumption ==
    /\ IsFiniteSet(DOMAIN Finding)
    /\ \A check \in DOMAIN Finding :
           /\ Finding[check].severity \in DOMAIN SEVERITY_PENALTY
           /\ Finding[check].confidence \in Nat

FULL_BREADTH_REPOS == 5
CONTRADICTION_WEIGHT == 2

Unmeasured == [score |-> None, coverage |-> 0, evidence |-> FALSE]

Measured(dimension) == dimension.coverage > 0 /\ dimension.score # None

\* The old bug of dimensions.py: a partial read counted as a full one.
MutAccountRead(dossier) == IF dossier.analysed > 0 THEN One ELSE 0

\* _account_read: how much of the account was cloned at all, to a millionth.
AccountRead(dossier) ==
    IF dossier.considered <= 0
    THEN IF dossier.analysed > 0 THEN One ELSE 0
    ELSE Capped(Quotient(One * dossier.analysed, dossier.considered))

\* _live_flags.
LiveFlags(dossier, dismissed, checks) ==
    {flag \in dossier.red_flags \ dismissed : flag.check \in checks}

\* _penalty, in millionths.
Penalty(flags) ==
    SumFunction([flag \in flags |-> SEVERITY_PENALTY[Finding[flag.check].severity]
                                        * Finding[flag.check].confidence * 100])

\* A penalty averaged over the flags instead of over what was analysed.
MutFromPenalty(dossier, flags, scale, coverage) ==
    IF flags = {} /\ dossier.snapshot = {}
    THEN Unmeasured
    ELSE [score |-> One - Capped(Quotient(Penalty(flags), Max({1, Cardinality(flags)}))),
          coverage |-> coverage, evidence |-> TRUE]

\* _from_penalty: flags cite themselves, a clean read cites what it read.
FromPenalty(dossier, flags, scale, coverage) ==
    IF flags = {} /\ dossier.snapshot = {}
    THEN Unmeasured
    ELSE [score |-> One - Capped(Quotient(Penalty(flags), Max({1, scale}))),
          coverage |-> coverage, evidence |-> TRUE]

ChecksOf(families) == {k \in DOMAIN Finding : Finding[k].family \in families}

\* A dimension over every repository that was read: score_authenticity, and
\* score_custom for the checks a team named.
OverRepositories(dossier, dismissed, checks) ==
    IF dossier.analysed = 0
    THEN Unmeasured
    ELSE FromPenalty(dossier, LiveFlags(dossier, dismissed, checks), dossier.analysed,
                     Capped(Quotient(One * dossier.analysed, Max({1, dossier.considered}))))

\* A share of the portfolio that may exceed the whole.
MutDeepSeen(dossier) == dossier.deep

\* Of the repositories holding authored code, how many an analyser inspected: a
\* repository may be inspected and hold none.
DeepSeen(dossier) == Min({dossier.deep, Max({1, dossier.authored})})

\* _codeeval_dimension.
OverCode(dossier, dismissed, family) ==
    IF dossier.deep = 0 \/ AccountRead(dossier) <= 0
    THEN Unmeasured
    ELSE FromPenalty(dossier, LiveFlags(dossier, dismissed, ChecksOf({family})), dossier.deep,
                     Quotient(AccountRead(dossier) * DeepSeen(dossier),
                              Max({1, dossier.authored})))

\* score_claim_corroboration.
ClaimCorroboration(dossier) ==
    LET raw == dossier.corroborated - CONTRADICTION_WEIGHT * dossier.contradicted
    IN  IF dossier.resolved = 0 \/ (dossier.cited = {} /\ dossier.snapshot = {})
        THEN Unmeasured
        ELSE [score |-> Quotient(One * Max({0, raw}), dossier.resolved),
              coverage |-> Quotient(One * dossier.resolved, dossier.claims),
              evidence |-> TRUE]

\* score_breadth.
Breadth(dossier) ==
    IF dossier.analysed = 0 \/ dossier.snapshot = {}
    THEN Unmeasured
    ELSE [score |-> Capped(Quotient(One * dossier.authored, FULL_BREADTH_REPOS)),
          coverage |-> AccountRead(dossier), evidence |-> TRUE]

\* score_dimensions.
ScoreDimensions(dossier, dismissed, rubric) ==
    [name \in DIMENSIONS \cup DOMAIN rubric.custom |->
        CASE name = "authenticity" ->
                 OverRepositories(dossier, dismissed, ChecksOf({"provenance", "contradiction"}))
          [] name = "code_quality" -> OverCode(dossier, dismissed, "quality")
          [] name = "claim_corroboration" -> ClaimCorroboration(dossier)
          [] name = "test_quality" -> OverCode(dossier, dismissed, "tests")
          [] name = "security" -> OverCode(dossier, dismissed, "security")
          [] name = "breadth" -> Breadth(dossier)
          [] OTHER -> OverRepositories(dossier, dismissed, rubric.custom[name])]

\* DimensionScore.__post_init__, which raises on anything else.
WellFormed(dimension) ==
    /\ dimension.coverage \in 0 .. One
    /\ dimension.coverage = 0 <=> dimension.score = None
    /\ dimension.coverage > 0 => dimension.score \in 0 .. One /\ dimension.evidence

-----------------------------------------------------------------------------
(* The candidate, and the cohort.                                          *)

BAND_FLOOR == 50000
BAND_SPAN == 4      \* a quarter of what is not covered

\* score_candidate, once the dimensions are scored: the weighted mean of what
\* could be measured.
Weighted(dimensions, rubric) ==
    LET measured == {d \in DOMAIN dimensions :
                        Measured(dimensions[d]) /\ rubric.weights[d] > 0}
        total == SumFunction([d \in measured |-> rubric.weights[d]])
        Mean(of) == Quotient(SumFunction([d \in measured |-> rubric.weights[d] * of[d]]), total)
        coverage == Mean([d \in measured |-> dimensions[d].coverage])
    IN  IF measured = {}
        THEN [score |-> None, width |-> One \div 2, coverage |-> 0,
              dimensions |-> dimensions, breaches |-> {}]
        ELSE [score |-> Mean([d \in measured |-> dimensions[d].score]),
              width |-> BAND_FLOOR + Quotient(One - coverage, BAND_SPAN),
              coverage |-> coverage,
              dimensions |-> dimensions,
              breaches |-> {d \in measured \cap DOMAIN rubric.bars :
                               dimensions[d].score < rubric.bars[d]}]

ScoreCandidate(dossier, rubric, dismissed) ==
    Weighted(ScoreDimensions(dossier, dismissed, rubric), rubric)

\* compare: by score, then by handle. A candidate nobody could score is
\* reported apart, without a rank. Handles are numbered alphabetically.
Scored(scores) == {c \in DOMAIN scores : scores[c].score # None}

Above(scores, a, b) ==
    \/ scores[a].score > scores[b].score
    \/ scores[a].score = scores[b].score /\ a < b

RankOf(scores, c) ==
    IF c \in Scored(scores)
    THEN 1 + Cardinality({b \in Scored(scores) : Above(scores, b, c)})
    ELSE None

=============================================================================
