------------------------------- MODULE Posting -------------------------------
(***************************************************************************)
(* What a job description changes: the weights of the rubric that is       *)
(* derived from it (jobspec.py), and which repositories of a large account *)
(* are read (relevance.py).                                                *)
(*                                                                         *)
(* A text is a sequence of words and marks, in lower case; the tables of   *)
(* phrases, cues and languages are constants, and the window of a negation *)
(* is counted in words. Weights are in hundredths, as in Ranking, and so   *)
(* are the points of a repository. The reasons given for a choice are left *)
(* out.                                                                    *)
(***************************************************************************)
EXTENDS Ranking, SequencesExt

CONSTANTS
    SIGNALS,                \* SIGNALS[d]: the phrases that name dimension d
    NEGATION_CUES,          \* phrases that deny what follows in their clause
    ClauseBoundaries,
    NEGATION_WINDOW,
    LANGUAGE_TERMS,         \* the language a word names
    FRAMEWORK_LANGUAGES,    \* the languages a word implies
    AMBIGUOUS_LANGUAGE_TERMS,
    LEAD_IN, FOLLOW_ON,     \* words that make an ambiguous term a language
    Opening, Closing,       \* marks before and after that do
    Stopwords,              \* marks, and words that are too short or common to say
                            \* anything of a repository
    relevance_threshold,
    relevance_limit

\* The settings are any numbers of repositories; nobody configures fewer than none.
ASSUME SelectionAssumption ==
    {relevance_threshold, relevance_limit} \subseteq Nat

\* Finitely many phrases name a dimension, which is a built-in one; a phrase is a
\* list of words, and so many words before it may deny it.
ASSUME SignalsAssumption ==
    /\ DOMAIN SIGNALS \subseteq DIMENSIONS
    /\ \A d \in DOMAIN SIGNALS :
           /\ IsFiniteSet(SIGNALS[d])
           /\ \A phrase \in SIGNALS[d] : phrase \in Seq(Range(phrase))
    /\ NEGATION_WINDOW \in Nat

-----------------------------------------------------------------------------
(* The rubric.                                                             *)

EMPHASIS_STEP == 12
MAX_STEPS == 3

Phrases == UNION {SIGNALS[d] : d \in DOMAIN SIGNALS}

At(text, phrase, k) == IsPrefix(phrase, SubSeq(text, k, Len(text)))

\* The scanner: at each word, unless it is inside the match before, the longest
\* phrase that begins there.
Matches(text) ==
    LET Longest(k) ==
            LET here == {phrase \in Phrases : At(text, phrase, k)}
            IN  {phrase \in here : \A other \in here : Len(other) <= Len(phrase)}
        Scan(scanned, k) ==
            IF k < scanned.next \/ Longest(k) = {}
            THEN scanned
            ELSE LET phrase == CHOOSE p \in Longest(k) : TRUE
                 IN  [next |-> k + Len(phrase),
                      found |-> scanned.found \cup {[at |-> k, phrase |-> phrase]}]
    IN  FoldLeftDomain(Scan, [next |-> 1, found |-> {}], text).found

\* The clause to its end.
MutClause(text, start) ==
    LET first == Max({1, start - NEGATION_WINDOW})
        boundaries == {k \in first .. start - 1 : text[k] \in ClauseBoundaries}
    IN  SubSeq(text, Max({first} \cup {k + 1 : k \in boundaries}), Len(text))

\* The words before a phrase, back to the last boundary and no further than the
\* window.
Clause(text, start) ==
    LET first == Max({1, start - NEGATION_WINDOW})
        boundaries == {k \in first .. start - 1 : text[k] \in ClauseBoundaries}
    IN  SubSeq(text, Max({first} \cup {k + 1 : k \in boundaries}), start - 1)

\* _is_negated.
IsNegated(text, start) ==
    LET clause == Clause(text, start)
    IN  \E cue \in NEGATION_CUES, k \in DOMAIN clause : At(clause, cue, k)

\* read_job_description: the phrases that name a dimension and are not denied.
Emphases(text) ==
    LET asked == {match.phrase : match \in {m \in Matches(text) : ~IsNegated(text, m.at)}}
    IN  [d \in DOMAIN SIGNALS |-> SIGNALS[d] \cap asked]

\* An emphasis that replaces the default weight.
MutDerivedWeights(emphases) ==
    WithDefaults([d \in {e \in DOMAIN SIGNALS : emphases[e] # {}} |->
        EMPHASIS_STEP * Min({Cardinality(emphases[d]), MAX_STEPS})])

\* derive_rubric. Other dimensions keep their weight, before all are scaled.
DerivedWeights(emphases) ==
    WithDefaults([d \in {e \in DOMAIN SIGNALS : emphases[e] # {}} |->
        DEFAULT_WEIGHTS[d] + EMPHASIS_STEP * Min({Cardinality(emphases[d]), MAX_STEPS})])

DerivedRubric(emphases) == Loaded([weights |-> DerivedWeights(emphases), bars |-> <<>>,
                                   custom |-> <<>>])

-----------------------------------------------------------------------------
(* The selection.                                                          *)

WordAt(text, k) == IF k \in DOMAIN text THEN text[k] ELSE ""

\* _named_as_a_language.
NamedAsALanguage(text, k) ==
    \/ text[k] \notin AMBIGUOUS_LANGUAGE_TERMS
    \/ WordAt(text, k - 1) \in LEAD_IN \cup Opening
    \/ WordAt(text, k + 1) \in FOLLOW_ON \cup Closing

\* _languages_named: what the text names, and what its frameworks imply.
LanguagesNamed(text) ==
    {LANGUAGE_TERMS[text[k]] :
        k \in {n \in DOMAIN text : text[n] \in DOMAIN LANGUAGE_TERMS /\ NamedAsALanguage(text, n)}}
    \cup UNION {FRAMEWORK_LANGUAGES[word] : word \in Range(text) \cap DOMAIN FRAMEWORK_LANGUAGES}

\* _terms. A word keeps the full stop behind it, and is then another word, which
\* no topic is. No term has a hyphen: a topic with one matches nothing, and the
\* topics of a repository are here those without.
Terms(text) == {text[k] : k \in {n \in DOMAIN text : WordAt(text, n + 1) # "."}} \ Stopwords

LANGUAGE_MATCH == 600
TOPIC_MATCH == 300
DESCRIPTION_MATCH == 200
FORK_PENALTY == -400
SIZE_WEIGHT == 100
RECENCY_WEIGHT == 150

Matched(repo, text) ==
    (IF repo.language \in LanguagesNamed(text) THEN LANGUAGE_MATCH ELSE 0)
    + TOPIC_MATCH * Min({2, Cardinality(repo.topics \cap Terms(text))})
    + DESCRIPTION_MATCH * Min({2, Cardinality(repo.described \cap Terms(text))})

\* Size without its cap.
MutStanding(repo) ==
    repo.size + CASE repo.pushed = "recently" -> RECENCY_WEIGHT
                  [] repo.pushed = "last year" -> RECENCY_WEIGHT \div 2
                  [] repo.pushed = "long ago" -> 0

\* Size, in hundredths of what counts as large, and recency.
Standing(repo) ==
    Min({repo.size, SIZE_WEIGHT}) + CASE repo.pushed = "recently" -> RECENCY_WEIGHT
                                      [] repo.pushed = "last year" -> RECENCY_WEIGHT \div 2
                                      [] repo.pushed = "long ago" -> 0

\* _score.
RepositoryScore(repo, text) ==
    Matched(repo, text) + (IF repo.fork THEN FORK_PENALTY ELSE 0) + Standing(repo)

\* select_repositories: all of a small account, or the best by score and name.
\* Repositories are numbered by name.
SelectRepositories(repos, text) ==
    LET score == [r \in DOMAIN repos |-> RepositoryScore(repos[r], text)]
        Before(r) == {q \in DOMAIN repos :
                         \/ score[q] > score[r]
                         \/ score[q] = score[r] /\ q < r}
    IN  IF Len(repos) <= relevance_threshold
        THEN DOMAIN repos
        ELSE {r \in DOMAIN repos : Cardinality(Before(r)) < relevance_limit}

=============================================================================
