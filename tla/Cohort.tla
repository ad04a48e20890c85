------------------------------- MODULE Cohort -------------------------------
(***************************************************************************)
(* A job description is written, word after word, and after each word a    *)
(* cohort is compared by the rubric derived from it (rank/compare.py), the *)
(* comparison is audited by the groups a recruiter labelled the candidates *)
(* with (fairness/audit.py), and an account is cut to what is worth        *)
(* reading (relevance.py).                                                 *)
(*                                                                         *)
(* A candidate is what was measured of each dimension. Handles are         *)
(* numbered alphabetically.                                                *)
(***************************************************************************)
EXTENDS Posting

CONSTANTS
    Words,          \* the words a posting is written in
    MaxWords,       \* bound on its length
    Profiles,       \* what may be measured of a candidate
    CohortSize,
    Labelings,      \* the group of each candidate, or None
    TopK,           \* how many are selected
    FallsShort,     \* the rates at exactly four fifths whose quotient, divided as
                    \* doubles are, is below it
    Account         \* the repositories of an account, by name

\* What GitHub says of a repository, as far as a selection counts with it.
ASSUME AccountAssumption ==
    /\ Account \in Seq(Range(Account))
    /\ \A r \in DOMAIN Account :
           /\ Account[r].fork \in BOOLEAN
           /\ Account[r].size \in Nat
           /\ Account[r].pushed \in {"recently", "last year", "long ago"}

ASSUME CohortAssumption == CohortSize \in Nat

\* Of every built-in dimension something or nothing was measured.
ASSUME ProfilesAssumption ==
    \A person \in Profiles :
        /\ DOMAIN person = DIMENSIONS
        /\ \A d \in DIMENSIONS :
               person[d].score \in Int \cup {None} /\ person[d].coverage \in Int

Candidates == 1 .. CohortSize

VARIABLES
    text,           \* the posting
    emphases,       \* the phrases it asks with, by dimension
    cohort,         \* cohort[c]: the dimensions of candidate c
    labels,         \* labels[c]: the group of candidate c, or None
    scores,         \* the scores by the derived rubric
    groups          \* tie_group of each ranked candidate

vars == <<text, emphases, cohort, labels, scores, groups>>

-----------------------------------------------------------------------------
(* compare.                                                                *)

Ordered(scored) ==
    [k \in 1 .. Cardinality(Scored(scored)) |->
        CHOOSE c \in Scored(scored) : RankOf(scored, c) = k]

Overlap(scored, a, b) ==
    scored[a].score - scored[b].score < Min({scored[a].width, scored[b].width})

\* A candidate is tied with the first of a group, or begins one.
MutTieGroups(scored) ==
    LET ordered == Ordered(scored)
        Place(c, placed) ==
            IF placed.first # None /\ Overlap(scored, placed.first, c)
            THEN [placed EXCEPT !.of = @ @@ (c :> placed.group)]
            ELSE [first |-> c, group |-> placed.group + 1,
                  of |-> placed.of @@ (c :> placed.group + 1)]
    IN  FoldLeft(LAMBDA placed, c : Place(c, placed),
                 [first |-> None, group |-> -1, of |-> <<>>], ordered).of

\* A candidate is tied with the one before, or begins a group.
TieGroups(scored) ==
    LET ordered == Ordered(scored)
        Begins(k) == k > 1 /\ ~Overlap(scored, ordered[k - 1], ordered[k])
        Position(c) == CHOOSE k \in DOMAIN ordered : ordered[k] = c
    IN  [c \in Scored(scored) |-> Cardinality({k \in 1 .. Position(c) : Begins(k)})]

-----------------------------------------------------------------------------
(* audit_comparison.                                                       *)

MIN_GROUP_SIZE == 2

\* The ranked candidates of a group: somebody nobody could score is in none.
Considered(group) == {c \in Scored(scores) : labels[c] = group}

SelectedOf(group) == {c \in Considered(group) : RankOf(scores, c) <= TopK}

LabelledGroups == {labels[c] : c \in Scored(scores)} \ {None}

\* _selection.
SelectionRate(group) ==
    Quotient(One * Cardinality(SelectedOf(group)), Cardinality(Considered(group)))

\* Groups of one are judged as well.
MutJudged == Cardinality(LabelledGroups) >= 2

\* A verdict needs two groups, and none of them too small.
Judged ==
    /\ Cardinality(LabelledGroups) >= 2
    /\ \A group \in LabelledGroups : Cardinality(Considered(group)) >= MIN_GROUP_SIZE

\* ratio >= FOUR_FIFTHS: between the rounded rates nothing is lost by dividing,
\* except where they are at four fifths exactly.
AtLeastFourFifths(least, most) ==
    \/ 5 * least > 4 * most
    \/ 5 * least = 4 * most /\ <<least, most>> \notin FallsShort

\* passes_four_fifths: the ratio of the smallest to the largest rate, if anybody
\* was selected.
PassesFourFifths ==
    LET rates == {SelectionRate(group) : group \in LabelledGroups}
    IN  IF ~Judged THEN None ELSE Max(rates) > 0 /\ AtLeastFourFifths(Min(rates), Max(rates))

-----------------------------------------------------------------------------

Rescore(people, phrases) ==
    /\ scores' = [c \in Candidates |-> Weighted(people[c], DerivedRubric(phrases))]
    /\ groups' = TieGroups(scores')

Init ==
    /\ text = <<>>
    /\ emphases = Emphases(<<>>)
    /\ cohort \in [Candidates -> Profiles]
    /\ labels \in Labelings
    /\ scores = [c \in Candidates |-> Weighted(cohort[c], DerivedRubric(emphases))]
    /\ groups = TieGroups(scores)

Write(word) ==
    /\ Len(text) < MaxWords
    /\ text' = Append(text, word)
    /\ emphases' = Emphases(text')
    /\ Rescore(cohort, emphases')
    /\ UNCHANGED <<cohort, labels>>

Next == \E word \in Words : Write(word)

Spec == Init /\ [][Next]_vars

-----------------------------------------------------------------------------
(* Properties.                                                             *)

MeasuredOf(c) == {d \in DOMAIN cohort[c] : Measured(cohort[c][d])}

\* To ask for something never puts the better at it behind: when a posting comes
\* to name one dimension more often, a candidate who was not behind another
\* measured on the same dimensions, and is not worse at this one, is still not
\* behind, although the other weights shrink as they are scaled.
EmphasisNeverHurtsTheBest ==
    [][\A d \in DOMAIN SIGNALS :
           /\ Cardinality(emphases'[d]) > Cardinality(emphases[d])
           /\ \A e \in DOMAIN SIGNALS \ {d} : emphases'[e] = emphases[e]
           => \A a, b \in Scored(scores) :
                  /\ MeasuredOf(a) = MeasuredOf(b) /\ d \in MeasuredOf(a)
                  /\ cohort[a][d].score >= cohort[b][d].score
                  /\ scores[a].score >= scores[b].score
                  => scores'[a].score >= scores'[b].score]_vars

\* What a posting asks for, it goes on asking for as it is written, whatever it
\* denies later: no phrase is withdrawn, unless it turns out to be part of a longer
\* one ("end-to-end tests" is not about who wrote what end to end).
AskedStaysAsked ==
    [][\A d \in DOMAIN SIGNALS : \A phrase \in emphases[d] \ emphases'[d] :
           \E longer \in Phrases \ {phrase} :
               /\ IsSuffix(longer, text')
               /\ \E k \in DOMAIN longer : At(longer, phrase, k)]_vars

\* "Two candidates whose scores sit inside each other's confidence bands are a
\* tie, and are reported as one", unless somebody between them is surer of
\* their place: also of two who are not neighbours.
OverlapSharesGroup ==
    \A a, b \in Scored(scores) :
        /\ Above(scores, a, b) /\ Overlap(scores, a, b)
        /\ \A c \in Scored(scores) :
               Above(scores, a, c) /\ Above(scores, c, b) =>
                   scores[c].width >= Min({scores[a].width, scores[b].width})
        => groups[a] = groups[b]

\* "One enormous repository cannot crowd out everything a posting actually asked
\* for": no repository that matches nothing is read in the place of work of the
\* candidate's own in a language or on a topic the posting names.
MatchIsNeverCrowdedOut ==
    LET selected == SelectRepositories(Account, text)
    IN  \A r \in DOMAIN Account \ selected, q \in selected :
            /\ ~Account[r].fork
            /\ \/ Account[r].language \in LanguagesNamed(text)
               \/ Account[r].topics \cap Terms(text) # {}
            => Matched(Account[q], text) > 0

\* How many of g are selected for every one of h, over a common denominator.
Share(g, h) == Cardinality(SelectedOf(g)) * Cardinality(Considered(h))

\* A verdict on the four-fifths rule is about groups of two or more, and right:
\* a pass only if somebody is selected, and no group at less than four fifths of
\* the rate of another; a failure only if some group is not selected at more
\* than four fifths of another, or of its own rate, which is zero.
VerdictIsFourFifths ==
    PassesFourFifths # None =>
        /\ \A g \in LabelledGroups : Cardinality(Considered(g)) > 1
        /\ PassesFourFifths =>
               /\ \E g \in LabelledGroups : SelectedOf(g) # {}
               /\ \A g, h \in LabelledGroups : 5 * Share(g, h) >= 4 * Share(h, g)
        /\ ~PassesFourFifths =>
               \E g, h \in LabelledGroups : 5 * Share(g, h) <= 4 * Share(h, g)

=============================================================================
