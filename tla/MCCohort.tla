------------------------------ MODULE MCCohort ------------------------------
(* Four candidates, a small vocabulary with a phrase inside another one, a  *)
(* cue, a boundary and an ambiguous language, and an account of five        *)
(* repositories of which two are read.                                      *)
EXTENDS Cohort

MCFinding == [none |-> [family |-> "note", severity |-> "info", confidence |-> 100]]

\* No claims are made here.
MCBears(claim) == <<>>

MCSignals == [authenticity |-> {<<"e2e">>},
              test_quality |-> {<<"e2e", "tests">>, <<"tests">>},
              breadth |-> {<<"polyglot">>}]

MCCues == {<<"no">>}

MCLanguages == [python |-> "Python", go |-> "Go"]
MCFrameworks == [django |-> {"Python"}]

\* One dimension after another: [score, coverage].
Seen(score, coverage) == [score |-> score, coverage |-> coverage, evidence |-> TRUE]

Profile(a, t, b) ==
    [authenticity |-> a, test_quality |-> t, breadth |-> b] @@
    [d \in DIMENSIONS |-> Unmeasured]

MCProfiles ==
    {Profile(Seen(900000, 1000000), Seen(200000, 1000000), Seen(1000000, 1000000)),
     Profile(Seen(500000, 800000), Seen(800000, 800000), Seen(200000, 400000)),
     Profile(Seen(700000, 500000), Seen(600000, 900000), Unmeasured),
     Profile(Unmeasured, Unmeasured, Unmeasured)}

MCLabelings ==
    {<<"x", "x", "y", "y">>, <<"x", "y", "x", None>>}

\* All there are of groups of up to twelve: 3/10 of 3/8, 3/5 of 3/4, 7/10 of 7/8.
MCFallsShort == {<<300000, 375000>>, <<600000, 750000>>, <<700000, 875000>>}

Repo(language, topics, described, fork, size, pushed) ==
    [language |-> language, topics |-> topics, described |-> described, fork |-> fork,
     size |-> size, pushed |-> pushed]

MCAccount ==
    <<Repo("C", {}, {}, FALSE, 900, "recently"),
      Repo("C", {}, {}, FALSE, 80, "recently"),
      Repo("Python", {}, {}, FALSE, 5, "long ago"),
      Repo("Go", {"tests"}, {}, TRUE, 40, "last year"),
      Repo("C", {"polyglot"}, {"django", "tests"}, FALSE, 1, "long ago")>>

=============================================================================
