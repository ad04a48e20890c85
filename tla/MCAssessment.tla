---------------------------- MODULE MCAssessment ----------------------------
(* Two candidates with two repositories each, of kinds that make the        *)
(* dimensions differ: work of their own (analysed in depth or not), a fork   *)
(* they barely touched, a repository that holds none of their code. The      *)
(* findings carry the severities and confidences of the source. Two resumes  *)
(* and two exports state a nationality; the language model phrases covered   *)
(* and uncovered lines, repeats itself and invents.                          *)
EXTENDS Assessment

MCFinding ==
    [low_contribution    |-> [family |-> "provenance", severity |-> "high", confidence |-> 70],
     template_inflation  |-> [family |-> "provenance", severity |-> "low", confidence |-> 90],
     high_complexity     |-> [family |-> "quality", severity |-> "medium", confidence |-> 95],
     no_tests            |-> [family |-> "tests", severity |-> "medium", confidence |-> 90],
     hardcoded_secret    |-> [family |-> "security", severity |-> "high", confidence |-> 80],
     coverage_note       |-> [family |-> "note", severity |-> "info", confidence |-> 100],
     contradicted_claim  |-> [family |-> "contradiction", severity |-> "critical",
                              confidence |-> 70]]

MCDisputes == {"low_contribution"}

Own == [share |-> 90, lines |-> 900, deep |-> TRUE, checks |-> {"no_tests"}]
Tangled == [share |-> 80, lines |-> 300, deep |-> TRUE,
            checks |-> {"high_complexity", "hardcoded_secret"}]
Shallow == [share |-> 60, lines |-> 500, deep |-> FALSE,
            checks |-> {"template_inflation", "coverage_note"}]
Borrowed == [share |-> 5, lines |-> 0, deep |-> TRUE, checks |-> {"low_contribution"}]

MCHeadings ==
    [PROJECTS |-> "project", EDUCATION |-> "education", SKILLS |-> "skill",
     EXPERIENCE |-> "role"]

Nationality == <<"nationality:", "indian">>

Resume(lines) == [document |-> "resume", lines |-> lines]

Short == Resume(<<<<"PROJECTS">>, <<"payments", "-", "ledger">>>>)
Graduate == Resume(Short.lines \o <<<<"EDUCATION">>, Nationality, <<"degree">>>>)
Engineer ==
    Resume(<<Nationality, <<"SKILLS">>,
             <<"python", ",", "go", ",", "python", ",">> \o Nationality \o <<",", "sql">>,
             <<"go">>, <<>>,
             <<"EXPERIENCE">>, <<"built", "billing", "ledger">>>>)

Positions ==
    [form |-> "csv", document |-> "Positions.csv", kind |-> "role",
     rows |-> <<[company |-> <<"acme">>, title |-> <<"engineer">>, dates |-> <<"recently">>,
                 description |-> Nationality \o <<".", "built", "billing", "ledger", ".">>],
                [company |-> <<>>, title |-> <<>>, description |-> <<>>, dates |-> <<>>]>>]
SkillRows ==
    [form |-> "csv", document |-> "Skills.csv", kind |-> "skill",
     rows |-> <<[company |-> <<>>, title |-> <<"python">>, description |-> <<>>, dates |-> <<>>],
                [company |-> <<>>, title |-> <<>>, description |-> <<"django">>, dates |-> <<>>]>>]
Manual ==
    [form |-> "json", document |-> "linkedin.json",
     positions |-> <<[company |-> <<>>, title |-> <<"engineer">>, description |-> Nationality],
                     [company |-> <<>>, title |-> <<>>, description |-> <<>>]>>,
     skills |-> <<<<"python">>, <<>>, <<"payments">>>>, endorsements |-> <<<<"python">>>>]

\* The second repository is a fork under the first one's name.
MCBears(claim) ==
    IF claim.kind \notin {"project", "skill", "role", "achievement"} THEN <<>>
    ELSE CASE claim.subject = <<"payments">> -> <<"r1", "r2">>
           [] claim.subject = <<"python">> -> <<"r1">>
           [] claim.subject = None /\ "ledger" \in Range(claim.text) -> <<"r2">>
           [] OTHER -> <<>>

Asked(state, items) ==
    [resume |-> TRUE, linkedin |-> TRUE, model |-> state, items |-> items]

Item(kind, of, leaving, subject) ==
    [kind |-> kind, of |-> of, leaving |-> leaving, subject |-> subject]

MCReadings ==
    {Plain, [Plain EXCEPT !.resume = FALSE], [Plain EXCEPT !.linkedin = FALSE],
     Asked("garbled", <<>>),
     Asked("answered", <<Item("project", 2, 2, None), Item("achievement", 2, 2, None),
                         Item("achievement", 2, 1, <<"payments">>), Item("role", 2, 0, None),
                         Item("skill", 9, 0, None)>>),
     Asked("answered", <<Item("skill", 3, 4, <<"python">>), Item("skill", 7, 1, <<"payments">>),
                         Item("hobby", 7, 0, None), Item("role", 4, 0, None),
                         Item("education", 1, 0, None), Item("achievement", 1, 2, None)>>)}

Pair(a, b) == [r1 |-> a, r2 |-> b]

Portfolio(works, resume, linkedin) ==
    [works |-> works, resume |-> resume, linkedin |-> linkedin]

MCPortfolios ==
    <<{Portfolio(Pair(Own, Borrowed), Graduate, SkillRows),
       Portfolio(Pair(Tangled, Shallow), Engineer, Positions),
       Portfolio(Pair(Shallow, Borrowed), Engineer, Manual)},
      {Portfolio(Pair(Own, Tangled), None, None), Portfolio(Pair(Own, Borrowed), Short, None)}>>

MCRubrics ==
    {[weights |-> [breadth |-> 5], bars |-> [security |-> 700000], custom |-> <<>>],
     [weights |-> [authenticity |-> 0, no_secrets |-> 40], bars |-> [no_secrets |-> 900000],
      custom |-> [no_secrets |-> {"hardcoded_secret"}]],
     \* refused: the dimension has no weight
     [weights |-> [breadth |-> 5], bars |-> [breadth |-> 0],
      custom |-> [no_secrets |-> {"hardcoded_secret"}]]}

=============================================================================
