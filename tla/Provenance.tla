----------------------------- MODULE Provenance -----------------------------
(***************************************************************************)
(* One repository, and what its history is held to say of the candidate:   *)
(* who wrote a commit (context.py), the provenance checks (provenance/),   *)
(* the evidence reconciliation is given (pipeline.py, build_evidence), and *)
(* its verdict on the candidate's claim to have built it.                  *)
(*                                                                         *)
(* The history grows and is rewritten, and the account is renamed, as git  *)
(* and GitHub allow; after each step the repository is read again. A       *)
(* commit carries its author's name and one of GitHub's private addresses, *)
(* with the number of the account or, as older ones do, without; any other *)
(* name or address the candidate is known by would be one more of          *)
(* `identities`. Files are two numbers, the lines authored and the lines   *)
(* vendored, and dates are seconds. Shares are in per cent. Duplication    *)
(* between profiles, which is never held against anyone, is left out.      *)
(***************************************************************************)
EXTENDS Reconcile, SequencesExt

CONSTANTS
    Shapes,         \* the lines and vendored lines a commit may have
    Dates,          \* the author dates a commit may have
    Late,           \* the date of a rebase, after all of these
    MaxCommits,     \* bound on the history
    burst_window_seconds,
    burst_min_commits,
    bulk_dump_loc_share,
    bulk_dump_min_loc,
    fork_min_total_loc,
    inflation_authored_share,
    inflation_min_total_loc,
    contribution_low_share

ASSUME ProvenanceAssumption ==
    /\ \A shape \in Shapes : shape.lines \in Nat /\ shape.vendored \in Nat
    /\ Dates \subseteq Nat /\ \A date \in Dates : date < Late
    /\ {inflation_min_total_loc, fork_min_total_loc, bulk_dump_min_loc} \subseteq Nat \ {0}

VARIABLES
    commits,        \* the history, oldest first
    login,          \* what the account is called now
    aliases,        \* the names the candidate gave besides
    fork,           \* whether GitHub reports a fork
    report          \* what reading the repository says

vars == <<commits, login, aliases, fork, report>>

-----------------------------------------------------------------------------
(* Who wrote a commit. The account of the candidate has the number 1 and was *)
(* called "old"; another account, number 2, may have taken that name since, *)
(* and anybody may be called what the candidate's account is called.       *)

user_id == 1

\* fetch_identity: names, and the logins whose older addresses count.
Identities(name) == {name} \cup aliases

\* An older address, which has no number, is nobody's.
MutByNumber(commit, identities) ==
    commit.name \in identities \/ commit.id = user_id

\* A commit belongs to whoever has the login in its address now.
MutByLogin(commit, identities) ==
    commit.name \in identities \/ commit.login \in identities

\* is_candidate: by the author's name first, then by the number where there is one.
IsCandidate(commit, identities) ==
    \/ commit.name \in identities
    \/ IF commit.id # None THEN commit.id = user_id ELSE commit.login \in identities

\* is_bot, by the suffix or the list of services.
IsBot(commit) == commit.bot

\* Everyone's commits, machines' as well.
MutHuman(history) == history

\* human_commits.
Human(history) == SelectSeq(history, LAMBDA commit : ~IsBot(commit))

\* authored_commits.
Authored(history, identities) ==
    SelectSeq(history, LAMBDA commit : IsCandidate(commit, identities))

-----------------------------------------------------------------------------
(* The checks.                                                             *)

Lines(history) == FoldSeq(LAMBDA commit, sum : sum + commit.lines, 0, history)
Vendored(history) == FoldSeq(LAMBDA commit, sum : sum + commit.vendored, 0, history)

\* When a commit was put where it is.
MutWritten(commit) == commit.committed

\* "Author dates, not committer dates."
Written(commit) == commit.authored

\* The longest run of commits that begins at one of them and fits the window.
LargestBurst(history) ==
    LET sorted == SortSeq(history, LAMBDA a, b : Written(a) < Written(b))
        Fits(first, last) ==
            Written(sorted[last]) - Written(sorted[first]) <= burst_window_seconds
        From(first) ==
            Cardinality({last \in first .. Len(sorted) :
                            \A k \in first .. last : Fits(first, k)})
    IN  Max({0} \cup {From(first) : first \in DOMAIN sorted})

CadenceBurst(history) ==
    /\ Len(Human(history)) >= burst_min_commits
    /\ LargestBurst(Human(history)) >= burst_min_commits

\* The commits of machines count here.
BulkDump(history) ==
    /\ history # <<>>
    /\ Lines(history) >= bulk_dump_min_loc
    /\ 100 * history[1].lines >= bulk_dump_loc_share * Lines(history)

ForkPresentedAsOriginal(history, identities) ==
    /\ fork
    /\ Human(history) # <<>>
    /\ Lines(Human(history)) >= fork_min_total_loc
    /\ 4 * Lines(Authored(history, identities)) <= Lines(Human(history))

AllLines(history) == Lines(Human(history)) + Vendored(Human(history))

TemplateInflation(history) ==
    /\ AllLines(history) >= inflation_min_total_loc
    /\ 100 * Lines(Human(history)) < inflation_authored_share * AllLines(history)

LowContribution(history, identities) ==
    /\ Human(history) # <<>>
    /\ 100 * Len(Authored(history, identities))
           < contribution_low_share * Len(Human(history))

\* run_provenance.
Findings(history, identities) ==
    {check \in {"cadence_burst", "bulk_dump", "fork_presented_as_original",
                "template_inflation", "low_contribution"} :
        CASE check = "cadence_burst" -> CadenceBurst(history)
          [] check = "bulk_dump" -> BulkDump(history)
          [] check = "fork_presented_as_original" -> ForkPresentedAsOriginal(history, identities)
          [] check = "template_inflation" -> TemplateInflation(history)
          [] check = "low_contribution" -> LowContribution(history, identities)}

\* build_evidence, in the form reconciliation compares: a share is above a whole
\* per cent when it is rounded up.
Evidence(history, identities) ==
    LET own == Authored(history, identities)
        humans == Human(history)
    IN  [share |-> IF humans = <<>> THEN 0
                   ELSE (100 * Len(own) + Len(humans) - 1) \div Len(humans),
         lines |-> Lines(own),
         checks |-> Findings(history, identities)]

\* The repository read, and the claim "I built this" judged by it.
Read(history, name) ==
    LET work == Evidence(history, Identities(name))
        claim == [kind |-> "project"]
    IN  [work |-> work,
         verdict |-> Judge([it |-> work], claim, MatchClaim(claim, {"it"})).verdict]

-----------------------------------------------------------------------------
(* The history and the account.                                            *)

Init ==
    /\ commits = <<>>
    /\ login = "old"
    /\ aliases \in {{}, {"old"}}
    /\ fork \in BOOLEAN
    /\ report = Read(<<>>, login)

\* What the account is called after being called name.
Renamed == [name \in {"old", "new"} |-> IF name = "old" THEN "new" ELSE "newest"]

\* How a writer's commits are signed: the candidate's under a name nobody gave, with
\* an older address too; somebody else's under their name or one that is also the
\* candidate's login, from an account that has the login the candidate gave up.
Signatures(writer) ==
    LET taken == IF login = "old" THEN "other" ELSE "old"
    IN  CASE writer = "candidate" ->
                 [id : {user_id, None}, login : {login}, name : {"me"}, bot : {FALSE}]
          [] writer = "other" ->
                 [id : {2}, login : {taken}, name : {"other", login}, bot : {FALSE}]
          [] writer = "machine" ->
                 [id : {user_id, None}, login : {"bot"}, name : {"bot"}, bot : {TRUE}]

Write(writer) ==
    /\ Len(commits) < MaxCommits
    /\ \E signature \in Signatures(writer), shape \in Shapes, date \in Dates :
           commits' = Append(commits, signature @@ shape @@
                          [writer |-> writer, authored |-> date, committed |-> date])
    /\ report' = Read(commits', login)
    /\ UNCHANGED <<login, aliases, fork>>

\* A rebase leaves the author dates alone. One of the whole history stands for
\* the earlier ones (a bound): nothing else tells commits of another date apart.
Rebase ==
    /\ Len(commits) = MaxCommits
    /\ commits' = [k \in DOMAIN commits |-> [commits[k] EXCEPT !.committed = Late]]
    /\ report' = Read(commits', login)
    /\ UNCHANGED <<login, aliases, fork>>

Rename ==
    /\ login \in DOMAIN Renamed
    /\ login' = Renamed[login]
    /\ report' = Read(commits, login')
    /\ UNCHANGED <<commits, aliases, fork>>

Next ==
    \/ \E writer \in {"candidate", "other", "machine"} : Write(writer)
    \/ Rebase
    \/ Rename

Spec == Init /\ [][Next]_vars

-----------------------------------------------------------------------------
(* Properties.                                                             *)

Wrote(writer) ==
    Len(commits') > Len(commits) /\ commits'[Len(commits')].writer = writer

Numbered ==
    \A k \in DOMAIN commits : commits[k].writer = "candidate" => commits[k].id = user_id

\* Somebody else goes by one of the names.
Namesake(names) == \E k \in DOMAIN commits : commits[k].writer = "other" /\ commits[k].name \in names

\* Machines belong in neither half of a ratio: a commit of a machine, however
\* large, changes nothing that is said of the candidate, except that it counts
\* for the bulk of the first commit. A machine that commits under the address
\* of the candidate is not covered: see the README.
AutomationChangesNothing ==
    [][Wrote("machine") /\ ~IsCandidate(commits'[Len(commits')], Identities(login)) =>
           LET Said(r) == <<[r.work EXCEPT !.checks = @ \ {"bulk_dump"}], r.verdict>>
           IN  Said(report') = Said(report)]_vars

\* A history is held to say the same after a rebase, and after the account is
\* renamed if its commits carry the number, also when somebody else has taken a
\* login it had; unless one of the others goes by the login it gives up or takes,
\* for a name counts before the number does.
TidyingChangesNothing ==
    [][/\ Len(commits') = Len(commits)
       /\ login' # login => Numbered /\ ~Namesake({login, login'} \ aliases)
       => report' = report]_vars

\* Doing more work is never held against the candidate: a commit of their own,
\* of lines they wrote, brings no finding about authorship or size, and takes no
\* corroboration away, except that the repository may become large enough to be
\* judged at all.
OwnWorkNeverAccuses ==
    [][Wrote("candidate") /\ commits'[Len(commits')].vendored = 0 =>
           LET new == report'.work.checks \ report.work.checks
           IN  /\ "low_contribution" \notin new
               /\ "template_inflation" \in new => AllLines(commits) < inflation_min_total_loc
               /\ Lines(Human(commits)) >= fork_min_total_loc =>
                      /\ "fork_presented_as_original" \notin new
                      /\ report.verdict = "corroborated" => report'.verdict = "corroborated"]_vars

=============================================================================
