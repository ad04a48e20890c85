# A verification of Veriquill

Veriquill reads the repositories of a job candidate, compares them with what the
candidate claims, scores the result against a recruiter's rubric, ranks a cohort,
and lets nothing leave until a named human has reviewed it. These modules model the
parts of it in which several actors, failures or arithmetic meet: the review gate,
the intake of candidates, the shared rate limit, the clones of an analysis, its
requests to GitHub, what documents are held to claim and histories to show, and the
road from there to a place in the list. TLC checks them on small instances; TLAPS
proves for every instance what matters most about eight of them: the gate alone and
under overlapping requests, the intake, the shared limit, the quota, the pipeline,
scoring with dismissals, and a cohort with its ties, its audit and the selection of
repositories.

Paths below are relative to the repository; `veriquill/` is the Python package.

## 1. The system

### How it executes

- The HTTP service (`api/main.py`) is FastAPI. An endpoint written `def` runs on a
  thread of a pool, with a database session of its own; the `async def` ones
  (`add_candidate` and `start_analysis`) run on the event loop of the process, as do
  background tasks. There may be several server processes over one SQLite file.
- A session (`db.py`, `_session`) commits when its block ends and rolls back if it
  raises. SQLite begins a transaction at the first *write* of a connection: SELECTs
  before it see the latest commit each, and hold no lock. The first INSERT, UPDATE or
  DELETE takes the one write lock, or fails after the connection's busy timeout.
- The ORM writes only the columns whose value changed in the session, and no table
  has a version column, so two sessions that read the same row both commit.
- Analyses read repositories in threads of one process, a bounded number at once,
  each from a clone with a deadline.

### Components

| component | state | operations | correct when |
| --- | --- | --- | --- |
| review gate (`review.py`) | the comparison row (status, revision, approved_at), the append-only tables of actions and responses | record an action, record a response, approve, show, export | an approval covers exactly what it saw; the row is what a replay of the tables gives; an export is what was signed |
| durable store (`store.py`, `models.py`) | rubrics (versioned), dossiers, comparisons, jobs, runs | save, load, create a comparison, reuse a dossier, prune runs | a comparison stays what it was; the stored order is the shown order |
| intake (`api/main.py`, `intake.py`, `store.py`) | one job per candidate, in a table and in a write-through cache; staged documents | create, start, finish, fail, abandon at start-up, poll | a verdict is true, never taken back, and always comes |
| rate limits (`api/limits.py`) | one row per client and window; one deque per client | check | the budget holds, nobody is refused inside it |
| pipeline (`pipeline.py`, `github/clone.py`) | the result of each repository, shared fingerprints, clones on disk | sweep, clone, read, check, build evidence | a failure is a gap, never evidence; what was cloned is removed; every run ends |
| refs fingerprint (`github/refs.py`) | none | ask every repository for its refs | a stored dossier that is reused is no older than the question |
| GitHub client (`github/client.py`, `cache.py`, `ingest.py`) | quota as last seen, cache of conditional requests, next-page link | get, wait, retry, paginate | the listing is the account; the quota is not used up; every client ends |
| repository selection (`relevance.py`) | none | score, sort and cut an account | what a posting asks for is read |
| claims (`claims/`) | none | parse, redact, refine, merge | no protected value in a claim; no source takes another's claims along |
| provenance checks (`provenance/`, `context.py`) | none | attribute commits, thresholds over one history | a machine's commit or a rebase changes nothing, and a rename no more than a name does |
| reconciliation (`reconcile/`) | none | judge claims against evidence | the verdict rests on evidence that exists |
| dossier (`dossier.py`) | none | collect flags and coverage | what was not read is counted |
| scoring, ranking (`rank/`, `rubric.py`) | none | score a dossier, order a cohort, group ties | thin evidence widens the band only; a dismissal only helps |
| job descriptions (`jobspec.py`) | none | phrases to weights | what is asked for is not penalised |
| fairness (`fairness/`) | none | audit a ranking, redact labelled values | a verdict is right, or not given |
| code evaluation (`codeeval/`) | none | analyse source text | see section 8 |
| command line (`cli.py`) | none | the same handlers, one at a time | as the gate |
| screens (`ui/src`) | what was loaded last, the poll timer | load, record, approve, poll | shows the state that is there |

They interact through the database. Intake calls the pipeline, which calls
reconciliation and assembles a dossier that the store keeps. A comparison is created
from the latest dossiers and the latest rubric of a name. The gate changes the
comparison's row and its two tables, and every display scores the dossiers again
without the dismissed flags. Analyses share two things on disk with each other: the
working directory of clones and uploads, and the cache of GitHub's answers. The screens
poll and load over HTTP.

### What is hard

- **Overlap.** Two reviewers, or a reviewer and an export, run on threads whose reads
  are not protected until the commit.
- **Shared directories.** A run sweeps by age what another one may still be using, and
  reads pages another one stored.
- **A moving remote.** The candidate pushes, renames the account and changes its
  repositories while they are listed and cloned.
- **Two copies.** A job lives in the table and in a cache, a comparison's status
  beside the log it summarises, a machine rank beside the ranking shown.
- **Crashes.** A server may be killed between any two steps of an intake, and another
  may start while the first one works.
- **Boundaries.** Windows of the clock, coverage of zero or above one, empty sums of
  weights, the last place of the cache, the floor of the quota, groups of one.
- **Partial failure.** A repository can fail at any stage of its read, a document may
  not open, a language model may answer anything, and a write can be refused.

`PROJECT.json` lists each place under `hazards`, with the properties that cover it.

## 2. The modules

| module | models | composes |
| --- | --- | --- |
| `GatePromise` | abstract: what the gate promises | |
| `ReviewGate` | the gate, one request at a time | implements `GatePromise` |
| `ReviewSessions` | the same handlers for overlapping requests | instantiates `ReviewGate` |
| `IntakeJobs` | the job store, the cache, the background task, restarts | |
| `SharedLimiter` | the database rate limit | |
| `Pipeline` | runs, clones, deadlines, the sweep, the reuse of a dossier | |
| `GitHubClient` | the requests of an analysis, the quota, the shared cache | |
| `Reconcile` | verdicts on claims | |
| `Provenance` | one history, growing and rewritten, and what is held to follow | extends `Reconcile` |
| `Claims` | documents to claims | |
| `Dossier` | what a run leaves behind | extends `Reconcile` |
| `Ranking` | rubrics, dimensions, scores, order | extends `Dossier` |
| `Assessment` | runs, dismissals and reweights over all of it | extends `Ranking`, instantiates `Claims` |
| `Posting` | a job description: weights, and the repositories worth reading | extends `Ranking` |
| `Cohort` | ties, audit and selection as a posting is written | extends `Posting` |
| `ReviewGate_proofs`, `ReviewSessions_proofs`, `IntakeJobs_proofs`, `SharedLimiter_proofs`, `Pipeline_proofs`, `GitHubClient_proofs`, `Assessment_proofs`, `Cohort_proofs` | the theorems | extend the module they name |
| `MC*` | values and symmetries for TLC | |

### `ReviewGate`

`comparison`, `review_actions`, `candidate_responses` and `rubrics` are the tables;
`exported` is the last payload. `RecordActionFrom`, `RecordResponseFrom` and
`ApproveFrom` are the three handlers of `review.py` that write. Each takes the row *as
its session loaded it* and ends in `Flush`, the columns an ORM commit writes, so the
same definitions serve both modules. `Reopened` is the block that takes an approval
back; `Payload` is `effective_result` with `export_payload`, one argument per query.
A row's id is its place in its table, and a time of approval is the id of the approve
row. Actors, notes and scores are left out: no handler of the gate writes a score.

### `ReviewSessions`

`session[s]` is what the request on thread `s` has read. A write request is `Load`
and then one commit; that is what SQLite gives, because the inserts and updates of a
handler become visible together, under one write lock. `Rollback` is every refusal. An
export is `Load`, `OpenExport` (the check and the rubric), then one step per query.
Rows are only appended, so the answer of a query is kept as a number of rows.

### `IntakeJobs`

`jobs` is the table, `own[w]` the cache of process `w` in order of age, `loop[w]`
what its event loop is in the middle of, `task[j]` where the request and then the
background task of job `j` waits. Coroutines interleave at their awaits, so a store
call runs to its end before another task of the same process goes on, but other
processes and polls see the points inside it: `Update` reads, `Commit` writes,
`WriteThrough` copies to the cache. `Boot` and `AbandonUnfinished` are the two
statements of a start-up. `Crash` loses the memory and the tasks of a process;
`Refuse` is a statement the database rejects and `BreakUploads` a disk that rejects a
document. A job's dossier is named by the job.

### `SharedLimiter`

`count` is `rate_windows`. A check is `Arrive` (it reads the clock) and `Bump` (it
deletes past windows, counts and commits, alone under the write lock), or `Fail`.
Time is the number of the window.

### `Pipeline`

`stage[i]` is where run `i` is, `work[i][r]` where it is with repository `r`,
`directory[i][x]` the age of what it has on disk, `head[r]` the history at the remote.
Each run is in a process of its own, started by the intake without documents (`Ask`,
then `Reuse` or `Rebuild`) or with some, or from the command line (`Submit`).
`add_candidate` makes a staging directory for every candidate it accepts, and the
`finally` of `_run_intake` finds it through the path of a document: that of an intake
without documents (`Empty`) has nothing in it and stays until a sweep. `Start` sweeps
and takes the fingerprint, `Clone` enters the semaphore, `Cloned` is the end of git,
with any history since it began; `Breaks`, `TimeOut` and `Read` are the three ends of
`_analyse_repo`, each through the `finally` of `ephemeral_clone`. A timeout may leave
the directory, because a child of git can write while it is removed. `Crash` runs no
`finally`: it is a killed process, and also an intake that breaks off before the `try`
of its task, when a disk refuses a document or the database the start. `Tick` passes
only when nothing that takes no time is left to do.

### `GitHubClient`

`at[c]` is the address client `c` asks for, `answer[c]` a response it has not read yet,
`pending[c]` the field `_pending_next`, `remaining[c]` the quota it last saw. A step is
`Request`, as GitHub answers it at that moment, or `Receive`: everything `get_json`, its
caller and the next look into the cache do up to the next request. GitHub itself
(`Listed`, `NextLink`, the quota, 304 for an unchanged representation) is external and
taken from what the code relies on. `Refusal` is an answer that says what is left of the
quota, charged or not; `Lose` a request that raises before `_record_quota`, charged or
not, after which the client knows what it knew before. `Change` alters the account between
pages. The further client of `account_refs_fingerprint` (`pipeline.py:246`) asks for the
listing alone: it is an analysis that fails after its pages.

### `Claims`, `Reconcile`, `Dossier`, `Ranking`, `Assessment`

The pure functions, in the order the program applies them. A document is lines of words;
`CollectClaims` redacts, parses, lets a language model add, and merges; `reading` says
which documents opened and what the model answered. A repository is what its history
shows: a share of commits, authored lines, whether a language of it is analysed in
depth, and the findings it would raise. Which repositories the words of a claim bear on
is the constant operator `Bears`. `Outcomes` are the places at which the read of a
repository can end, and `FindingsKept` and `WithEvidence` say what each leaves. Scores
and coverages are integers in millionths, rounded where `rank/models.py` and
`rank/score.py` round them, so equalities in the properties are those of the program up
to that precision. `Assessment` is the machine around them: a new run in which one thing
went otherwise (`Reanalyse` a repository's read, `Reread` the documents), dismissals,
confirmations, and reweights. `shown` is `effective_result`, `comparison` the row
`create_comparison` stored. Neither a portfolio nor a document changes in it: whatever
changes in a score comes from what could be read, from a human, or from the rubric.

### `Provenance`

`commits` is a history; `Write` appends a commit of the candidate, of somebody else or
of a machine, signed with a name and one of GitHub's addresses of either form, `Rebase`
moves the commit dates, `Rename` renames the account, twice at the most, after which
another account may have the login it gave up. Somebody else may be *named* as the
candidate's account is called. `IsCandidate` goes by the name first, then by the number in
the address, then by its login, which is the order of `is_candidate`. A rebase is of the
whole history once it is as long as it gets (a bound).
`report` is what reading the repository says after each step: the share, the findings of
five checks, and the verdict of `Reconcile` on the claim to have built it.

### `Posting`, `Cohort`

`Emphases` is the scanner of `jobspec.py`, from the first word to the last, with its
negations, `DerivedRubric` what becomes of the weights, `SelectRepositories` the cut of
an account. A full stop is a word of its own here: it ends a clause, and the word before
it is, with its full stop, one that no topic is (`Terms`). `Cohort` writes a posting
word after word over every cohort of the given profiles: `scores` by the derived rubric,
`groups` the tie groups of `compare`, `PassesFourFifths` the verdict of the audit. An
empty posting gives the default rubric.

## 3. What the runs check

| run | instance | states | result |
| --- | --- | --- | --- |
| `gate` | 2 candidates with the same flag id, 4 actions, 2 responses, 2 rubrics | 300 000 | `ReplayReconstructs`, `RevisionLedger`, `ExportIsSigned`, `ImplementsPromise` hold |
| `sessions` | 2 reviewers, 1 export, 3 actions, 2 responses | 1.4 million | `RevisionsAreSigned`, `ReviewedNamesItsApproval`, `ExportIsExplained` hold |
| `jobs` | 1 process, 2 jobs, a cache of 1, 2 crashes | 6 300 | `TypeOK`, `CopyNeverStale`, `UploadsAreTemporary`, `PollsNeverRegress`, `EveryJobSettles` hold |
| `workers` | 2 processes, 2 jobs, 1 crash, 1 refused write | 124 000 | `DoneHasDossier`, `FailureHasReason`, `DossierStays` hold |
| `limiter` | 3 processes, 2 clients, 3 windows, budget 1 | 126 000 | `OverrunIsBounded`, `RefusedOnlyOverBudget` hold |
| `pipeline` | 2 runs, 2 repositories, 1 clone at a time, 1 push or crash | 1.1 million | `TypeOK`, `LiveNeverSwept`, `OnlyTheInterruptedOrEmptyStay`, `ReusedIsNoOlder`, `EveryRunEnds` hold |
| `client` | 2 clients, 2 repositories on 2 pages, a quota of 4 with a floor of 3, 2 events | 539 000 | `QuotaIsNeverSpent`, `ListingIsAccount`, `EveryClientEnds` hold |
| `provenance` | every history of up to 3 commits of 3 shapes and 2 dates, signed with a number or without, by a namesake or not, under 3 logins in turn | 3.6 million | `AutomationChangesNothing`, `TidyingChangesNothing`, `OwnWorkNeverAccuses` hold |
| `assessment` | 2 candidates with 2 repositories and documents, 1 rerun, 2 rubrics that load and 1 that does not | 79 000 | `ScoringNeverRaises`, `UnreadOnlyWidens`, `MachineOrderShown`, `LabelledValuesStayOut`, `DismissalNeverHurts`, `SourcesAreIndependent`, `ModelNeverRestates` hold |
| `cohort` | 4 candidates of 4 profiles, postings of up to 3 words out of 8, an account of 5 of which 2 are read | 300 000 | `OverlapSharesGroup`, `MatchIsNeverCrowdedOut`, `VerdictIsFourFifths`, `EmphasisNeverHurtsTheBest`, `AskedStaysAsked` hold |
| `review_race` | 2 reviewers | | violates `ReviewedIsCurrent` |
| `failed_clone` | as `assessment` | | violates `FailureNeverAccuses` |

**What holds.** With one request at a time the gate is right in full: the row is what
a replay of the tables gives, no row is filed under an approved revision, an export
carries its signature, and the whole implements `GatePromise`. With overlapping
requests less is left, and it is worth knowing what: a revision number is never
reached with fewer approvals than its value, a reviewed comparison always names a real
approval, and the audit log in an export explains every human change in it. A job
reported done always has its dossier, also when a starting process failed it
meanwhile; with one process a poll never goes back and every job settles. The shared
limiter never refuses inside the budget and passes at most one request per other
process too many, and only in a window that is over.

An analysis ends although its clones hang; its sweep takes nothing another run still
uses; only what was interrupted stays on disk, a run or a clone that was killed, and the
empty staging directory of an intake without documents; a stored dossier
is reused only if it is no older than the refs it was matched by, also when a push came
between the fingerprint and the clone that built it. The listing of an account that
stands still is the account, whichever pages come from the cache and whatever they held
before, and the quota is not used up although answers that were charged are lost. A
machine's commit leaves every finding and verdict but the bulk of the first commit as they
are, if it is not signed as the candidate; a rebase leaves all of them, and so does a
rename of a candidate whose commits carry the number, if nobody else in the history goes
by either login. A commit of one's own lines brings no finding about authorship or size
(`low_contribution`, `fork_presented_as_original`, `template_inflation`) and takes no
corroboration away; it may well bring `bulk_dump` or `cadence_burst`, which are about how
the lines came. No labelled value is in a statement or a
quote of a claim or was sent to a model; a source that fails takes nothing of another
one along; a model that repeats itself or invents adds nothing. Scoring raises on no
dossier a partial run can leave; unread repositories widen the band and nothing else; a
dismissal never lowers a score, loses a place or unmeasures a dimension; the stored
order and the shown order agree. Of the profiles of the run, to ask for
one thing more never puts the better at it behind: that is no statement about others (see
section 4). Nothing written later takes back what was asked; a repository that matches
the posting in its language or topics is not displaced by one that matches nothing; a
verdict on the four-fifths rule is right but at the limit itself.

**What does not hold.** Two runs end in a counterexample to something the repository
says of itself; `PROJECT.json` quotes each line.

1. `review_race`: an action loaded while the comparison was pending and committed
   after another's approval leaves it reviewed, with the unapproved action in it.
2. `failed_clone`: when the candidate's own repository cannot be cloned, a claim that
   it supported is judged on a repository they barely touched, and becomes a critical
   contradiction.

Other places where the code gives less than a sentence of the repository promises are
limits of a property above, named with their lines under `hazards`:

- an export is torn by a dismissal committed between its check and its queries
  (`ExportIsExplained` is what is left);
- a reviewed comparison is shown and exported with the latest rubric of its name, not
  with the row it was scored with (`MachineOrderShown` is about the same rubric);
- with two processes, a start fails the jobs the other one is running, whose cache goes
  on saying running (`CopyNeverStale` is about one process);
- each intake without documents leaves an empty directory in the working directory until a
  later analysis sweeps it (`OnlyTheInterruptedOrEmptyStay`);
- whoever signs with a name the candidate is known by, such as their login, is counted as
  the candidate, whatever number is in the address (`TidyingChangesNothing` leaves such
  namesakes out);
- the floor covers as many requests of a client as answers it may lose, one for each
  repository it looks up: with the defaults, a floor of 100 and up to 20 repositories,
  five analyses an hour (`FloorAssumption`);
- a check held up across a window's boundary starts the old window again, so two windows
  can pass more than twice the budget (`OverrunIsBounded` is the true bound);
- a machine that commits under the candidate's own address counts as the candidate, in
  the numerator only (`AutomationChangesNothing` leaves it out), and `bulk_dump.py`
  counts every machine;
- a value in a column of a LinkedIn export named for it, as `Birth Date`, loses its
  label when the row is joined, and is not redacted; subject and locator never are
  (`LabelledValuesStayOut` is about labels in the text, statements and quotes);
- with three of five and three of four selected the smaller rate is four fifths of the
  larger, but `0.6 / 0.75` is below `0.8` in doubles: the audit fails the selection and
  reports an impact ratio of 0.8 (`VerdictIsFourFifths` leaves the limit itself open, and
  `FallsShort` lists such rates for groups of up to twelve);
- two candidates with overlapping bands are not tied when a narrower band stands between
  them (`OverlapSharesGroup` says so).

### Bounds, and why they are enough

- `MaxActions`, `MaxResponses`, `MaxRubrics` bound the tables. Four actions allow
  approve, act, approve, act: a reopening of a reopened comparison; the proofs cover
  every length. In `sessions` three actions are enough for a write on a stale copy
  before and after an approval, and no thread holds more than one stale copy.
- Candidates carry the *same* flag id, because ids are unique only within a dossier.
- A cache of one job with two jobs forces the eviction of a running job; two crashes
  allow one during the recovery from the other.
- `MaxWindow`, `MaxCount`: three windows allow a check to be late by two; the count
  goes to four, past budget plus overrun.
- `pipeline` has one clone at a time for two repositories, so one waits for the other;
  a second run starts, sweeps and reuses at every moment of the first. `MaxEvents`
  allows one push or one crash; a limit of age one tick above what the two clones of a
  run take is the tightest `PatienceAssumption` allows. Only one of the repositories is
  pushed to (`Active`): the other one is the same by symmetry.
- `client` has one repository to a page, so a listing takes two pages, a change can move
  a repository from one to the other, and a page cached by one client is asked again by
  the other. Two clients with two repositories each and a floor of three are as many as
  `FloorAssumption` allows: with a floor lower by one it does not hold. Two events allow a
  change and a throttle, or two attempts, all there are, or two lost answers that cost the
  client two requests it never learns of.
- `provenance` has the thresholds scaled to histories of three commits: each is met and
  missed, by lines, counts and dates. Two renames allow a login to be given up, taken by
  another account and seen again in an older address.
- The portfolios have one repository of each kind the dimensions tell apart, accounts
  hold as many repositories as are read, or more, and rubrics include one with a custom
  dimension and a weight of zero, one with a bar, and one that is refused. Documents
  state a value on a line, in a list and in a sentence of an export of either form; the
  model answers with new, repeated, doubled and invented statements and with garbage.
- `cohort` has profiles of different coverages, one of which is not scored, and a phrase
  inside another one, a cue, a boundary and an ambiguous word in the vocabulary. Four
  candidates allow two groups of two and a narrow band between two wide ones.
- Symmetry is used where the members of a set are only compared for equality, and
  never in a run that checks liveness.
- `CHECK_DEADLOCK FALSE` is given where the system may rest: nobody is obliged to
  review, to export or to submit a candidate, a posting may be finished, and the
  tables' bounds end the rest. `pipeline`, `client`, `provenance` and `assessment` never
  rest, and are checked for deadlock.

### Fairness

Three modules assume any, each for its liveness property.

`IntakeJobs`, for `EveryJobSettles`: `StoreCall`, `Startup` and `RunIntake` are weakly
fair. A killed server is started again, an event loop runs what is ready, and each wait
of an analysis ends: every clone, `ls-remote`, external analyser and HTTP request has a
timeout, retries are counted, a wait for the quota ends at its reset, and the rest reads
files of a finished clone. Nothing obliges a submission, and crashes and refusals are
bounded and never fair. The run has no refused writes: with one, `start` may raise
outside the task's `try`, or staging may fail with an exception nobody catches, and
the job is settled only by the next restart, which nothing obliges.

`Pipeline`, for `EveryRunEnds`: time passes, and `Ready(i)`, the steps the event loop of
a run can take: to begin, to enter the semaphore, to fire a deadline, to end a read, to
save. No clone is obliged to finish, and none to fail: a clone that hangs is ended by its
deadline alone.

`GitHubClient`, for `EveryClientEnds`: `Step(c)`, because a request that may be made is
made and httpx gives up after thirty seconds, and `NewHour`. Nothing obliges GitHub to
answer well.

Three assumptions on constants stand for figures of the code and its settings.
`PatienceAssumption`: the clones of a run, one after the other, take less than
`STALE_CLONE_SECONDS`, six hours. `FloorAssumption`: the clients of one hour, each times
the repositories it looks up (`relevance_threshold`, or `relevance_limit`), are no more
than the floor and one. The floor is 100 by default and an account is read in up to 20
repositories, so that is five clients; a listing of a larger account takes no part in it,
for a client does not go on when a page is lost.
`LimiterAssumption`: the processes are finite in number, and the limit is not zero,
which turns the limiter off.

## 4. What is proved

| module | theorem | statement | for any |
| --- | --- | --- | --- |
| `ReviewGate_proofs` | `TypeCorrect` | `Spec => []TypeOK` | candidates, flags, bands, bounds |
| | `ReplayAlways` | `Spec => []ReplayReconstructs` | |
| | `LedgerAlways` | `Spec => []RevisionLedger` | |
| | `ExportAlwaysSigned` | `Spec => []ExportIsSigned` | |
| | `GateKeepsPromise` | `Spec => ImplementsPromise` | |
| `ReviewSessions_proofs` | `RevisionsStandOnSignatures` | `Spec => []RevisionsAreSigned` | threads, and as above |
| | `ReviewedHasApproval` | `Spec => []ReviewedNamesItsApproval` | |
| | `ExportsAreExplained` | `Spec => []ExportIsExplained` | |
| `IntakeJobs_proofs` | `IntakeTypes` | `Spec => []TypeOK` | processes, jobs, cache, crashes, refused writes |
| | `DoneIsBacked` | `Spec => []DoneHasDossier` | |
| | `FailuresAreExplained` | `Spec => []FailureHasReason` | |
| | `NoUploadIsForgotten` | `Spec => []UploadsAreTemporary` | |
| | `DossiersStay` | `Spec => DossierStays` | |
| | `CopyIsTheRow` | `Spec => []CopyNeverStale` | the same, one process |
| | `PollsMoveOn` | `Spec => PollsNeverRegress` | the same, one process |
| `SharedLimiter_proofs` | `OverrunAlwaysBounded` | `Spec => []OverrunIsBounded` | processes (finite), clients, limit, windows |
| | `RefusalAlwaysEarned` | `Spec => RefusedOnlyOverBudget` | |
| `GitHubClient_proofs` | `QuotaIsEnough` | `Spec => []QuotaIsNeverSpent` | account, quota, lost answers, and clients for which the floor is enough (`FloorAssumption`) |
| | `ListingIsTheAccount` | `Spec => ListingIsAccount` | the same, size of a page |
| `Pipeline_proofs` | `PipelineTypes` | `Spec => []TypeOK` | runs, repositories (finite), permits, deadlines |
| | `LiveIsNeverSwept` | `Spec => LiveNeverSwept` | |
| | `OnlyKilledOrEmptyStay` | `Spec => OnlyTheInterruptedOrEmptyStay` | |
| | `ReuseIsNoOlder` | `Spec => ReusedIsNoOlder` | |
| `Assessment_proofs` | `EveryScoreIsWellFormed` | `Spec => []ScoringNeverRaises` | cohort, portfolio, documents, findings, rubrics; up to a million repositories and claims |
| | `UnreadWidensOnly` | `Spec => []UnreadOnlyWidens` | the same; accounts of up to 999 repositories |
| | `DismissalsOnlyHelp` | `Spec => DismissalNeverHurts` | the same, of any size |
| | `MachineOrderReturns` | `Spec => []MachineOrderShown` | the same, of any size |
| | `ValuesStayOut` | `Spec => []LabelledValuesStayOut` | documents, readings, answers of the model |
| | `SourcesStayIndependent` | `Spec => SourcesAreIndependent` | the same |
| | `ModelRestatesNothing` | `Spec => ModelNeverRestates` | the same |
| `Cohort_proofs` | `MatchesAreRead` | `Spec => []MatchIsNeverCrowdedOut` | posting, phrases, account |
| | `TheLimitHolds` | a large account is read in no more repositories than the limit | |
| | `VerdictsAreRight` | `Spec => []VerdictIsFourFifths` | posting, profiles, labels, selection; up to 942 candidates |
| | `OverlapsShareGroups` | `Spec => []OverlapSharesGroup` | posting, profiles, cohort of any size |
| | `AskedIsKept` | `Spec => AskedStaysAsked` | posting, phrases, cues, window |

Each module starts from one inductive invariant, proved as a theorem of its own
(`GateInductive`, `SessionsAreSound`, `IntakeIsSound`, `QuotaIsGuarded` with
`ListingIsFollowed`, `PipelineIsSound`, `AssessmentIsSound` with `DossiersAreOfPortfolios`,
`CohortFitsTogether`). Of the 40 properties of the passing runs 33 are stated by these
theorems.

### What is assumed

Every assumption is a named `ASSUME` of the module that declares the constants, and TLC
evaluates it in the runs of that module.

- `NoneAssumption`, in five modules: what stands for NULL or for nothing is none of the
  values it replaces; in `GitHubClient`, neither a number of requests nor an address nor an
  answer.
- `GateAssumption`, `SessionsAssumption`, `IntakeAssumption`, `ClientAssumption`,
  `SelectionAssumption`, `AssessmentAssumption`, `CohortAssumption`: constants are of
  their kinds, bounds are numbers. `PipelineAssumption` and `AssessmentAssumption` also
  say that the repositories of an account and the candidates of a cohort are finitely
  many, and `PipelineAssumption` that a staging directory, of either kind, is no
  repository.
- `LimiterAssumption`, `FloorAssumption`, `PatienceAssumption`: see Fairness, above.
- `AccountAssumption`: an account is a list of repositories with a size, a fork flag and
  one of three ages.
- `FindingAssumption`, `PortfoliosAssumption`: the table of findings is finite and grades
  each of them, and a portfolio raises findings of the table (`findings.py`).
- `SignalsAssumption`, `ProfilesAssumption`: finitely many phrases name a dimension, which
  is a built-in one (the table `SIGNALS` of `jobspec.py`); phrases are lists of words, and
  the window of a negation is a number of them; what was measured of a candidate are
  numbers.
- `RubricsAssumption`: weights are numbers, which `_check_dimensions` refuses them to be
  otherwise. That they are not negative, and that there is one to score by, is not
  assumed: `Loads` refuses the rest.
- `DocumentsAssumption`: documents are lists of words, a protected value in one stands
  behind its label (in the export within the sentence), no document holds the mark
  already, and the resume and the export are two documents: `documents.py` reads no
  `.csv` or `.json`, `linkedin.py` nothing else. A value without a label is what the
  redaction of this program does not find, and says so.
- `WordsAssumption`: what the program writes itself (commas, "endorsed", the mark) is no
  protected value.
- `ReadingsAssumption`: the answer of the model that could be read is a list, and each of
  its statements leaves out a number of words.
- `ClaimsAssumption`: none of the claims is what stands for NULL. That `collect_claims`
  returns a list of claims at all is proved (`CollectedIsClean`).

Three theorems have a hypothesis more. That of `EveryScoreIsWellFormed` is
`AccountsAreCountable`: no account holds more than a million repositories and no
documents more than a million claims. A share is rounded to six decimals here, so of more
than that a single one that was read would be no share at all, while it has a score, and
`DimensionScore` would raise. Within that bound nothing makes it raise. For claims the code
rounds as well (`dimensions.py:278`); the shares of the repositories it keeps as quotients
(lines 75, 173, 204 and 338), so there the bound is one of the model's resolution and not
of the code.

`UnreadWidensOnly` has `AccountsAreSmall`: accounts of up to 999 repositories, selected or
not. The shares of one of `n` and one of `n + 1` differ by one in `n (n + 1)`, which is at
least a millionth up to there; of some thousands it is less than a millionth, which is as
fine as the model's coverages are. The code keeps the quotient, so this bound too is the
model's.

`VerdictsAreRight` has `Comparable`, a cohort of at most 942 candidates: two ratios of
counts up to `m` and `n` differ by at least one in `5 m n`, and six decimals tell that
apart as long as `9 m n` is below two million. The groups share nobody, so `m + n` is at
most the cohort.

### The gate

The inductive invariant is `GateInvariant`: `TypeOK`, `ReplayReconstructs`,
`RevisionLedger` and `ExportIsSigned` together. None is inductive alone, type
correctness aside. That a reopening files its row under a revision with no
approval needs the replay to say that the status is reviewed *exactly* when the log
ends in an approval of this revision; that the new revision stands on an approved one
needs it again; that an exported view stays explained by its log needs the ledger, so
that no later row or response falls under the exported revision.

The road is: lemmas on sequences and on `Reopened`; one effect lemma per handler,
which removes `Flush` (a session that holds the stored row commits the row it
computed); one step lemma per conjunct, with a case per action; `GateInductive`; the
theorems by implication. The refinement adds how `Dismissed` and `Overrides` change
when a row is appended, and maps each step: an action to `Dismiss`, `Confirm` or
`Override`, a response to `Hear`, an approval to `Sign`, an export to `Ship`, a
reweight to a stutter.

### Overlapping requests

A handler decides on a copy that may be out of date, so none of the three properties is
inductive about the tables alone. `SessionInvariant` says what a thread holds in terms of
the log as it is now (`Holds`): its row is backed by as many approvals as its revision and
status claim (`Backed`), its time of approval is a row of the log, and what its queries
counted are prefixes. The log only grows, so a copy stays true of a prefix while others
commit. What a commit leaves is a mixture of the stored row and the copy, and each mixture
is backed: an approval writes the status alone, over whatever revision is stored, and adds
the signature that takes; a reopening writes revision and status together, from a copy
that said reviewed and so stood on one signature more than its revision; anything else
writes no column of the row.

### The intake

`DoneHasDossier` and `FailureHasReason` speak of the table alone. A commit writes the
columns its session changed over a row that may be younger than the one it read, so both
need what is true of every row a session still holds (`Sound`), and that the row it read,
the row it writes and the row it writes over agree where they have something: a dossier
or a reason once recorded stays (`Later`). `UploadsAreTemporary` needs that nothing is
staged before its task is (`StagedInTime`).

`CopyNeverStale` and `PollsNeverRegress` are false for two processes: the commit of one
leaves the copy of the other behind, and a start-up fails a job that another process has
just finished. For one process `AloneInvariant` says
where the event loop is: between its read and its commit the row is the one it read
(`Abreast`), between commit and cache exactly the one job is behind (`Catching`), a
process that is down or starting has an empty cache (`Blank`), and each task waits for a
job whose status its next write moves on (`Waits`).

### The limiter

Assumed is `LimiterAssumption`. `OverrunIsBounded` alone is not inductive: it forgets the
checks that are still held up with an old window. `BudgetInvariant` says of each client
and window that either nobody deleted its row, and then what was admitted is at most what
is counted and at most the limit (`Counted`); or the window is over and what was admitted
*plus the checks still held up in it* is within the limit and the other processes
(`Reopened`). Whoever deletes the row counts in a later window, so it is not one of those
held up (`OneIsElsewhere`); each check of theirs that ends spends its own place
(`CheckEnds`); and nobody new reads an old clock. `Full` says that what is counted and
not admitted came after the limit was: the refusal property is that part, one step
later. The lemmas on cardinalities rest on the library's theorems about finite sets. The
type step and the budget step have a case per action.

### The quota

What a client knows of the quota is out of date by the requests of all the others and by
those of its own whose answers were lost, so no bound on what one client knows helps.
`QuotaInvariant` counts what the clients may still spend below the floor. `Ahead` is, for
one client, the request it waits for and one for each repository it still has to look up;
nothing once it has ended or has seen the floor; and `Most`, the repositories an account
is read in, as soon as it was told of more than the floor. What the clients are short of
`Most` each is the `Slack`, and with it what is left of the quota stays above the floor. An
answer that says there is more than the floor needs no slack, and one that says there is
not holds its client. A lost answer ends a client that has nothing to look up yet, and
costs any other the lookup it was for: either way it is one request ahead less, which pays
for what was charged. Who may ask is one ahead at least, so by `FloorAssumption` the slack
is at most the floor, and something is left. That nobody has more to look up than `Most`
is `PagesInvariant`, for pages that came from the cache as well.

### The listing

`ListingIsTheAccount` is about a listing that meets no change between its first page and
its last, while its pages may come from the cache, where anybody left them from any state
of the account. `ListingInvariant` says of each such client what it has (`Follows`): the
entries of the pages before the one it asks for, in order, as they are; and of an answer it
has not read, that it brings or confirms this page as it is, with the address of the next.
A cached page is revalidated and never just taken, so it does not matter what the cache
held before; only the step `ReceiveListing` reads it. What GitHub lists is the one
ascending enumeration of the names that are there (`Listing`, `ListedIs`), a page is a
stretch of it (`PageIs`), and what is left without the archived ones is described by the
positions that stay (`TakesNext`, `UnarchivedIs`, `WholeListing`).

### The pipeline

That nothing live is swept is about time. A clone is as old as the semaphore lets it be
(`Span`, a deadline and an analysis), but the documents of a run are as old as the run.
`Timely` says how far a run must have come: while a repository waits, every permit is
held and none longer than `Span`, so by `q * Span` the permits have been given
`max_clone_concurrency` times for each `q`. The last repository is begun by `(Rounds - 1)
* Span` and the run over by `Rounds * Span`, which `PatienceAssumption` keeps below the
age of a sweep. The invariant is one predicate per run (`Sound`), because runs share
nothing but what the sweep removes, the histories, which only grow, and the dossier
stored last (`DossierIsHonest`). `ReusedIsNoOlder` follows from the order of the two: the
fingerprint is taken before any clone begins, so what was read is no older.

### Scoring and dismissing

`Assessment_proofs` builds up to a place in the list. The sums of `_penalty` and of the
weighted mean are folds over sets of any finite size. Induction over a set with a
predicate is out of reach, but the set of the subsets that have a property is not: if it
misses one, it misses one whose parts all have the property (`PartsInduction`, from the
well-foundedness of the strict subset order), and that gives what is needed: the order of
a sum does not matter (`SumWithout`) and a sum of more is no less (`SumOfMore`). Rounded
quotients keep the order of what they divide (`QuotientMonotone`). From there: fewer flags
leave no less of a dimension and the same coverage (`DimensionsNoWorse`), the same
weights then give no lower mean and the same band (`WeightedNoWorse`), and whoever scores
no less, while nobody else changes, is overtaken by nobody (`NobodyOvertakes`).

The invariants say what is scored. `StoredAsAnalysed`: each dossier is `build_dossier` of
its candidate's repositories, outcomes and claims, and the latest rubric is one that
loaded; so its counts fit together (`DossierIsSane`) and the rubric can be scored with
(`LoadedIsUsable`). `AssessmentInvariant`: what is shown is scored from what is stored
with the dismissals that stand, and the comparison was scored from the very same dossiers,
by its own rubric, before any dismissal. `DismissalNeverHurts` is then about one step: only
dismissing takes more flags off the table (`OnlyDismissingDismisses`), all else is equal.
That the two sorts of `store.py` and `compare.py` agree is `OneOrder`.

`UnreadOnlyWidens` compares two dossiers that differ in `considered` (`Grown`). The share
that was read is less by a millionth for each repository that was (`ShareOfLarger`), so
what is left of it after two roundings, for the languages analysed in depth, is still
less by one (`DeepOfLarger`). Every dimension but the one on claims keeps its score over a
smaller share (`DimensionsThinner`), and a mean of smaller shares makes a band that is as
wide or wider (`WeightedWidens`).

### Claims

What `Claims` computes are folds of the community modules, which take an operator as a
parameter and recurse over sets of indices, the largest first. Induction over data with
an operator is out of reach, but one over a set of numbers is not (`UpTo`): a value that
is computed in `n` steps, given by a function from steps to functions, exists
(`RunsExist`), and so does a solution of the recursion of a fold (`FoldExists`); hence
whatever solution `CHOOSE` picks, its last value is that of a run (`FoldRuns`). With these
four lemmas each fold is proved once to be the run of its step: `GivenIs`, `RedactIs`,
`PartsAre`, `DedupeRuns`, `RefineRuns`, `FlattenStays`.

From there: what `Redact` leaves contains nothing that stands behind a label
(`RedactedIs`, `ProseIsRedacted`), and texts whose values are labelled stay so when they
are joined with commas (`LabelledTogether`, `JoinedIsLabelled`), which is what a row of an
export is. Every source then gives claims without a value (`LineClaimsAre`,
`RowClaimsAre`, `JsonEntries`), and so does everything that is merged from them
(`CleanedAre`, `CollectedIsClean`). A merge keeps what it met first (`DedupeStarts`,
`KeptFirst`), so a readable resume comes first and unchanged (`ResumeComesFirst`), and each
statement of an export is there under its key (`ExportIsClaimed`). What the model adds is
taken only when nobody has claimed its like (`RefineIs`, `NothingIsRestated`).

`StoredAsAnalysed` ties this to the specification: what a candidate states is what
`collect_claims` returns for the documents as they were last read.

### Selection

The selected repositories are those with fewer than `relevance_limit` others ahead by
score and name. Size and recency are worth at most `Standing`, less than one match in
language or topic, so who matches is ahead of who does not; being ahead is transitive, so
who has a selected one behind is selected. Of the specification it needs only that a text
is words (a part of `CohortInvariant`).

### What was asked

The scanner is a fold as well, so its matches are those of a run over the words
(`MatchesAreScanned`). Append a word, and the scan of the longer text goes the same way,
until somewhere a phrase stands that ends with the new word (`ScansTogether`): up to there
all that was found is found again, and what was found from there on lies within that
phrase (`FoundAgain`, `EndsText`). Whether a match is denied depends on the words before
it alone (`DeniedBefore`).

### Ties and verdicts

`CohortInvariant` says that scores, emphases and groups are those of the text. The rest
is about one state. By score and handle the scored candidates are in a total order, so
their ranks are the numbers from one to as many as there are (`RanksArePlaces`), and the
list that `compare` sorts has each of them once (`EverybodyInPlace`). That scores are
numbers at all is `ScoresAreNumbers`: a sum over the measured dimensions divided by a
sum of weights that is not zero. The lemmas on sums are those of `Assessment_proofs`,
proved again because the two modules share no specification. A tie group is the number
of neighbours before one that do not overlap. If the first and the last of a stretch
overlap and nobody between them is surer than the surer of the two, any two neighbours
of the stretch are as close and have bands as wide, so none begins a group
(`OverlapsAreTied`).

A rate is a count of millionths, rounded, so it is off by at most half of one. Times its
group it is off by half the group, and two products that differ at all differ by one, five
or four times over; `RoundedRatesCompare` weighs the one against the other, and
`LeastAndGreatest` takes it from all pairs of groups to the two the code divides.

### What is only model-checked

Seven of the 40 properties:

- The liveness properties `EveryJobSettles`, `EveryRunEnds` and `EveryClientEnds`:
  liveness under fairness is out of the prover's reach.
- The three properties of `Provenance`. They compare two readings of a history with and
  without some of its commits, through folds over commits, paths and checks; the lemmas
  on folds would carry over, the rest is not written.
- `EmphasisNeverHurtsTheBest` compares means that were rounded. It holds of the profiles
  of the run; two candidates whose means are one millionth apart may well change places
  when a new weight divides both, so it is no theorem of every profile.

## 5. What each mutant shows

Definitions named `Mut...` are the code with a plausible bug: a reopening that keeps the
revision or the time, an export without the check, an audit read once, a start-up that
looks for running jobs only, a cache that keeps the copy it has, a cleanup that takes
the current window along, a limit of age a live clone reaches, a semaphore that is not
given back, a dossier stamped after it is read, a next link kept from the page before, a
ratio with machines in it, dates of the commit instead of the author, a login instead of
the number, a quote redacted without its statement, a merge that keeps the last, a
penalty averaged over the flags, a cohort sorted without the handles, ties with the
first of a group, and others. Each property fails under the mutant `PROJECT.json` names
for it.

## 6. The plan

Done: the gate alone, overlapping, and proved; intake; the shared limiter, with its
bound proved; the pipeline with the reuse of a dossier; the GitHub client; claims,
provenance, assessment, postings and the cohort; the proofs of section 4. Next, in this
order:

1. **`WindowLimiter`**: the in-process sliding window under threads, next to
   `SharedLimiter`.
2. **The threads of a run**: `known_fingerprints` and the duplication check over
   `Pipeline`, whose iteration may meet an insertion.
3. **`ReviewScreen`** over `ReviewSessions` and `IntakeScreen` over `IntakeJobs`:
   loads that answer out of order, a failed poll.
4. **The two reads of `create_comparison`**, and the list of runs with its pruning.
5. **The drivers of a position** as operators over `Ranking`.
6. **Proofs**: the properties of `Provenance`, and `EmphasisNeverHurtsTheBest` with an
   error of a millionth.

Runs are kept to one per question: as modules are added, violations that answer the
same question are merged into the run of the module that subsumes it.

## 7. Abstractions to keep in mind

- Rows keep what the properties tell apart; free text, names, times and scores of the
  gate are not there. A dossier's flags are their own ids.
- The gate's overlap rests on SQLite's legacy transactions, in which a read takes no
  part. On a database with stronger isolation `review_race` would not apply.
- `Assessment` handles one request at a time; its overlaps are those of
  `ReviewSessions`. Which repositories a claim bears on is a constant, so the matching of
  words in `reconcile/matcher.py` is not checked beyond the kinds it excludes.
- `Pipeline` takes the fingerprint of all repositories in one step, and a remote's
  history never goes back to an old head. Aliases and failed repositories are not part of
  the fingerprint in the code either; `ReusedIsNoOlder` is about what was read.
- `Provenance` gives each commit a name and one address of GitHub's; an address the
  candidate gave would be one more name. The paths that count as vendored are a number
  of lines.
- Coverages in `Ranking` are in millionths, scores are rounded as in the code; the shares of
  `Provenance` are in per cent, rounded up, which is how a share above a whole per cent
  compares with it.
- A text is words, not characters: words of two letters are among the stopwords, and
  topics with a hyphen, which no term can be, are not there; a label with its separator
  is one word, the window of a negation is counted in words, and protected values stand
  with their label in one sentence.
- `Cohort` rounds rates to six decimals, as `fairness/audit.py` does, and divides them
  exactly, but for the rates in `FallsShort`. A half of a millionth, which Python rounds to
  the even neighbour, is rounded up: groups of fewer than 128 have none.
- Documents, the network and analysers are inputs: what they may return is enumerated,
  not modelled.

## 8. Not modelled, and why

Code evaluation (lexers and external analysers over source text, which a model would
repeat character by character; what they find is an input), the check for duplicated code
(fingerprints of text, never held against anyone), the reading of PDF, DOCX and CSV files
and of `git log`, the evaluation harness (offline), authentication (one comparison), the
HTTP call of the language model adapter, the in-process limiter and the body caps, the
list of runs, headline, questions and drivers (prose over numbers that are modelled), the
disclosure (fixed text), the serving of pages, and the screens.
