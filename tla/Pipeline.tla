------------------------------- MODULE Pipeline -------------------------------
(***************************************************************************)
(* Analyses of one account: the fingerprint of its histories               *)
(* (github/refs.py), the clones under a semaphore and a deadline           *)
(* (github/clone.py, pipeline.py), the sweep of the working directory they *)
(* share, and the reuse of a stored dossier (store.py, api/main.py).       *)
(*                                                                         *)
(* Each run is in a process of its own, which may be killed. A history is  *)
(* the number of pushes it has seen, because a commit's sha covers its     *)
(* ancestry and a rewritten history has shas nobody saw before. Time comes *)
(* in ticks, and is kept as the ages of directories. Only cloning and      *)
(* reading take time: the REST calls before them are waits of an hour at   *)
(* the very most, which is in the margin PatienceAssumption leaves.        *)
(***************************************************************************)
EXTENDS Integers, FiniteSets

CONSTANTS
    Repositories,           \* the selected repositories of the account
    Active,                 \* those that are pushed to while it is analysed
    MaxRuns,                \* bound on the analyses, by the intake or the command line
    None,                   \* no fingerprint, no directory, no dossier
    Documents,              \* the staging directory of an intake with documents
    Empty,                  \* the staging directory of an intake without
    max_clone_concurrency,
    clone_timeout,          \* clone_timeout_seconds, in ticks
    AnalysisTime,           \* the longest a finished clone is read, in ticks
    StaleAfter,             \* STALE_CLONE_SECONDS, in ticks
    MaxEvents               \* bound on the pushes and the interrupted runs

ASSUME PipelineAssumption ==
    /\ {max_clone_concurrency, clone_timeout, MaxRuns} \subseteq Nat \ {0}
    /\ {AnalysisTime, StaleAfter, MaxEvents} \subseteq Nat
    /\ IsFiniteSet(Repositories)
    /\ {Documents, Empty} \cap Repositories = {}
    /\ Documents # Empty
    /\ Active \subseteq Repositories

\* No directory is not an age, and no history not a number of pushes.
ASSUME NoneAssumption == None \notin Nat

\* "Far longer than any analysis takes."
ASSUME PatienceAssumption ==
    LET rounds == 1 + (Cardinality(Repositories) - 1) \div max_clone_concurrency
    IN  rounds * (clone_timeout + AnalysisTime) < StaleAfter

VARIABLES
    head,           \* head[r]: the history repository r has at the remote
    stage,          \* stage[i]: where run i is
    asked,          \* asked[i]: the fingerprint run i took last
    work,           \* work[i][r]: where run i is with repository r
    got,            \* got[i][r]: the history run i has cloned, or clones, of r
    directory,      \* directory[i][x]: the age of what run i has on disk for x
    stored,         \* the dossier of this candidate stored last
    events          \* the pushes and the interrupted runs so far

vars == <<head, stage, asked, work, got, directory, stored, events>>

\* Numbered in the order in which they begin.
Runs == 1 .. MaxRuns

Places == Repositories \cup {Documents, Empty}

Over == {"over", "dead"}
Ended == {"read", "failed"}

\* What run i is not done with: what it stages, and the clones it works on.
Occupied(i, x) ==
    /\ stage[i] \notin Over
    /\ x \in {Documents, Empty} \/ work[i][x] \in {"cloning", "reading"}

\* A working copy or a document somebody still needs.
InUse(i, x) == x # Empty /\ Occupied(i, x)

NoWork == [r \in Repositories |-> "waiting"]
NoHistory == [r \in Repositories |-> None]

Init ==
    /\ head = [r \in Repositories |-> 0]
    /\ stage = [i \in Runs |-> "new"]
    /\ asked = [i \in Runs |-> None]
    /\ work = [i \in Runs |-> NoWork]
    /\ got = [i \in Runs |-> NoHistory]
    /\ directory = [i \in Runs |-> [x \in Places |-> None]]
    /\ stored = None
    /\ events = 0

\* The memory of a run is gone with it.
End(i, how) ==
    /\ stage' = [stage EXCEPT ![i] = how]
    /\ asked' = [asked EXCEPT ![i] = None]
    /\ work' = [work EXCEPT ![i] = NoWork]
    /\ got' = [got EXCEPT ![i] = NoHistory]

-----------------------------------------------------------------------------
(* The remote.                                                             *)

Push(r) ==
    /\ events < MaxEvents
    /\ head' = [head EXCEPT ![r] = @ + 1]
    /\ events' = events + 1
    /\ UNCHANGED <<stage, asked, work, got, directory, stored>>

\* account_fingerprint: all the refs, or None if one repository cannot be asked.
Fingerprints == {head, None}

-----------------------------------------------------------------------------
(* add_candidate, and _run_intake up to the analysis.                      *)

CanBegin(i) ==
    /\ stage[i] = "new"
    /\ \A j \in 1 .. (i - 1) : stage[j] # "new"

\* Documents are new claims, so an intake that brings some never reuses, and
\* neither does the command line, which stages nothing.
Submit(i) ==
    /\ CanBegin(i)
    /\ stage' = [stage EXCEPT ![i] = "starting"]
    /\ directory' \in {directory, [directory EXCEPT ![i][Documents] = 0]}
    /\ UNCHANGED <<head, asked, work, got, stored, events>>

\* A staging directory is made for every candidate who is accepted.
WithEmpty(i) == [directory EXCEPT ![i][Empty] = 0]

\* An intake without documents: account_refs_fingerprint.
Ask(i) ==
    /\ CanBegin(i)
    /\ stage' = [stage EXCEPT ![i] = "asked"]
    /\ directory' = WithEmpty(i)
    /\ \E fingerprint \in Fingerprints : asked' = [asked EXCEPT ![i] = fingerprint]
    /\ UNCHANGED <<head, work, got, stored, events>>

\* The account cannot be listed, or the dossiers not be looked at.
AskFails(i) ==
    /\ CanBegin(i)
    /\ directory' = WithEmpty(i)
    /\ End(i, "over")
    /\ UNCHANGED <<head, stored, events>>

\* reusable_dossier.
Reusable(fingerprint) ==
    /\ fingerprint # None
    /\ stored # None
    /\ stored.refs_fingerprint = fingerprint

\* The stored dossier is stored again as it is, or the save is refused. There is
\* no path through which the `finally` would find the staging directory.
Reuse(i) ==
    /\ stage[i] = "asked"
    /\ Reusable(asked[i])
    /\ End(i, "over")
    /\ UNCHANGED <<head, directory, stored, events>>

Rebuild(i) ==
    /\ stage[i] = "asked"
    /\ ~Reusable(asked[i])
    /\ stage' = [stage EXCEPT ![i] = "starting"]
    /\ asked' = [asked EXCEPT ![i] = None]
    /\ UNCHANGED <<head, work, got, directory, stored, events>>

-----------------------------------------------------------------------------
(* analyse_candidate and _analyse_repo.                                    *)

\* A limit on age that a working copy in use can reach.
MutSwept ==
    [i \in Runs |-> [x \in Places |->
        IF directory[i][x] # None /\ directory[i][x] >= clone_timeout
        THEN None
        ELSE directory[i][x]]]

\* sweep_workdir.
Swept ==
    [i \in Runs |-> [x \in Places |->
        IF directory[i][x] # None /\ directory[i][x] >= StaleAfter
        THEN None
        ELSE directory[i][x]]]

\* What the `finally` of an intake deletes: the directory of a document it has.
WithoutDocuments(i) == [directory EXCEPT ![i][Documents] = None]

\* The sweep, then the fingerprint, before anything is cloned.
Start(i) ==
    /\ stage[i] = "starting"
    /\ directory' = Swept
    /\ stage' = [stage EXCEPT ![i] = "analysing"]
    /\ \E fingerprint \in Fingerprints : asked' = [asked EXCEPT ![i] = fingerprint]
    /\ UNCHANGED <<head, work, got, stored, events>>

\* The account cannot be listed.
StartFails(i) ==
    /\ stage[i] = "starting"
    /\ directory' = [Swept EXCEPT ![i][Documents] = None]
    /\ End(i, "over")
    /\ UNCHANGED <<head, stored, events>>

\* A clone that fails never gives the semaphore back.
MutHolding(i) == {r \in Repositories : work[i][r] \in {"cloning", "reading", "failed"}}

\* The repositories of run i that hold the semaphore.
Holding(i) == {r \in Repositories : work[i][r] \in {"cloning", "reading"}}

\* A semaphore of one too many.
MutCanClone(i, r) ==
    /\ stage[i] = "analysing"
    /\ work[i][r] = "waiting"
    /\ Cardinality(Holding(i)) <= max_clone_concurrency

CanClone(i, r) ==
    /\ stage[i] = "analysing"
    /\ work[i][r] = "waiting"
    /\ Cardinality(Holding(i)) < max_clone_concurrency

\* The semaphore is entered, and git makes the directory.
Clone(i, r) ==
    /\ CanClone(i, r)
    /\ work' = [work EXCEPT ![i][r] = "cloning"]
    /\ directory' = [directory EXCEPT ![i][r] = 0]
    /\ got' = [got EXCEPT ![i][r] = head[r]]
    /\ UNCHANGED <<head, stage, asked, stored, events>>

\* git took the history at some moment since.
Cloned(i, r) ==
    /\ stage[i] = "analysing"
    /\ work[i][r] = "cloning"
    /\ work' = [work EXCEPT ![i][r] = "reading"]
    /\ \E history \in got[i][r] .. head[r] : got' = [got EXCEPT ![i][r] = history]
    /\ UNCHANGED <<head, stage, asked, directory, stored, events>>

\* A read that fails leaves its directory.
MutLeave(i, r, end) ==
    /\ work' = [work EXCEPT ![i][r] = end]
    /\ directory' = IF end = "read" THEN [directory EXCEPT ![i][r] = None] ELSE directory

\* The `finally` of ephemeral_clone, and the end of _analyse_repo.
Leave(i, r, end) ==
    /\ work' = [work EXCEPT ![i][r] = end]
    /\ directory' = [directory EXCEPT ![i][r] = None]

\* git exits with an error, or the analysis raises. What was cloned is forgotten.
Breaks(i, r) ==
    /\ stage[i] = "analysing"
    /\ work[i][r] \in {"cloning", "reading"}
    /\ Leave(i, r, "failed")
    /\ got' = [got EXCEPT ![i][r] = None]
    /\ UNCHANGED <<head, stage, asked, stored, events>>

Overdue(i, r) ==
    /\ stage[i] = "analysing"
    /\ work[i][r] = "cloning"
    /\ directory[i][r] # None => directory[i][r] >= clone_timeout

\* _terminate_tree kills git. A child of it may write on for a moment, and the
\* removal, which gives up silently, then leaves the directory.
TimeOut(i, r) ==
    /\ Overdue(i, r)
    /\ \/ Leave(i, r, "failed")
       \/ /\ work' = [work EXCEPT ![i][r] = "failed"]
          /\ UNCHANGED directory
    /\ got' = [got EXCEPT ![i][r] = None]
    /\ UNCHANGED <<head, stage, asked, stored, events>>

\* _read_and_analyse comes to its end in its thread.
Read(i, r) ==
    /\ stage[i] = "analysing"
    /\ work[i][r] = "reading"
    /\ Leave(i, r, "read")
    /\ UNCHANGED <<head, stage, asked, got, stored, events>>

\* A dossier stamped with what the remotes hold when it is built.
MutDossierOf(i) ==
    [refs_fingerprint |-> head,
     read |-> [r \in {x \in Repositories : work[i][x] = "read"} |-> got[i][r]]]

\* build_candidate_dossier: what was read, and the fingerprint of the run.
DossierOf(i) ==
    [refs_fingerprint |-> asked[i],
     read |-> [r \in {x \in Repositories : work[i][x] = "read"} |-> got[i][r]]]

\* save_dossier, unless building or saving raises, and the `finally`.
Save(i) ==
    /\ stage[i] = "analysing"
    /\ \A r \in Repositories : work[i][r] \in Ended
    /\ stored' \in {DossierOf(i), stored}
    /\ directory' = WithoutDocuments(i)
    /\ End(i, "over")
    /\ UNCHANGED <<head, events>>

-----------------------------------------------------------------------------
(* The world.                                                              *)

\* A killed process runs no `finally`; nor does an intake whose documents the disk
\* refuses with an exception nobody catches, or whose job the database refuses to
\* start (BreakUploads and Refuse in IntakeJobs).
Crash(i) ==
    /\ events < MaxEvents
    /\ stage[i] \notin Over \cup {"new"}
    /\ events' = events + 1
    /\ End(i, "dead")
    /\ UNCHANGED <<head, directory, stored>>

Older(age) ==
    IF age = None THEN None ELSE IF age < StaleAfter THEN age + 1 ELSE StaleAfter

\* Nothing that takes no time is left to do, and nothing is past its deadline.
MayWait(i) ==
    CASE stage[i] \in Over \cup {"new"} -> TRUE
      [] stage[i] = "analysing" ->
            /\ \E r \in Repositories : work[i][r] \notin Ended
            /\ \A r \in Repositories :
                   /\ ~CanClone(i, r)
                   /\ ~Overdue(i, r)
                   /\ work[i][r] = "reading" /\ directory[i][r] # None =>
                          directory[i][r] < clone_timeout + AnalysisTime
      [] OTHER -> FALSE

Tick ==
    /\ \A i \in Runs : MayWait(i)
    /\ directory' = [i \in Runs |-> [x \in Places |-> Older(directory[i][x])]]
    /\ UNCHANGED <<head, stage, asked, work, got, stored, events>>

Intake(i) ==
    \/ Submit(i) \/ Ask(i) \/ AskFails(i) \/ Reuse(i) \/ Rebuild(i)
    \/ Start(i) \/ StartFails(i) \/ Save(i)

AnalyseRepo(i, r) ==
    Clone(i, r) \/ Cloned(i, r) \/ Breaks(i, r) \/ TimeOut(i, r) \/ Read(i, r)

Next ==
    \/ \E r \in Active : Push(r)
    \/ \E i \in Runs : Intake(i) \/ Crash(i)
    \/ \E i \in Runs, r \in Repositories : AnalyseRepo(i, r)
    \/ Tick

\* The event loop of a run takes one of the steps that are ready, time passes,
\* a deadline fires and a finished clone is read to its end. No clone is obliged
\* to finish.
Ready(i) ==
    \/ Reuse(i) \/ Rebuild(i) \/ Start(i) \/ Save(i)
    \/ \E r \in Repositories : Clone(i, r) \/ TimeOut(i, r) \/ Read(i, r)

Fairness == WF_vars(Tick) /\ \A i \in Runs : WF_vars(Ready(i))

Spec == Init /\ [][Next]_vars /\ Fairness

-----------------------------------------------------------------------------
(* Properties.                                                             *)

Ages == {None} \cup (0 .. StaleAfter)

\* A run holds no more clones than the semaphore allows, and a dossier says of
\* a repository no more than a history that was there.
TypeOK ==
    /\ stage \in [Runs -> Over \cup {"new", "asked", "starting", "analysing"}]
    /\ directory \in [Runs -> [Places -> Ages]]
    /\ \A i \in Runs : Cardinality(Holding(i)) <= max_clone_concurrency
    /\ stored # None =>
           \A r \in DOMAIN stored.read : stored.read[r] \in 0 .. head[r]

\* "The only thing that must never happen here is deleting the working copy of
\* a run that is still going": a sweep by age in one process never takes a
\* clone that is being made or read, or a staged document, from another.
LiveNeverSwept ==
    [][\A i \in Runs, x \in Places :
           InUse(i, x) /\ InUse(i, x)' /\ directory[i][x] # None =>
               directory'[i][x] # None]_vars

\* Nothing of a candidate stays on disk but what was interrupted: a directory
\* outlives its use when the process is killed or the intake broken off before the
\* `try` of its task, when the clone that writes it has to be killed, or when it is
\* the staging directory of an intake without documents, which nobody removes
\* before a sweep and which is empty.
OnlyTheInterruptedOrEmptyStay ==
    [][\A i \in Runs, x \in Places :
           Occupied(i, x) /\ ~Occupied(i, x)' /\ directory'[i][x] # None =>
               \/ x = Empty
               \/ stage'[i] = "dead"
               \/ x \in Repositories /\ work[i][x] = "cloning" /\ directory[i][x] >= clone_timeout]_vars

\* A dossier that is reused is never older than the question: each history it
\* has read is the one there was when the run asked, or a later one that another
\* run cloned meanwhile; also if a push came between the fingerprint and the
\* clones of the run that built it.
ReusedIsNoOlder ==
    [][\A i \in Runs :
           stage[i] = "asked" /\ stage'[i] = "over" =>
               \A r \in DOMAIN stored.read : stored.read[r] >= asked[i][r]]_vars

\* Every analysis comes to an end, however many of its clones hang.
EveryRunEnds ==
    \A i \in Runs : stage[i] = "analysing" ~> stage[i] \in Over

=============================================================================
