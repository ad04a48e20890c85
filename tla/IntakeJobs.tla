----------------------------- MODULE IntakeJobs -----------------------------
(***************************************************************************)
(* Intake: a candidate is accepted, analysed in the background and polled  *)
(* by job id (api/main.py), with the jobs kept in the database and in a    *)
(* write-through cache of the process that accepted them (store.py).       *)
(*                                                                         *)
(* One worker is one server process with one event loop. The endpoints and *)
(* the background task are coroutines: they interleave at their awaits     *)
(* only, so a call to the job store runs to its end before another task of *)
(* that worker goes on. Other workers, and the polls (threads), see every  *)
(* point of it: the read of the row, the commit, the copy to the cache.    *)
(***************************************************************************)
EXTENDS Naturals, Sequences

CONSTANTS
    Workers,        \* server processes over one database
    Jobs,           \* job ids, one per accepted candidate
    None,           \* SQL NULL, no row, no task
    CacheLimit,     \* CACHE_LIMIT: the jobs a worker keeps in memory
    MaxCrashes,     \* bound on processes killed
    MaxFaults       \* bound on writes the database or the disk refuses

ASSUME IntakeAssumption ==
    /\ CacheLimit \in Nat \ {0}
    /\ MaxCrashes \in Nat
    /\ MaxFaults \in Nat

Reasons == {"refused", "analysis", "restarted"}

\* The table intake_jobs.
Rows ==
    [status : {"queued", "running", "done", "failed"},
     error : Reasons \cup {None},
     dossier_id : Jobs \cup {None}]

\* The awaits of add_candidate and _run_intake.
Stages ==
    {"staging", "scheduled", "analysing", "storing", "finishing", "failing", "cleanup"}

Tasks == [worker : Workers, at : Stages]

\* NULL is none of the values it stands in for.
ASSUME NoneAssumption == None \notin Jobs \cup Reasons \cup Stages \cup Rows \cup Tasks

VARIABLES
    jobs,           \* the table intake_jobs: a row, or None
    dossiers,       \* the jobs whose dossier is stored
    uploads,        \* the jobs whose uploaded documents are on disk
    own,            \* _own, per worker: the cached jobs, oldest first
    loop,           \* what each worker's event loop is in the middle of
    task,           \* where the request, then the background task, of a job is
    crashes, faults

vars == <<jobs, dossiers, uploads, own, loop, task, crashes, faults>>

Down == [step |-> "down"]
Free == [step |-> "free"]

Open(row) == row.status \in {"queued", "running"}
Settled(row) == row.status \in {"done", "failed"}

Exists(j) == jobs[j] # None

\* The task of job j waits at `at` on worker w, whose loop can run it.
At(w, j, at) == loop[w] = Free /\ task[j] = [worker |-> w, at |-> at]

Goto(w, j, at) ==
    task' = [task EXCEPT ![j] = IF at = None THEN None ELSE [worker |-> w, at |-> at]]

-----------------------------------------------------------------------------
(* SqlJobStore.                                                            *)

\* A _remember that keeps the copy it already has.
MutRemember(cache, j, row) ==
    IF \E i \in DOMAIN cache : cache[i].id = j
    THEN cache
    ELSE LET grown == Append(cache, [id |-> j, row |-> row])
         IN  IF Len(grown) > CacheLimit THEN Tail(grown) ELSE grown

\* A _remember that never drops the oldest job.
MutRememberAll(cache, j, row) ==
    LET entry == [id |-> j, row |-> row]
    IN  IF \E i \in DOMAIN cache : cache[i].id = j
        THEN [i \in DOMAIN cache |-> IF cache[i].id = j THEN entry ELSE cache[i]]
        ELSE Append(cache, entry)

\* _remember: a job keeps its place; a new one may push out the oldest.
Remember(cache, j, row) ==
    LET entry == [id |-> j, row |-> row]
        grown == Append(cache, entry)
    IN  IF \E i \in DOMAIN cache : cache[i].id = j
        THEN [i \in DOMAIN cache |-> IF cache[i].id = j THEN entry ELSE cache[i]]
        ELSE IF Len(grown) > CacheLimit THEN Tail(grown) ELSE grown

Cached(w, j) == \E i \in DOMAIN own[w] : own[w][i].id = j

\* get, as a poll of worker w sees it: the copy, else the row.
Get(w, j) ==
    IF Cached(w, j)
    THEN (CHOOSE entry \in {own[w][i] : i \in DOMAIN own[w]} : entry.id = j).row
    ELSE jobs[j]

\* An UPDATE writes the columns whose value the session changed.
Merged(stored, seen, new) ==
    [c \in DOMAIN stored |-> IF new[c] # seen[c] THEN new[c] ELSE stored[c]]

\* create: the INSERT commits, then the cache takes the job.
Create(w, j) ==
    LET row == [status |-> "queued", error |-> None, dossier_id |-> None]
    IN  /\ jobs' = [jobs EXCEPT ![j] = row]
        /\ loop' = [loop EXCEPT ![w] = [step |-> "remember", job |-> j, row |-> row]]

\* _update begins: the session reads the row. The task goes on at `then`, and
\* at `orelse` if the database raises.
Update(w, j, changes, then, orelse) ==
    /\ loop' = [loop EXCEPT ![w] = [step |-> "commit", job |-> j, seen |-> jobs[j],
                                    new |-> changes, orelse |-> orelse]]
    /\ Goto(w, j, then)
    /\ UNCHANGED <<jobs, dossiers, uploads, own, crashes, faults>>

\* Its commit.
Commit(w) ==
    /\ loop[w].step = "commit"
    /\ LET call == loop[w]
       IN  /\ jobs' = [jobs EXCEPT ![call.job] = Merged(@, call.seen, call.new)]
           /\ loop' = [loop EXCEPT ![w] =
                  IF Cached(w, call.job)
                  THEN [step |-> "remember", job |-> call.job, row |-> call.new]
                  ELSE Free]
    /\ UNCHANGED <<dossiers, uploads, own, task, crashes, faults>>

\* The statement is refused (a locked or full database): the call raises.
Refuse(w) ==
    /\ faults < MaxFaults
    /\ loop[w].step = "commit"
    /\ faults' = faults + 1
    /\ Goto(w, loop[w].job, loop[w].orelse)
    /\ loop' = [loop EXCEPT ![w] = Free]
    /\ UNCHANGED <<jobs, dossiers, uploads, own, crashes>>

\* Its copy to the cache, after the commit.
WriteThrough(w) ==
    /\ loop[w].step = "remember"
    /\ own' = [own EXCEPT ![w] = Remember(@, loop[w].job, loop[w].row)]
    /\ loop' = [loop EXCEPT ![w] = Free]
    /\ UNCHANGED <<jobs, dossiers, uploads, task, crashes, faults>>

-----------------------------------------------------------------------------
(* A worker's life: _lifespan runs abandon_unfinished before the first      *)
(* request.                                                                 *)

\* A startup that looks for running jobs only.
MutUnfinished == {j \in Jobs : Exists(j) /\ jobs[j].status = "running"}

Unfinished == {j \in Jobs : Exists(j) /\ Open(jobs[j])}

Boot(w) ==
    /\ loop[w] = Down
    /\ loop' = [loop EXCEPT ![w] = [step |-> "abandon", stale |-> Unfinished]]
    /\ UNCHANGED <<jobs, dossiers, uploads, own, task, crashes, faults>>

\* A startup that puts interrupted jobs back in line.
MutAbandoned(row) == [row EXCEPT !.status = "queued"]

\* A startup that fails interrupted jobs and does not say why.
MutAbandonedSilently(row) == [row EXCEPT !.status = "failed"]

\* A startup that resets the row it fails.
MutAbandonedAfresh(row) ==
    [row EXCEPT !.status = "failed", !.error = "restarted", !.dossier_id = None]

\* What becomes of a job the last process left open.
Abandoned(row) == [row EXCEPT !.status = "failed", !.error = "restarted"]

AbandonUnfinished(w) ==
    /\ loop[w].step = "abandon"
    /\ jobs' = [j \in Jobs |-> IF j \in loop[w].stale THEN Abandoned(jobs[j]) ELSE jobs[j]]
    /\ own' = [own EXCEPT ![w] = <<>>]
    /\ loop' = [loop EXCEPT ![w] = Free]
    /\ UNCHANGED <<dossiers, uploads, task, crashes, faults>>

\* The process is killed: its memory and its tasks are gone, what it
\* committed and what it staged stay.
Crash(w) ==
    /\ crashes < MaxCrashes
    /\ loop[w] # Down
    /\ crashes' = crashes + 1
    /\ loop' = [loop EXCEPT ![w] = Down]
    /\ own' = [own EXCEPT ![w] = <<>>]
    /\ task' = [j \in Jobs |->
                   IF task[j] # None /\ task[j].worker = w THEN None ELSE task[j]]
    /\ UNCHANGED <<jobs, dossiers, uploads, faults>>

-----------------------------------------------------------------------------
(* add_candidate and _run_intake.                                          *)

\* The request is accepted; the job exists before the uploads are read.
AddCandidate(w, j) ==
    /\ loop[w] = Free
    /\ ~Exists(j)
    /\ Create(w, j)
    /\ Goto(w, j, "staging")
    /\ UNCHANGED <<dossiers, uploads, own, crashes, faults>>

\* The uploads are staged (there may be none) and the analysis is scheduled.
StageUploads(w, j) ==
    /\ At(w, j, "staging")
    /\ uploads' \in {uploads, uploads \cup {j}}
    /\ Goto(w, j, "scheduled")
    /\ UNCHANGED <<jobs, dossiers, own, loop, crashes, faults>>

\* An upload is refused: the staging directory goes, and the job fails.
RefuseUploads(w, j) ==
    /\ At(w, j, "staging")
    /\ Update(w, j, [jobs[j] EXCEPT !.status = "failed", !.error = "refused"], None, None)

\* The disk refuses a document: neither handler of add_candidate catches that,
\* and the request ends with the job queued and nothing scheduled.
BreakUploads(w, j) ==
    /\ faults < MaxFaults
    /\ At(w, j, "staging")
    /\ faults' = faults + 1
    /\ uploads' \in {uploads, uploads \cup {j}}
    /\ Goto(w, j, None)
    /\ UNCHANGED <<jobs, dossiers, own, loop, crashes>>

\* The first statement of the task, outside its try: if it raises, the task
\* is over.
Start(w, j) ==
    /\ At(w, j, "scheduled")
    /\ Update(w, j, [jobs[j] EXCEPT !.status = "running"], "analysing", None)

\* A task that reports before it stores.
MutAnalyse(w, j) ==
    /\ At(w, j, "analysing")
    /\ \E at \in {"finishing", "failing"} : Goto(w, j, at)
    /\ UNCHANGED <<jobs, dossiers, uploads, own, loop, crashes, faults>>

\* The awaits: a report, reused or built, or an exception.
Analyse(w, j) ==
    /\ At(w, j, "analysing")
    /\ \E at \in {"storing", "failing"} : Goto(w, j, at)
    /\ UNCHANGED <<jobs, dossiers, uploads, own, loop, crashes, faults>>

StoreDossier(w, j) ==
    /\ At(w, j, "storing")
    /\ dossiers' = dossiers \cup {j}
    /\ Goto(w, j, "finishing")
    /\ UNCHANGED <<jobs, uploads, own, loop, crashes, faults>>

Finish(w, j) ==
    /\ At(w, j, "finishing")
    /\ Update(w, j, [jobs[j] EXCEPT !.status = "done", !.dossier_id = j], "cleanup", "failing")

Fail(w, j) ==
    /\ At(w, j, "failing")
    /\ Update(w, j, [jobs[j] EXCEPT !.status = "failed", !.error = "analysis"],
              "cleanup", "cleanup")

\* A task that forgets the documents of a candidate who could not be analysed.
MutCleanup(w, j) ==
    /\ At(w, j, "cleanup")
    /\ uploads' = IF jobs[j].status = "done" THEN uploads \ {j} ELSE uploads
    /\ Goto(w, j, None)
    /\ UNCHANGED <<jobs, dossiers, own, loop, crashes, faults>>

\* The finally: the uploaded documents are not kept.
Cleanup(w, j) ==
    /\ At(w, j, "cleanup")
    /\ uploads' = uploads \ {j}
    /\ Goto(w, j, None)
    /\ UNCHANGED <<jobs, dossiers, own, loop, crashes, faults>>

-----------------------------------------------------------------------------

Init ==
    /\ jobs = [j \in Jobs |-> None]
    /\ dossiers = {}
    /\ uploads = {}
    /\ own = [w \in Workers |-> <<>>]
    /\ loop = [w \in Workers |-> Down]
    /\ task = [j \in Jobs |-> None]
    /\ crashes = 0
    /\ faults = 0

StoreCall(w) == Commit(w) \/ WriteThrough(w)

Startup(w) == Boot(w) \/ AbandonUnfinished(w)

RunIntake(w, j) ==
    \/ StageUploads(w, j)
    \/ RefuseUploads(w, j)
    \/ Start(w, j)
    \/ Analyse(w, j)
    \/ StoreDossier(w, j)
    \/ Finish(w, j)
    \/ Fail(w, j)
    \/ Cleanup(w, j)

Next ==
    \/ \E w \in Workers : StoreCall(w) \/ Refuse(w) \/ Startup(w) \/ Crash(w)
    \/ \E w \in Workers, j \in Jobs :
           AddCandidate(w, j) \/ RunIntake(w, j) \/ BreakUploads(w, j)

\* A killed server is started again, its loop runs what is ready, and every
\* wait of an analysis ends (each clone and each request has a timeout).
\* Nobody is obliged to submit a candidate, and nothing obliges a crash.
Fairness ==
    /\ \A w \in Workers : WF_vars(StoreCall(w)) /\ WF_vars(Startup(w))
    /\ \A w \in Workers, j \in Jobs : WF_vars(RunIntake(w, j))

Spec == Init /\ [][Next]_vars /\ Fairness

-----------------------------------------------------------------------------
(* Properties.                                                             *)

\* Every row, cached copy and task holds a value of its kind, and no cache
\* holds a job twice or more jobs than its limit.
TypeOK ==
    /\ jobs \in [Jobs -> Rows \cup {None}]
    /\ dossiers \subseteq Jobs
    /\ uploads \subseteq Jobs
    /\ \A w \in Workers :
           /\ own[w] \in Seq([id : Jobs, row : Rows])
           /\ Len(own[w]) <= CacheLimit
           /\ \A i, k \in DOMAIN own[w] : own[w][i].id = own[w][k].id => i = k
    /\ task \in [Jobs -> Tasks \cup {None}]
    /\ crashes \in 0 .. MaxCrashes
    /\ faults \in 0 .. MaxFaults

\* The interface never reports a dossier that is not there: a job is done only
\* once its dossier is committed, whatever crashed, was refused or overlapped.
DoneHasDossier ==
    \A j \in Jobs : Exists(j) =>
        /\ jobs[j].status = "done" => jobs[j].dossier_id = j
        /\ jobs[j].dossier_id # None => jobs[j].dossier_id \in dossiers

\* "Any failure is recorded against the job with its reason."
FailureHasReason ==
    \A j \in Jobs : Exists(j) /\ jobs[j].status = "failed" => jobs[j].error # None

\* SqlJobStore: "that process's copy cannot go stale". Between store calls, a
\* worker's copy of a job is the row of that job.
CopyNeverStale ==
    \A w \in Workers :
        loop[w] = Free =>
            \A i \in DOMAIN own[w] : own[w][i].row = jobs[own[w][i].id]

\* What a browser polling one worker is told never goes back: queued, running,
\* then one verdict that stays, across evictions, crashes and restarts.
Rank(row) == IF Settled(row) THEN 3 ELSE IF row.status = "running" THEN 2 ELSE 1

PollsNeverRegress ==
    [][\A w \in Workers, j \in Jobs :
           Exists(j) =>
               \/ Get(w, j)' = Get(w, j)
               \/ Rank(Get(w, j)') > Rank(Get(w, j))]_vars

\* A dossier a job points at is never lost from it again.
DossierStays ==
    [][\A j \in Jobs :
           Exists(j) /\ jobs[j].dossier_id # None =>
               jobs'[j].dossier_id = jobs[j].dossier_id]_vars

\* The uploaded documents are working material: as long as no process was
\* killed and no statement refused, they are on disk only while a task needs
\* them.
UploadsAreTemporary ==
    crashes = 0 /\ faults = 0 => \A j \in uploads : task[j] # None

\* A candidate is never a silent no-op: every job the service ever accepted is
\* settled in the end, whenever the process was killed.
EveryJobSettles ==
    \A j \in Jobs : Exists(j) ~> (Exists(j) /\ Settled(jobs[j]))

=============================================================================
