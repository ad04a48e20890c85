------------------------- MODULE IntakeJobs_proofs -------------------------
(***************************************************************************)
(* What the intake keeps, for any number of workers and jobs, any cache     *)
(* limit, and however many processes are killed and writes are refused.    *)
(*                                                                         *)
(* DoneHasDossier and FailureHasReason speak of the table alone and are    *)
(* not inductive: a commit writes the columns a session changed over a row *)
(* that may be younger than the one the session read. What carries them is *)
(* that two columns only ever gain a value (Later), so the row a session   *)
(* saw, the row it writes and the row it writes over agree on what they    *)
(* have.                                                                   *)
(***************************************************************************)
EXTENDS IntakeJobs, SequenceTheorems, TLAPS

\* A row of job j keeps what the interface promises of it.
Sound(j, row) ==
    /\ row \in Rows
    /\ row.dossier_id \in {None, j}
    /\ row.dossier_id # None => j \in dossiers
    /\ row.status = "done" => row.dossier_id = j
    /\ row.status = "failed" => row.error # None

\* A dossier and a reason once recorded stay recorded.
Later(old, row) ==
    /\ old.dossier_id # None => row.dossier_id = old.dossier_id
    /\ old.error # None => row.error # None

\* Where a refused write leaves the task.
Excuses == {None, "failing", "cleanup"}

\* What an event loop can be in the middle of.
Calls ==
    {Down, Free}
    \cup [step : {"abandon"}, stale : SUBSET Jobs]
    \cup [step : {"remember"}, job : Jobs, row : Rows]
    \cup [step : {"commit"}, job : Jobs, seen : Rows, new : Rows, orelse : Excuses]

Copies == [id : Jobs, row : Rows]

RowsAreSound == \A j \in Jobs : Exists(j) => Sound(j, jobs[j])

\* What a loop holds is about jobs that exist, and a commit is no older than
\* what it has seen.
CallIsSound(call) ==
    /\ call.step = "abandon" => \A j \in call.stale : Exists(j)
    /\ call.step = "commit" =>
           /\ Exists(call.job)
           /\ Sound(call.job, call.seen)
           /\ Sound(call.job, call.new)
           /\ Later(call.seen, call.new)
           /\ Later(call.seen, jobs[call.job])

CallsAreSound == \A w \in Workers : CallIsSound(loop[w])

TasksAreSound ==
    \A j \in Jobs : task[j] # None =>
        /\ Exists(j)
        /\ task[j].at = "finishing" => j \in dossiers

\* UploadsAreTemporary, and the documents that are not staged yet.
StagedInTime ==
    crashes = 0 /\ faults = 0 =>
        \A j \in Jobs : task[j] = None \/ task[j].at = "staging" => j \notin uploads

IntakeInvariant ==
    /\ TypeOK
    /\ loop \in [Workers -> Calls]
    /\ own \in [Workers -> Seq(Copies)]
    /\ RowsAreSound
    /\ CallsAreSound
    /\ TasksAreSound
    /\ StagedInTime

-----------------------------------------------------------------------------
(* The operators of the store.                                             *)

Distinct(cache) == \A i, k \in DOMAIN cache : cache[i].id = cache[k].id => i = k

\* _remember keeps the cache within its limit and each job in it once: it holds
\* the new copy, and of the other jobs what it held before.
LEMMA RememberFacts ==
    ASSUME NEW cache \in Seq(Copies), NEW j \in Jobs, NEW row \in Rows,
           Len(cache) <= CacheLimit, Distinct(cache)
    PROVE  LET new == Remember(cache, j, row)
           IN  /\ new \in Seq(Copies)
               /\ Len(new) <= CacheLimit
               /\ Distinct(new)
               /\ \E i \in DOMAIN new : new[i] = [id |-> j, row |-> row]
               /\ \A i \in DOMAIN new :
                      \/ new[i] = [id |-> j, row |-> row]
                      \/ new[i].id # j /\ \E k \in DOMAIN cache : new[i] = cache[k]
<1> DEFINE entry == [id |-> j, row |-> row]
           grown == Append(cache, entry)
<1>0. entry \in Copies /\ entry.id = j /\ CacheLimit \in Nat /\ CacheLimit >= 1
  BY IntakeAssumption DEF Copies
<1>1. CASE \E i \in DOMAIN cache : cache[i].id = j
  <2> DEFINE new == [i \in DOMAIN cache |-> IF cache[i].id = j THEN entry ELSE cache[i]]
  <2>1. Remember(cache, j, row) = new
    BY <1>1 DEF Remember
  <2>2. new \in Seq(Copies) /\ Len(new) = Len(cache) /\ DOMAIN new = DOMAIN cache
    <3>1. DOMAIN cache = 1 .. Len(cache) /\ Len(cache) \in Nat
      OBVIOUS
    <3>2. \A i \in 1 .. Len(cache) : new[i] \in Copies
      BY <1>0, <3>1
    <3> HIDE DEF entry
    <3> QED
      BY <3>1, <3>2
  <2>3. \A i \in DOMAIN cache : new[i].id = cache[i].id
    BY <1>0
  <2>4. Distinct(new)
    BY <2>2, <2>3 DEF Distinct
  <2>5. \A i \in DOMAIN new : new[i] = entry \/ (new[i].id # j /\ new[i] = cache[i])
    BY <2>2
  <2>6. \E i \in DOMAIN new : new[i] = entry
    BY <1>1, <2>2
  <2> HIDE DEF new
  <2> QED
    BY <2>1, <2>2, <2>4, <2>5, <2>6
<1>2. CASE ~ \E i \in DOMAIN cache : cache[i].id = j
  <2>1. /\ grown \in Seq(Copies) /\ grown # <<>>
        /\ Len(grown) = Len(cache) + 1 /\ Len(cache) \in Nat
        /\ \A i \in 1 .. Len(cache) : grown[i] = cache[i]
        /\ grown[Len(cache) + 1] = entry
        /\ DOMAIN cache = 1 .. Len(cache)
        /\ DOMAIN grown = 1 .. Len(cache) + 1
    BY <1>0
  <2> HIDE DEF grown, entry
  <2>2. Distinct(grown)
    <3> SUFFICES ASSUME NEW i \in DOMAIN grown, NEW k \in DOMAIN grown,
                        grown[i].id = grown[k].id
                 PROVE  i = k
      BY DEF Distinct
    <3>1. CASE i \in DOMAIN cache /\ k \in DOMAIN cache
      BY <2>1, <3>1 DEF Distinct
    <3>2. CASE i \notin DOMAIN cache /\ k \notin DOMAIN cache
      BY <2>1, <3>2
    <3>3. CASE i \in DOMAIN cache /\ k \notin DOMAIN cache
      BY <1>0, <1>2, <2>1, <3>3
    <3>4. CASE i \notin DOMAIN cache /\ k \in DOMAIN cache
      BY <1>0, <1>2, <2>1, <3>4
    <3> QED
      BY <3>1, <3>2, <3>3, <3>4
  <2>3. CASE Len(grown) > CacheLimit
    <3>1. /\ Tail(grown) \in Seq(Copies)
          /\ Len(Tail(grown)) = Len(cache)
          /\ \A i \in 1 .. Len(cache) : Tail(grown)[i] = grown[i + 1]
          /\ DOMAIN Tail(grown) = 1 .. Len(cache)
      BY <2>1, HeadTailProperties
    <3>2. Remember(cache, j, row) = Tail(grown)
      BY <1>2, <2>3 DEF Remember, grown, entry
    <3>3. Distinct(Tail(grown))
      BY <2>1, <2>2, <3>1 DEF Distinct
    <3>4. Len(cache) >= 1
      BY <1>0, <2>1, <2>3
    <3>5. Tail(grown)[Len(cache)] = entry
      BY <2>1, <3>1, <3>4
    <3>6. \A i \in DOMAIN Tail(grown) :
             \/ Tail(grown)[i] = entry
             \/ Tail(grown)[i].id # j /\ \E k \in DOMAIN cache : Tail(grown)[i] = cache[k]
      <4> SUFFICES ASSUME NEW i \in 1 .. Len(cache)
                   PROVE  \/ Tail(grown)[i] = entry
                          \/ /\ Tail(grown)[i].id # j
                             /\ \E k \in DOMAIN cache : Tail(grown)[i] = cache[k]
        BY <3>1
      <4>1. CASE i = Len(cache)
        BY <3>5, <4>1
      <4>2. CASE i # Len(cache)
        <5>1. i + 1 \in 1 .. Len(cache)
          BY <4>2
        <5>2. Tail(grown)[i] = cache[i + 1]
          BY <2>1, <3>1, <5>1
        <5> QED
          BY <1>2, <2>1, <5>1, <5>2
      <4> QED
        BY <4>1, <4>2
    <3>7. \E i \in DOMAIN Tail(grown) : Tail(grown)[i] = entry
      BY <2>1, <3>1, <3>4, <3>5
    <3> QED
      BY <3>1, <3>2, <3>3, <3>6, <3>7 DEF entry
  <2>4. CASE ~(Len(grown) > CacheLimit)
    <3>1. Remember(cache, j, row) = grown
      BY <1>2, <2>4 DEF Remember, grown, entry
    <3>2. \E i \in DOMAIN grown : grown[i] = entry
      BY <2>1
    <3>3. \A i \in DOMAIN grown :
             \/ grown[i] = entry
             \/ grown[i].id # j /\ \E k \in DOMAIN cache : grown[i] = cache[k]
      BY <1>2, <2>1
    <3> QED
      BY <1>0, <2>1, <2>2, <2>4, <3>1, <3>2, <3>3 DEF entry
  <2> QED
    BY <2>3, <2>4
<1> QED
  BY <1>1, <1>2

\* An UPDATE of what a session changed, over a row at least as old as what the
\* session saw, keeps what the interface promises of the row.
LEMMA MergedIsSound ==
    ASSUME NEW j \in Jobs, NEW stored, NEW seen, NEW new,
           Sound(j, stored), Sound(j, seen), Sound(j, new),
           Later(seen, stored), Later(seen, new)
    PROVE  /\ Sound(j, Merged(stored, seen, new))
           /\ Later(stored, Merged(stored, seen, new))
           /\ Later(seen, Merged(stored, seen, new))
<1> DEFINE row == Merged(stored, seen, new)
<1>1. /\ stored \in Rows /\ seen \in Rows /\ new \in Rows
      /\ DOMAIN stored = {"status", "error", "dossier_id"}
  BY DEF Sound, Rows
<1>2. /\ row = [c \in {"status", "error", "dossier_id"} |->
                    IF new[c] # seen[c] THEN new[c] ELSE stored[c]]
      /\ row.status = IF new.status # seen.status THEN new.status ELSE stored.status
      /\ row.error = IF new.error # seen.error THEN new.error ELSE stored.error
      /\ row.dossier_id =
             IF new.dossier_id # seen.dossier_id THEN new.dossier_id ELSE stored.dossier_id
  BY <1>1 DEF Merged
<1>3. row \in Rows
  BY <1>1, <1>2 DEF Rows
<1> HIDE DEF row
<1>4. /\ row.dossier_id \in {None, j}
      /\ row.dossier_id # None => j \in dossiers
  BY <1>2 DEF Sound
<1>5. row.status = "done" => row.dossier_id = j
  BY <1>2, NoneAssumption DEF Sound, Later
<1>6. row.status = "failed" => row.error # None
  BY <1>2 DEF Sound, Later
<1>7. Later(stored, row) /\ Later(seen, row)
  BY <1>2, NoneAssumption DEF Sound, Later
<1> QED
  BY <1>3, <1>4, <1>5, <1>6, <1>7 DEF row, Sound

-----------------------------------------------------------------------------
(* Each step keeps the invariant.                                          *)

CachesTyped ==
    \A w \in Workers :
        /\ own[w] \in Seq(Copies)
        /\ Len(own[w]) <= CacheLimit
        /\ Distinct(own[w])

Parts ==
    /\ jobs \in [Jobs -> Rows \cup {None}]
    /\ dossiers \subseteq Jobs
    /\ uploads \subseteq Jobs
    /\ CachesTyped
    /\ task \in [Jobs -> Tasks \cup {None}]
    /\ crashes \in 0 .. MaxCrashes
    /\ faults \in 0 .. MaxFaults

\* TypeOK part by part, before and after a step.
LEMMA Typed == (TypeOK <=> Parts) /\ (TypeOK' <=> Parts')
BY DEF TypeOK, Parts, CachesTyped, Distinct, Copies

\* A step that leaves the caches alone leaves them typed.
LEMMA CachesStayTyped ==
    ASSUME CachesTyped, UNCHANGED own
    PROVE  CachesTyped'
BY DEF CachesTyped

LEMMA InitIntake == Init => IntakeInvariant
<1> SUFFICES ASSUME Init
             PROVE  IntakeInvariant
  OBVIOUS
<1>1. CachesTyped
  <2>1. \A w \in Workers : own[w] = <<>>
    BY DEF Init
  <2>2. <<>> \in Seq(Copies) /\ Len(<<>>) = 0 /\ Distinct(<<>>)
    BY DEF Distinct
  <2>3. 0 <= CacheLimit
    BY IntakeAssumption
  <2> QED
    BY <2>1, <2>2, <2>3 DEF CachesTyped
<1>2. TypeOK
  BY <1>1, Typed, IntakeAssumption DEF Init, Parts
<1>3. /\ loop \in [Workers -> Calls]
      /\ \A w \in Workers : loop[w].step = "down"
      /\ own \in [Workers -> Seq(Copies)]
  BY DEF Init, Calls, Down
<1>4. RowsAreSound /\ TasksAreSound /\ StagedInTime
  BY DEF Init, RowsAreSound, TasksAreSound, StagedInTime, Exists
<1> QED
  BY <1>2, <1>3, <1>4 DEF IntakeInvariant, CallsAreSound, CallIsSound

\* Where a task is after a Goto.
LEMMA GotoFacts ==
    ASSUME task \in [Jobs -> Tasks \cup {None}], NEW w \in Workers, NEW j \in Jobs,
           NEW at \in Stages \cup {None}, Goto(w, j, at)
    PROVE  /\ task' \in [Jobs -> Tasks \cup {None}]
           /\ \A k \in Jobs : k # j => task'[k] = task[k]
           /\ at = None => task'[j] = None
           /\ at # None => task'[j] # None /\ task'[j].worker = w /\ task'[j].at = at
<1>1. at # None => [worker |-> w, at |-> at] \in Tasks
  BY DEF Tasks
<1>2. None \notin Tasks
  BY NoneAssumption
<1> QED
  BY <1>1, <1>2 DEF Goto

\* What the loop of a worker is in the middle of, by its step.
LEMMA CallFacts ==
    ASSUME loop \in [Workers -> Calls], NEW w \in Workers
    PROVE  /\ loop[w].step \in {"down", "free", "abandon", "remember", "commit"}
           /\ loop[w].step = "down" <=> loop[w] = Down
           /\ loop[w].step = "free" <=> loop[w] = Free
           /\ loop[w].step = "abandon" => loop[w].stale \in SUBSET Jobs
           /\ loop[w].step = "remember" => loop[w].job \in Jobs /\ loop[w].row \in Rows
           /\ loop[w].step = "commit" =>
                  /\ loop[w].job \in Jobs /\ loop[w].seen \in Rows /\ loop[w].new \in Rows
                  /\ loop[w].orelse \in Excuses
<1>1. loop[w] \in Calls
  OBVIOUS
<1> QED
  BY <1>1 DEF Calls, Down, Free

\* A step that only adds dossiers, and to each row only a dossier or a reason,
\* keeps what is sound of a row and of a call.
LEMMA SoundStays ==
    ASSUME dossiers \subseteq dossiers', NEW j, NEW row, Sound(j, row)
    PROVE  Sound(j, row)'
BY DEF Sound

LEMMA CallStaysSound ==
    ASSUME dossiers \subseteq dossiers',
           \A j \in Jobs : Exists(j) => Exists(j)' /\ Later(jobs[j], jobs'[j]),
           NEW call \in Calls, CallIsSound(call)
    PROVE  CallIsSound(call)'
<1>1. CASE call.step = "abandon"
  <2>1. call.stale \in SUBSET Jobs /\ \A j \in call.stale : Exists(j)
    BY <1>1 DEF Calls, Down, Free, CallIsSound
  <2> QED
    BY <1>1, <2>1 DEF CallIsSound
<1>2. CASE call.step = "commit"
  <2>1. /\ call.job \in Jobs
        /\ Exists(call.job)
        /\ Sound(call.job, call.seen)
        /\ Sound(call.job, call.new)
        /\ Later(call.seen, call.new)
        /\ Later(call.seen, jobs[call.job])
    BY <1>2 DEF Calls, Down, Free, CallIsSound
  <2>2. Exists(call.job)' /\ Later(jobs[call.job], jobs'[call.job])
    BY <2>1
  <2>3. Later(call.seen, jobs'[call.job])
    BY <2>1, <2>2 DEF Later
  <2>4. Sound(call.job, call.seen)' /\ Sound(call.job, call.new)'
    BY <2>1, SoundStays
  <2> QED
    BY <1>2, <2>1, <2>2, <2>3, <2>4 DEF CallIsSound
<1> QED
  BY <1>1, <1>2 DEF CallIsSound

LEMMA RowsStaySound ==
    ASSUME RowsAreSound, dossiers \subseteq dossiers',
           NEW j \in Jobs, jobs'[j] = jobs[j], Exists(j)
    PROVE  Sound(j, jobs[j])'
BY DEF RowsAreSound, Sound

\* The loop of one worker turns to another call.
LEMMA NextCall ==
    ASSUME loop \in [Workers -> Calls], CallsAreSound, dossiers \subseteq dossiers',
           \A j \in Jobs : Exists(j) => Exists(j)' /\ Later(jobs[j], jobs'[j]),
           NEW w \in Workers, NEW call \in Calls, CallIsSound(call)',
           loop' = [loop EXCEPT ![w] = call]
    PROVE  loop' \in [Workers -> Calls] /\ CallsAreSound'
<1>1. loop' \in [Workers -> Calls]
  OBVIOUS
<1>2. ASSUME NEW v \in Workers
      PROVE  CallIsSound(loop[v])'
  <2>1. CASE v = w
    <3>1. loop'[v] = call
      BY <2>1
    <3> QED
      BY <3>1 DEF CallIsSound
  <2>2. CASE v # w
    <3>1. PICK other \in Calls : other = loop[v]
      OBVIOUS
    <3>2. CallIsSound(other)
      BY <3>1 DEF CallsAreSound
    <3>3. CallIsSound(other)'
      BY <3>2, CallStaysSound
    <3>4. loop'[v] = other
      BY <2>2, <3>1
    <3> QED
      BY <3>3, <3>4 DEF CallIsSound
  <2> QED
    BY <2>1, <2>2
<1> QED
  BY <1>1, <1>2 DEF CallsAreSound

\* A loop with nothing to write owes nothing.
LEMMA Idle ==
    /\ Down \in Calls /\ Free \in Calls
    /\ CallIsSound(Down)' /\ CallIsSound(Free)'
BY DEF Down, Free, Calls, CallIsSound

\* A call that only moves its task on.
LEMMA MoveKeeps ==
    ASSUME IntakeInvariant, NEW w \in Workers, NEW j \in Jobs, NEW from \in Stages,
           NEW to \in Stages \cup {None}, At(w, j, from), Goto(w, j, to),
           UNCHANGED <<jobs, own, loop>>,
           dossiers \subseteq dossiers', dossiers' \subseteq dossiers \cup {j},
           uploads' \subseteq uploads \cup {j},
           to = "finishing" => j \in dossiers',
           crashes' = crashes,
           \/ /\ faults' = faults
              /\ to # "staging"
              /\ to = None => j \notin uploads'
           \/ faults < MaxFaults /\ faults' = faults + 1
    PROVE  IntakeInvariant'
<1> USE DEF IntakeInvariant
<1>1. /\ task' \in [Jobs -> Tasks \cup {None}]
      /\ \A k \in Jobs : k # j => task'[k] = task[k]
      /\ to = None => task'[j] = None
      /\ to # None => task'[j] # None /\ task'[j].at = to
  BY Typed, GotoFacts DEF Parts
<1>2. task[j] # None /\ Exists(j)
  BY NoneAssumption DEF At, TasksAreSound, Tasks
<1>3. TypeOK'
  <2>1. CachesTyped'
    BY Typed, CachesStayTyped DEF Parts
  <2>2. faults' \in 0 .. MaxFaults
    BY IntakeAssumption, Typed DEF Parts
  <2> QED
    BY <1>1, <2>1, <2>2, Typed DEF Parts
<1>4. RowsAreSound'
  BY DEF RowsAreSound, Sound, Exists
<1>5. CallsAreSound' /\ loop' \in [Workers -> Calls]
  <2>1. \A k \in Jobs : Exists(k) => Exists(k)' /\ Later(jobs[k], jobs'[k])
    BY DEF Exists, Later
  <2>2. ASSUME NEW v \in Workers
        PROVE  CallIsSound(loop[v])'
    <3>1. PICK call \in Calls : call = loop[v]
      OBVIOUS
    <3>2. CallIsSound(call)'
      BY <2>1, <3>1, CallStaysSound DEF CallsAreSound
    <3> QED
      BY <3>1, <3>2 DEF CallIsSound
  <2> QED
    BY <2>2 DEF CallsAreSound
<1>6. TasksAreSound'
  BY <1>1, <1>2 DEF TasksAreSound, Exists
<1>7. StagedInTime'
  <2> SUFFICES ASSUME crashes' = 0, faults' = 0, NEW k \in Jobs,
                      task'[k] = None \/ task'[k].at = "staging"
               PROVE  k \notin uploads'
    BY DEF StagedInTime
  <2>1. crashes = 0 /\ faults = 0 /\ faults' = faults
    BY Typed, IntakeAssumption DEF Parts
  <2>2. CASE k = j
    BY <1>1, <2>1, <2>2
  <2>3. CASE k # j
    BY <1>1, <2>1, <2>3 DEF StagedInTime
  <2> QED
    BY <2>2, <2>3
<1>8. own' \in [Workers -> Seq(Copies)]
  OBVIOUS
<1> QED
  BY <1>3, <1>4, <1>5, <1>6, <1>7, <1>8

\* An _update begins: the changes it will commit are sound.
LEMMA UpdateKeeps ==
    ASSUME IntakeInvariant, NEW w \in Workers, NEW j \in Jobs, NEW from \in Stages,
           NEW then \in Stages \cup {None}, NEW orelse \in Excuses,
           NEW changes \in Rows,
           At(w, j, from), Update(w, j, changes, then, orelse),
           Sound(j, changes), Later(jobs[j], changes),
           then \notin {"finishing", "staging"}, then = None => from = "staging"
    PROVE  IntakeInvariant'
<1> USE DEF IntakeInvariant
<1>1. /\ Goto(w, j, then)
      /\ UNCHANGED <<jobs, dossiers, uploads, own, crashes, faults>>
      /\ loop' = [loop EXCEPT ![w] = [step |-> "commit", job |-> j, seen |-> jobs[j],
                                      new |-> changes, orelse |-> orelse]]
  BY DEF Update
<1>2. /\ task' \in [Jobs -> Tasks \cup {None}]
      /\ \A k \in Jobs : k # j => task'[k] = task[k]
      /\ then = None => task'[j] = None
      /\ then # None => task'[j] # None /\ task'[j].at = then
  BY <1>1, Typed, GotoFacts DEF Parts
<1>3. task[j] # None /\ task[j].at = from /\ Exists(j)
  BY NoneAssumption DEF At, TasksAreSound, Tasks
<1>4. TypeOK'
  <2>1. CachesTyped'
    BY <1>1, Typed, CachesStayTyped DEF Parts
  <2> QED
    BY <1>1, <1>2, <2>1, Typed DEF Parts
<1>5. RowsAreSound'
  BY <1>1 DEF RowsAreSound, Sound, Exists
<1>6. CallsAreSound' /\ loop' \in [Workers -> Calls]
  <2>1. jobs[j] \in Rows /\ Sound(j, jobs[j])
    BY <1>3 DEF RowsAreSound, Sound
  <2>2. PICK row \in Rows : row = jobs[j]
    BY <2>1
  <2> DEFINE call == [step |-> "commit", job |-> j, seen |-> row, new |-> changes,
                      orelse |-> orelse]
  <2>3. call \in Calls
    BY DEF Calls
  <2>4. CallIsSound(call)'
    <3>1. Sound(j, row)' /\ Sound(j, changes)'
      BY <1>1, <2>1, <2>2 DEF Sound
    <3>2. Later(row, changes) /\ Later(row, jobs'[j]) /\ Exists(j)'
      BY <1>1, <1>3, <2>2 DEF Later, Exists
    <3> QED
      BY <3>1, <3>2 DEF CallIsSound
  <2>5. \A k \in Jobs : Exists(k) => Exists(k)' /\ Later(jobs[k], jobs'[k])
    BY <1>1 DEF Exists, Later
  <2>6. loop' = [loop EXCEPT ![w] = call]
    BY <1>1, <2>2
  <2> HIDE DEF call
  <2> QED
    BY <1>1, <2>3, <2>4, <2>5, <2>6, NextCall
<1>7. TasksAreSound'
  BY <1>1, <1>2, <1>3 DEF TasksAreSound, Exists
<1>8. StagedInTime'
  <2> SUFFICES ASSUME crashes = 0, faults = 0, NEW k \in Jobs,
                      task'[k] = None \/ task'[k].at = "staging"
               PROVE  k \notin uploads
    BY <1>1 DEF StagedInTime
  <2>1. CASE k = j
    BY <1>2, <1>3, <2>1 DEF StagedInTime
  <2>2. CASE k # j
    BY <1>2, <2>2 DEF StagedInTime
  <2> QED
    BY <2>1, <2>2
<1> QED
  BY <1>1, <1>4, <1>5, <1>6, <1>7, <1>8

\* The three changes of a task and the sentence of a startup are sound.
LEMMA ChangesAreSound ==
    ASSUME NEW j \in Jobs, NEW row, Sound(j, row)
    PROVE  /\ \A reason \in Reasons :
                  LET failed == [row EXCEPT !.status = "failed", !.error = reason]
                  IN  Sound(j, failed) /\ Later(row, failed)
           /\ LET running == [row EXCEPT !.status = "running"]
              IN  Sound(j, running) /\ Later(row, running)
           /\ j \in dossiers =>
                  LET done == [row EXCEPT !.status = "done", !.dossier_id = j]
                  IN  Sound(j, done) /\ Later(row, done)
<1>1. row \in Rows
  BY DEF Sound
<1>2. ASSUME NEW reason \in Reasons
      PROVE  LET failed == [row EXCEPT !.status = "failed", !.error = reason]
             IN  Sound(j, failed) /\ Later(row, failed)
  BY <1>1, NoneAssumption DEF Sound, Later, Rows
<1>3. LET running == [row EXCEPT !.status = "running"]
      IN  Sound(j, running) /\ Later(row, running)
  BY <1>1 DEF Sound, Later, Rows
<1>4. j \in dossiers =>
          LET done == [row EXCEPT !.status = "done", !.dossier_id = j]
          IN  Sound(j, done) /\ Later(row, done)
  BY <1>1, NoneAssumption DEF Sound, Later, Rows
<1> QED
  BY <1>2, <1>3, <1>4

\* The commit: what it writes over is at least as old as what it saw.
LEMMA CommitKeeps ==
    ASSUME IntakeInvariant, NEW w \in Workers, Commit(w)
    PROVE  /\ IntakeInvariant'
           /\ \A k \in Jobs : Exists(k) => Later(jobs[k], jobs'[k])
<1> USE DEF IntakeInvariant
<1>0. /\ loop[w].step = "commit"
      /\ loop[w] \in Calls
      /\ UNCHANGED <<dossiers, uploads, own, task, crashes, faults>>
  BY DEF Commit
<1> DEFINE j == loop[w].job
           row == Merged(jobs[j], loop[w].seen, loop[w].new)
<1>1. /\ j \in Jobs /\ loop[w].seen \in Rows /\ loop[w].new \in Rows
      /\ jobs' = [jobs EXCEPT ![j] = row]
  BY <1>0, CallFacts DEF Commit
<1>2. /\ Exists(j) /\ Sound(j, jobs[j])
      /\ Sound(j, loop[w].seen) /\ Sound(j, loop[w].new)
      /\ Later(loop[w].seen, loop[w].new) /\ Later(loop[w].seen, jobs[j])
  BY <1>0, <1>1 DEF CallsAreSound, CallIsSound, RowsAreSound
<1>3. Sound(j, row) /\ Later(jobs[j], row)
  BY <1>1, <1>2, MergedIsSound
<1> HIDE DEF j, row
<1>4. row \in Rows /\ row # None
  BY <1>3, NoneAssumption DEF Sound
<1>5. TypeOK'
  <2>1. CachesTyped'
    BY <1>0, Typed, CachesStayTyped DEF Parts
  <2>2. jobs' \in [Jobs -> Rows \cup {None}]
    BY <1>1, <1>4, Typed DEF Parts
  <2> QED
    BY <1>0, <2>1, <2>2, Typed DEF Parts
<1>6. \A k \in Jobs : jobs'[k] = IF k = j THEN row ELSE jobs[k]
  BY <1>1, Typed DEF Parts
<1>7. \A k \in Jobs : Exists(k) => Exists(k)' /\ Later(jobs[k], jobs'[k])
  BY <1>3, <1>4, <1>6 DEF Exists, Later
<1>8. RowsAreSound'
  BY <1>0, <1>3, <1>6 DEF RowsAreSound, Sound, Exists
<1>9. CallsAreSound' /\ loop' \in [Workers -> Calls]
  <2>1. PICK call \in Calls : /\ loop' = [loop EXCEPT ![w] = call]
                              /\ call.step \in {"free", "remember"}
    <3>1. CASE Cached(w, j)
      <4> DEFINE call == [step |-> "remember", job |-> j, row |-> loop[w].new]
      <4>1. call \in Calls /\ call.step = "remember"
        BY <1>1 DEF Calls
      <4>2. loop' = [loop EXCEPT ![w] = call]
        BY <3>1 DEF Commit, j
      <4> QED
        BY <4>1, <4>2
    <3>2. CASE ~Cached(w, j)
      <4>1. Free \in Calls /\ Free.step = "free"
        BY DEF Free, Calls
      <4>2. loop' = [loop EXCEPT ![w] = Free]
        BY <3>2 DEF Commit, j
      <4> QED
        BY <4>1, <4>2
    <3> QED
      BY <3>1, <3>2
  <2>2. CallIsSound(call)'
    BY <2>1 DEF CallIsSound
  <2> QED
    BY <1>0, <1>7, <2>1, <2>2, NextCall
<1>10. TasksAreSound' /\ StagedInTime'
  BY <1>0, <1>7 DEF TasksAreSound, StagedInTime
<1> QED
  BY <1>0, <1>5, <1>7, <1>8, <1>9, <1>10

LEMMA RefuseKeeps ==
    ASSUME IntakeInvariant, NEW w \in Workers, Refuse(w)
    PROVE  IntakeInvariant'
<1> USE DEF IntakeInvariant
<1>0. /\ loop[w].step = "commit"
      /\ faults < MaxFaults /\ faults' = faults + 1
      /\ Goto(w, loop[w].job, loop[w].orelse)
      /\ loop' = [loop EXCEPT ![w] = Free]
      /\ UNCHANGED <<jobs, dossiers, uploads, own, crashes>>
      /\ loop[w].job \in Jobs /\ loop[w].orelse \in Excuses
  BY CallFacts DEF Refuse
<1>1. PICK j \in Jobs, at \in Excuses : j = loop[w].job /\ at = loop[w].orelse
  BY <1>0
<1>2. /\ task' \in [Jobs -> Tasks \cup {None}]
      /\ \A k \in Jobs : k # j => task'[k] = task[k]
      /\ at = None => task'[j] = None
      /\ at # None => task'[j] # None /\ task'[j].at = at
  <2>1. at \in Stages \cup {None}
    BY DEF Excuses, Stages
  <2> QED
    BY <1>0, <1>1, <2>1, Typed, GotoFacts DEF Parts
<1>3. TypeOK'
  <2>1. CachesTyped'
    BY <1>0, Typed, CachesStayTyped DEF Parts
  <2>2. faults' \in 0 .. MaxFaults
    BY <1>0, IntakeAssumption, Typed DEF Parts
  <2> QED
    BY <1>0, <1>2, <2>1, <2>2, Typed DEF Parts
<1>4. RowsAreSound'
  BY <1>0 DEF RowsAreSound, Sound, Exists
<1>5. CallsAreSound' /\ loop' \in [Workers -> Calls]
  <2>1. \A k \in Jobs : Exists(k) => Exists(k)' /\ Later(jobs[k], jobs'[k])
    BY <1>0 DEF Exists, Later
  <2> QED
    BY <1>0, <2>1, NextCall, Idle
<1>6. Exists(j)
  BY <1>0, <1>1 DEF CallsAreSound, CallIsSound
<1>7. TasksAreSound'
  BY <1>0, <1>2, <1>6 DEF TasksAreSound, Exists, Excuses
<1>8. faults' # 0
  BY <1>0, Typed DEF Parts
<1> QED
  BY <1>0, <1>3, <1>4, <1>5, <1>7, <1>8 DEF StagedInTime

LEMMA WriteThroughKeeps ==
    ASSUME IntakeInvariant, NEW w \in Workers, WriteThrough(w)
    PROVE  IntakeInvariant'
<1> USE DEF IntakeInvariant
<1>0. /\ loop' = [loop EXCEPT ![w] = Free]
      /\ UNCHANGED <<jobs, dossiers, uploads, task, crashes, faults>>
      /\ loop[w].job \in Jobs /\ loop[w].row \in Rows
      /\ own' = [own EXCEPT ![w] = Remember(own[w], loop[w].job, loop[w].row)]
  BY CallFacts DEF WriteThrough
<1> DEFINE cache == Remember(own[w], loop[w].job, loop[w].row)
<1>1. cache \in Seq(Copies) /\ Len(cache) <= CacheLimit /\ Distinct(cache)
  BY <1>0, RememberFacts, Typed DEF CachesTyped, Parts
<1> HIDE DEF cache
<1>2. CachesTyped' /\ own' \in [Workers -> Seq(Copies)]
  <2>1. \A v \in Workers : own'[v] = IF v = w THEN cache ELSE own[v]
    BY <1>0 DEF cache
  <2>2. own' \in [Workers -> Seq(Copies)]
    BY <1>0, <1>1 DEF cache
  <2> QED
    BY <1>1, <2>1, <2>2, Typed DEF CachesTyped, Parts
<1>3. TypeOK'
  BY <1>0, <1>2, Typed DEF Parts
<1>4. CallsAreSound' /\ loop' \in [Workers -> Calls]
  <2>1. \A k \in Jobs : Exists(k) => Exists(k)' /\ Later(jobs[k], jobs'[k])
    BY <1>0 DEF Exists, Later
  <2> QED
    BY <1>0, <2>1, NextCall, Idle
<1>5. RowsAreSound' /\ TasksAreSound' /\ StagedInTime'
  BY <1>0 DEF RowsAreSound, Sound, Exists, TasksAreSound, StagedInTime
<1> QED
  BY <1>2, <1>3, <1>4, <1>5

LEMMA BootKeeps ==
    ASSUME IntakeInvariant, NEW w \in Workers, Boot(w)
    PROVE  IntakeInvariant'
<1> USE DEF IntakeInvariant
<1> DEFINE call == [step |-> "abandon", stale |-> Unfinished]
<1>0. /\ loop' = [loop EXCEPT ![w] = call]
      /\ UNCHANGED <<jobs, dossiers, uploads, own, task, crashes, faults>>
  BY DEF Boot
<1>1. PICK stale \in SUBSET Jobs : stale = Unfinished /\ \A k \in stale : Exists(k)
  <2>1. Unfinished \in SUBSET Jobs /\ \A k \in Unfinished : Exists(k)
    BY DEF Unfinished
  <2> QED
    BY <2>1
<1> DEFINE next == [step |-> "abandon", stale |-> stale]
<1>2. next \in Calls /\ loop' = [loop EXCEPT ![w] = next]
  BY <1>0, <1>1 DEF Calls
<1>3. CallIsSound(next)'
  BY <1>0, <1>1 DEF CallIsSound, Exists
<1> HIDE DEF next, call
<1>4. CallsAreSound' /\ loop' \in [Workers -> Calls]
  <2>1. \A k \in Jobs : Exists(k) => Exists(k)' /\ Later(jobs[k], jobs'[k])
    BY <1>0 DEF Exists, Later
  <2> QED
    BY <1>0, <1>2, <1>3, <2>1, NextCall
<1>5. TypeOK'
  BY <1>0, Typed, CachesStayTyped DEF Parts
<1>6. RowsAreSound' /\ TasksAreSound' /\ StagedInTime'
  BY <1>0 DEF RowsAreSound, Sound, Exists, TasksAreSound, StagedInTime
<1> QED
  BY <1>0, <1>4, <1>5, <1>6

\* A startup fails what it found open, also what another worker has finished
\* meanwhile; it takes no dossier and no reason away.
LEMMA AbandonKeeps ==
    ASSUME IntakeInvariant, NEW w \in Workers, AbandonUnfinished(w)
    PROVE  /\ IntakeInvariant'
           /\ \A k \in Jobs : Exists(k) => Later(jobs[k], jobs'[k])
<1> USE DEF IntakeInvariant
<1>0. /\ loop[w].step = "abandon"
      /\ jobs' = [k \in Jobs |-> IF k \in loop[w].stale THEN Abandoned(jobs[k]) ELSE jobs[k]]
      /\ own' = [own EXCEPT ![w] = <<>>]
      /\ loop' = [loop EXCEPT ![w] = Free]
      /\ UNCHANGED <<dossiers, uploads, task, crashes, faults>>
  BY DEF AbandonUnfinished
<1>1. \A k \in loop[w].stale : Exists(k)
  BY <1>0 DEF CallsAreSound, CallIsSound
<1>2. ASSUME NEW k \in Jobs, Exists(k)
      PROVE  Sound(k, jobs'[k]) /\ Later(jobs[k], jobs'[k])
  <2>1. Sound(k, jobs[k])
    BY <1>2 DEF RowsAreSound
  <2>2. "restarted" \in Reasons
    BY DEF Reasons
  <2>3. Sound(k, Abandoned(jobs[k])) /\ Later(jobs[k], Abandoned(jobs[k]))
    BY <2>1, <2>2, ChangesAreSound DEF Abandoned
  <2>4. Later(jobs[k], jobs[k])
    BY DEF Later
  <2> QED
    BY <1>0, <2>1, <2>3, <2>4
<1>3. \A k \in Jobs : jobs'[k] \in Rows \cup {None}
                      /\ (Exists(k) <=> Exists(k)')
  <2> SUFFICES ASSUME NEW k \in Jobs
               PROVE  jobs'[k] \in Rows \cup {None} /\ (Exists(k) <=> Exists(k)')
    OBVIOUS
  <2>1. CASE Exists(k)
    BY <1>2, <2>1, NoneAssumption DEF Sound, Exists
  <2>2. CASE ~Exists(k)
    <3>1. jobs'[k] = None
      BY <1>0, <1>1, <2>2 DEF Exists
    <3> QED
      BY <2>2, <3>1 DEF Exists
  <2> QED
    BY <2>1, <2>2
<1>4. RowsAreSound'
  BY <1>0, <1>2, <1>3 DEF RowsAreSound, Sound
<1>5. CachesTyped' /\ own' \in [Workers -> Seq(Copies)]
  <2>1. <<>> \in Seq(Copies) /\ Len(<<>>) = 0 /\ Distinct(<<>>)
    BY DEF Distinct
  <2>2. 0 <= CacheLimit
    BY IntakeAssumption
  <2>3. \A v \in Workers : own'[v] = IF v = w THEN <<>> ELSE own[v]
    BY <1>0
  <2> QED
    BY <1>0, <2>1, <2>2, <2>3, Typed DEF CachesTyped, Parts
<1>6. TypeOK'
  <2>1. jobs' \in [Jobs -> Rows \cup {None}]
    BY <1>0, <1>3
  <2> QED
    BY <1>0, <1>5, <2>1, Typed DEF Parts
<1>7. CallsAreSound' /\ loop' \in [Workers -> Calls]
  BY <1>0, <1>2, <1>3, NextCall, Idle
<1>8. TasksAreSound' /\ StagedInTime'
  BY <1>0, <1>3 DEF TasksAreSound, StagedInTime
<1> QED
  BY <1>2, <1>4, <1>5, <1>6, <1>7, <1>8

LEMMA CrashKeeps ==
    ASSUME IntakeInvariant, NEW w \in Workers, Crash(w)
    PROVE  IntakeInvariant'
<1> USE DEF IntakeInvariant
<1>0. /\ crashes < MaxCrashes /\ crashes' = crashes + 1
      /\ loop' = [loop EXCEPT ![w] = Down]
      /\ own' = [own EXCEPT ![w] = <<>>]
      /\ task' = [k \in Jobs |-> IF task[k] # None /\ task[k].worker = w
                                 THEN None ELSE task[k]]
      /\ UNCHANGED <<jobs, dossiers, uploads, faults>>
  BY DEF Crash
<1>1. CachesTyped' /\ own' \in [Workers -> Seq(Copies)]
  <2>1. <<>> \in Seq(Copies) /\ Len(<<>>) = 0 /\ Distinct(<<>>)
    BY DEF Distinct
  <2>2. 0 <= CacheLimit
    BY IntakeAssumption
  <2>3. \A v \in Workers : own'[v] = IF v = w THEN <<>> ELSE own[v]
    BY <1>0
  <2> QED
    BY <1>0, <2>1, <2>2, <2>3, Typed DEF CachesTyped, Parts
<1>2. \A k \in Jobs : task'[k] = None \/ task'[k] = task[k]
  BY <1>0
<1>3. TypeOK'
  <2>1. task' \in [Jobs -> Tasks \cup {None}]
    BY <1>0, Typed DEF Parts
  <2>2. crashes' \in 0 .. MaxCrashes
    BY <1>0, IntakeAssumption, Typed DEF Parts
  <2> QED
    BY <1>0, <1>1, <2>1, <2>2, Typed DEF Parts
<1>4. CallsAreSound' /\ loop' \in [Workers -> Calls]
  <2>1. \A k \in Jobs : Exists(k) => Exists(k)' /\ Later(jobs[k], jobs'[k])
    BY <1>0 DEF Exists, Later
  <2> QED
    BY <1>0, <2>1, NextCall, Idle
<1>5. RowsAreSound' /\ TasksAreSound'
  BY <1>0, <1>2 DEF RowsAreSound, Sound, Exists, TasksAreSound
<1>6. StagedInTime'
  BY <1>0, IntakeAssumption, Typed DEF Parts, StagedInTime
<1> QED
  BY <1>1, <1>3, <1>4, <1>5, <1>6

LEMMA AddCandidateKeeps ==
    ASSUME IntakeInvariant, NEW w \in Workers, NEW j \in Jobs, AddCandidate(w, j)
    PROVE  IntakeInvariant'
<1> USE DEF IntakeInvariant
<1> DEFINE row == [status |-> "queued", error |-> None, dossier_id |-> None]
           call == [step |-> "remember", job |-> j, row |-> row]
<1>0. /\ ~Exists(j)
      /\ jobs' = [jobs EXCEPT ![j] = row]
      /\ loop' = [loop EXCEPT ![w] = call]
      /\ Goto(w, j, "staging")
      /\ UNCHANGED <<dossiers, uploads, own, crashes, faults>>
  BY DEF AddCandidate, Create
<1>1. /\ task' \in [Jobs -> Tasks \cup {None}]
      /\ \A k \in Jobs : k # j => task'[k] = task[k]
      /\ task'[j].at = "staging"
  <2>1. "staging" \in Stages /\ "staging" # None
    BY NoneAssumption DEF Stages
  <2> QED
    BY <1>0, <2>1, Typed, GotoFacts DEF Parts
<1>2. row \in Rows /\ row # None
  <2>1. row \in Rows
    BY DEF Rows
  <2> QED
    BY <2>1, NoneAssumption
<1>3. call \in Calls /\ CallIsSound(call)'
  BY <1>2 DEF Calls, CallIsSound
<1>4. row.status = "queued" /\ row.dossier_id = None
  OBVIOUS
<1> HIDE DEF row, call
<1>5. \A k \in Jobs : jobs'[k] = IF k = j THEN row ELSE jobs[k]
  BY <1>0, Typed DEF Parts
<1>6. \A k \in Jobs : Exists(k) => k # j /\ Exists(k)' /\ jobs'[k] = jobs[k]
  BY <1>0, <1>5 DEF Exists
<1>7. TypeOK'
  <2>1. jobs' \in [Jobs -> Rows \cup {None}]
    BY <1>0, <1>2, Typed DEF Parts
  <2>2. CachesTyped'
    BY <1>0, Typed, CachesStayTyped DEF Parts
  <2> QED
    BY <1>0, <1>1, <2>1, <2>2, Typed DEF Parts
<1>8. RowsAreSound'
  <2>1. Sound(j, row)'
    BY <1>2, <1>4 DEF Sound
  <2>2. ASSUME NEW k \in Jobs, Exists(k)'
        PROVE  Sound(k, jobs[k])'
    <3>1. CASE k = j
      BY <1>5, <2>1, <3>1 DEF Sound
    <3>2. CASE k # j
      BY <1>0, <1>5, <2>2, <3>2 DEF RowsAreSound, Sound, Exists
    <3> QED
      BY <3>1, <3>2
  <2> QED
    BY <2>2 DEF RowsAreSound
<1>9. CallsAreSound' /\ loop' \in [Workers -> Calls]
  <2>1. \A k \in Jobs : Exists(k) => Exists(k)' /\ Later(jobs[k], jobs'[k])
    BY <1>6 DEF Later
  <2> QED
    BY <1>0, <1>3, <2>1, NextCall
<1>10. TasksAreSound'
  <2>1. Exists(j)'
    BY <1>2, <1>5 DEF Exists
  <2> QED
    BY <1>0, <1>1, <1>6, <2>1 DEF TasksAreSound
<1>11. StagedInTime'
  <2>1. task[j] = None
    BY <1>0 DEF TasksAreSound
  <2> QED
    BY <1>0, <1>1, <2>1 DEF StagedInTime
<1> QED
  BY <1>0, <1>7, <1>8, <1>9, <1>10, <1>11

\* A task waits for a job that exists, and its row is sound.
LEMMA AtFacts ==
    ASSUME IntakeInvariant, NEW w \in Workers, NEW j \in Jobs, NEW from \in Stages,
           At(w, j, from)
    PROVE  /\ task[j] # None /\ task[j].at = from /\ Exists(j)
           /\ jobs[j] \in Rows /\ Sound(j, jobs[j])
           /\ from = "finishing" => j \in dossiers
<1>1. task[j] # None /\ task[j].at = from
  BY NoneAssumption DEF At, Tasks
<1> QED
  BY <1>1 DEF IntakeInvariant, TasksAreSound, RowsAreSound, Sound

LEMMA RunIntakeKeeps ==
    ASSUME IntakeInvariant, NEW w \in Workers, NEW j \in Jobs,
           RunIntake(w, j) \/ BreakUploads(w, j)
    PROVE  IntakeInvariant'
<1> USE DEF Stages, Excuses
<1>1. CASE StageUploads(w, j)
  <2>1. uploads' \subseteq uploads \cup {j} /\ At(w, j, "staging")
    BY <1>1 DEF StageUploads
  <2>2. Goto(w, j, "scheduled") /\ UNCHANGED <<jobs, dossiers, own, loop, crashes, faults>>
    BY <1>1 DEF StageUploads
  <2> QED
    BY <2>1, <2>2, MoveKeeps, NoneAssumption
<1>2. CASE RefuseUploads(w, j)
  <2>1. At(w, j, "staging")
    BY <1>2 DEF RefuseUploads
  <2> DEFINE failed == [jobs[j] EXCEPT !.status = "failed", !.error = "refused"]
  <2>2. Sound(j, failed) /\ Later(jobs[j], failed) /\ failed \in Rows
    <3>1. Sound(j, jobs[j])
      BY <2>1, AtFacts
    <3>2. Sound(j, failed) /\ Later(jobs[j], failed)
      BY <3>1, ChangesAreSound DEF Reasons
    <3> QED
      BY <3>2 DEF Sound
  <2>3. Update(w, j, failed, None, None)
    BY <1>2 DEF RefuseUploads
  <2> HIDE DEF failed
  <2> QED
    BY <2>1, <2>2, <2>3, UpdateKeeps, NoneAssumption
<1>3. CASE Start(w, j)
  <2>1. At(w, j, "scheduled")
    BY <1>3 DEF Start
  <2> DEFINE running == [jobs[j] EXCEPT !.status = "running"]
  <2>2. Sound(j, running) /\ Later(jobs[j], running) /\ running \in Rows
    <3>1. Sound(j, jobs[j])
      BY <2>1, AtFacts
    <3>2. Sound(j, running) /\ Later(jobs[j], running)
      BY <3>1, ChangesAreSound
    <3> QED
      BY <3>2 DEF Sound
  <2>3. Update(w, j, running, "analysing", None)
    BY <1>3 DEF Start
  <2> HIDE DEF running
  <2> QED
    BY <2>1, <2>2, <2>3, UpdateKeeps, NoneAssumption
<1>4. CASE Analyse(w, j)
  <2>1. PICK to \in {"storing", "failing"} : Goto(w, j, to)
    BY <1>4 DEF Analyse
  <2>2. At(w, j, "analysing") /\ UNCHANGED <<jobs, dossiers, uploads, own, loop, crashes, faults>>
    BY <1>4 DEF Analyse
  <2> QED
    BY <2>1, <2>2, MoveKeeps, NoneAssumption
<1>5. CASE StoreDossier(w, j)
  <2>1. At(w, j, "storing") /\ Goto(w, j, "finishing") /\ dossiers' = dossiers \cup {j}
    BY <1>5 DEF StoreDossier
  <2>2. UNCHANGED <<jobs, uploads, own, loop, crashes, faults>>
    BY <1>5 DEF StoreDossier
  <2> QED
    BY <2>1, <2>2, MoveKeeps, NoneAssumption
<1>6. CASE Finish(w, j)
  <2>1. At(w, j, "finishing")
    BY <1>6 DEF Finish
  <2> DEFINE done == [jobs[j] EXCEPT !.status = "done", !.dossier_id = j]
  <2>2. Sound(j, done) /\ Later(jobs[j], done) /\ done \in Rows
    <3>1. Sound(j, jobs[j]) /\ j \in dossiers
      BY <2>1, AtFacts
    <3>2. Sound(j, done) /\ Later(jobs[j], done)
      BY <3>1, ChangesAreSound
    <3> QED
      BY <3>2 DEF Sound
  <2>3. Update(w, j, done, "cleanup", "failing")
    BY <1>6 DEF Finish
  <2> HIDE DEF done
  <2> QED
    BY <2>1, <2>2, <2>3, UpdateKeeps, NoneAssumption
<1>7. CASE Fail(w, j)
  <2>1. At(w, j, "failing")
    BY <1>7 DEF Fail
  <2> DEFINE failed == [jobs[j] EXCEPT !.status = "failed", !.error = "analysis"]
  <2>2. Sound(j, failed) /\ Later(jobs[j], failed) /\ failed \in Rows
    <3>1. Sound(j, jobs[j])
      BY <2>1, AtFacts
    <3>2. Sound(j, failed) /\ Later(jobs[j], failed)
      BY <3>1, ChangesAreSound DEF Reasons
    <3> QED
      BY <3>2 DEF Sound
  <2>3. Update(w, j, failed, "cleanup", "cleanup")
    BY <1>7 DEF Fail
  <2> HIDE DEF failed
  <2> QED
    BY <2>1, <2>2, <2>3, UpdateKeeps, NoneAssumption
<1>8. CASE Cleanup(w, j)
  <2>1. At(w, j, "cleanup") /\ Goto(w, j, None) /\ uploads' = uploads \ {j}
    BY <1>8 DEF Cleanup
  <2>2. UNCHANGED <<jobs, dossiers, own, loop, crashes, faults>>
    BY <1>8 DEF Cleanup
  <2> QED
    BY <2>1, <2>2, MoveKeeps, NoneAssumption
<1>9. CASE BreakUploads(w, j)
  <2>1. At(w, j, "staging") /\ Goto(w, j, None) /\ uploads' \subseteq uploads \cup {j}
    BY <1>9 DEF BreakUploads
  <2>2. /\ faults < MaxFaults /\ faults' = faults + 1
        /\ UNCHANGED <<jobs, dossiers, own, loop, crashes>>
    BY <1>9 DEF BreakUploads
  <2> QED
    BY <2>1, <2>2, MoveKeeps, NoneAssumption
<1> QED
  BY <1>1, <1>2, <1>3, <1>4, <1>5, <1>6, <1>7, <1>8, <1>9 DEF RunIntake

\* No step takes a dossier or a reason from a row.
LEMMA NothingIsLost ==
    ASSUME IntakeInvariant, [Next]_vars, NEW k \in Jobs, Exists(k)
    PROVE  Later(jobs[k], jobs'[k])
<1>1. CASE UNCHANGED jobs
  BY <1>1 DEF Later
<1>2. CASE \E w \in Workers : Commit(w)
  BY <1>2, CommitKeeps
<1>3. CASE \E w \in Workers : AbandonUnfinished(w)
  BY <1>3, AbandonKeeps
<1>4. CASE \E w \in Workers, j \in Jobs : AddCandidate(w, j)
  <2>1. PICK w \in Workers, j \in Jobs : AddCandidate(w, j)
    BY <1>4
  <2>2. k # j /\ jobs'[k] = jobs[k]
    BY <2>1, Typed DEF AddCandidate, Create, IntakeInvariant, Parts
  <2> QED
    BY <2>2 DEF Later
<1>5. CASE \E w \in Workers : Refuse(w) \/ WriteThrough(w) \/ Boot(w) \/ Crash(w)
  BY <1>1, <1>5 DEF Refuse, WriteThrough, Boot, Crash
<1>6. CASE \E w \in Workers, j \in Jobs : RunIntake(w, j) \/ BreakUploads(w, j)
  BY <1>1, <1>6
     DEF RunIntake, StageUploads, RefuseUploads, Start, Analyse, StoreDossier, Finish, Fail,
         Cleanup, BreakUploads, Update
<1>7. CASE UNCHANGED vars
  BY <1>1, <1>7 DEF vars
<1> QED
  BY <1>2, <1>3, <1>4, <1>5, <1>6, <1>7 DEF Next, StoreCall, Startup

LEMMA StepIntake == IntakeInvariant /\ [Next]_vars => IntakeInvariant'
<1> SUFFICES ASSUME IntakeInvariant, [Next]_vars
             PROVE  IntakeInvariant'
  OBVIOUS
<1>1. ASSUME NEW w \in Workers, StoreCall(w) \/ Refuse(w) \/ Startup(w) \/ Crash(w)
      PROVE  IntakeInvariant'
  BY <1>1, CommitKeeps, WriteThroughKeeps, RefuseKeeps, BootKeeps, AbandonKeeps, CrashKeeps
     DEF StoreCall, Startup
<1>2. ASSUME NEW w \in Workers, NEW j \in Jobs,
             AddCandidate(w, j) \/ RunIntake(w, j) \/ BreakUploads(w, j)
      PROVE  IntakeInvariant'
  BY <1>2, AddCandidateKeeps, RunIntakeKeeps
<1>3. CASE UNCHANGED vars
  <2>1. UNCHANGED <<jobs, dossiers, uploads, own, loop, task, crashes, faults>>
    BY <1>3 DEF vars
  <2>2. TypeOK'
    BY <2>1, Typed, CachesStayTyped DEF IntakeInvariant, Parts
  <2>3. RowsAreSound' /\ CallsAreSound' /\ TasksAreSound' /\ StagedInTime'
    BY <2>1 DEF IntakeInvariant, RowsAreSound, CallsAreSound, CallIsSound, TasksAreSound,
                StagedInTime, Sound, Exists
  <2> QED
    BY <2>1, <2>2, <2>3 DEF IntakeInvariant
<1> QED
  BY <1>1, <1>2, <1>3 DEF Next

\* The inductive invariant holds in every reachable state.
THEOREM IntakeIsSound == Spec => []IntakeInvariant
<1>1. Spec => Init /\ [][Next]_vars
  BY DEF Spec
<1> QED
  BY <1>1, InitIntake, StepIntake, PTL

-----------------------------------------------------------------------------
(* What follows, for any number of workers.                                *)

\* Rows, copies and tasks are of their kind, and no cache of a worker exceeds
\* CACHE_LIMIT or holds a job twice (SqlJobStore._remember).
THEOREM IntakeTypes == Spec => []TypeOK
<1>1. IntakeInvariant => TypeOK
  BY DEF IntakeInvariant
<1> QED
  BY <1>1, IntakeIsSound, PTL

\* GET /intake/{job_id} never reports a dossier that is not stored, whatever
\* crashed, was refused or overlapped.
THEOREM DoneIsBacked == Spec => []DoneHasDossier
<1>1. IntakeInvariant => DoneHasDossier
  BY DEF IntakeInvariant, RowsAreSound, DoneHasDossier, Sound
<1> QED
  BY <1>1, IntakeIsSound, PTL

\* A failed job says why, also where a startup and an analysis of another worker
\* wrote to its row at the same time.
THEOREM FailuresAreExplained == Spec => []FailureHasReason
<1>1. IntakeInvariant => FailureHasReason
  BY DEF IntakeInvariant, RowsAreSound, FailureHasReason, Sound
<1> QED
  BY <1>1, IntakeIsSound, PTL

\* Where nothing was killed or refused, uploads are on disk only while a task
\* needs them (the `finally` of _run_intake).
THEOREM NoUploadIsForgotten == Spec => []UploadsAreTemporary
<1>1. IntakeInvariant => UploadsAreTemporary
  BY DEF IntakeInvariant, StagedInTime, UploadsAreTemporary, TypeOK
<1> QED
  BY <1>1, IntakeIsSound, PTL

\* No write, restart or late commit takes a dossier from the job that has it.
THEOREM DossiersStay == Spec => DossierStays
<1>1. IntakeInvariant /\ [Next]_vars =>
          [\A j \in Jobs : Exists(j) /\ jobs[j].dossier_id # None =>
               jobs'[j].dossier_id = jobs[j].dossier_id]_vars
  BY NothingIsLost DEF Later
<1>2. Spec => [][Next]_vars
  BY DEF Spec
<1> QED
  BY <1>1, <1>2, IntakeIsSound, PTL DEF DossierStays

-----------------------------------------------------------------------------
(* One worker alone. The store promises its cache for one process: with two, *)
(* another worker's commit leaves a copy behind, and a startup fails a job   *)
(* that another worker has just finished.                                    *)

\* The status a task expects of its job's row where it waits.
Expected(at, row) ==
    /\ at \in {"staging", "scheduled"} => row.status = "queued"
    /\ at \in {"analysing", "storing", "finishing", "failing"} => row.status = "running"

Waits(j, row) == task[j] # None => Expected(task[j].at, row)

Current(entry) == entry.row = jobs[entry.id]

\* Nothing is cached and nothing runs.
Blank(w) == own[w] = <<>> /\ \A j \in Jobs : task[j] = None

\* The update still sees the row as it is, and moves it on.
Abreast(call) ==
    /\ call.seen = jobs[call.job]
    /\ Rank(call.new) > Rank(call.seen)
    /\ Waits(call.job, call.new)
    /\ Expected(call.orelse, call.seen)
    /\ \A j \in Jobs : j # call.job => Waits(j, jobs[j])

\* The copy to come is the row; the one it replaces, if any, is behind it.
Catching(w, call) ==
    /\ call.row = jobs[call.job]
    /\ \A i \in DOMAIN own[w] :
           IF own[w][i].id = call.job
           THEN Rank(own[w][i].row) < Rank(call.row)
           ELSE Current(own[w][i])

AloneInvariant(w) ==
    /\ loop[w].step \in {"down", "abandon"} => Blank(w)
    /\ loop[w].step = "abandon" => \A j \in loop[w].stale : Open(jobs[j])
    /\ loop[w].step \in {"free", "commit"} => \A i \in DOMAIN own[w] : Current(own[w][i])
    /\ loop[w].step \in {"free", "remember"} => \A j \in Jobs : Waits(j, jobs[j])
    /\ loop[w].step = "commit" => Abreast(loop[w])
    /\ loop[w].step = "remember" => Catching(w, loop[w])

\* An UPDATE that nothing overtook writes the row the session changed.
LEMMA MergedAlone ==
    ASSUME NEW row \in Rows, NEW new \in Rows
    PROVE  Merged(row, row, new) = new
<1>1. /\ DOMAIN row = {"status", "error", "dossier_id"}
      /\ new = [c \in {"status", "error", "dossier_id"} |-> new[c]]
  BY DEF Rows
<1>2. Merged(row, row, new) = [c \in {"status", "error", "dossier_id"} |-> new[c]]
  BY <1>1 DEF Merged
<1> QED
  BY <1>1, <1>2

\* The cached copies are copies of jobs.
LEMMA CopyFacts ==
    ASSUME IntakeInvariant, NEW w \in Workers, NEW i \in DOMAIN own[w]
    PROVE  own[w][i] \in Copies /\ own[w][i].id \in Jobs /\ own[w][i].row \in Rows
<1>1. own[w] \in Seq(Copies)
  BY DEF IntakeInvariant
<1>2. own[w][i] \in Copies
  BY <1>1
<1> QED
  BY <1>2 DEF Copies

LEMMA AloneMove ==
    ASSUME IntakeInvariant, NEW w \in Workers, AloneInvariant(w), NEW j \in Jobs,
           NEW from \in Stages, NEW to \in Stages \cup {None}, At(w, j, from), Goto(w, j, to),
           UNCHANGED <<jobs, own, loop>>,
           \A row \in Rows : Expected(from, row) => Expected(to, row)
    PROVE  AloneInvariant(w)'
<1>1. /\ \A k \in Jobs : k # j => task'[k] = task[k]
      /\ to = None => task'[j] = None
      /\ to # None => task'[j] # None /\ task'[j].at = to
  BY Typed, GotoFacts DEF Parts, IntakeInvariant
<1>2. loop[w] = Free /\ loop[w].step = "free"
  BY DEF At, Free
<1>3. task[j] # None /\ task[j].at = from /\ jobs[j] \in Rows
  BY AtFacts
<1>4. \A k \in Jobs : Waits(k, jobs[k])
  BY <1>2 DEF AloneInvariant
<1>5. \A k \in Jobs : Waits(k, jobs[k])'
  <2>1. Waits(j, jobs[j])'
    BY <1>1, <1>3, <1>4 DEF Waits
  <2>2. \A k \in Jobs : k # j => Waits(k, jobs[k])'
    BY <1>1, <1>4 DEF Waits
  <2> QED
    BY <2>1, <2>2
<1> QED
  BY <1>2, <1>5 DEF AloneInvariant, Current

LEMMA AloneUpdate ==
    ASSUME IntakeInvariant, NEW w \in Workers, AloneInvariant(w), NEW j \in Jobs,
           NEW from \in Stages, NEW then \in Stages \cup {None}, NEW orelse \in Excuses,
           NEW changes \in Rows,
           At(w, j, from), Update(w, j, changes, then, orelse),
           Rank(changes) > Rank(jobs[j]),
           Expected(then, changes), Expected(orelse, jobs[j])
    PROVE  AloneInvariant(w)'
<1> DEFINE call == [step |-> "commit", job |-> j, seen |-> jobs[j], new |-> changes,
                    orelse |-> orelse]
<1>1. /\ Goto(w, j, then)
      /\ loop' = [loop EXCEPT ![w] = call]
      /\ UNCHANGED <<jobs, own>>
  BY DEF Update
<1>2. loop'[w] = call
  BY <1>1 DEF IntakeInvariant
<1>3. /\ \A k \in Jobs : k # j => task'[k] = task[k]
      /\ then = None => task'[j] = None
      /\ then # None => task'[j] # None /\ task'[j].at = then
  BY <1>1, Typed, GotoFacts DEF Parts, IntakeInvariant
<1>4. loop[w].step = "free"
  BY DEF At, Free
<1>5. /\ \A k \in Jobs : Waits(k, jobs[k])
      /\ \A i \in DOMAIN own[w] : Current(own[w][i])
  BY <1>4 DEF AloneInvariant
<1>6. /\ loop'[w].step = "commit" /\ loop'[w].job = j /\ loop'[w].seen = jobs[j]
      /\ loop'[w].new = changes /\ loop'[w].orelse = orelse
  BY <1>2
<1>7. Abreast(loop[w])'
  BY <1>1, <1>3, <1>5, <1>6 DEF Abreast, Waits
<1>8. \A i \in DOMAIN own'[w] : Current(own[w][i])'
  BY <1>1, <1>5 DEF Current
<1> QED
  BY <1>6, <1>7, <1>8 DEF AloneInvariant

\* What a poll is told: its copy, of which there is one, else the row.
Tells(w, j, row) ==
    /\ \A i \in DOMAIN own[w] : own[w][i].id = j => own[w][i].row = row
    /\ ~Cached(w, j) => jobs[j] = row

LEMMA PollFacts ==
    ASSUME NEW w, NEW j, NEW row
    PROVE  /\ Tells(w, j, row) => Get(w, j) = row
           /\ Tells(w, j, row)' => Get(w, j)' = row
<1>1. ASSUME NEW cache, NEW i \in DOMAIN cache, cache[i].id = j,
             \A k \in DOMAIN cache : cache[k].id = j => cache[k].row = row
      PROVE  (CHOOSE entry \in {cache[k] : k \in DOMAIN cache} : entry.id = j).row = row
  <2> DEFINE entries == {cache[k] : k \in DOMAIN cache}
             chosen == CHOOSE entry \in entries : entry.id = j
  <2>1. \E entry \in entries : entry.id = j
    BY <1>1
  <2>2. chosen \in entries /\ chosen.id = j
    BY <2>1
  <2>3. PICK k \in DOMAIN cache : chosen = cache[k]
    BY <2>2
  <2> QED
    BY <1>1, <2>2, <2>3
<1> QED
  BY <1>1 DEF Tells, Get, Cached

\* A refused write leaves the row its task expects.
LEMMA AloneRefuse ==
    ASSUME IntakeInvariant, NEW w \in Workers, AloneInvariant(w), Refuse(w)
    PROVE  AloneInvariant(w)'
<1>1. /\ loop[w].step = "commit"
      /\ Goto(w, loop[w].job, loop[w].orelse)
      /\ loop' = [loop EXCEPT ![w] = Free]
      /\ UNCHANGED <<jobs, own>>
  BY DEF Refuse
<1>2. PICK j \in Jobs, at \in Stages \cup {None} : j = loop[w].job /\ at = loop[w].orelse
  <2>1. loop[w].job \in Jobs /\ loop[w].orelse \in Excuses
    BY <1>1, CallFacts DEF IntakeInvariant
  <2> QED
    BY <2>1 DEF Excuses, Stages
<1>3. /\ \A k \in Jobs : k # j => task'[k] = task[k]
      /\ at = None => task'[j] = None
      /\ at # None => task'[j] # None /\ task'[j].at = at
  BY <1>1, <1>2, Typed, GotoFacts DEF Parts, IntakeInvariant
<1>4. /\ Expected(at, jobs[j])
      /\ \A k \in Jobs : k # j => Waits(k, jobs[k])
      /\ \A i \in DOMAIN own[w] : Current(own[w][i])
  BY <1>1, <1>2 DEF AloneInvariant, Abreast
<1>5. \A k \in Jobs : Waits(k, jobs[k])'
  BY <1>1, <1>3, <1>4 DEF Waits
<1>6. loop'[w].step = "free" /\ \A i \in DOMAIN own'[w] : Current(own[w][i])'
  BY <1>1, <1>4 DEF IntakeInvariant, Free, Current
<1> QED
  BY <1>5, <1>6 DEF AloneInvariant

\* A commit replaces the row it saw; a poll goes on reading the copy, if there
\* is one, and a row further on, if there is none.
LEMMA AloneCommit ==
    ASSUME IntakeInvariant, NEW w \in Workers, AloneInvariant(w), Commit(w)
    PROVE  /\ AloneInvariant(w)'
           /\ \A k \in Jobs : \/ Get(w, k)' = Get(w, k)
                              \/ Rank(Get(w, k)') > Rank(Get(w, k))
<1>0. loop[w].step = "commit" /\ UNCHANGED <<own, task>>
  BY DEF Commit
<1>1. PICK j \in Jobs, seen \in Rows, new \in Rows :
          j = loop[w].job /\ seen = loop[w].seen /\ new = loop[w].new
  BY <1>0, CallFacts DEF IntakeInvariant
<1>2. /\ seen = jobs[j]
      /\ Rank(new) > Rank(seen)
      /\ Waits(j, new)
      /\ \A k \in Jobs : k # j => Waits(k, jobs[k])
      /\ \A i \in DOMAIN own[w] : Current(own[w][i])
  BY <1>0, <1>1 DEF AloneInvariant, Abreast
<1>3. Merged(jobs[j], seen, new) = new
  BY <1>2, MergedAlone
<1>4. \A k \in Jobs : jobs'[k] = IF k = j THEN new ELSE jobs[k]
  <2>1. jobs' = [jobs EXCEPT ![j] = new]
    BY <1>1, <1>3 DEF Commit
  <2> QED
    BY <2>1, Typed DEF IntakeInvariant, Parts
<1>5. \A k \in Jobs : Waits(k, jobs[k])'
  BY <1>0, <1>2, <1>4 DEF Waits
<1>6. \A i \in DOMAIN own[w] : own[w][i].id \in Jobs
  BY CopyFacts
<1>7. AloneInvariant(w)'
  <2>1. CASE Cached(w, j)
    <3> DEFINE call == [step |-> "remember", job |-> j, row |-> new]
    <3>1. loop' = [loop EXCEPT ![w] = call]
      BY <1>1, <2>1 DEF Commit
    <3>2. loop'[w].step = "remember" /\ loop'[w].job = j /\ loop'[w].row = new
      BY <3>1 DEF IntakeInvariant
    <3>3. Catching(w, loop[w])'
      BY <1>0, <1>2, <1>4, <1>6, <3>2 DEF Catching, Current
    <3> QED
      BY <1>5, <3>2, <3>3 DEF AloneInvariant
  <2>2. CASE ~Cached(w, j)
    <3>1. loop' = [loop EXCEPT ![w] = Free]
      BY <1>1, <2>2 DEF Commit
    <3>2. loop'[w].step = "free"
      BY <3>1 DEF IntakeInvariant, Free
    <3>3. \A i \in DOMAIN own'[w] : Current(own[w][i])'
      BY <1>0, <1>2, <1>4, <1>6, <2>2 DEF Cached, Current
    <3> QED
      BY <1>5, <3>2, <3>3 DEF AloneInvariant
  <2> QED
    BY <2>1, <2>2
<1>8. ASSUME NEW k \in Jobs
      PROVE  Get(w, k)' = Get(w, k) \/ Rank(Get(w, k)') > Rank(Get(w, k))
  <2>1. CASE Cached(w, k)
    BY <1>0, <2>1 DEF Get, Cached
  <2>2. CASE ~Cached(w, k)
    <3>1. Get(w, k) = jobs[k] /\ Get(w, k)' = jobs'[k]
      BY <1>0, <2>2 DEF Get, Cached
    <3> QED
      BY <1>2, <1>4, <3>1
  <2> QED
    BY <2>1, <2>2
<1> QED
  BY <1>7, <1>8

\* A poll is told the same before and after a step that changes nothing it reads.
LEMMA SameAnswer ==
    ASSUME NEW w, NEW j, UNCHANGED <<jobs, own>>
    PROVE  Get(w, j)' = Get(w, j)
BY DEF Get, Cached

\* The copy to the cache brings a poll up to the row, and puts no copy of
\* another job out of step; what it pushes out was the row anyway.
LEMMA AloneWriteThrough ==
    ASSUME IntakeInvariant, NEW w \in Workers, AloneInvariant(w), WriteThrough(w)
    PROVE  /\ AloneInvariant(w)'
           /\ \A k \in Jobs : \/ Get(w, k)' = Get(w, k)
                              \/ Rank(Get(w, k)') > Rank(Get(w, k))
<1>0. loop[w].step = "remember" /\ UNCHANGED <<jobs, task>>
  BY DEF WriteThrough
<1>1. PICK j \in Jobs, row \in Rows : j = loop[w].job /\ row = loop[w].row
  BY <1>0, CallFacts DEF IntakeInvariant
<1> DEFINE new == Remember(own[w], j, row)
<1>2. /\ row = jobs[j]
      /\ \A i \in DOMAIN own[w] : IF own[w][i].id = j
                                  THEN Rank(own[w][i].row) < Rank(row)
                                  ELSE own[w][i].row = jobs[own[w][i].id]
      /\ \A k \in Jobs : Waits(k, jobs[k])
  BY <1>0, <1>1 DEF AloneInvariant, Catching, Current
<1>3. /\ own' = [own EXCEPT ![w] = new]
      /\ loop' = [loop EXCEPT ![w] = Free]
  BY <1>1 DEF WriteThrough
<1>4. /\ \E i \in DOMAIN new : new[i] = [id |-> j, row |-> row]
      /\ \A i \in DOMAIN new :
             \/ new[i] = [id |-> j, row |-> row]
             \/ new[i].id # j /\ \E k \in DOMAIN own[w] : new[i] = own[w][k]
  BY RememberFacts, Typed DEF CachesTyped, Parts, IntakeInvariant
<1> HIDE DEF new
<1>5. own'[w] = new
  BY <1>3 DEF IntakeInvariant
<1>6. \A i \in DOMAIN new : new[i].row = jobs[new[i].id]
  <2> SUFFICES ASSUME NEW i \in DOMAIN new
               PROVE  new[i].row = jobs[new[i].id]
    OBVIOUS
  <2>1. CASE new[i] = [id |-> j, row |-> row]
    BY <1>2, <2>1
  <2>2. CASE new[i].id # j /\ \E k \in DOMAIN own[w] : new[i] = own[w][k]
    BY <1>2, <2>2
  <2> QED
    BY <1>4, <2>1, <2>2
<1>7. AloneInvariant(w)'
  <2>1. loop'[w].step = "free"
    BY <1>3 DEF IntakeInvariant, Free
  <2>2. \A i \in DOMAIN own'[w] : Current(own[w][i])'
    BY <1>0, <1>5, <1>6 DEF Current
  <2>3. \A k \in Jobs : Waits(k, jobs[k])'
    BY <1>0, <1>2 DEF Waits
  <2> QED
    BY <2>1, <2>2, <2>3 DEF AloneInvariant
<1>8. ASSUME NEW k \in Jobs
      PROVE  Get(w, k)' = Get(w, k) \/ Rank(Get(w, k)') > Rank(Get(w, k))
  <2>1. PICK told : told = jobs[k]
    OBVIOUS
  <2>2. Tells(w, k, told)'
    BY <1>0, <1>5, <1>6, <2>1 DEF Tells
  <2>3. Get(w, k)' = told
    BY <2>2, PollFacts
  <2>4. CASE k # j
    <3>1. Tells(w, k, told)
      BY <1>2, <2>1, <2>4 DEF Tells
    <3> QED
      BY <2>3, <3>1, PollFacts
  <2>5. CASE k = j /\ Cached(w, k)
    <3>1. PICK i \in DOMAIN own[w] : own[w][i].id = k
      BY <2>5 DEF Cached
    <3>2. \A m \in DOMAIN own[w] : own[w][m].id = k => m = i
      BY <3>1, Typed DEF IntakeInvariant, Parts, CachesTyped, Distinct
    <3>3. PICK old : old = own[w][i].row
      OBVIOUS
    <3>4. Tells(w, k, old)
      BY <2>5, <3>2, <3>3 DEF Tells
    <3>5. Rank(old) < Rank(told)
      BY <1>2, <2>1, <2>5, <3>1, <3>3
    <3> QED
      BY <2>3, <3>4, <3>5, PollFacts DEF Rank
  <2>6. CASE k = j /\ ~Cached(w, k)
    <3>1. Tells(w, k, told)
      BY <2>1, <2>6 DEF Tells, Cached
    <3> QED
      BY <2>3, <3>1, PollFacts
  <2> QED
    BY <2>4, <2>5, <2>6
<1> QED
  BY <1>7, <1>8

\* A startup fails what it found open, and nothing it found has moved since.
LEMMA AloneStartup ==
    ASSUME IntakeInvariant, NEW w \in Workers, AloneInvariant(w), Startup(w)
    PROVE  /\ AloneInvariant(w)'
           /\ \A k \in Jobs : Exists(k) =>
                  \/ Get(w, k)' = Get(w, k)
                  \/ Rank(Get(w, k)') > Rank(Get(w, k))
<1>1. CASE Boot(w)
  <2>1. /\ loop[w].step = "down"
        /\ loop' = [loop EXCEPT ![w] = [step |-> "abandon", stale |-> Unfinished]]
        /\ UNCHANGED <<jobs, own, task>>
    BY <1>1 DEF Boot, Down
  <2>2. /\ loop'[w].step = "abandon" /\ loop'[w].stale = Unfinished
        /\ own[w] = <<>> /\ \A j \in Jobs : task[j] = None
    BY <2>1 DEF IntakeInvariant, AloneInvariant, Blank
  <2>3. AloneInvariant(w)'
    BY <2>1, <2>2 DEF AloneInvariant, Blank, Unfinished
  <2> QED
    BY <2>1, <2>3, SameAnswer
<1>2. CASE AbandonUnfinished(w)
  <2>1. /\ loop[w].step = "abandon"
        /\ jobs' = [k \in Jobs |-> IF k \in loop[w].stale THEN Abandoned(jobs[k]) ELSE jobs[k]]
        /\ own' = [own EXCEPT ![w] = <<>>]
        /\ loop' = [loop EXCEPT ![w] = Free]
        /\ UNCHANGED task
    BY <1>2 DEF AbandonUnfinished
  <2>2. /\ own[w] = <<>> /\ own'[w] = <<>>
        /\ \A j \in Jobs : task[j] = None
        /\ \A j \in loop[w].stale : Open(jobs[j])
        /\ loop'[w].step = "free"
    BY <2>1 DEF IntakeInvariant, AloneInvariant, Blank, Free
  <2>3. AloneInvariant(w)'
    BY <2>1, <2>2 DEF AloneInvariant, Waits
  <2>4. ASSUME NEW k \in Jobs, Exists(k)
        PROVE  Get(w, k)' = Get(w, k) \/ Rank(Get(w, k)') > Rank(Get(w, k))
    <3>1. Get(w, k) = jobs[k] /\ Get(w, k)' = jobs'[k]
      BY <2>2 DEF Get, Cached
    <3>2. CASE k \in loop[w].stale
      <4>1. jobs[k] \in Rows
        BY <2>4, Typed DEF IntakeInvariant, Parts, Exists
      <4>2. jobs'[k].status = "failed"
        BY <2>1, <3>2, <4>1 DEF Abandoned, Rows
      <4> QED
        BY <2>2, <3>1, <3>2, <4>2 DEF Rank, Settled, Open
    <3>3. CASE k \notin loop[w].stale
      BY <2>1, <3>1, <3>3
    <3> QED
      BY <3>2, <3>3
  <2> QED
    BY <2>3, <2>4
<1> QED
  BY <1>1, <1>2 DEF Startup

\* Without its copies a poll reads the rows, which are where the copies were or
\* further on.
LEMMA AloneCrash ==
    ASSUME IntakeInvariant, NEW w \in Workers, Workers = {w}, AloneInvariant(w), Crash(w)
    PROVE  /\ AloneInvariant(w)'
           /\ \A k \in Jobs : \/ Get(w, k)' = Get(w, k)
                              \/ Rank(Get(w, k)') > Rank(Get(w, k))
<1>1. /\ loop' = [loop EXCEPT ![w] = Down]
      /\ own' = [own EXCEPT ![w] = <<>>]
      /\ task' = [k \in Jobs |-> IF task[k] # None /\ task[k].worker = w
                                 THEN None ELSE task[k]]
      /\ UNCHANGED jobs
  BY DEF Crash
<1>2. own'[w] = <<>> /\ loop'[w].step = "down"
  BY <1>1 DEF IntakeInvariant, Down
<1>3. \A k \in Jobs : task[k] # None => task[k].worker = w
  BY Typed DEF IntakeInvariant, Parts, Tasks
<1>4. AloneInvariant(w)'
  BY <1>1, <1>2, <1>3 DEF AloneInvariant, Blank
<1>5. ASSUME NEW k \in Jobs
      PROVE  Get(w, k)' = Get(w, k) \/ Rank(Get(w, k)') > Rank(Get(w, k))
  <2>1. PICK told : told = jobs[k]
    OBVIOUS
  <2>2. Get(w, k)' = told
    BY <1>1, <1>2, <2>1 DEF Get, Cached
  <2>3. CASE ~Cached(w, k)
    BY <2>1, <2>2, <2>3 DEF Get
  <2>4. CASE Cached(w, k)
    <3>1. PICK i \in DOMAIN own[w] : own[w][i].id = k
      BY <2>4 DEF Cached
    <3>2. \A m \in DOMAIN own[w] : own[w][m].id = k => m = i
      BY <3>1, Typed DEF IntakeInvariant, Parts, CachesTyped, Distinct
    <3>3. PICK old : old = own[w][i].row
      OBVIOUS
    <3>4. Get(w, k) = old
      <4>1. Tells(w, k, old)
        BY <2>4, <3>2, <3>3 DEF Tells
      <4> QED
        BY <4>1, PollFacts
    <3>5. loop[w].step \in {"down", "free", "abandon", "remember", "commit"}
      BY CallFacts DEF IntakeInvariant
    <3>6. CASE loop[w].step \in {"down", "abandon"}
      BY <2>4, <3>6 DEF AloneInvariant, Blank, Cached
    <3>7. CASE loop[w].step \in {"free", "commit"}
      BY <2>1, <2>2, <3>1, <3>3, <3>4, <3>7 DEF AloneInvariant, Current
    <3>8. CASE loop[w].step = "remember"
      <4>1. old = told \/ Rank(old) < Rank(told)
        BY <2>1, <3>1, <3>3, <3>8 DEF AloneInvariant, Catching, Current
      <4> QED
        BY <2>2, <3>4, <4>1 DEF Rank
    <3> QED
      BY <3>5, <3>6, <3>7, <3>8
  <2> QED
    BY <2>3, <2>4
<1> QED
  BY <1>4, <1>5

LEMMA AloneAddCandidate ==
    ASSUME IntakeInvariant, NEW w \in Workers, AloneInvariant(w), NEW j \in Jobs,
           AddCandidate(w, j)
    PROVE  /\ AloneInvariant(w)'
           /\ \A k \in Jobs : Exists(k) => Get(w, k)' = Get(w, k)
<1> DEFINE row == [status |-> "queued", error |-> None, dossier_id |-> None]
           call == [step |-> "remember", job |-> j, row |-> row]
<1>1. /\ loop[w].step = "free"
      /\ jobs[j] = None
      /\ jobs' = [jobs EXCEPT ![j] = row]
      /\ loop' = [loop EXCEPT ![w] = call]
      /\ Goto(w, j, "staging")
      /\ UNCHANGED own
  BY DEF AddCandidate, Create, Exists, Free
<1>2. /\ \A k \in Jobs : k # j => task'[k] = task[k]
      /\ task'[j].at = "staging"
  <2>1. "staging" \in Stages /\ "staging" # None
    BY NoneAssumption DEF Stages
  <2> QED
    BY <1>1, <2>1, Typed, GotoFacts DEF Parts, IntakeInvariant
<1>3. loop'[w].step = "remember" /\ loop'[w].job = j /\ loop'[w].row = row
  BY <1>1 DEF IntakeInvariant
<1>4. row.status = "queued"
  OBVIOUS
<1> HIDE DEF row
<1>5. \A k \in Jobs : jobs'[k] = IF k = j THEN row ELSE jobs[k]
  BY <1>1, Typed DEF Parts, IntakeInvariant
<1>6. ASSUME NEW i \in DOMAIN own[w]
      PROVE  own[w][i].id # j /\ own[w][i].id \in Jobs /\ own[w][i].row = jobs[own[w][i].id]
  <2>1. own[w][i].row = jobs[own[w][i].id]
    BY <1>1 DEF AloneInvariant, Current
  <2>2. own[w][i].row \in Rows /\ own[w][i].id \in Jobs
    BY CopyFacts
  <2> QED
    BY <1>1, <2>1, <2>2, NoneAssumption
<1>7. AloneInvariant(w)'
  <2>1. Catching(w, loop[w])'
    BY <1>1, <1>3, <1>5, <1>6 DEF Catching, Current
  <2>2. \A k \in Jobs : Waits(k, jobs[k])'
    <3>1. \A k \in Jobs : Waits(k, jobs[k])
      BY <1>1 DEF AloneInvariant
    <3>2. Waits(j, jobs[j])'
      BY <1>2, <1>4, <1>5 DEF Waits, Expected
    <3>3. \A k \in Jobs : k # j => Waits(k, jobs[k])'
      BY <1>2, <1>5, <3>1 DEF Waits
    <3> QED
      BY <3>2, <3>3
  <2> QED
    BY <1>3, <2>1, <2>2 DEF AloneInvariant
<1>8. ASSUME NEW k \in Jobs, Exists(k)
      PROVE  Get(w, k)' = Get(w, k)
  BY <1>1, <1>5, <1>8 DEF Get, Cached, Exists
<1> QED
  BY <1>7, <1>8

\* Each write of a task moves its job on: from queued to running, and from there
\* to a verdict.
LEMMA AloneRunIntake ==
    ASSUME IntakeInvariant, NEW w \in Workers, AloneInvariant(w), NEW j \in Jobs,
           RunIntake(w, j) \/ BreakUploads(w, j)
    PROVE  AloneInvariant(w)' /\ UNCHANGED <<jobs, own>>
<1> USE DEF Stages, Excuses
<1>0. \A row \in Rows :
          Expected(None, row) /\ Expected("cleanup", row)
  BY NoneAssumption DEF Expected
<1>1. ASSUME NEW from \in Stages, At(w, j, from)
      PROVE  jobs[j] \in Rows /\ Expected(from, jobs[j])
  <2>1. task[j] # None /\ task[j].at = from /\ jobs[j] \in Rows
    BY <1>1, AtFacts
  <2>2. loop[w].step = "free"
    BY <1>1 DEF At, Free
  <2> QED
    BY <2>1, <2>2 DEF AloneInvariant, Waits
<1>2. CASE StageUploads(w, j)
  <2>1. At(w, j, "staging") /\ Goto(w, j, "scheduled") /\ UNCHANGED <<jobs, own, loop>>
    BY <1>2 DEF StageUploads
  <2>2. \A row \in Rows : Expected("staging", row) => Expected("scheduled", row)
    BY DEF Expected
  <2> QED
    BY <2>1, <2>2, AloneMove
<1>3. CASE RefuseUploads(w, j)
  <2> DEFINE failed == [jobs[j] EXCEPT !.status = "failed", !.error = "refused"]
  <2>1. At(w, j, "staging") /\ Update(w, j, failed, None, None)
    BY <1>3 DEF RefuseUploads
  <2>2. jobs[j] \in Rows /\ jobs[j].status = "queued"
    BY <1>1, <2>1 DEF Expected
  <2>3. failed \in Rows /\ failed.status = "failed"
    BY <2>2 DEF Rows, Reasons
  <2> HIDE DEF failed
  <2>4. Rank(failed) > Rank(jobs[j])
    BY <2>2, <2>3 DEF Rank, Settled
  <2>5. UNCHANGED <<jobs, own>>
    BY <2>1 DEF Update
  <2> QED
    BY <1>0, <2>1, <2>2, <2>3, <2>4, <2>5, AloneUpdate
<1>4. CASE Start(w, j)
  <2> DEFINE running == [jobs[j] EXCEPT !.status = "running"]
  <2>1. At(w, j, "scheduled") /\ Update(w, j, running, "analysing", None)
    BY <1>4 DEF Start
  <2>2. jobs[j] \in Rows /\ jobs[j].status = "queued"
    BY <1>1, <2>1 DEF Expected
  <2>3. running \in Rows /\ running.status = "running"
    BY <2>2 DEF Rows
  <2>4. Expected("analysing", running)
    BY <2>3 DEF Expected
  <2> HIDE DEF running
  <2>5. Rank(running) > Rank(jobs[j])
    BY <2>2, <2>3 DEF Rank, Settled
  <2>6. UNCHANGED <<jobs, own>>
    BY <2>1 DEF Update
  <2> QED
    BY <1>0, <2>1, <2>2, <2>3, <2>4, <2>5, <2>6, AloneUpdate
<1>5. CASE Analyse(w, j)
  <2>1. PICK to \in {"storing", "failing"} : Goto(w, j, to)
    BY <1>5 DEF Analyse
  <2>2. At(w, j, "analysing") /\ UNCHANGED <<jobs, own, loop>>
    BY <1>5 DEF Analyse
  <2>3. \A row \in Rows : Expected("analysing", row) => Expected(to, row)
    BY DEF Expected
  <2> QED
    BY <2>1, <2>2, <2>3, AloneMove
<1>6. CASE StoreDossier(w, j)
  <2>1. At(w, j, "storing") /\ Goto(w, j, "finishing") /\ UNCHANGED <<jobs, own, loop>>
    BY <1>6 DEF StoreDossier
  <2>2. \A row \in Rows : Expected("storing", row) => Expected("finishing", row)
    BY DEF Expected
  <2> QED
    BY <2>1, <2>2, AloneMove
<1>7. CASE Finish(w, j)
  <2> DEFINE done == [jobs[j] EXCEPT !.status = "done", !.dossier_id = j]
  <2>1. At(w, j, "finishing") /\ Update(w, j, done, "cleanup", "failing")
    BY <1>7 DEF Finish
  <2>2. jobs[j] \in Rows /\ jobs[j].status = "running"
    BY <1>1, <2>1 DEF Expected
  <2>3. done \in Rows /\ done.status = "done"
    BY <2>2 DEF Rows
  <2>4. Expected("failing", jobs[j])
    BY <2>2 DEF Expected
  <2> HIDE DEF done
  <2>5. Rank(done) > Rank(jobs[j])
    BY <2>2, <2>3 DEF Rank, Settled
  <2>6. UNCHANGED <<jobs, own>>
    BY <2>1 DEF Update
  <2> QED
    BY <1>0, <2>1, <2>2, <2>3, <2>4, <2>5, <2>6, AloneUpdate
<1>8. CASE Fail(w, j)
  <2> DEFINE failed == [jobs[j] EXCEPT !.status = "failed", !.error = "analysis"]
  <2>1. At(w, j, "failing") /\ Update(w, j, failed, "cleanup", "cleanup")
    BY <1>8 DEF Fail
  <2>2. jobs[j] \in Rows /\ jobs[j].status = "running"
    BY <1>1, <2>1 DEF Expected
  <2>3. failed \in Rows /\ failed.status = "failed"
    BY <2>2 DEF Rows, Reasons
  <2> HIDE DEF failed
  <2>4. Rank(failed) > Rank(jobs[j])
    BY <2>2, <2>3 DEF Rank, Settled
  <2>5. UNCHANGED <<jobs, own>>
    BY <2>1 DEF Update
  <2> QED
    BY <1>0, <2>1, <2>2, <2>3, <2>4, <2>5, AloneUpdate
<1>9. CASE Cleanup(w, j)
  <2>1. At(w, j, "cleanup") /\ Goto(w, j, None) /\ UNCHANGED <<jobs, own, loop>>
    BY <1>9 DEF Cleanup
  <2> QED
    BY <1>0, <2>1, AloneMove
<1>10. CASE BreakUploads(w, j)
  <2>1. At(w, j, "staging") /\ Goto(w, j, None) /\ UNCHANGED <<jobs, own, loop>>
    BY <1>10 DEF BreakUploads
  <2> QED
    BY <1>0, <2>1, AloneMove
<1> QED
  BY <1>2, <1>3, <1>4, <1>5, <1>6, <1>7, <1>8, <1>9, <1>10 DEF RunIntake

\* A step of the one worker keeps its copies in step, and no answer goes back.
LEMMA AloneStep ==
    ASSUME IntakeInvariant, NEW w, Workers = {w}, AloneInvariant(w), [Next]_vars
    PROVE  /\ AloneInvariant(w)'
           /\ \A k \in Jobs : Exists(k) =>
                  \/ Get(w, k)' = Get(w, k)
                  \/ Rank(Get(w, k)') > Rank(Get(w, k))
<1>1. CASE StoreCall(w) \/ Startup(w) \/ Crash(w)
  BY <1>1, AloneCommit, AloneWriteThrough, AloneStartup, AloneCrash DEF StoreCall
<1>2. CASE Refuse(w)
  BY <1>2, AloneRefuse, SameAnswer DEF Refuse
<1>3. CASE \E j \in Jobs : AddCandidate(w, j)
  BY <1>3, AloneAddCandidate
<1>4. CASE \E j \in Jobs : RunIntake(w, j) \/ BreakUploads(w, j)
  BY <1>4, AloneRunIntake, SameAnswer
<1>5. CASE UNCHANGED vars
  <2>1. UNCHANGED <<jobs, own, loop, task>>
    BY <1>5 DEF vars
  <2>2. AloneInvariant(w)'
    BY <2>1 DEF AloneInvariant, Blank, Current, Waits, Abreast, Catching
  <2> QED
    BY <2>1, <2>2, SameAnswer
<1> QED
  BY <1>1, <1>2, <1>3, <1>4, <1>5 DEF Next

\* With one worker its cache and the table stay in step.
THEOREM AloneInStep ==
    ASSUME NEW alone, Workers = {alone}
    PROVE  Spec => []AloneInvariant(alone)
<1>1. Init => AloneInvariant(alone)
  BY DEF Init, AloneInvariant, Blank, Down
<1>2. IntakeInvariant /\ AloneInvariant(alone) /\ [Next]_vars => AloneInvariant(alone)'
  BY AloneStep
<1>3. Spec => Init /\ [][Next]_vars
  BY DEF Spec
<1> QED
  BY <1>1, <1>2, <1>3, IntakeIsSound, PTL

\* SqlJobStore: "that process's copy cannot go stale", for one process.
THEOREM CopyIsTheRow ==
    ASSUME NEW alone, Workers = {alone}
    PROVE  Spec => []CopyNeverStale
<1>1. AloneInvariant(alone) => CopyNeverStale
  BY DEF AloneInvariant, CopyNeverStale, Current, Free
<1> QED
  BY <1>1, AloneInStep, PTL

\* Nobody who polls the one worker is told less than before: queued, running, a
\* verdict that stays, across evictions, refused writes, crashes and restarts.
THEOREM PollsMoveOn ==
    ASSUME NEW alone, Workers = {alone}
    PROVE  Spec => PollsNeverRegress
<1>1. IntakeInvariant /\ AloneInvariant(alone) /\ [Next]_vars =>
          [\A w \in Workers, j \in Jobs : Exists(j) =>
               \/ Get(w, j)' = Get(w, j)
               \/ Rank(Get(w, j)') > Rank(Get(w, j))]_vars
  BY AloneStep
<1>2. Spec => [][Next]_vars
  BY DEF Spec
<1>3. Spec => []AloneInvariant(alone)
  BY AloneInStep
<1> QED
  BY <1>1, <1>2, <1>3, IntakeIsSound, PTL DEF PollsNeverRegress

=============================================================================
