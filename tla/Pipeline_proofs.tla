--------------------------- MODULE Pipeline_proofs ---------------------------
(***************************************************************************)
(* What analyses of one account that share a working directory owe one     *)
(* another, for any number of them, of repositories and of permits.        *)
(*                                                                         *)
(* That no sweep takes what is in use rests on how old it can be. A clone  *)
(* is as old as the semaphore lets it be, Span; the documents of a run are *)
(* as old as the run, and a run works through its repositories in turns:   *)
(* while one of them waits all permits are held, and none is held longer   *)
(* than Span, so that by the time q * Span has passed max_clone_concurrency *)
(* repositories more have been begun for each q (Timely). The last of them *)
(* is therefore begun by (Rounds - 1) * Span, and the run is over by       *)
(* Rounds * Span, which PatienceAssumption keeps below the age of a sweep. *)
(***************************************************************************)
EXTENDS Pipeline, FiniteSetTheorems, TLAPS

Stages == Over \cup {"new", "asked", "starting", "analysing"}
Works == {"waiting", "cloning", "reading"} \cup Ended

\* The longest a run holds a permit.
Span == clone_timeout + AnalysisTime

\* The turns in which a run works through its repositories.
Rounds == 1 + (Cardinality(Repositories) - 1) \div max_clone_concurrency

-----------------------------------------------------------------------------
(* One run: where it is (w), and what it has on disk (d).                  *)

HoldingOf(w) == {r \in Repositories : w[r] \in {"cloning", "reading"}}

EndedOf(w) == {r \in Repositories : w[r] \in Ended}

\* The repositories begun in the first q spans, while the run has documents.
BegunOf(w, d, q) ==
    EndedOf(w) \cup {r \in HoldingOf(w) : d[Documents] - d[r] <= q * Span}

Waits(w) == \E r \in Repositories : w[r] = "waiting"

\* How far the documents of a run have aged, and what has been done meanwhile.
DocumentsAreTimely(w, d) ==
    /\ d[Documents] \in 0 .. Rounds * Span
    /\ \A r \in HoldingOf(w) : d[Documents] - d[r] <= (Rounds - 1) * Span
    /\ Waits(w) =>
           \A q \in Nat : q * Span < d[Documents] =>
               max_clone_concurrency * (q + 1) <= Cardinality(BegunOf(w, d, q))

Timely(w, d) ==
    /\ \A r \in Repositories : w[r] = "cloning" => d[r] \in 0 .. clone_timeout
    /\ \A r \in HoldingOf(w) : d[r] \in 0 .. Span
    /\ Cardinality(HoldingOf(w)) <= max_clone_concurrency
    /\ d[Documents] # None => DocumentsAreTimely(w, d)

-----------------------------------------------------------------------------
(* The constants.                                                          *)

LEMMA SpanFacts ==
    /\ clone_timeout \in Nat \ {0} /\ AnalysisTime \in Nat /\ StaleAfter \in Nat
    /\ max_clone_concurrency \in Nat \ {0}
    /\ Span \in Nat \ {0} /\ clone_timeout <= Span
    /\ Documents \notin Repositories /\ Empty \notin Repositories /\ Documents # Empty
    /\ None \notin Nat
  BY PipelineAssumption, NoneAssumption DEF Span

\* n \div k, by what it is.
LEMMA Turns ==
    ASSUME NEW n \in Nat, NEW k \in Nat \ {0}
    PROVE  /\ 1 + (n - 1) \div k \in Nat
           /\ n <= k * (1 + (n - 1) \div k)
           /\ n # 0 => 1 + (n - 1) \div k >= 1
  OBVIOUS

LEMMA RoundsFacts ==
    /\ IsFiniteSet(Repositories) /\ Cardinality(Repositories) \in Nat
    /\ Rounds \in Nat
    /\ Cardinality(Repositories) <= max_clone_concurrency * Rounds
    /\ Rounds * Span \in Nat /\ Rounds * Span < StaleAfter
    /\ Repositories # {} => Rounds >= 1 /\ (Rounds - 1) * Span + Span = Rounds * Span
<1>1. IsFiniteSet(Repositories) /\ Cardinality(Repositories) \in Nat
  BY PipelineAssumption, FS_CardinalityType
<1>2. Repositories # {} => Cardinality(Repositories) # 0
  BY <1>1, FS_EmptySet
<1>3. /\ Rounds \in Nat
      /\ Cardinality(Repositories) <= max_clone_concurrency * Rounds
      /\ Cardinality(Repositories) # 0 => Rounds >= 1
  BY <1>1, SpanFacts, Turns DEF Rounds
<1>4. Rounds * Span < StaleAfter
  BY PatienceAssumption DEF Rounds, Span
<1>5. Rounds * Span \in Nat
  BY <1>3, SpanFacts
<1>6. (Rounds - 1) * Span + Span = Rounds * Span
  BY <1>3, SpanFacts
<1> QED
  BY <1>1, <1>2, <1>3, <1>4, <1>5, <1>6

\* A repository with work in hand is young, whatever its run has on disk.
LEMMA HoldingIsYoung ==
    ASSUME Repositories # {}
    PROVE  Span < StaleAfter
<1>1. Rounds >= 1 /\ (Rounds - 1) * Span + Span = Rounds * Span /\ Rounds \in Nat
  BY RoundsFacts
<1>2. (Rounds - 1) * Span >= 0 /\ (Rounds - 1) * Span \in Int
  BY <1>1, SpanFacts
<1> QED
  BY <1>1, <1>2, RoundsFacts, SpanFacts

-----------------------------------------------------------------------------
(* How a run goes on.                                                      *)

LEMMA WorkFacts ==
    ASSUME NEW w \in [Repositories -> Works], NEW d, NEW q \in Nat
    PROVE  /\ IsFiniteSet(HoldingOf(w)) /\ IsFiniteSet(EndedOf(w))
           /\ IsFiniteSet(BegunOf(w, d, q))
           /\ Cardinality(HoldingOf(w)) \in Nat /\ Cardinality(EndedOf(w)) \in Nat
           /\ Cardinality(BegunOf(w, d, q)) \in Nat
           /\ Cardinality(BegunOf(w, d, q)) <= Cardinality(Repositories)
           /\ HoldingOf(w) \cap EndedOf(w) = {}
<1>1. /\ HoldingOf(w) \in SUBSET Repositories
      /\ EndedOf(w) \in SUBSET Repositories
      /\ BegunOf(w, d, q) \in SUBSET Repositories
  BY DEF HoldingOf, EndedOf, BegunOf
<1>2. HoldingOf(w) \cap EndedOf(w) = {}
  BY DEF HoldingOf, EndedOf, Ended
<1> QED
  BY <1>1, <1>2, RoundsFacts, FS_Subset, FS_CardinalityType

\* While a repository waits, the last turn has not begun.
LEMMA WaitsIsEarly ==
    ASSUME NEW w \in [Repositories -> Works], NEW d,
           DocumentsAreTimely(w, d), Waits(w)
    PROVE  d[Documents] <= (Rounds - 1) * Span
<1>1. Repositories # {}
  BY DEF Waits
<1>2. PICK q \in Nat : q = Rounds - 1
  BY <1>1, RoundsFacts
<1>3. SUFFICES ASSUME q * Span < d[Documents]
               PROVE  FALSE
  <2>1. d[Documents] \in Nat /\ q * Span \in Nat
    BY RoundsFacts, SpanFacts DEF DocumentsAreTimely
  <2> QED
    BY <1>2, <2>1
<1>4. max_clone_concurrency * (q + 1) <= Cardinality(BegunOf(w, d, q))
  BY <1>3 DEF DocumentsAreTimely
<1>5. Cardinality(Repositories) <= max_clone_concurrency * (q + 1)
  BY <1>2, RoundsFacts
<1>6. Cardinality(BegunOf(w, d, q)) = Cardinality(Repositories)
  <2>1. max_clone_concurrency * (q + 1) \in Nat
    BY SpanFacts
  <2> QED
    BY <1>4, <1>5, <2>1, WorkFacts, RoundsFacts
<1>7. BegunOf(w, d, q) = Repositories
  <2>1. BegunOf(w, d, q) \in SUBSET Repositories
    BY DEF BegunOf, EndedOf, HoldingOf
  <2> QED
    BY <1>6, <2>1, RoundsFacts, FS_Subset
<1> QED
  BY <1>7 DEF Waits, BegunOf, EndedOf, HoldingOf, Ended

\* Only the ages of what is in use matter.
LEMMA SameAges ==
    ASSUME NEW w \in [Repositories -> Works], NEW d, NEW e, Timely(w, d),
           e[Documents] \in {d[Documents], None},
           \A r \in HoldingOf(w) : e[r] = d[r]
    PROVE  Timely(w, e)
<1>1. /\ \A r \in Repositories : w[r] = "cloning" => e[r] \in 0 .. clone_timeout
      /\ \A r \in HoldingOf(w) : e[r] \in 0 .. Span
      /\ Cardinality(HoldingOf(w)) <= max_clone_concurrency
  BY DEF Timely, HoldingOf
<1>2. ASSUME e[Documents] # None
      PROVE  DocumentsAreTimely(w, e)
  <2>1. DocumentsAreTimely(w, d) /\ e[Documents] = d[Documents]
    BY <1>2 DEF Timely
  <2>2. \A q \in Nat : BegunOf(w, e, q) = BegunOf(w, d, q)
    BY <2>1 DEF BegunOf
  <2> QED
    BY <2>1, <2>2 DEF DocumentsAreTimely
<1> QED
  BY <1>1, <1>2 DEF Timely

\* What is in use is too young for a sweep.
LEMMA TimelyIsYoung ==
    ASSUME NEW w \in [Repositories -> Works], NEW d, Timely(w, d)
    PROVE  /\ \A r \in HoldingOf(w) : d[r] \in 0 .. Span /\ d[r] < StaleAfter
           /\ d[Documents] # None => d[Documents] \in Nat /\ d[Documents] < StaleAfter
<1>1. ASSUME NEW r \in HoldingOf(w)
      PROVE  d[r] \in 0 .. Span /\ d[r] < StaleAfter
  <2>1. d[r] \in 0 .. Span /\ Repositories # {}
    BY DEF Timely, HoldingOf
  <2> QED
    BY <2>1, HoldingIsYoung, SpanFacts
<1>2. ASSUME d[Documents] # None
      PROVE  d[Documents] \in Nat /\ d[Documents] < StaleAfter
  <2>1. d[Documents] \in 0 .. Rounds * Span
    BY <1>2 DEF Timely, DocumentsAreTimely
  <2> QED
    BY <2>1, RoundsFacts, SpanFacts
<1> QED
  BY <1>1, <1>2

\* A run begins in time.
LEMMA BeginsTimely ==
    ASSUME NEW d, d[Documents] \in {None, 0}
    PROVE  Timely(NoWork, d)
<1>1. HoldingOf(NoWork) = {}
  BY DEF HoldingOf, NoWork
<1>2. Cardinality(HoldingOf(NoWork)) <= max_clone_concurrency
  BY <1>1, FS_EmptySet, SpanFacts
<1>3. d[Documents] # None => DocumentsAreTimely(NoWork, d)
  <2>1. \A q \in Nat : ~ (q * Span < 0)
    BY SpanFacts
  <2> QED
    BY <1>1, <2>1, RoundsFacts DEF DocumentsAreTimely
<1> QED
  BY <1>1, <1>2, <1>3 DEF Timely, NoWork

\* The semaphore is entered.
LEMMA CloneIsTimely ==
    ASSUME NEW w \in [Repositories -> Works], NEW d \in [Places -> Ages], Timely(w, d),
           NEW r \in Repositories, w[r] = "waiting",
           Cardinality(HoldingOf(w)) < max_clone_concurrency
    PROVE  Timely([w EXCEPT ![r] = "cloning"], [d EXCEPT ![r] = 0])
<1> DEFINE v == [w EXCEPT ![r] = "cloning"]
           e == [d EXCEPT ![r] = 0]
<1>1. /\ v[r] = "cloning" /\ \A x \in Repositories \ {r} : v[x] = w[x]
      /\ e[r] = 0 /\ \A x \in Places \ {r} : e[x] = d[x]
      /\ Documents \in Places \ {r}
  BY SpanFacts DEF Places
<1> HIDE DEF v, e
<1>2. /\ HoldingOf(v) = HoldingOf(w) \cup {r} /\ r \notin HoldingOf(w)
      /\ EndedOf(v) = EndedOf(w)
  BY <1>1 DEF HoldingOf, EndedOf, Ended
<1>3. Cardinality(HoldingOf(v)) <= max_clone_concurrency
  <2>1. Cardinality(HoldingOf(v)) = Cardinality(HoldingOf(w)) + 1
    BY <1>2, WorkFacts, FS_AddElement
  <2> QED
    BY <2>1, WorkFacts, SpanFacts
<1>4. /\ \A x \in Repositories : v[x] = "cloning" => e[x] \in 0 .. clone_timeout
      /\ \A x \in HoldingOf(v) : e[x] \in 0 .. Span
  BY <1>1, <1>2, SpanFacts DEF Timely, HoldingOf, Places
<1>5. ASSUME e[Documents] # None
      PROVE  DocumentsAreTimely(v, e)
  <2>1. DocumentsAreTimely(w, d) /\ e[Documents] = d[Documents]
    BY <1>1, <1>5 DEF Timely
  <2>2. d[Documents] <= (Rounds - 1) * Span
    BY <2>1, WaitsIsEarly DEF Waits
  <2>3. d[Documents] \in Nat
    BY <2>1, RoundsFacts DEF DocumentsAreTimely
  <2>4. \A x \in HoldingOf(v) : e[Documents] - e[x] <= (Rounds - 1) * Span
    BY <1>1, <1>2, <2>1, <2>2, <2>3 DEF DocumentsAreTimely, HoldingOf, Places
  <2>5. ASSUME NEW q \in Nat, q * Span < e[Documents]
        PROVE  max_clone_concurrency * (q + 1) <= Cardinality(BegunOf(v, e, q))
    <3>1. q * Span \in Nat
      BY SpanFacts
    <3>2. BegunOf(v, e, q) = BegunOf(w, d, q)
      BY <1>1, <1>2, <2>1, <2>3, <2>5, <3>1 DEF BegunOf, HoldingOf, Places
    <3>3. Waits(w)
      BY DEF Waits
    <3> QED
      BY <2>1, <2>5, <3>2, <3>3 DEF DocumentsAreTimely
  <2> QED
    BY <2>1, <2>4, <2>5 DEF DocumentsAreTimely
<1>6. Timely(v, e)
  BY <1>3, <1>4, <1>5 DEF Timely
<1> QED
  BY <1>6 DEF v, e

\* git has made the clone.
LEMMA ClonedIsTimely ==
    ASSUME NEW w \in [Repositories -> Works], NEW d, Timely(w, d),
           NEW r \in Repositories, w[r] = "cloning"
    PROVE  Timely([w EXCEPT ![r] = "reading"], d)
<1> DEFINE v == [w EXCEPT ![r] = "reading"]
<1>1. v[r] = "reading" /\ \A x \in Repositories \ {r} : v[x] = w[x]
  OBVIOUS
<1> HIDE DEF v
<1>2. /\ HoldingOf(v) = HoldingOf(w) /\ EndedOf(v) = EndedOf(w)
      /\ Waits(v) => Waits(w)
  BY <1>1 DEF HoldingOf, EndedOf, Waits, Ended
<1>3. \A x \in Repositories : v[x] = "cloning" => w[x] = "cloning"
  BY <1>1
<1>4. \A q : BegunOf(v, d, q) = BegunOf(w, d, q)
  BY <1>2 DEF BegunOf
<1>5. Timely(v, d)
  BY <1>2, <1>3, <1>4 DEF Timely, DocumentsAreTimely
<1> QED
  BY <1>5 DEF v

\* A permit is given back.
LEMMA LeaveIsTimely ==
    ASSUME NEW w \in [Repositories -> Works], NEW d, Timely(w, d),
           NEW r \in HoldingOf(w), NEW end \in Ended,
           NEW e, \A x \in Places \ {r} : e[x] = d[x]
    PROVE  Timely([w EXCEPT ![r] = end], e)
<1> DEFINE v == [w EXCEPT ![r] = end]
<1>1. /\ v[r] = end /\ \A x \in Repositories \ {r} : v[x] = w[x]
      /\ v \in [Repositories -> Works]
      /\ r \in Repositories /\ Documents \in Places \ {r}
  BY SpanFacts DEF HoldingOf, Works, Ended, Places
<1> HIDE DEF v
<1>2. /\ HoldingOf(v) = HoldingOf(w) \ {r} /\ EndedOf(v) = EndedOf(w) \cup {r}
      /\ Waits(v) => Waits(w)
      /\ \A x \in HoldingOf(v) : e[x] = d[x] /\ x \in HoldingOf(w)
  BY <1>1 DEF HoldingOf, EndedOf, Waits, Ended, Places
<1>3. Cardinality(HoldingOf(v)) <= max_clone_concurrency
  <2>1. Cardinality(HoldingOf(v)) <= Cardinality(HoldingOf(w))
    BY <1>2, WorkFacts, FS_Subset
  <2> QED
    BY <1>1, <2>1, WorkFacts, SpanFacts DEF Timely
<1>4. \A x \in Repositories : v[x] = "cloning" => e[x] \in 0 .. clone_timeout
  BY <1>1 DEF Timely, Ended, Places
<1>5. ASSUME e[Documents] # None
      PROVE  DocumentsAreTimely(v, e)
  <2>1. DocumentsAreTimely(w, d) /\ e[Documents] = d[Documents]
    BY <1>1, <1>5 DEF Timely
  <2>2. ASSUME NEW q \in Nat, q * Span < e[Documents], Waits(v)
        PROVE  max_clone_concurrency * (q + 1) <= Cardinality(BegunOf(v, e, q))
    <3>1. BegunOf(w, d, q) \in SUBSET BegunOf(v, e, q)
      BY <1>2, <2>1 DEF BegunOf
    <3>2. Cardinality(BegunOf(w, d, q)) <= Cardinality(BegunOf(v, e, q))
      BY <1>1, <3>1, WorkFacts, FS_Subset
    <3>3. max_clone_concurrency * (q + 1) <= Cardinality(BegunOf(w, d, q))
      BY <1>2, <2>1, <2>2 DEF DocumentsAreTimely
    <3>4. max_clone_concurrency * (q + 1) \in Nat
      BY SpanFacts
    <3> QED
      BY <1>1, <3>2, <3>3, <3>4, WorkFacts
  <2> QED
    BY <1>2, <2>1, <2>2 DEF DocumentsAreTimely
<1>6. Timely(v, e)
  BY <1>2, <1>3, <1>4, <1>5 DEF Timely
<1> QED
  BY <1>6 DEF v

\* A tick passes over a run that has nothing left to do at once. If the documents
\* come to the end of a span with it, every permit is held, by a repository that
\* was begun in that span: what the earlier spans began is over.
LEMMA TickIsTimely ==
    ASSUME NEW w \in [Repositories -> Works], NEW d \in [Places -> Ages], Timely(w, d),
           \E r \in Repositories : w[r] \notin Ended,
           Waits(w) => Cardinality(HoldingOf(w)) >= max_clone_concurrency,
           \A r \in Repositories :
               w[r] = "cloning" => d[r] # None /\ ~ (d[r] >= clone_timeout),
           \A r \in Repositories : w[r] = "reading" /\ d[r] # None => d[r] < Span
    PROVE  Timely(w, [x \in Places |-> Older(d[x])])
<1> DEFINE e == [x \in Places |-> Older(d[x])]
           D == d[Documents]
<1>1. /\ Documents \in Places /\ Repositories \subseteq Places
      /\ \A x \in Places : e[x] = Older(d[x])
  BY DEF Places
<1> HIDE DEF e
<1>2. \A r \in HoldingOf(w) : /\ d[r] \in 0 .. Span /\ d[r] < Span /\ e[r] = d[r] + 1
                              /\ w[r] = "cloning" => d[r] < clone_timeout
  <2>1. ASSUME NEW r \in HoldingOf(w)
        PROVE  /\ d[r] \in 0 .. Span /\ d[r] < Span /\ e[r] = d[r] + 1
               /\ w[r] = "cloning" => d[r] < clone_timeout
    <3>1. r \in Repositories /\ w[r] \in {"cloning", "reading"}
      BY DEF HoldingOf
    <3>2. /\ d[r] \in Nat /\ d[r] # None /\ d[r] < StaleAfter
          /\ d[r] \in 0 .. Span
      BY TimelyIsYoung, SpanFacts
    <3>3. w[r] = "cloning" => d[r] < clone_timeout
      BY <3>1, <3>2, SpanFacts
    <3>4. d[r] < Span
      BY <3>1, <3>2, <3>3, SpanFacts
    <3>5. e[r] = d[r] + 1
      BY <1>1, <3>1, <3>2 DEF Older
    <3> QED
      BY <3>2, <3>3, <3>4, <3>5
  <2> QED
    BY <2>1
<1>3. /\ \A r \in Repositories : w[r] = "cloning" => e[r] \in 0 .. clone_timeout
      /\ \A r \in HoldingOf(w) : e[r] \in 0 .. Span
  BY <1>2, SpanFacts DEF HoldingOf
<1>4. ASSUME e[Documents] # None
      PROVE  DocumentsAreTimely(w, e)
  <2>1. D # None
    BY <1>1, <1>4 DEF Older
  <2>2. D \in Nat /\ D < StaleAfter /\ DocumentsAreTimely(w, d)
    BY <2>1, TimelyIsYoung DEF Timely
  <2>3. e[Documents] = D + 1
    BY <1>1, <2>1, <2>2 DEF Older
  <2>4. Repositories # {} /\ (Rounds - 1) * Span + Span = Rounds * Span
        /\ Rounds * Span \in Nat /\ (Rounds - 1) * Span \in Int
    BY RoundsFacts, SpanFacts
  <2>5. \A r \in HoldingOf(w) : e[Documents] - e[r] = D - d[r] /\ D - d[r] \in Int
    BY <1>2, <2>2, <2>3
  <2>6. D + 1 <= Rounds * Span
    <3>1. CASE Waits(w)
      <4>1. D <= (Rounds - 1) * Span
        BY <2>2, <3>1, WaitsIsEarly
      <4> QED
        BY <2>2, <2>4, <4>1, SpanFacts
    <3>2. CASE ~ Waits(w)
      <4>1. PICK r \in HoldingOf(w) : TRUE
        BY <3>2 DEF Waits, HoldingOf, Works, Ended
      <4>2. D - d[r] <= (Rounds - 1) * Span
        BY <2>2 DEF DocumentsAreTimely
      <4> QED
        BY <1>2, <2>2, <2>4, <4>2, SpanFacts
    <3> QED
      BY <3>1, <3>2
  <2>7. ASSUME Waits(w), NEW q \in Nat, q * Span < D + 1
        PROVE  max_clone_concurrency * (q + 1) <= Cardinality(BegunOf(w, e, q))
    <3>1. BegunOf(w, e, q) = BegunOf(w, d, q)
      BY <2>5 DEF BegunOf
    <3>2. CASE q * Span < D
      BY <2>2, <2>7, <3>1, <3>2 DEF DocumentsAreTimely
    <3>3. CASE q * Span = D
      <4>1. BegunOf(w, d, q) = EndedOf(w) \cup HoldingOf(w)
        BY <1>2, <2>2, <3>3 DEF BegunOf
      <4>2. max_clone_concurrency * q <= Cardinality(EndedOf(w))
        <5>1. CASE q = 0
          BY <5>1, WorkFacts, SpanFacts
        <5>2. CASE q # 0
          <6>1. PICK p \in Nat : p = q - 1
            BY <5>2
          <6>2. p * Span + Span = q * Span /\ p * Span \in Nat
            BY <6>1, SpanFacts
          <6>3. p * Span < D
            BY <2>2, <3>3, <6>2, SpanFacts
          <6>4. BegunOf(w, d, p) = EndedOf(w)
            BY <1>2, <2>2, <3>3, <6>2, SpanFacts DEF BegunOf
          <6>5. max_clone_concurrency * (p + 1) <= Cardinality(EndedOf(w))
            BY <2>2, <2>7, <6>3, <6>4 DEF DocumentsAreTimely
          <6> QED
            BY <6>1, <6>5
        <5> QED
          BY <5>1, <5>2
      <4>3. Cardinality(EndedOf(w) \cup HoldingOf(w)) =
                Cardinality(EndedOf(w)) + Cardinality(HoldingOf(w))
        <5>1. EndedOf(w) \cap HoldingOf(w) = {}
          BY WorkFacts
        <5>2. /\ IsFiniteSet(EndedOf(w)) /\ IsFiniteSet(HoldingOf(w))
              /\ Cardinality(EndedOf(w)) \in Nat /\ Cardinality(HoldingOf(w)) \in Nat
          BY WorkFacts
        <5>3. Cardinality(EndedOf(w) \cup HoldingOf(w)) =
                  Cardinality(EndedOf(w)) + Cardinality(HoldingOf(w)) - Cardinality({})
          BY <5>1, <5>2, FS_Union
        <5> QED
          BY <5>2, <5>3, FS_EmptySet
      <4>4. max_clone_concurrency * (q + 1) = max_clone_concurrency * q + max_clone_concurrency
            /\ max_clone_concurrency * q \in Nat
        BY SpanFacts
      <4>5. Cardinality(EndedOf(w)) \in Nat /\ Cardinality(HoldingOf(w)) \in Nat
        BY WorkFacts
      <4>6. Cardinality(BegunOf(w, e, q)) = Cardinality(EndedOf(w)) + Cardinality(HoldingOf(w))
        BY <3>1, <4>1, <4>3
      <4> QED
        BY <2>7, <4>2, <4>4, <4>5, <4>6, SpanFacts
    <3>4. q * Span \in Nat
      BY SpanFacts
    <3> QED
      BY <2>2, <2>7, <3>2, <3>3, <3>4
  <2> QED
    BY <2>2, <2>3, <2>5, <2>6, <2>7 DEF DocumentsAreTimely
<1>5. Timely(w, e)
  BY <1>3, <1>4 DEF Timely
<1> QED
  BY <1>5 DEF e

-----------------------------------------------------------------------------
(* The inductive invariant.                                                *)

\* What a run is at: its stage s, the fingerprint a it took, its work w, the
\* histories g it has cloned and what it has on disk, d, while the remote has h.
Sound(s, a, w, g, d, h) ==
    /\ s \in Stages
    /\ a \in [Repositories -> Nat] \cup {None}
    /\ w \in [Repositories -> Works]
    /\ g \in [Repositories -> Nat \cup {None}]
    /\ d \in [Places -> Ages]
    /\ s \in {"new", "asked"} => d[Documents] = None
    /\ s = "starting" => d[Documents] \in {None, 0}
    /\ s # "analysing" => w = NoWork
    /\ s = "analysing" => Timely(w, d)
    /\ a # None => \A r \in Repositories : a[r] <= h[r]
    /\ \A r \in Repositories : w[r] \in {"cloning", "reading", "read"} =>
           /\ g[r] \in 0 .. h[r]
           /\ a # None => a[r] <= g[r]

\* What a dossier has read was there, and is no older than its fingerprint.
DossierIsHonest(dossier, h) ==
    dossier # None =>
        \A r \in DOMAIN dossier.read :
            /\ r \in Repositories
            /\ dossier.read[r] \in 0 .. h[r]
            /\ dossier.refs_fingerprint # None =>
                   dossier.read[r] >= dossier.refs_fingerprint[r]

PerRun(f) == f = [i \in Runs |-> f[i]]

PipelineInvariant ==
    /\ head \in [Repositories -> Nat]
    /\ PerRun(stage) /\ PerRun(asked) /\ PerRun(work) /\ PerRun(got) /\ PerRun(directory)
    /\ \A i \in Runs : Sound(stage[i], asked[i], work[i], got[i], directory[i], head)
    /\ DossierIsHonest(stored, head)

\* sweep_workdir, on what one run has on disk.
SweptOf(d) ==
    [x \in Places |-> IF d[x] # None /\ d[x] >= StaleAfter THEN None ELSE d[x]]

\* A sweep takes nothing that is in use.
LEMMA SweepSpares ==
    ASSUME NEW s, NEW a, NEW w, NEW g, NEW d, NEW h, Sound(s, a, w, g, d, h), s \notin Over
    PROVE  /\ \A r \in HoldingOf(w) : SweptOf(d)[r] = d[r]
           /\ SweptOf(d)[Documents] = d[Documents]
<1>1. Documents \in Places /\ HoldingOf(w) \subseteq Places
  BY DEF Places, HoldingOf
<1>2. CASE s = "analysing"
  BY <1>1, <1>2, TimelyIsYoung, SpanFacts DEF Sound, SweptOf
<1>3. CASE s # "analysing"
  <2>1. HoldingOf(w) = {}
    BY <1>3 DEF Sound, HoldingOf, NoWork
  <2>2. d[Documents] \in {None, 0}
    BY <1>3 DEF Sound, Stages
  <2>3. ~ (0 >= StaleAfter)
    BY RoundsFacts, SpanFacts
  <2> QED
    BY <1>1, <2>1, <2>2, <2>3 DEF SweptOf
<1> QED
  BY <1>2, <1>3

LEMMA SweepKeeps ==
    ASSUME NEW s, NEW a, NEW w, NEW g, NEW d, NEW h, Sound(s, a, w, g, d, h)
    PROVE  Sound(s, a, w, g, SweptOf(d), h)
<1>1. SweptOf(d) \in [Places -> Ages]
  BY DEF Sound, SweptOf, Ages
<1>2. SweptOf(d)[Documents] \in {d[Documents], None}
  BY DEF SweptOf, Places
<1>3. s = "analysing" => Timely(w, SweptOf(d))
  BY <1>2, SweepSpares, SameAges DEF Sound, Over
<1> HIDE DEF SweptOf
<1> QED
  BY <1>1, <1>2, <1>3 DEF Sound

\* A step of run i, which may sweep what the others have on disk.
Only(old, new, i) ==
    PerRun(new) /\ \A j \in Runs \ {i} : new[j] = old[j]

LEMMA RunKeeps ==
    ASSUME PipelineInvariant, NEW i \in Runs, head' = head,
           Only(stage, stage', i), Only(asked, asked', i), Only(work, work', i),
           Only(got, got', i), PerRun(directory'),
           \A j \in Runs \ {i} : directory'[j] \in {directory[j], SweptOf(directory[j])},
           Sound(stage'[i], asked'[i], work'[i], got'[i], directory'[i], head),
           DossierIsHonest(stored', head)
    PROVE  PipelineInvariant'
<1>1. ASSUME NEW j \in Runs
      PROVE  Sound(stage'[j], asked'[j], work'[j], got'[j], directory'[j], head')
  <2>1. CASE j = i
    BY <2>1
  <2>2. CASE j # i
    <3>1. /\ stage'[j] = stage[j] /\ asked'[j] = asked[j] /\ work'[j] = work[j]
          /\ got'[j] = got[j] /\ directory'[j] \in {directory[j], SweptOf(directory[j])}
      BY <2>2 DEF Only
    <3>2. Sound(stage[j], asked[j], work[j], got[j], directory[j], head)
      BY DEF PipelineInvariant
    <3>3. Sound(stage[j], asked[j], work[j], got[j], SweptOf(directory[j]), head)
      BY <3>2, SweepKeeps
    <3> QED
      BY <3>1, <3>2, <3>3
  <2> QED
    BY <2>1, <2>2
<1> QED
  BY <1>1 DEF PipelineInvariant, Only, PerRun

LEMMA InitPipeline == Init => PipelineInvariant
<1> SUFFICES ASSUME Init
             PROVE  PipelineInvariant
  OBVIOUS
<1>1. /\ PerRun(stage) /\ PerRun(asked) /\ PerRun(work) /\ PerRun(got) /\ PerRun(directory)
      /\ head \in [Repositories -> Nat]
      /\ DossierIsHonest(stored, head)
  BY DEF Init, PerRun, DossierIsHonest
<1>2. ASSUME NEW i \in Runs
      PROVE  Sound(stage[i], asked[i], work[i], got[i], directory[i], head)
  <2>1. /\ stage[i] = "new" /\ asked[i] = None /\ work[i] = NoWork /\ got[i] = NoHistory
        /\ directory[i] = [x \in Places |-> None]
    BY DEF Init
  <2>2. /\ NoWork \in [Repositories -> Works] /\ NoHistory \in [Repositories -> Nat \cup {None}]
        /\ [x \in Places |-> None] \in [Places -> Ages]
        /\ \A r \in Repositories : NoWork[r] = "waiting"
    BY DEF NoWork, NoHistory, Works, Ages
  <2>3. [x \in Places |-> None][Documents] = None
    BY DEF Places
  <2> QED
    BY <2>1, <2>2, <2>3 DEF Sound, Stages
<1> QED
  BY <1>1, <1>2 DEF PipelineInvariant

\* The remote only goes on.
LEMMA PushKeeps ==
    ASSUME PipelineInvariant, NEW r \in Active, Push(r)
    PROVE  PipelineInvariant'
<1>1. PICK next : next = head'
  OBVIOUS
<1>2. next \in [Repositories -> Nat] /\ \A x \in Repositories : head[x] <= next[x]
  <2>1. next = [head EXCEPT ![r] = head[r] + 1]
    BY <1>1 DEF Push
  <2>2. head \in [Repositories -> Nat] /\ r \in Repositories
    BY PipelineAssumption DEF PipelineInvariant
  <2> QED
    BY <2>1, <2>2
<1>3. UNCHANGED <<stage, asked, work, got, directory, stored>>
  BY DEF Push
<1>4. ASSUME NEW i \in Runs
      PROVE  Sound(stage[i], asked[i], work[i], got[i], directory[i], next)
  <2>1. /\ Sound(stage[i], asked[i], work[i], got[i], directory[i], head)
        /\ head \in [Repositories -> Nat]
    BY DEF PipelineInvariant
  <2>2. asked[i] # None => \A x \in Repositories : asked[i][x] <= next[x]
    BY <1>2, <2>1 DEF Sound
  <2>3. \A x \in Repositories : 0 .. head[x] \subseteq 0 .. next[x]
    BY <1>2, <2>1
  <2> QED
    BY <2>1, <2>2, <2>3 DEF Sound
<1>5. DossierIsHonest(stored, next)
  <2>1. \A x \in Repositories : 0 .. head[x] \subseteq 0 .. next[x]
    BY <1>2 DEF PipelineInvariant
  <2> QED
    BY <2>1 DEF PipelineInvariant, DossierIsHonest
<1> QED
  BY <1>1, <1>2, <1>3, <1>4, <1>5 DEF PipelineInvariant, PerRun

\* A run that is over holds nothing.
LEMMA EndIsSound ==
    ASSUME NEW how \in Over, NEW d \in [Places -> Ages], NEW h
    PROVE  Sound(how, None, NoWork, NoHistory, d, h)
<1>1. /\ NoWork \in [Repositories -> Works] /\ NoHistory \in [Repositories -> Nat \cup {None}]
      /\ \A r \in Repositories : NoWork[r] = "waiting"
  BY DEF NoWork, NoHistory, Works
<1>2. how \in Stages /\ how \notin {"new", "asked", "starting", "analysing"}
  BY DEF Stages, Over
<1> QED
  BY <1>1, <1>2 DEF Sound

LEMMA EndKeeps ==
    ASSUME PipelineInvariant, NEW i \in Runs, NEW how \in Over, End(i, how), head' = head,
           PerRun(directory'), directory'[i] \in [Places -> Ages],
           \A j \in Runs \ {i} : directory'[j] \in {directory[j], SweptOf(directory[j])},
           DossierIsHonest(stored', head)
    PROVE  PipelineInvariant'
<1>1. /\ Only(stage, stage', i) /\ Only(asked, asked', i)
      /\ Only(work, work', i) /\ Only(got, got', i)
      /\ stage'[i] = how /\ asked'[i] = None /\ work'[i] = NoWork /\ got'[i] = NoHistory
  BY DEF End, Only, PerRun, PipelineInvariant
<1>2. Sound(stage'[i], asked'[i], work'[i], got'[i], directory'[i], head)
  BY <1>1, EndIsSound
<1> QED
  BY <1>1, <1>2, RunKeeps

LEMMA RunFacts ==
    ASSUME PipelineInvariant, NEW i \in Runs
    PROVE  /\ Sound(stage[i], asked[i], work[i], got[i], directory[i], head)
           /\ stage[i] \in Stages
           /\ work[i] \in [Repositories -> Works]
           /\ directory[i] \in [Places -> Ages]
           /\ got[i] \in [Repositories -> Nat \cup {None}]
           /\ head \in [Repositories -> Nat]
           /\ DossierIsHonest(stored, head)
  BY DEF PipelineInvariant, Sound

LEMMA SubmitKeeps ==
    ASSUME PipelineInvariant, NEW i \in Runs, Submit(i)
    PROVE  PipelineInvariant'
<1>1. /\ stage' = [stage EXCEPT ![i] = "starting"] /\ stage[i] = "new"
      /\ UNCHANGED <<head, asked, work, got, stored>>
      /\ directory' \in {directory, [directory EXCEPT ![i][Documents] = 0]}
  BY DEF Submit, CanBegin
<1>2. /\ Only(stage, stage', i) /\ Only(asked, asked', i)
      /\ Only(work, work', i) /\ Only(got, got', i)
      /\ stage'[i] = "starting"
  BY <1>1 DEF Only, PerRun, PipelineInvariant
<1>3. /\ PerRun(directory') /\ \A j \in Runs \ {i} : directory'[j] = directory[j]
      /\ directory'[i] \in {directory[i], [directory[i] EXCEPT ![Documents] = 0]}
  BY <1>1 DEF PerRun, PipelineInvariant
<1>4. directory'[i] \in [Places -> Ages] /\ directory'[i][Documents] \in {None, 0}
  <2>1. directory[i][Documents] = None /\ 0 \in Ages /\ Documents \in Places
    BY <1>1, RunFacts, SpanFacts DEF Sound, Ages, Places
  <2> QED
    BY <1>3, <2>1, RunFacts
<1>5. Sound("starting", asked[i], work[i], got[i], directory'[i], head)
  BY <1>1, <1>4, RunFacts DEF Sound, Stages
<1> QED
  BY <1>1, <1>2, <1>3, <1>5, RunFacts, RunKeeps

\* The empty directory of an intake says nothing of its documents.
LEMMA EmptyFacts ==
    ASSUME PipelineInvariant, NEW i \in Runs, directory' \in {directory, WithEmpty(i)}
    PROVE  /\ PerRun(directory') /\ \A j \in Runs \ {i} : directory'[j] = directory[j]
           /\ directory'[i] \in [Places -> Ages]
           /\ directory'[i][Documents] = directory[i][Documents]
<1>1. /\ PerRun(directory') /\ \A j \in Runs \ {i} : directory'[j] = directory[j]
      /\ directory'[i] \in {directory[i], [directory[i] EXCEPT ![Empty] = 0]}
  BY DEF PerRun, PipelineInvariant, WithEmpty
<1>2. 0 \in Ages /\ Documents \in Places \ {Empty}
  BY SpanFacts DEF Ages, Places
<1> QED
  BY <1>1, <1>2, RunFacts

\* A fingerprint is what the remote has when it is taken.
LEMMA AskKeeps ==
    ASSUME PipelineInvariant, NEW i \in Runs, Ask(i) \/ Rebuild(i)
    PROVE  PipelineInvariant'
<1>1. /\ stage[i] \in {"new", "asked"}
      /\ stage' = [stage EXCEPT ![i] = stage'[i]] /\ stage'[i] \in {"asked", "starting"}
      /\ asked' = [asked EXCEPT ![i] = asked'[i]] /\ asked'[i] \in {head, None}
      /\ directory' \in {directory, WithEmpty(i)}
      /\ UNCHANGED <<head, work, got, stored>>
  BY DEF Ask, Rebuild, CanBegin, Fingerprints, PipelineInvariant, PerRun
<1>2. /\ Only(stage, stage', i) /\ Only(asked, asked', i)
      /\ Only(work, work', i) /\ Only(got, got', i)
  BY <1>1 DEF Only, PerRun, PipelineInvariant
<1>3. Sound(stage'[i], asked'[i], work[i], got[i], directory'[i], head)
  <2>1. \A r \in Repositories : head[r] <= head[r]
    BY RunFacts
  <2>2. work[i] = NoWork /\ \A r \in Repositories : NoWork[r] = "waiting"
    BY <1>1, RunFacts DEF Sound, NoWork
  <2>3. directory'[i] \in [Places -> Ages] /\ directory'[i][Documents] = None
    BY <1>1, EmptyFacts, RunFacts DEF Sound
  <2> QED
    BY <1>1, <2>1, <2>2, <2>3, RunFacts DEF Sound, Stages
<1> QED
  BY <1>1, <1>2, <1>3, EmptyFacts, RunFacts, RunKeeps

LEMMA AskFailsKeeps ==
    ASSUME PipelineInvariant, NEW i \in Runs, AskFails(i)
    PROVE  PipelineInvariant'
<1>1. /\ End(i, "over") /\ UNCHANGED <<head, stored>> /\ "over" \in Over
      /\ directory' = WithEmpty(i)
  BY DEF AskFails, Over
<1> QED
  BY <1>1, EmptyFacts, RunFacts, EndKeeps

LEMMA ReuseKeeps ==
    ASSUME PipelineInvariant, NEW i \in Runs, Reuse(i)
    PROVE  PipelineInvariant'
<1>1. End(i, "over") /\ UNCHANGED <<head, directory, stored>> /\ "over" \in Over
  BY DEF Reuse, Over
<1>2. PerRun(directory') /\ \A j \in Runs : directory'[j] = directory[j]
  BY <1>1 DEF PipelineInvariant
<1> QED
  BY <1>1, <1>2, RunFacts, EndKeeps

LEMMA SweptFacts ==
    /\ PerRun(Swept)
    /\ \A i \in Runs : Swept[i] = SweptOf(directory[i])
  BY DEF Swept, SweptOf, PerRun

LEMMA StartKeeps ==
    ASSUME PipelineInvariant, NEW i \in Runs, Start(i)
    PROVE  PipelineInvariant'
<1>1. /\ stage[i] = "starting"
      /\ stage' = [stage EXCEPT ![i] = "analysing"] /\ directory' = Swept
      /\ asked' = [asked EXCEPT ![i] = asked'[i]] /\ asked'[i] \in {head, None}
      /\ UNCHANGED <<head, work, got, stored>>
  BY DEF Start, Fingerprints, PipelineInvariant, PerRun
<1>2. /\ Only(stage, stage', i) /\ Only(asked, asked', i)
      /\ Only(work, work', i) /\ Only(got, got', i)
      /\ stage'[i] = "analysing"
  BY <1>1 DEF Only, PerRun, PipelineInvariant
<1>3. PerRun(directory') /\ \A j \in Runs : directory'[j] = SweptOf(directory[j])
  BY <1>1, SweptFacts
<1>4. Sound("analysing", asked'[i], work[i], got[i], SweptOf(directory[i]), head)
  <2>1. Sound("starting", asked[i], work[i], got[i], SweptOf(directory[i]), head)
    BY <1>1, RunFacts, SweepKeeps
  <2>2. work[i] = NoWork /\ \A r \in Repositories : NoWork[r] = "waiting"
    BY <2>1 DEF Sound, NoWork
  <2>3. Timely(NoWork, SweptOf(directory[i]))
    BY <2>1, BeginsTimely DEF Sound
  <2>4. \A r \in Repositories : head[r] <= head[r]
    BY RunFacts
  <2> QED
    BY <1>1, <2>1, <2>2, <2>3, <2>4, RunFacts DEF Sound, Stages
<1> QED
  BY <1>1, <1>2, <1>3, <1>4, RunFacts, RunKeeps

LEMMA StartFailsKeeps ==
    ASSUME PipelineInvariant, NEW i \in Runs, StartFails(i)
    PROVE  PipelineInvariant'
<1>1. /\ End(i, "over") /\ UNCHANGED <<head, stored>> /\ "over" \in Over
      /\ directory' = [Swept EXCEPT ![i][Documents] = None]
  BY DEF StartFails, Over
<1>2. /\ PerRun(directory')
      /\ \A j \in Runs \ {i} : directory'[j] = SweptOf(directory[j])
      /\ directory'[i] = [SweptOf(directory[i]) EXCEPT ![Documents] = None]
  BY <1>1, SweptFacts DEF PerRun
<1>3. SweptOf(directory[i]) \in [Places -> Ages]
  BY RunFacts DEF SweptOf, Ages
<1>4. directory'[i] \in [Places -> Ages]
  BY <1>2, <1>3 DEF Ages
<1> QED
  BY <1>1, <1>2, <1>4, RunFacts, EndKeeps

\* The dossier is what the run has read, and the fingerprint it took before.
LEMMA SaveKeeps ==
    ASSUME PipelineInvariant, NEW i \in Runs, Save(i)
    PROVE  PipelineInvariant'
<1>1. /\ End(i, "over") /\ UNCHANGED head /\ "over" \in Over
      /\ directory' = [directory EXCEPT ![i][Documents] = None]
      /\ stored' \in {DossierOf(i), stored}
  BY DEF Save, Over, WithoutDocuments
<1>2. /\ PerRun(directory')
      /\ \A j \in Runs \ {i} : directory'[j] = directory[j]
      /\ directory'[i] = [directory[i] EXCEPT ![Documents] = None]
  BY <1>1 DEF PerRun, PipelineInvariant
<1>3. directory'[i] \in [Places -> Ages]
  BY <1>2, RunFacts DEF Ages
<1>4. DossierIsHonest(DossierOf(i), head)
  <2> DEFINE done == {x \in Repositories : work[i][x] = "read"}
             read == [r \in done |-> got[i][r]]
  <2>1. /\ DossierOf(i).refs_fingerprint = asked[i]
        /\ DossierOf(i).read = read
    BY DEF DossierOf
  <2>2. /\ DOMAIN read = done
        /\ \A r \in done : r \in Repositories /\ work[i][r] = "read" /\ read[r] = got[i][r]
    OBVIOUS
  <2> HIDE DEF done, read
  <2>3. ASSUME NEW r \in done
        PROVE  /\ r \in Repositories /\ read[r] \in 0 .. head[r]
               /\ asked[i] # None => read[r] >= asked[i][r]
    <3>1. /\ r \in Repositories /\ read[r] = got[i][r] /\ got[i][r] \in 0 .. head[r]
          /\ asked[i] # None => asked[i][r] <= got[i][r] /\ asked[i][r] \in Nat
          /\ head[r] \in Nat
      BY <2>2, RunFacts DEF Sound
    <3> QED
      BY <3>1
  <2> QED
    BY <2>1, <2>2, <2>3 DEF DossierIsHonest
<1> QED
  BY <1>1, <1>2, <1>3, <1>4, RunFacts, EndKeeps

LEMMA CrashKeeps ==
    ASSUME PipelineInvariant, NEW i \in Runs, Crash(i)
    PROVE  PipelineInvariant'
<1>1. End(i, "dead")
  BY DEF Crash
<1>2. UNCHANGED <<head, directory, stored>> /\ "dead" \in Over
  BY DEF Crash, Over
<1>3. PerRun(directory') /\ \A j \in Runs : directory'[j] = directory[j]
  BY <1>2 DEF PipelineInvariant
<1> QED
  BY <1>1, <1>2, <1>3, RunFacts, EndKeeps

\* What a step on one repository changes is the run's work, its histories and its
\* directories.
LEMMA RepoKeeps ==
    ASSUME PipelineInvariant, NEW i \in Runs,
           UNCHANGED <<head, stage, asked, stored>>,
           PerRun(work'), PerRun(got'), PerRun(directory'),
           \A j \in Runs \ {i} : /\ work'[j] = work[j] /\ got'[j] = got[j]
                                 /\ directory'[j] = directory[j],
           Sound(stage[i], asked[i], work'[i], got'[i], directory'[i], head)
    PROVE  PipelineInvariant'
<1>1. /\ Only(stage, stage', i) /\ Only(asked, asked', i)
      /\ Only(work, work', i) /\ Only(got, got', i)
  BY DEF Only, PipelineInvariant
<1> QED
  BY <1>1, RunFacts, RunKeeps

LEMMA CloneKeeps ==
    ASSUME PipelineInvariant, NEW i \in Runs, NEW r \in Repositories, Clone(i, r)
    PROVE  PipelineInvariant'
<1>1. /\ stage[i] = "analysing" /\ work[i][r] = "waiting"
      /\ Cardinality(HoldingOf(work[i])) < max_clone_concurrency
  BY DEF Clone, CanClone, Holding, HoldingOf
<1>2. /\ work' = [work EXCEPT ![i][r] = "cloning"]
      /\ directory' = [directory EXCEPT ![i][r] = 0]
      /\ got' = [got EXCEPT ![i][r] = head[r]]
      /\ UNCHANGED <<head, stage, asked, stored>>
  BY DEF Clone
<1>3. /\ PerRun(work') /\ PerRun(got') /\ PerRun(directory')
      /\ \A j \in Runs \ {i} : /\ work'[j] = work[j] /\ got'[j] = got[j]
                               /\ directory'[j] = directory[j]
      /\ work'[i] = [work[i] EXCEPT ![r] = "cloning"]
      /\ got'[i] = [got[i] EXCEPT ![r] = head[r]]
      /\ directory'[i] = [directory[i] EXCEPT ![r] = 0]
  BY <1>2 DEF PerRun, PipelineInvariant
<1>4. Timely(work[i], directory[i])
  BY <1>1, RunFacts DEF Sound
<1>5. Timely(work'[i], directory'[i])
  BY <1>1, <1>3, <1>4, RunFacts, CloneIsTimely
<1>6. /\ work'[i] \in [Repositories -> Works]
      /\ got'[i] \in [Repositories -> Nat \cup {None}]
      /\ directory'[i] \in [Places -> Ages]
  BY <1>3, RunFacts, SpanFacts DEF Works, Ages, Places
<1>7. ASSUME NEW x \in Repositories, work'[i][x] \in {"cloning", "reading", "read"}
      PROVE  got'[i][x] \in 0 .. head[x] /\ (asked[i] # None => asked[i][x] <= got'[i][x])
  <2>1. CASE x = r
    BY <1>3, <2>1, RunFacts DEF Sound
  <2>2. CASE x # r
    BY <1>3, <1>7, <2>2, RunFacts DEF Sound
  <2> QED
    BY <2>1, <2>2
<1>8. Sound(stage[i], asked[i], work'[i], got'[i], directory'[i], head)
  BY <1>1, <1>5, <1>6, <1>7, RunFacts DEF Sound
<1> QED
  BY <1>2, <1>3, <1>8, RepoKeeps

LEMMA ClonedKeeps ==
    ASSUME PipelineInvariant, NEW i \in Runs, NEW r \in Repositories, Cloned(i, r)
    PROVE  PipelineInvariant'
<1>1. stage[i] = "analysing" /\ work[i][r] = "cloning"
  BY DEF Cloned
<1>2. PICK history \in got[i][r] .. head[r] : got' = [got EXCEPT ![i][r] = history]
  BY DEF Cloned
<1>3. /\ work' = [work EXCEPT ![i][r] = "reading"]
      /\ UNCHANGED <<head, stage, asked, directory, stored>>
  BY DEF Cloned
<1>4. /\ PerRun(work') /\ PerRun(got') /\ PerRun(directory')
      /\ \A j \in Runs \ {i} : /\ work'[j] = work[j] /\ got'[j] = got[j]
                               /\ directory'[j] = directory[j]
      /\ work'[i] = [work[i] EXCEPT ![r] = "reading"]
      /\ got'[i] = [got[i] EXCEPT ![r] = history]
      /\ directory'[i] = directory[i]
  BY <1>2, <1>3 DEF PerRun, PipelineInvariant
<1>5. /\ got[i][r] \in 0 .. head[r] /\ head[r] \in Nat
      /\ asked[i] # None => asked[i][r] <= got[i][r] /\ asked[i][r] \in Nat
  BY <1>1, RunFacts DEF Sound
<1>6. /\ history \in 0 .. head[r] /\ history \in Nat
      /\ asked[i] # None => asked[i][r] <= history
  BY <1>2, <1>5
<1>7. Timely(work'[i], directory'[i])
  BY <1>1, <1>4, RunFacts, ClonedIsTimely DEF Sound
<1>8. /\ work'[i] \in [Repositories -> Works]
      /\ got'[i] \in [Repositories -> Nat \cup {None}]
  BY <1>4, <1>6, RunFacts DEF Works
<1>9. ASSUME NEW x \in Repositories, work'[i][x] \in {"cloning", "reading", "read"}
      PROVE  got'[i][x] \in 0 .. head[x] /\ (asked[i] # None => asked[i][x] <= got'[i][x])
  <2>1. CASE x = r
    BY <1>4, <1>6, <2>1, RunFacts
  <2>2. CASE x # r
    BY <1>4, <1>9, <2>2, RunFacts DEF Sound
  <2> QED
    BY <2>1, <2>2
<1>10. Sound(stage[i], asked[i], work'[i], got'[i], directory'[i], head)
  BY <1>1, <1>4, <1>7, <1>8, <1>9, RunFacts DEF Sound
<1> QED
  BY <1>3, <1>4, <1>10, RepoKeeps

\* A repository that is left, with or without its directory.
LEMMA LeaveKeeps ==
    ASSUME PipelineInvariant, NEW i \in Runs, NEW r \in Repositories, NEW end \in Ended,
           stage[i] = "analysing", work[i][r] \in {"cloning", "reading"},
           end = "read" => work[i][r] = "reading",
           work' = [work EXCEPT ![i][r] = end],
           directory' \in {directory, [directory EXCEPT ![i][r] = None]},
           got' = [got EXCEPT ![i][r] = IF end = "read" THEN @ ELSE None],
           UNCHANGED <<head, stage, asked, stored>>
    PROVE  PipelineInvariant'
<1>1. /\ PerRun(work') /\ PerRun(got') /\ PerRun(directory')
      /\ \A j \in Runs \ {i} : /\ work'[j] = work[j] /\ got'[j] = got[j]
                               /\ directory'[j] = directory[j]
      /\ work'[i] = [work[i] EXCEPT ![r] = end]
      /\ got'[i] = [got[i] EXCEPT ![r] = IF end = "read" THEN @ ELSE None]
      /\ directory'[i] \in {directory[i], [directory[i] EXCEPT ![r] = None]}
  BY DEF PerRun, PipelineInvariant
<1>2. \A x \in Places \ {r} : directory'[i][x] = directory[i][x]
  BY <1>1, RunFacts
<1>3. Timely(work[i], directory[i]) /\ r \in HoldingOf(work[i])
  BY RunFacts DEF Sound, HoldingOf
<1>4. Timely(work'[i], directory'[i])
  BY <1>1, <1>2, <1>3, RunFacts, LeaveIsTimely
<1>5. /\ work'[i] \in [Repositories -> Works]
      /\ got'[i] \in [Repositories -> Nat \cup {None}]
      /\ directory'[i] \in [Places -> Ages]
  BY <1>1, RunFacts DEF Works, Ages
<1>6. \A x \in Repositories : work'[i][x] \in {"cloning", "reading", "read"} =>
          work[i][x] \in {"cloning", "reading", "read"} /\ got'[i][x] = got[i][x]
  BY <1>1, RunFacts DEF Ended
<1>7. Sound(stage[i], asked[i], work'[i], got'[i], directory'[i], head)
  BY <1>1, <1>4, <1>5, <1>6, RunFacts DEF Sound
<1> QED
  BY <1>1, <1>7, RepoKeeps

LEMMA RepoStepKeeps ==
    ASSUME PipelineInvariant, NEW i \in Runs, NEW r \in Repositories, AnalyseRepo(i, r)
    PROVE  PipelineInvariant'
<1>1. CASE Breaks(i, r)
  BY <1>1, LeaveKeeps DEF Breaks, Leave, Ended
<1>2. CASE TimeOut(i, r)
  BY <1>2, LeaveKeeps DEF TimeOut, Overdue, Leave, Ended
<1>3. CASE Read(i, r)
  <2>1. got = [got EXCEPT ![i][r] = @]
    BY RunFacts DEF PipelineInvariant, PerRun
  <2> QED
    BY <1>3, <2>1, LeaveKeeps DEF Read, Leave, Ended
<1> QED
  BY <1>1, <1>2, <1>3, CloneKeeps, ClonedKeeps DEF AnalyseRepo

\* A run over which a tick passes.
LEMMA TickIsSound ==
    ASSUME PipelineInvariant, NEW i \in Runs, MayWait(i),
           NEW e, e = [x \in Places |-> Older(directory[i][x])]
    PROVE  Sound(stage[i], asked[i], work[i], got[i], e, head)
<1>1. e \in [Places -> Ages]
  <2>1. ASSUME NEW age \in Ages
        PROVE  Older(age) \in Ages
    BY <2>1, SpanFacts DEF Ages, Older
  <2> QED
    BY <2>1, RunFacts
<1>2. CASE stage[i] \in Over \cup {"new"}
  <2>1. stage[i] = "new" => e[Documents] = None
    <3>1. Documents \in Places
      BY DEF Places
    <3> QED
      BY <3>1, RunFacts DEF Sound, Older
  <2>2. stage[i] \notin {"asked", "starting", "analysing"}
    BY <1>2 DEF Over
  <2> QED
    BY <1>1, <2>1, <2>2, RunFacts DEF Sound
<1>3. CASE stage[i] = "analysing"
  <2>1. /\ \E r \in Repositories : work[i][r] \notin Ended
        /\ \A r \in Repositories :
               /\ ~CanClone(i, r)
               /\ ~Overdue(i, r)
               /\ work[i][r] = "reading" /\ directory[i][r] # None =>
                      directory[i][r] < clone_timeout + AnalysisTime
    BY <1>3 DEF MayWait, Over
  <2>2. Timely(work[i], directory[i])
    BY <1>3, RunFacts DEF Sound
  <2>3. Cardinality(HoldingOf(work[i])) \in Nat
    BY RunFacts, WorkFacts
  <2>4. Waits(work[i]) => Cardinality(HoldingOf(work[i])) >= max_clone_concurrency
    BY <1>3, <2>1, <2>3, SpanFacts DEF Waits, CanClone, Holding, HoldingOf
  <2>5. \A r \in Repositories :
            work[i][r] = "cloning" => directory[i][r] # None /\ ~ (directory[i][r] >= clone_timeout)
    BY <1>3, <2>1 DEF Overdue
  <2>6. \A r \in Repositories :
            work[i][r] = "reading" /\ directory[i][r] # None => directory[i][r] < Span
    BY <2>1 DEF Span
  <2>7. Timely(work[i], e)
    BY <2>1, <2>2, <2>4, <2>5, <2>6, RunFacts, TickIsTimely
  <2> QED
    BY <1>1, <1>3, <2>7, RunFacts DEF Sound
<1> QED
  BY <1>2, <1>3 DEF MayWait

LEMMA TickKeeps ==
    ASSUME PipelineInvariant, Tick
    PROVE  PipelineInvariant'
<1>1. UNCHANGED <<head, stage, asked, work, got, stored>>
  BY DEF Tick
<1>2. /\ PerRun(directory')
      /\ \A i \in Runs : directory'[i] = [x \in Places |-> Older(directory[i][x])]
  BY DEF Tick, PerRun
<1>3. \A i \in Runs : Sound(stage[i], asked[i], work[i], got[i], directory'[i], head)
  BY <1>2, TickIsSound DEF Tick
<1> QED
  BY <1>1, <1>2, <1>3 DEF PipelineInvariant, PerRun

LEMMA StepPipeline == PipelineInvariant /\ [Next]_vars => PipelineInvariant'
<1> SUFFICES ASSUME PipelineInvariant, [Next]_vars
             PROVE  PipelineInvariant'
  OBVIOUS
<1>1. CASE \E r \in Active : Push(r)
  BY <1>1, PushKeeps
<1>2. CASE \E i \in Runs : Intake(i)
  BY <1>2, SubmitKeeps, AskKeeps, AskFailsKeeps, ReuseKeeps, StartKeeps, StartFailsKeeps, SaveKeeps DEF Intake
<1>3. CASE \E i \in Runs : Crash(i)
  BY <1>3, CrashKeeps
<1>4. CASE \E i \in Runs, r \in Repositories : AnalyseRepo(i, r)
  BY <1>4, RepoStepKeeps
<1>5. CASE Tick
  BY <1>5, TickKeeps
<1>6. CASE UNCHANGED vars
  BY <1>6 DEF vars, PipelineInvariant, PerRun
<1> QED
  BY <1>1, <1>2, <1>3, <1>4, <1>5, <1>6 DEF Next

-----------------------------------------------------------------------------
(* What a step does to what is in use.                                     *)

LEMMA UseFacts ==
    ASSUME PipelineInvariant, NEW i \in Runs, NEW x \in Places, InUse(i, x)
    PROVE  /\ stage[i] \notin Over /\ x # Empty
           /\ x # Documents => /\ x \in HoldingOf(work[i]) /\ x \in Repositories
                               /\ stage[i] = "analysing"
           /\ SweptOf(directory[i])[x] = directory[i][x]
<1>1. stage[i] \notin Over /\ x # Empty
  BY DEF InUse, Occupied
<1>2. ASSUME x # Documents
      PROVE  x \in HoldingOf(work[i]) /\ x \in Repositories /\ stage[i] = "analysing"
  <2>1. x \in Repositories /\ work[i][x] \in {"cloning", "reading"}
    BY <1>2 DEF InUse, Occupied, Places
  <2>2. stage[i] # "analysing" => work[i][x] = "waiting"
    BY <2>1, RunFacts DEF Sound, NoWork
  <2> QED
    BY <2>1, <2>2 DEF HoldingOf
<1>3. SweptOf(directory[i])[x] = directory[i][x]
  BY <1>1, <1>2, RunFacts, SweepSpares
<1> QED
  BY <1>1, <1>2, <1>3

\* A step leaves a directory as it is, unless it makes it, ages it, sweeps it, or
\* is the end of its use.
LEMMA DirectorySteps ==
    ASSUME PipelineInvariant, Next, NEW i \in Runs, NEW x \in Places
    PROVE  \/ directory'[i][x] \in {directory[i][x], SweptOf(directory[i])[x]}
           \/ directory[i][x] # None => directory'[i][x] # None
           \/ ~ InUse(i, x)'
<1>1. PerRun(directory) /\ directory[i] \in [Places -> Ages] /\ None \notin Nat
  BY RunFacts, SpanFacts DEF PipelineInvariant
<1>2. CASE \E r \in Active : Push(r)
  BY <1>2 DEF Push
<1>3. CASE \E j \in Runs : Submit(j)
  BY <1>1, <1>3, SpanFacts DEF Submit, PerRun
<1>4. CASE \E j \in Runs : Ask(j) \/ AskFails(j) \/ Reuse(j) \/ Rebuild(j) \/ Crash(j)
  BY <1>1, <1>4, SpanFacts DEF Ask, AskFails, WithEmpty, Reuse, Rebuild, Crash, PerRun
<1>5. CASE \E j \in Runs : Start(j)
  BY <1>5, SweptFacts DEF Start
<1>6. CASE \E j \in Runs : StartFails(j) \/ Save(j)
  <2>1. PICK j \in Runs : StartFails(j) \/ Save(j)
    BY <1>6
  <2>2. CASE j = i
    <3>1. End(i, "over")
      BY <2>1, <2>2 DEF StartFails, Save
    <3>2. stage'[i] = "over"
      BY <3>1 DEF End, PipelineInvariant, PerRun
    <3> QED
      BY <3>2 DEF InUse, Occupied, Over
  <2>3. CASE j # i
    BY <1>1, <2>1, <2>3, SweptFacts DEF StartFails, Save, WithoutDocuments, PerRun
  <2> QED
    BY <2>2, <2>3
<1>7. CASE \E j \in Runs, r \in Repositories : Clone(j, r) \/ Cloned(j, r)
  BY <1>1, <1>7, SpanFacts DEF Clone, Cloned, PerRun
<1>8. CASE \E j \in Runs, r \in Repositories : Breaks(j, r) \/ TimeOut(j, r) \/ Read(j, r)
  <2>1. PICK j \in Runs, r \in Repositories, end \in Ended :
            /\ work' = [work EXCEPT ![j][r] = end]
            /\ directory' \in {directory, [directory EXCEPT ![j][r] = None]}
    BY <1>8 DEF Breaks, TimeOut, Read, Leave, Ended
  <2>2. CASE j = i /\ x = r
    <3>1. work'[i][x] = end /\ x \notin {Documents, Empty}
      BY <2>1, <2>2, RunFacts, SpanFacts DEF PipelineInvariant, PerRun
    <3> QED
      BY <3>1 DEF InUse, Occupied, Ended
  <2>3. CASE ~ (j = i /\ x = r)
    BY <1>1, <2>1, <2>3 DEF PerRun
  <2> QED
    BY <2>2, <2>3
<1>9. CASE Tick
  <2>1. directory'[i][x] = Older(directory[i][x])
    BY <1>9 DEF Tick
  <2>2. directory[i][x] # None => Older(directory[i][x]) \in Nat
    BY <1>1, SpanFacts DEF Older, Ages
  <2> QED
    BY <1>1, <2>1, <2>2
<1> QED
  BY <1>2, <1>3, <1>4, <1>5, <1>6, <1>7, <1>8, <1>9 DEF Next, Intake, AnalyseRepo

\* The end of a use takes its directory along, unless something was killed or the
\* directory is empty.
LEMMA EndOfUse ==
    ASSUME PipelineInvariant, Next, NEW i \in Runs, NEW x \in Places,
           Occupied(i, x), ~ Occupied(i, x)', directory'[i][x] # None, x # Empty
    PROVE  \/ stage'[i] = "dead"
           \/ x \in Repositories /\ work[i][x] = "cloning" /\ directory[i][x] >= clone_timeout
<1>1. /\ PerRun(directory) /\ PerRun(stage) /\ PerRun(work)
      /\ directory[i] \in [Places -> Ages]
      /\ InUse(i, x)
  BY RunFacts DEF PipelineInvariant, InUse
<1>2. ASSUME stage'[i] = stage[i], work'[i] = work[i]
      PROVE  FALSE
  BY <1>2 DEF Occupied
<1>3. ASSUME stage'[i] \notin Over, work'[i] = work[i]
      PROVE  FALSE
  BY <1>3 DEF Occupied
<1>4. CASE (\E r \in Active : Push(r)) \/ Tick
  BY <1>2, <1>4 DEF Push, Tick
<1>5. CASE \E j \in Runs : Submit(j) \/ Ask(j) \/ Rebuild(j) \/ Start(j)
  <2>1. /\ stage'[i] = stage[i] \/ stage'[i] \in {"starting", "asked", "analysing"}
        /\ work' = work
    BY <1>1, <1>5 DEF Submit, Ask, Rebuild, Start, PerRun
  <2> QED
    BY <1>2, <1>3, <2>1 DEF Over
<1>6. CASE \E j \in Runs : AskFails(j) \/ Reuse(j) \/ StartFails(j) \/ Save(j) \/ Crash(j)
  <2>1. PICK j \in Runs : AskFails(j) \/ Reuse(j) \/ StartFails(j) \/ Save(j) \/ Crash(j)
    BY <1>6
  <2>2. CASE j # i
    <3>1. stage'[i] = stage[i] /\ work'[i] = work[i]
      BY <1>1, <2>1, <2>2 DEF AskFails, Reuse, StartFails, Save, Crash, End, PerRun
    <3> QED
      BY <1>2, <3>1
  <2>3. CASE j = i /\ Crash(i)
    BY <1>1, <2>3 DEF Crash, End, PerRun
  <2>4. CASE j = i /\ ~ Crash(i)
    <3>1. x = Documents
      <4>1. stage[i] = "analysing" => \A r \in Repositories : work[i][r] \in Ended
        BY <2>1, <2>4 DEF AskFails, CanBegin, Reuse, StartFails, Save
      <4> QED
        BY <1>1, <4>1, UseFacts DEF HoldingOf, Ended
    <3>2. Documents \in Places \ {Empty}
      BY SpanFacts DEF Places
    <3>3. CASE Reuse(i)
      <4>1. directory[i][Documents] = None
        BY <3>3, RunFacts DEF Reuse, Sound
      <4> QED
        BY <3>1, <3>3, <4>1 DEF Reuse
    <3>4. CASE StartFails(i)
      <4>1. directory' = [Swept EXCEPT ![i][Documents] = None]
        BY <3>4 DEF StartFails
      <4>2. SweptOf(directory[i]) \in [Places -> Ages]
        BY <1>1 DEF SweptOf, Ages
      <4>3. directory'[i][Documents] = None
        BY <3>2, <4>1, <4>2, SweptFacts DEF PerRun
      <4> QED
        BY <3>1, <4>3
    <3>5. CASE Save(i)
      BY <1>1, <3>1, <3>2, <3>5 DEF Save, WithoutDocuments, PerRun
    <3>6. CASE AskFails(i)
      <4>1. directory[i][Documents] = None
        BY <3>6, RunFacts DEF AskFails, CanBegin, Sound
      <4>2. directory'[i][Documents] = None
        BY <1>1, <3>2, <3>6, <4>1 DEF AskFails, WithEmpty, PerRun
      <4> QED
        BY <3>1, <4>2
    <3> QED
      BY <2>1, <2>4, <3>3, <3>4, <3>5, <3>6
  <2> QED
    BY <2>2, <2>3, <2>4
<1>7. CASE \E j \in Runs, r \in Repositories : AnalyseRepo(j, r)
  <2>1. PICK j \in Runs, r \in Repositories : AnalyseRepo(j, r)
    BY <1>7
  <2>2. UNCHANGED stage
    BY <2>1 DEF AnalyseRepo, Clone, Cloned, Breaks, TimeOut, Read
  <2>3. j = i /\ x = r
    <3>1. x \in Repositories
      BY <2>2 DEF Occupied, Places
    <3>2. PICK now : work' = [work EXCEPT ![j][r] = now]
      BY <1>1, <2>1, RunFacts DEF AnalyseRepo, Clone, Cloned, Breaks, TimeOut, Read, Leave, PerRun
    <3>3. ~ (j = i /\ x = r) => work'[i][x] = work[i][x]
      BY <1>1, <3>1, <3>2, RunFacts DEF PerRun
    <3> QED
      BY <2>2, <3>1, <3>3 DEF Occupied
  <2>4. CASE Clone(i, r) \/ Cloned(i, r)
    <3>1. work'[i][r] \in {"cloning", "reading"}
      BY <1>1, <2>4, RunFacts DEF Clone, Cloned, PerRun
    <3> QED
      BY <2>2, <2>3, <3>1 DEF Occupied
  <2>5. CASE Leave(i, r, "failed") \/ Leave(i, r, "read")
    <3>1. directory'[i][r] = None
      BY <1>1, <2>3, <2>5 DEF Leave, PerRun
    <3> QED
      BY <2>3, <3>1
  <2>6. CASE Overdue(i, r) /\ UNCHANGED directory
    BY <2>3, <2>6 DEF Overdue
  <2> QED
    BY <2>1, <2>3, <2>4, <2>5, <2>6 DEF AnalyseRepo, Breaks, TimeOut, Read
<1> QED
  BY <1>4, <1>5, <1>6, <1>7 DEF Next, Intake

-----------------------------------------------------------------------------
(* What analyses owe one another.                                          *)

\* Every run of the account is sound, and so is the dossier stored last.
THEOREM PipelineIsSound == Spec => []PipelineInvariant
<1> QED
  BY InitPipeline, StepPipeline, PTL DEF Spec

\* A run holds no more clones than the semaphore allows, and a dossier says of a
\* repository no more than a history that was there.
THEOREM PipelineTypes == Spec => []TypeOK
<1>1. PipelineInvariant => TypeOK
  <2> SUFFICES ASSUME PipelineInvariant
               PROVE  TypeOK
    OBVIOUS
  <2>1. /\ stage \in [Runs -> Over \cup {"new", "asked", "starting", "analysing"}]
        /\ directory \in [Runs -> [Places -> Ages]]
    BY RunFacts DEF PipelineInvariant, PerRun, Stages
  <2>2. ASSUME NEW i \in Runs
        PROVE  Cardinality(Holding(i)) <= max_clone_concurrency
    <3>1. Holding(i) = HoldingOf(work[i])
      BY DEF Holding, HoldingOf
    <3>2. CASE stage[i] = "analysing"
      BY <3>1, <3>2, RunFacts DEF Sound, Timely
    <3>3. CASE stage[i] # "analysing"
      <4>1. HoldingOf(work[i]) = {}
        BY <3>3, RunFacts DEF Sound, HoldingOf, NoWork
      <4> QED
        BY <3>1, <4>1, FS_EmptySet, SpanFacts
    <3> QED
      BY <3>2, <3>3
  <2>3. stored # None => \A r \in DOMAIN stored.read : stored.read[r] \in 0 .. head[r]
    BY DEF PipelineInvariant, DossierIsHonest
  <2> QED
    BY <2>1, <2>2, <2>3 DEF TypeOK
<1> QED
  BY <1>1, PipelineIsSound, PTL

\* A sweep by age in one process never takes a clone that is being made or read,
\* or a staged document, from another (sweep_workdir).
THEOREM LiveIsNeverSwept == Spec => LiveNeverSwept
<1>1. PipelineInvariant /\ [Next]_vars =>
          [\A i \in Runs, x \in Places :
               InUse(i, x) /\ InUse(i, x)' /\ directory[i][x] # None =>
                   directory'[i][x] # None]_vars
  BY UseFacts, DirectorySteps
<1>2. Spec => [][Next]_vars
  BY DEF Spec
<1> QED
  BY <1>1, <1>2, PipelineIsSound, PTL DEF LiveNeverSwept

\* A directory outlives its use only when the process is killed or the intake broken
\* off before its `try`, when the clone that writes it has to be killed, or when it
\* is the empty staging directory of an intake without documents (add_candidate,
\* _run_intake, ephemeral_clone).
THEOREM OnlyKilledOrEmptyStay == Spec => OnlyTheInterruptedOrEmptyStay
<1>1. PipelineInvariant /\ [Next]_vars =>
          [\A i \in Runs, x \in Places :
               Occupied(i, x) /\ ~Occupied(i, x)' /\ directory'[i][x] # None =>
                   \/ x = Empty
                   \/ stage'[i] = "dead"
                   \/ x \in Repositories /\ work[i][x] = "cloning" /\ directory[i][x] >= clone_timeout]_vars
  BY EndOfUse
<1>2. Spec => [][Next]_vars
  BY DEF Spec
<1> QED
  BY <1>1, <1>2, PipelineIsSound, PTL DEF OnlyTheInterruptedOrEmptyStay

\* A dossier that is reused is never older than the question (reusable_dossier).
THEOREM ReuseIsNoOlder == Spec => ReusedIsNoOlder
<1>1. PipelineInvariant /\ [Next]_vars =>
          [\A i \in Runs :
               stage[i] = "asked" /\ stage'[i] = "over" =>
                   \A r \in DOMAIN stored.read : stored.read[r] >= asked[i][r]]_vars
  <2> SUFFICES ASSUME PipelineInvariant, Next, NEW i \in Runs,
                      stage[i] = "asked", stage'[i] = "over"
               PROVE  \A r \in DOMAIN stored.read : stored.read[r] >= asked[i][r]
    OBVIOUS
  <2>1. PerRun(stage)
    BY DEF PipelineInvariant
  <2>2. Reuse(i)
    <3>1. CASE \E r \in Active : Push(r)
      BY <3>1 DEF Push
    <3>2. CASE \E j \in Runs : Submit(j) \/ Ask(j) \/ Rebuild(j) \/ Start(j)
      BY <2>1, <3>2 DEF Submit, Ask, Rebuild, Start, PerRun
    <3>3. CASE \E j \in Runs : AskFails(j) \/ StartFails(j) \/ Save(j) \/ Crash(j)
      BY <2>1, <3>3 DEF AskFails, CanBegin, StartFails, Save, Crash, End, PerRun
    <3>4. CASE \E j \in Runs : Reuse(j)
      BY <2>1, <3>4 DEF Reuse, End, PerRun
    <3>5. CASE \E j \in Runs, r \in Repositories : AnalyseRepo(j, r)
      BY <3>5 DEF AnalyseRepo, Clone, Cloned, Breaks, TimeOut, Read
    <3>6. CASE Tick
      BY <3>6 DEF Tick
    <3> QED
      BY <3>1, <3>2, <3>3, <3>4, <3>5, <3>6 DEF Next, Intake
  <2>3. asked[i] # None /\ stored # None /\ stored.refs_fingerprint = asked[i]
    BY <2>2 DEF Reuse, Reusable
  <2> QED
    BY <2>3 DEF PipelineInvariant, DossierIsHonest
<1>2. Spec => [][Next]_vars
  BY DEF Spec
<1> QED
  BY <1>1, <1>2, PipelineIsSound, PTL DEF ReusedIsNoOlder

=============================================================================
