------------------------ MODULE SharedLimiter_proofs ------------------------
(***************************************************************************)
(* How far the shared budget can be overrun, for any number of processes   *)
(* and clients, any limit and any number of windows.                       *)
(*                                                                         *)
(* OverrunIsBounded is not inductive: it forgets the checks that are still *)
(* held up. While nobody deleted a window's row the count bounds what was  *)
(* admitted (Counted). Whoever deletes it is not held up in it, so at most *)
(* the other processes are, and each check they end spends one of them     *)
(* (Reopened). Full says that nothing is counted without being admitted    *)
(* before the limit is.                                                    *)
(***************************************************************************)
EXTENDS SharedLimiter, FiniteSetTheorems, TLAPS

Counted(c, k) == admitted[c][k] <= count[c][k] /\ admitted[c][k] <= Limit

Reopened(c, k) ==
    admitted[c][k] + Cardinality(InFlight(c, k)) <= Limit + Cardinality(Workers) - 1

Full(c, k) == count[c][k] <= admitted[c][k] \/ Limit <= admitted[c][k]

BudgetInvariant ==
    /\ TypeOK
    /\ \A c \in Clients, k \in Windows :
           /\ Counted(c, k) \/ (k < clock /\ Reopened(c, k))
           /\ Full(c, k)

-----------------------------------------------------------------------------

\* The checks of one client in one window are some of the processes.
LEMMA InFlightIsFinite ==
    ASSUME NEW c, NEW k
    PROVE  /\ IsFiniteSet(InFlight(c, k))
           /\ Cardinality(InFlight(c, k)) \in Nat
           /\ Cardinality(InFlight(c, k)) <= Cardinality(Workers)
           /\ Cardinality(Workers) \in Nat
<1>1. InFlight(c, k) \in SUBSET Workers
  BY DEF InFlight
<1>2. IsFiniteSet(Workers)
  BY LimiterAssumption
<1> QED
  BY <1>1, <1>2, FS_Subset, FS_CardinalityType

\* A process whose check is of another client or window, or that has none, is
\* not among them.
LEMMA OneIsElsewhere ==
    ASSUME NEW c, NEW k, NEW w \in Workers, w \notin InFlight(c, k)
    PROVE  Cardinality(InFlight(c, k)) <= Cardinality(Workers) - 1
<1>1. InFlight(c, k) \in SUBSET (Workers \ {w})
  BY DEF InFlight
<1>2. IsFiniteSet(Workers)
  BY LimiterAssumption
<1>3. /\ IsFiniteSet(Workers \ {w})
      /\ Cardinality(Workers \ {w}) = Cardinality(Workers) - 1
  BY <1>2, FS_RemoveElement
<1> QED
  BY <1>1, <1>3, FS_Subset

\* What is counted is a number.
LEMMA Numbers ==
    ASSUME TypeOK, NEW c \in Clients, NEW k \in Windows
    PROVE  /\ count[c][k] \in Nat
           /\ admitted[c][k] \in Nat
           /\ clock \in Nat
           /\ k \in Nat
           /\ Limit \in Nat
           /\ Cardinality(InFlight(c, k)) \in Nat
           /\ Cardinality(Workers) \in Nat
<1>1. count \in [Clients -> [Windows -> Nat]] /\ admitted \in [Clients -> [Windows -> Nat]]
  BY DEF TypeOK
<1>2. clock \in Nat /\ k \in Nat
  BY LimiterAssumption DEF TypeOK, Windows
<1>3. Limit \in Nat
  BY LimiterAssumption
<1> QED
  BY <1>1, <1>2, <1>3, InFlightIsFinite

\* A check that ends leaves the others where they were.
LEMMA CheckEnds ==
    ASSUME TypeOK, NEW w \in Workers, checking[w] # None,
           checking' = [checking EXCEPT ![w] = None],
           NEW c \in Clients, NEW k \in Windows
    PROVE  /\ InFlight(c, k)' = InFlight(c, k) \ {w}
           /\ Cardinality(InFlight(c, k)') =
                  IF checking[w] = [client |-> c, window |-> k]
                  THEN Cardinality(InFlight(c, k)) - 1
                  ELSE Cardinality(InFlight(c, k))
<1>1. None # [client |-> c, window |-> k]
  BY LimiterAssumption DEF Windows
<1>2. InFlight(c, k)' = InFlight(c, k) \ {w}
  BY <1>1 DEF InFlight, TypeOK
<1>3. w \in InFlight(c, k) <=> checking[w] = [client |-> c, window |-> k]
  BY DEF InFlight
<1> QED
  BY <1>2, <1>3, InFlightIsFinite, FS_RemoveElement

\* What Bump leaves in the two tables, point by point.
LEMMA BumpEffect ==
    ASSUME TypeOK, NEW w \in Workers, Bump(w),
           NEW d \in Clients, NEW j \in Windows, checking[w] = [client |-> d, window |-> j],
           NEW c \in Clients, NEW k \in Windows
    PROVE  /\ count'[c][k] = IF c = d /\ k = j THEN count[c][k] + 1
                             ELSE IF k < j THEN 0 ELSE count[c][k]
           /\ admitted'[c][k] = IF c = d /\ k = j /\ count[c][k] + 1 <= Limit
                                THEN admitted[c][k] + 1 ELSE admitted[c][k]
<1>1. /\ checking[w].client = d
      /\ checking[w].window = j
  OBVIOUS
<1>2. Pruned(j) = [x \in Clients |-> [n \in Windows |-> IF n < j THEN 0 ELSE count[x][n]]]
  BY DEF Pruned
<1>3. ~(j < j)
  BY DEF Windows
<1>4. Pruned(j)[d][j] = count[d][j]
  BY <1>2, <1>3
<1>5. /\ count' = [Pruned(j) EXCEPT ![d][j] = count[d][j] + 1]
      /\ admitted' = IF count[d][j] + 1 <= Limit
                     THEN [admitted EXCEPT ![d][j] = @ + 1] ELSE admitted
  BY <1>1, <1>4 DEF Bump, WithinBudget
<1>6. count'[c][k] = IF c = d /\ k = j THEN count[c][k] + 1
                     ELSE IF k < j THEN 0 ELSE count[c][k]
  BY <1>2, <1>5
<1>7. admitted'[c][k] = IF c = d /\ k = j /\ count[c][k] + 1 <= Limit
                        THEN admitted[c][k] + 1 ELSE admitted[c][k]
  BY <1>5 DEF TypeOK
<1> QED
  BY <1>6, <1>7

-----------------------------------------------------------------------------

\* Every step leaves counts, and checks of past or present windows.
LEMMA TypeStep ==
    ASSUME TypeOK, [Next]_vars
    PROVE  TypeOK'
<1> USE LimiterAssumption
<1>1. CASE Tick
  BY <1>1 DEF Tick, TypeOK, Windows
<1>2. ASSUME NEW w \in Workers, NEW c \in Clients, Arrive(w, c)
      PROVE  TypeOK'
  <2>1. clock \in 0 .. clock
    BY DEF TypeOK, Windows
  <2>2. [client |-> c, window |-> clock] \in [client : Clients, window : 0 .. clock]
    BY <2>1
  <2>3. checking' \in [Workers -> [client : Clients, window : 0 .. clock] \cup {None}]
    BY <1>2, <2>2 DEF Arrive, TypeOK
  <2> QED
    BY <1>2, <2>3 DEF Arrive, TypeOK
<1>3. ASSUME NEW w \in Workers, Bump(w)
      PROVE  TypeOK'
  <2>1. PICK d \in Clients, j \in 0 .. clock : checking[w] = [client |-> d, window |-> j]
    BY <1>3 DEF Bump, TypeOK
  <2>2. j \in Windows
    BY DEF TypeOK, Windows
  <2>3. count' \in [Clients -> [Windows -> Nat]]
    <3>1. Pruned(j) \in [Clients -> [Windows -> Nat]]
      BY DEF Pruned, TypeOK
    <3>2. count' = [Pruned(j) EXCEPT ![d][j] = Pruned(j)[d][j] + 1]
      BY <1>3, <2>1 DEF Bump
    <3> QED
      BY <2>2, <3>1, <3>2
  <2>4. admitted' \in [Clients -> [Windows -> Nat]]
    BY <1>3, <2>1, <2>2 DEF Bump, TypeOK
  <2> QED
    BY <1>3, <2>3, <2>4 DEF Bump, TypeOK
<1>4. ASSUME NEW w \in Workers, Fail(w)
      PROVE  TypeOK'
  BY <1>4 DEF Fail, TypeOK
<1>5. CASE UNCHANGED vars
  BY <1>5 DEF vars, TypeOK
<1> QED
  BY <1>1, <1>2, <1>3, <1>4, <1>5 DEF Next

\* The budget of client c in window k survives every step.
LEMMA BudgetStep ==
    ASSUME BudgetInvariant, [Next]_vars, NEW c \in Clients, NEW k \in Windows
    PROVE  /\ (Counted(c, k) \/ (k < clock /\ Reopened(c, k)))'
           /\ Full(c, k)'
<1> DEFINE n == Cardinality(InFlight(c, k))
<1>1. /\ TypeOK
      /\ Counted(c, k) \/ (k < clock /\ Reopened(c, k))
      /\ Full(c, k)
  BY DEF BudgetInvariant
<1>2. /\ count[c][k] \in Nat
      /\ admitted[c][k] \in Nat
      /\ clock \in Nat /\ k \in Nat
      /\ Limit \in Nat
      /\ n \in Nat
      /\ Cardinality(Workers) \in Nat
  BY <1>1, Numbers
<1>3. CASE Tick
  <2>1. InFlight(c, k)' = InFlight(c, k)
    BY <1>3 DEF Tick, InFlight
  <2> QED
    BY <1>1, <1>2, <1>3, <2>1 DEF Tick, Counted, Reopened, Full
<1>4. ASSUME NEW w \in Workers, NEW d \in Clients, Arrive(w, d)
      PROVE  /\ (Counted(c, k) \/ (k < clock /\ Reopened(c, k)))'
             /\ Full(c, k)'
  <2>1. CASE k < clock
    <3>1. [client |-> d, window |-> clock] # [client |-> c, window |-> k]
      <4>1. clock # k
        BY <2>1, <1>2
      <4>2. [client |-> d, window |-> clock].window # [client |-> c, window |-> k].window
        BY <4>1
      <4> QED
        BY <4>2
    <3>2. None # [client |-> c, window |-> k]
      BY <1>2, LimiterAssumption
    <3>3. InFlight(c, k)' = InFlight(c, k)
      BY <1>1, <1>4, <3>1, <3>2 DEF Arrive, InFlight, TypeOK
    <3> QED
      BY <1>1, <1>2, <1>4, <3>3 DEF Arrive, Counted, Reopened, Full
  <2>2. CASE ~(k < clock)
    BY <1>1, <1>4, <2>2 DEF Arrive, Counted, Full
  <2> QED
    BY <2>1, <2>2
<1>5. ASSUME NEW w \in Workers, Bump(w)
      PROVE  /\ (Counted(c, k) \/ (k < clock /\ Reopened(c, k)))'
             /\ Full(c, k)'
  <2>1. PICK d \in Clients, j \in 0 .. clock : checking[w] = [client |-> d, window |-> j]
    BY <1>1, <1>5 DEF Bump, TypeOK
  <2>2. /\ j \in Windows
        /\ j \in Nat /\ j <= clock
    BY <1>1, LimiterAssumption DEF TypeOK, Windows
  <2>3. /\ count'[c][k] = IF c = d /\ k = j THEN count[c][k] + 1
                          ELSE IF k < j THEN 0 ELSE count[c][k]
        /\ admitted'[c][k] = IF c = d /\ k = j /\ count[c][k] + 1 <= Limit
                             THEN admitted[c][k] + 1 ELSE admitted[c][k]
    BY <1>1, <1>5, <2>1, <2>2, BumpEffect
  <2>4. /\ checking' = [checking EXCEPT ![w] = None]
        /\ checking[w] # None
        /\ clock' = clock
    BY <1>5 DEF Bump
  <2>5. checking[w] = [client |-> c, window |-> k] <=> c = d /\ k = j
    <3>1. checking[w].client = d /\ checking[w].window = j
      BY <2>1
    <3> QED
      BY <2>1, <3>1
  <2>6. Cardinality(InFlight(c, k)') = IF c = d /\ k = j THEN n - 1 ELSE n
    BY <1>1, <2>4, <2>5, CheckEnds
  <2>7. ~(c = d /\ k = j) => n <= Cardinality(Workers) - 1
    BY <2>5, OneIsElsewhere DEF InFlight
  <2>8. Full(c, k)'
    BY <1>1, <1>2, <2>3 DEF Full
  <2>9. CASE c = d /\ k = j
    BY <1>1, <1>2, <2>3, <2>4, <2>6, <2>8, <2>9 DEF Counted, Reopened
  <2>10. CASE ~(c = d /\ k = j) /\ k < j
    BY <1>1, <1>2, <2>2, <2>3, <2>4, <2>6, <2>7, <2>8, <2>10 DEF Counted, Reopened
  <2>11. CASE ~(c = d /\ k = j) /\ ~(k < j)
    BY <1>1, <1>2, <2>3, <2>4, <2>6, <2>8, <2>11 DEF Counted, Reopened
  <2> QED
    BY <2>9, <2>10, <2>11
<1>6. ASSUME NEW w \in Workers, Fail(w)
      PROVE  /\ (Counted(c, k) \/ (k < clock /\ Reopened(c, k)))'
             /\ Full(c, k)'
  <2>1. Cardinality(InFlight(c, k)') <= n
    <3>1. \/ Cardinality(InFlight(c, k)') = n - 1
          \/ Cardinality(InFlight(c, k)') = n
      BY <1>1, <1>6, CheckEnds DEF Fail
    <3> QED
      BY <1>2, <3>1
  <2>2. Cardinality(InFlight(c, k)') \in Nat
    <3>1. InFlight(c, k)' = InFlight(c, k) \ {w}
      BY <1>1, <1>6, CheckEnds DEF Fail
    <3> QED
      BY <3>1, InFlightIsFinite, FS_RemoveElement, FS_CardinalityType
  <2> QED
    BY <1>1, <1>2, <1>6, <2>1, <2>2 DEF Fail, Counted, Reopened, Full
<1>7. CASE UNCHANGED vars
  <2>1. InFlight(c, k)' = InFlight(c, k)
    BY <1>7 DEF vars, InFlight
  <2> QED
    BY <1>1, <1>7, <2>1 DEF vars, Counted, Reopened, Full
<1> QED
  BY <1>3, <1>4, <1>5, <1>6, <1>7 DEF Next

\* The invariant holds of every state.
LEMMA BudgetAlways == Spec => []BudgetInvariant
<1>1. Init => BudgetInvariant
  BY LimiterAssumption DEF Init, BudgetInvariant, TypeOK, Counted, Full, Windows
<1>2. BudgetInvariant /\ [Next]_vars => BudgetInvariant'
  <2> SUFFICES ASSUME BudgetInvariant, [Next]_vars
               PROVE  BudgetInvariant'
    OBVIOUS
  <2>1. TypeOK'
    BY TypeStep DEF BudgetInvariant
  <2>2. ASSUME NEW c \in Clients, NEW k \in Windows
        PROVE  /\ (Counted(c, k) \/ (k < clock /\ Reopened(c, k)))'
               /\ Full(c, k)'
    BY BudgetStep
  <2> QED
    BY <2>1, <2>2 DEF BudgetInvariant
<1> QED
  BY <1>1, <1>2, PTL DEF Spec

\* A window that is open never admits more than its budget; a past one never
\* more than the budget and one request for every process but one.
THEOREM OverrunAlwaysBounded == Spec => []OverrunIsBounded
<1>1. BudgetInvariant => OverrunIsBounded
  <2> SUFFICES ASSUME BudgetInvariant, NEW c \in Clients, NEW k \in Windows
               PROVE  admitted[c][k] <= IF k = clock THEN Limit
                                        ELSE Limit + Cardinality(Workers) - 1
    BY DEF OverrunIsBounded
  <2>1. /\ admitted[c][k] \in Nat
        /\ clock \in Nat /\ k \in Nat
        /\ Limit \in Nat
        /\ Cardinality(InFlight(c, k)) \in Nat
        /\ Cardinality(Workers) \in Nat
    BY Numbers DEF BudgetInvariant
  <2>2. Cardinality(Workers) >= 1
    BY <2>1, LimiterAssumption, FS_EmptySet
  <2> QED
    BY <2>1, <2>2 DEF BudgetInvariant, Counted, Reopened
<1> QED
  BY <1>1, BudgetAlways, PTL

\* Nobody is refused inside the budget, however many share the processes.
THEOREM RefusalAlwaysEarned == Spec => RefusedOnlyOverBudget
<1>1. BudgetInvariant /\ [Next]_vars =>
          [\A w \in Workers : Bump(w) /\ UNCHANGED admitted =>
               admitted[checking[w].client][checking[w].window] >= Limit]_vars
  <2> SUFFICES ASSUME BudgetInvariant, NEW w \in Workers, Bump(w), UNCHANGED admitted
               PROVE  admitted[checking[w].client][checking[w].window] >= Limit
    OBVIOUS
  <2>1. TypeOK
    BY DEF BudgetInvariant
  <2>2. PICK d \in Clients, j \in 0 .. clock : checking[w] = [client |-> d, window |-> j]
    BY <2>1 DEF Bump, TypeOK
  <2>3. /\ j \in Windows
        /\ count[d][j] \in Nat /\ admitted[d][j] \in Nat /\ Limit \in Nat
    BY <2>1, LimiterAssumption DEF TypeOK, Windows
  <2>4. admitted'[d][j] = IF count[d][j] + 1 <= Limit THEN admitted[d][j] + 1
                          ELSE admitted[d][j]
    BY <2>1, <2>2, <2>3, BumpEffect
  <2>5. count[d][j] + 1 > Limit
    BY <2>3, <2>4
  <2>6. admitted[d][j] >= Limit
    BY <2>3, <2>5 DEF BudgetInvariant, Full
  <2> QED
    BY <2>2, <2>6
<1> QED
  BY <1>1, BudgetAlways, PTL DEF RefusedOnlyOverBudget, Spec

=============================================================================
