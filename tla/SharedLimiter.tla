---------------------------- MODULE SharedLimiter ----------------------------
(***************************************************************************)
(* The budget every server process shares (api/limits.py,                  *)
(* SharedWindowLimiter): requests of one client are counted in one         *)
(* database row per window of the clock.                                   *)
(*                                                                         *)
(* A check is two steps. It reads the clock; then _bump deletes the rows   *)
(* of windows already past, counts the request and commits. The deletion   *)
(* is the first statement, so it takes SQLite's write lock and the rest of *)
(* _bump is alone; but a check that waited for that lock still counts in   *)
(* the window it read before. The endpoints that check are coroutines that *)
(* do not await, so a process has one check under way at a time.           *)
(*                                                                         *)
(* Time is abstracted to the number of the window. A limit of zero turns   *)
(* the limiter off, and is left out.                                       *)
(***************************************************************************)
EXTENDS Naturals, FiniteSets

CONSTANTS
    Workers,        \* the processes
    Clients,        \* client_key: who a request is billed to
    None,           \* no check under way
    Limit,          \* the budget of one window
    MaxWindow,      \* bound on the clock
    MaxCount        \* bound on the requests of one client in one window

ASSUME LimiterAssumption ==
    /\ IsFiniteSet(Workers) /\ Workers # {}
    /\ Limit \in Nat \ {0}
    /\ MaxWindow \in Nat
    /\ MaxCount \in Nat
    /\ None \notin [client : Clients, window : Nat]

Windows == 0 .. MaxWindow

VARIABLES
    clock,          \* the window the clock is in
    count,          \* rate_windows: count[c][k], 0 when there is no row
    checking,       \* checking[w]: the client and the window of w's check
    admitted        \* admitted[c][k]: checks of c passed in window k so far

vars == <<clock, count, checking, admitted>>

\* The requests of c that read the clock in window k and are not counted yet.
InFlight(c, k) == {w \in Workers : checking[w] = [client |-> c, window |-> k]}

-----------------------------------------------------------------------------

Init ==
    /\ clock = 0
    /\ count = [c \in Clients |-> [k \in Windows |-> 0]]
    /\ checking = [w \in Workers |-> None]
    /\ admitted = [c \in Clients |-> [k \in Windows |-> 0]]

Tick ==
    /\ clock < MaxWindow
    /\ clock' = clock + 1
    /\ UNCHANGED <<count, checking, admitted>>

\* A request arrives and check reads the clock.
Arrive(w, c) ==
    /\ checking[w] = None
    /\ count[c][clock] + Cardinality(InFlight(c, clock)) < MaxCount
    /\ checking' = [checking EXCEPT ![w] = [client |-> c, window |-> clock]]
    /\ UNCHANGED <<clock, count, admitted>>

\* A cleanup that takes the window being counted with it.
MutPruned(k) == [c \in Clients |-> [n \in Windows |-> IF n <= k THEN 0 ELSE count[c][n]]]

\* What the deletion leaves: the rows of window k and later.
Pruned(k) == [c \in Clients |-> [n \in Windows |-> IF n < k THEN 0 ELSE count[c][n]]]

\* A check that refuses the request that uses the budget up.
MutWithinBudget(n) == n < Limit

WithinBudget(n) == n <= Limit

\* _bump and the verdict.
Bump(w) ==
    /\ checking[w] # None
    /\ LET c == checking[w].client
           k == checking[w].window
           n == Pruned(k)[c][k] + 1
       IN  /\ count' = [Pruned(k) EXCEPT ![c][k] = n]
           /\ admitted' = IF WithinBudget(n)
                          THEN [admitted EXCEPT ![c][k] = @ + 1]
                          ELSE admitted
    /\ checking' = [checking EXCEPT ![w] = None]
    /\ UNCHANGED clock

\* The database stays locked for longer than a connection waits: the request
\* fails, and is not counted.
Fail(w) ==
    /\ checking[w] # None
    /\ checking' = [checking EXCEPT ![w] = None]
    /\ UNCHANGED <<clock, count, admitted>>

Next ==
    \/ Tick
    \/ \E w \in Workers, c \in Clients : Arrive(w, c)
    \/ \E w \in Workers : Bump(w) \/ Fail(w)

Spec == Init /\ [][Next]_vars

-----------------------------------------------------------------------------
(* Properties.                                                             *)

\* Every count is a count, and every check names a client and a past or
\* present window.
TypeOK ==
    /\ clock \in Windows
    /\ count \in [Clients -> [Windows -> Nat]]
    /\ admitted \in [Clients -> [Windows -> Nat]]
    /\ checking \in [Workers -> [client : Clients, window : 0 .. clock] \cup {None}]

\* How far the budget can be overrun. While a window is open it holds; over
\* all, every process but the one that opened the next window may pass one
\* request more: the one whose check was held up across the boundary and found
\* its row gone.
OverrunIsBounded ==
    \A c \in Clients, k \in Windows :
        admitted[c][k] <= IF k = clock
                          THEN Limit
                          ELSE Limit + Cardinality(Workers) - 1

\* Nobody is refused inside the budget: a request is turned away only when that
\* client already used its window up, whatever other clients did meanwhile.
RefusedOnlyOverBudget ==
    [][\A w \in Workers :
           Bump(w) /\ UNCHANGED admitted =>
               admitted[checking[w].client][checking[w].window] >= Limit]_vars

=============================================================================
