---------------------------- MODULE GitHubClient ----------------------------
(***************************************************************************)
(* The REST requests of an analysis (github/client.py, github/cache.py,    *)
(* github/ingest.py and the cut of relevance.py): the profile, the pages of *)
(* the listing, and what GitHub attributes to the account in each selected *)
(* repository. Several clients, one of each analysis, share the cache of   *)
(* conditional requests on disk and the hourly quota of the token, while   *)
(* the account goes on changing. The client with which an intake takes its *)
(* fingerprint (pipeline.py:246) asks for the pages alone, and is here an  *)
(* analysis that fails after them.                                         *)
(*                                                                         *)
(* GitHub is outside the program. It answers a conditional request 304 when *)
(* the representation has not changed, free of charge and with the link to *)
(* the next page; the entity tag of a representation is the representation *)
(* itself here. Time is the end of the hour, after which every wait for it *)
(* is over.                                                                *)
(***************************************************************************)
EXTENDS Integers, FiniteSets, SequencesExt

CONSTANTS
    MaxClients,             \* bound on the analyses
    None,                   \* not cached, not answered, not known
    MaxRepositories,        \* bound on the account, listed by name
    PageSize,               \* per_page
    Quota,                  \* requests an hour
    rate_limit_floor,
    max_retry_attempts,
    relevance_threshold,
    relevance_limit,
    MaxEvents               \* bound on the changes, and on the refused and lost answers

\* Numbered in the order in which they begin.
Clients == 1 .. MaxClients

Names == 1 .. MaxRepositories

ASSUME ClientAssumption ==
    /\ {MaxClients, PageSize, max_retry_attempts} \subseteq Nat \ {0}
    /\ {MaxRepositories, relevance_threshold, relevance_limit, MaxEvents} \subseteq Nat
    /\ {rate_limit_floor, Quota} \subseteq Nat /\ Quota > rate_limit_floor

\* A client that sees the floor waits, but each answer that is lost on its way may
\* have been charged unseen, and a client goes on after as many as it looks up
\* repositories. That much of the floor each of the clients of one hour may spend,
\* and the last of them the request above it.
ASSUME FloorAssumption ==
    \A n \in {1, relevance_threshold, relevance_limit} : MaxClients * n <= rate_limit_floor + 1

VARIABLES
    account,        \* account[n]: "absent", "live" or "archived"
    quota,          \* what is left of the hour at GitHub
    cache,          \* cache[a]: the representation stored for address a
    at,             \* at[c]: the address client c asks for, or how it ended
    cached,         \* cached[c]: what it read from the cache for it
    attempt,        \* attempt[c]: the attempts made for it
    answer,         \* answer[c]: the response that has not been read yet
    remaining,      \* remaining[c]: the quota as client c last saw it
    passed,         \* passed[c]: the hour it saw it in is over
    items,          \* items[c]: the listing so far
    lookups,        \* lookups[c]: the selected repositories still to look up
    pending,        \* pending[c]: _pending_next, the page that follows
    quiet,          \* quiet[c]: the account is as it was at its first page
    events

client == <<at, cached, attempt, answer, pending, items, lookups>>
vars == <<account, quota, cache, at, cached, attempt, answer, remaining, passed,
          pending, items, lookups, quiet, events>>

Profile == <<"profile">>
Page(k) == <<"page", k>>
Commits(n) == <<"commits", n>>

Addresses ==
    {Profile} \cup {Page(k) : k \in 1 .. MaxRepositories + 1} \cup {Commits(n) : n \in Names}

\* How a request ends.
Statuses == {"200", "304", "throttled", "exhausted", "error", "lost"}

\* What is not known is no number of requests, no page is no page's address, and
\* what has not been answered is no answer.
ASSUME NoneAssumption ==
    /\ None \notin Nat /\ None \notin Addresses
    /\ None \notin [status : Statuses, next : Addresses \cup {None},
                    page : Seq(Names \X {"absent", "live", "archived"})]

New == <<"new">>
Done == <<"done">>
Failed == <<"failed">>

Init ==
    /\ account \in [Names -> {"absent", "live"}]
    /\ quota = Quota
    /\ cache = [a \in Addresses |-> None]
    /\ at = [c \in Clients |-> New]
    /\ cached = [c \in Clients |-> None]
    /\ attempt = [c \in Clients |-> 0]
    /\ answer = [c \in Clients |-> None]
    /\ remaining = [c \in Clients |-> None]
    /\ passed = [c \in Clients |-> FALSE]
    /\ items = [c \in Clients |-> <<>>]
    /\ lookups = [c \in Clients |-> <<>>]
    /\ pending = [c \in Clients |-> None]
    /\ quiet = [c \in Clients |-> FALSE]
    /\ events = 0

-----------------------------------------------------------------------------
(* GitHub.                                                                 *)

\* A repository is made, archived or deleted.
Change(n) ==
    /\ events < MaxEvents
    /\ events' = events + 1
    /\ \E state \in {"absent", "live", "archived"} \ {account[n]} :
           account' = [account EXCEPT ![n] = state]
    /\ quiet' = [c \in Clients |-> FALSE]
    /\ UNCHANGED <<quota, cache, client, remaining, passed>>

NewHour ==
    /\ quota' = Quota
    /\ passed' = [c \in Clients |-> remaining[c] # None]
    /\ UNCHANGED <<account, cache, client, remaining, quiet, events>>

\* By name.
Listed ==
    LET there == {n \in Names : account[n] # "absent"}
    IN  CHOOSE names \in [1 .. Cardinality(there) -> there] :
            \A i, k \in DOMAIN names : i < k => names[i] < names[k]

Min2(a, b) == IF a < b THEN a ELSE b

\* Entries carry the flag the client filters by.
Representation(a) ==
    IF a[1] = "page"
    THEN LET listed == Listed
             page == SubSeq(listed, (a[2] - 1) * PageSize + 1, Min2(a[2] * PageSize, Len(listed)))
         IN  [k \in 1 .. Len(page) |-> <<page[k], account[page[k]]>>]
    ELSE <<>>

NextLink(a) ==
    IF a[1] = "page" /\ Len(Listed) > a[2] * PageSize THEN Page(a[2] + 1) ELSE None

-----------------------------------------------------------------------------
(* get_json.                                                               *)

\* Until nothing at all is left.
MutMayAsk(c) == remaining[c] = 0 => passed[c]

\* What was seen in an hour that is over still holds.
MutWaits(c) == remaining[c] # None => remaining[c] > rate_limit_floor

\* _wait_if_quota_low: nothing known, more than the floor, or the hour over.
MayAsk(c) == remaining[c] # None /\ remaining[c] <= rate_limit_floor => passed[c]

Waiting(c) == at[c] \in Addresses /\ answer[c] = None

Answer(status, c) ==
    [status |-> status, next |-> NextLink(at[c]), page |-> Representation(at[c])]

\* A request that counts.
Charged == IF quota = 0 THEN 0 ELSE quota - 1

\* The request, as GitHub answers it. The representation is in an answer of 200.
Request(c) ==
    /\ Waiting(c) /\ MayAsk(c)
    /\ LET current == cached[c] # None /\ cached[c] = Representation(at[c])
           status == IF quota = 0 THEN "exhausted" ELSE IF current THEN "304" ELSE "200"
           left == IF status = "200" THEN Charged ELSE quota
       IN  /\ answer' = [answer EXCEPT ![c] = Answer(status, c)]
           /\ quota' = left
           /\ remaining' = [remaining EXCEPT ![c] = left]
    /\ passed' = [passed EXCEPT ![c] = FALSE]
    /\ quiet' = [quiet EXCEPT ![c] = @ \/ at[c] = Page(1)]
    /\ UNCHANGED <<account, cache, at, cached, attempt, pending, items, lookups, events>>

\* A 403 or 429 with Retry-After, or any other status that raises. GitHub may
\* charge it, and says what is left.
Refusal(c) ==
    /\ Waiting(c) /\ MayAsk(c)
    /\ events < MaxEvents
    /\ events' = events + 1
    /\ \E status \in {"throttled", "error"}, left \in {quota, Charged} :
           /\ answer' = [answer EXCEPT ![c] = Answer(status, c)]
           /\ quota' = left
           /\ remaining' = [remaining EXCEPT ![c] = left]
    /\ passed' = [passed EXCEPT ![c] = FALSE]
    /\ UNCHANGED <<account, cache, at, cached, attempt, pending, items, lookups, quiet>>

\* The connection breaks or times out, or something on the way answers with an
\* error for GitHub: the request may have been charged, and the client does not
\* learn what is left.
Lose(c) ==
    /\ Waiting(c) /\ MayAsk(c)
    /\ events < MaxEvents
    /\ events' = events + 1
    /\ answer' = [answer EXCEPT ![c] = Answer("lost", c)]
    /\ quota' \in {quota, Charged}
    /\ UNCHANGED <<account, cache, at, cached, attempt, remaining, passed, pending,
                   items, lookups, quiet>>

\* Another client is about to have stored, or is storing, an answer for a.
BeingWritten(c, a) ==
    \E d \in Clients \ {c} : at[d] = a /\ answer[d] # None /\ answer[d].status = "200"

\* ResponseCache.get: a file that is being written may read as nothing cached.
Look(c, a, stored) ==
    /\ at' = [at EXCEPT ![c] = a]
    /\ attempt' = [attempt EXCEPT ![c] = 0]
    /\ \E found \in IF a \notin Addresses THEN {None}
                    ELSE IF BeingWritten(c, a) THEN {stored[a], None}
                    ELSE {stored[a]} :
           cached' = [cached EXCEPT ![c] = found]

\* list_repositories, the end of it.
Unarchived(found) ==
    LET kept[k \in 0 .. Len(found)] ==
            IF k = 0 THEN <<>>
            ELSE IF found[k][2] = "archived" THEN kept[k - 1]
            ELSE Append(kept[k - 1], found[k])
    IN  kept[Len(found)]

\* select_repositories: all of a small account, or the first of the sorted ones.
Selected(found) ==
    IF Len(found) <= relevance_threshold
    THEN found
    ELSE SubSeq(found, 1, Min2(relevance_limit, Len(found)))

\* The next repository attributed_identities looks up.
LookUp(c, left, stored) ==
    IF left = <<>>
    THEN Look(c, Done, stored) /\ lookups' = [lookups EXCEPT ![c] = <<>>]
    ELSE Look(c, Commits(left[1][1]), stored) /\ lookups' = [lookups EXCEPT ![c] = Tail(left)]

\* What was found is returned to the caller, who asks for the next thing.
Return(c, payload, next, stored) ==
    /\ pending' = [pending EXCEPT ![c] = next]
    /\ LET found == items[c] \o payload
           repos == Unarchived(found)
       IN  CASE at[c] = Profile ->
                   Look(c, Page(1), stored) /\ UNCHANGED <<items, lookups>>
             [] at[c][1] = "page" /\ next # None ->
                   /\ Look(c, next, stored)
                   /\ items' = [items EXCEPT ![c] = found]
                   /\ UNCHANGED lookups
             [] at[c][1] = "page" /\ next = None ->
                   /\ items' = [items EXCEPT ![c] = repos]
                   /\ LookUp(c, Selected(repos), stored)
             [] at[c][1] = "commits" ->
                   LookUp(c, lookups[c], stored) /\ UNCHANGED items

\* attributed_identities goes on without what it could not learn; anything else
\* fails the analysis.
Raise(c) ==
    /\ IF at[c][1] = "commits"
       THEN LookUp(c, lookups[c], cache)
       ELSE Look(c, Failed, cache) /\ UNCHANGED lookups
    /\ UNCHANGED <<items, pending, cache>>

\* Only a full answer says where the next page is.
MutNextOf(c) == IF answer[c].status = "304" THEN pending[c] ELSE answer[c].next

NextOf(c) == answer[c].next

\* Retry-After is waited for, unless the attempts are used up.
Throttled(c) ==
    \/ /\ attempt[c] + 1 < max_retry_attempts
       /\ attempt' = [attempt EXCEPT ![c] = @ + 1]
       /\ UNCHANGED <<at, cached, pending, items, lookups, cache>>
    \/ /\ attempt[c] + 1 = max_retry_attempts
       /\ Raise(c)

Receive(c) ==
    /\ answer[c] # None
    /\ answer' = [answer EXCEPT ![c] = None]
    /\ CASE answer[c].status = "200" ->
                /\ cache' = [cache EXCEPT ![at[c]] = answer[c].page]
                /\ Return(c, answer[c].page, NextOf(c), cache')
         [] answer[c].status = "304" -> \* what was cached when it was asked
                Return(c, cached[c], NextOf(c), cache) /\ UNCHANGED cache
         [] answer[c].status = "throttled" -> Throttled(c)
         [] answer[c].status \in {"exhausted", "error", "lost"} -> Raise(c)
    /\ UNCHANGED <<account, quota, remaining, passed, quiet, events>>

\* A client is entered, and fetch_identity asks for the profile.
Begin(c) ==
    /\ at[c] = New /\ \A d \in 1 .. (c - 1) : at[d] # New
    /\ Look(c, Profile, cache)
    /\ UNCHANGED <<account, quota, cache, answer, remaining, passed, pending,
                   items, lookups, quiet, events>>

Step(c) == Request(c) \/ Receive(c)

Next ==
    \/ \E c \in Clients : Begin(c) \/ Step(c) \/ Refusal(c) \/ Lose(c)
    \/ \E n \in Names : Change(n)
    \/ NewHour

\* A request is made when it may be and is answered or lost (httpx gives up after
\* thirty seconds), and hours pass.
Fairness == WF_vars(NewHour) /\ \A c \in Clients : WF_vars(Step(c))

Spec == Init /\ [][Next]_vars /\ Fairness

-----------------------------------------------------------------------------
(* Properties.                                                             *)

Over(c) == at[c] \in {Done, Failed}

\* The listing is the account: if it does not change while it is listed, every
\* repository that is not archived is listed once, in the order of GitHub,
\* whichever of its pages come from the cache, whoever stored them there, and
\* however the account changed between the times they were stored.
ListingIsAccount ==
    [][\A c \in Clients :
           /\ at[c][1] = "page" /\ quiet[c]
           /\ at'[c] = Done \/ at'[c][1] = "commits"
           => /\ Range(items'[c]) = {<<n, "live">> : n \in {m \in Names : account[m] = "live"}}
              /\ \A i, k \in DOMAIN items'[c] :
                     i < k => items'[c][i][1] < items'[c][k][1]]_vars

\* The floor keeps the clients away from the primary limit: others ask between what
\* a client has seen and what it does, and answers it was charged for are lost, and
\* still no request is refused for want of quota.
QuotaIsNeverSpent ==
    \A c \in Clients : answer[c] # None => answer[c].status # "exhausted"

\* Every client ends, whatever is answered: no wait, retry or chain of pages
\* goes on for ever.
EveryClientEnds == \A c \in Clients : at[c] = Profile ~> Over(c)
=============================================================================
