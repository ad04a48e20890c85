------------------------- MODULE GitHubClient_proofs -------------------------
(***************************************************************************)
(* The listing of an account that stays as it is is that account; and the  *)
(* floor keeps the clients of a token away from its primary limit, for any *)
(* account and any number of changes, throttles and lost answers.          *)
(*                                                                         *)
(* A client that follows the pages of an account that stays as it is holds *)
(* what comes before the page it asks for, no more and no less, and what   *)
(* it reads next is that page: an answer of 200 carries it, and one of 304 *)
(* was given because what was cached is it (Follows).                      *)
(*                                                                         *)
(* What a client knows of the quota is out of date by any number of        *)
(* requests: others go on asking meanwhile. What bounds them is that a     *)
(* client asks no more once it has seen the floor, that it sees it with    *)
(* the first answer that reaches it, and that a lost one ends it or costs  *)
(* it one of the repositories it looks up. So there is a number of         *)
(* requests each may still spend below the floor (Ahead), at most as many  *)
(* as it may look up repositories (Most), and every request below the      *)
(* floor takes one of them: what is left, and what the clients together    *)
(* have less than Most each (Slack), are always more than the floor.       *)
(***************************************************************************)
EXTENDS GitHubClient, FiniteSetTheorems, SequenceTheorems, WellFoundedInduction, TLAPS

-----------------------------------------------------------------------------
(* Sequences, taken one element after another.                             *)

\* What holds at the start and goes from each number to the next holds up to n.
LEMMA UpTo ==
    ASSUME NEW n \in Nat, NEW T, 0 \in T, \A j \in 1 .. n : j - 1 \in T => j \in T
    PROVE  \A j \in 0 .. n : j \in T
<1> SUFFICES ASSUME (0 .. n) \ T # {}
             PROVE  FALSE
  OBVIOUS
<1> DEFINE rest == (0 .. n) \ T
<1>1. PICK x \in rest : \A y \in rest : ~(<<y, x>> \in OpToRel(<, Nat))
  <2>1. rest \in SUBSET Nat /\ rest # {}
    OBVIOUS
  <2> HIDE DEF rest
  <2> QED
    BY <2>1, NatLessThanWellFounded, WFMin
<1>2. x \in Nat /\ x <= n /\ x \notin T /\ \A y \in rest : y \in Nat
  OBVIOUS
<1>3. \A y \in rest : ~(y < x)
  <2> HIDE DEF rest
  <2> QED
    BY <1>1, <1>2 DEF OpToRel
<1>4. x \in 1 .. n /\ x - 1 \in 0 .. n /\ x - 1 < x
  BY <1>2
<1>5. x - 1 \in T
  BY <1>3, <1>4
<1> QED
  BY <1>2, <1>4, <1>5

\* A value that is computed in n steps from a first one.
Within(step, n, T) == \A j \in 1 .. n, t \in T : step[j][t] \in T

Runs(h, step, base, n, T) ==
    /\ h = [j \in 0 .. n |-> h[j]] /\ h[0] = base
    /\ \A j \in 0 .. n : h[j] \in T
    /\ \A j \in 1 .. n : h[j] = step[j][h[j - 1]]

LEMMA RunsExist ==
    ASSUME NEW n \in Nat, NEW T, NEW base \in T, NEW step, Within(step, n, T)
    PROVE  \E h : Runs(h, step, base, n, T)
<1> DEFINE good == {j \in 0 .. n : \E h : Runs(h, step, base, j, T)}
<1>1. 0 \in good
  <2> DEFINE h == [j \in 0 .. 0 |-> base]
  <2>1. Runs(h, step, base, 0, T)
    BY DEF Runs
  <2> HIDE DEF h
  <2> QED
    BY <2>1
<1>2. ASSUME NEW j \in 1 .. n, j - 1 \in good
      PROVE  j \in good
  <2>1. PICK h : Runs(h, step, base, j - 1, T)
    BY <1>2
  <2> DEFINE f == [i \in 0 .. j |-> IF i = j THEN step[j][h[j - 1]] ELSE h[i]]
  <2>2. step[j][h[j - 1]] \in T
    BY <2>1 DEF Runs, Within
  <2>3. f[0] = base /\ \A i \in 0 .. j : f[i] \in T
    BY <2>1, <2>2 DEF Runs
  <2>4. ASSUME NEW i \in 1 .. j
        PROVE  f[i] = step[i][f[i - 1]]
    <3>1. CASE i = j
      <4>1. f[i] = step[j][h[j - 1]] /\ f[i - 1] = h[j - 1]
        BY <3>1
      <4> QED
        BY <3>1, <4>1
    <3>2. CASE i # j
      <4>1. i \in 1 .. j - 1 /\ f[i] = h[i] /\ f[i - 1] = h[i - 1]
        BY <3>2
      <4> QED
        BY <2>1, <4>1 DEF Runs
    <3> QED
      BY <3>1, <3>2
  <2>5. f = [i \in 0 .. j |-> f[i]]
    OBVIOUS
  <2> HIDE DEF f
  <2>6. Runs(f, step, base, j, T)
    BY <2>3, <2>4, <2>5 DEF Runs
  <2> QED
    BY <2>6
<1>3. n \in good
  <2> HIDE DEF good
  <2> QED
    BY <1>1, <1>2, UpTo
<1> QED
  BY <1>3

\* t is what is left of the first j elements of s when only the elements in S
\* stay: those at the positions e, in their order.
Picks(t, s, S, j, m, e) ==
    /\ \A i \in 1 .. m : e[i] \in 1 .. j /\ s[e[i]] \in S
    /\ \A i, k \in 1 .. m : i < k => e[i] < e[k]
    /\ \A k \in 1 .. j : s[k] \in S => \E i \in 1 .. m : e[i] = k
    /\ t = [i \in 1 .. m |-> s[e[i]]]

Takes(t, s, S, j) == \E m \in Nat : \E e : Picks(t, s, S, j, m, e)

LEMMA TakesNone ==
    ASSUME NEW s, NEW S
    PROVE  Takes(<<>>, s, S, 0)
<1> DEFINE e == <<>>
<1>1. /\ \A i \in 1 .. 0 : e[i] \in 1 .. 0 /\ s[e[i]] \in S
      /\ \A i, k \in 1 .. 0 : i < k => e[i] < e[k]
      /\ \A k \in 1 .. 0 : s[k] \in S => \E i \in 1 .. 0 : e[i] = k
      /\ <<>> = [i \in 1 .. 0 |-> s[e[i]]]
  OBVIOUS
<1> HIDE DEF e
<1> QED
  BY <1>1 DEF Takes, Picks

\* One element more is left out, or comes last.
LEMMA TakesNext ==
    ASSUME NEW s, NEW S, NEW j \in Nat \ {0}, NEW t, Takes(t, s, S, j - 1)
    PROVE  /\ s[j] \notin S => Takes(t, s, S, j)
           /\ s[j] \in S => Takes(Append(t, s[j]), s, S, j)
<1>0. PICK m \in Nat : \E e : Picks(t, s, S, j - 1, m, e)
  BY DEF Takes
<1>1. PICK e :
          /\ \A i \in 1 .. m : e[i] \in 1 .. j - 1 /\ s[e[i]] \in S
          /\ \A i, k \in 1 .. m : i < k => e[i] < e[k]
          /\ \A k \in 1 .. j - 1 : s[k] \in S => \E i \in 1 .. m : e[i] = k
          /\ t = [i \in 1 .. m |-> s[e[i]]]
  BY <1>0 DEF Picks
<1>2. ASSUME s[j] \notin S
      PROVE  Takes(t, s, S, j)
  <2>1. \A k \in 1 .. j : s[k] \in S => \E i \in 1 .. m : e[i] = k
    BY <1>1, <1>2
  <2>2. \A i \in 1 .. m : e[i] \in 1 .. j /\ s[e[i]] \in S
    BY <1>1
  <2>3. t = [i \in 1 .. m |-> s[e[i]]] /\ \A i, k \in 1 .. m : i < k => e[i] < e[k]
    BY <1>1
  <2> QED
    BY <2>1, <2>2, <2>3 DEF Takes, Picks
<1>3. ASSUME s[j] \in S
      PROVE  Takes(Append(t, s[j]), s, S, j)
  <2> DEFINE f == [i \in 1 .. m + 1 |-> IF i = m + 1 THEN j ELSE e[i]]
  <2>1. Append(t, s[j]) = [i \in 1 .. m + 1 |-> s[f[i]]]
    <3>1. t \in Seq({s[e[i]] : i \in 1 .. m}) /\ Len(t) = m
      BY <1>1
    <3>2. Append(t, s[j]) = [i \in 1 .. m + 1 |-> IF i = m + 1 THEN s[j] ELSE t[i]]
      BY <3>1
    <3>3. \A i \in 1 .. m + 1 : (IF i = m + 1 THEN s[j] ELSE t[i]) = s[f[i]]
      BY <1>1
    <3> HIDE DEF f
    <3> QED
      BY <3>2, <3>3
  <2>2. \A i \in 1 .. m + 1 : f[i] \in 1 .. j /\ s[f[i]] \in S
    BY <1>1, <1>3
  <2>3. \A i, k \in 1 .. m + 1 : i < k => f[i] < f[k]
    BY <1>1
  <2>4. ASSUME NEW k \in 1 .. j, s[k] \in S
        PROVE  \E i \in 1 .. m + 1 : f[i] = k
    <3>1. CASE k = j
      BY <3>1
    <3>2. CASE k # j
      <4>1. PICK i \in 1 .. m : e[i] = k
        BY <1>1, <2>4, <3>2
      <4>2. i \in 1 .. m + 1 /\ f[i] = k
        BY <4>1
      <4> QED
        BY <4>2
    <3> QED
      BY <3>1, <3>2
  <2>5. m + 1 \in Nat
    OBVIOUS
  <2> HIDE DEF f
  <2> QED
    BY <2>1, <2>2, <2>3, <2>4, <2>5 DEF Takes, Picks
<1> QED
  BY <1>2, <1>3

\* Of the first j numbers, those in P can be listed in their order.
LEMMA Listable ==
    ASSUME NEW n \in Nat, NEW P \in SUBSET (1 .. n)
    PROVE  \E m \in Nat : \E e \in [1 .. m -> P] :
               /\ \A i, k \in 1 .. m : i < k => e[i] < e[k]
               /\ \A x \in P : \E i \in 1 .. m : e[i] = x
<1> DEFINE id == [k \in 1 .. n |-> k]
           good == {j \in 0 .. n : \E t : Takes(t, id, P, j)}
<1>1. 0 \in good
  BY TakesNone
<1>2. ASSUME NEW j \in 1 .. n, j - 1 \in good
      PROVE  j \in good
  <2>1. PICK t : Takes(t, id, P, j - 1)
    BY <1>2
  <2>2. j \in Nat \ {0}
    OBVIOUS
  <2> HIDE DEF id
  <2>3. Takes(t, id, P, j) \/ Takes(Append(t, id[j]), id, P, j)
    BY <2>1, <2>2, TakesNext
  <2> QED
    BY <2>3
<1>3. n \in good
  <2> HIDE DEF good
  <2> QED
    BY <1>1, <1>2, UpTo
<1>4. PICK t : Takes(t, id, P, n)
  BY <1>3
<1>0. PICK m \in Nat : \E e : Picks(t, id, P, n, m, e)
  BY <1>4 DEF Takes
<1>5. PICK e :
          /\ \A i \in 1 .. m : e[i] \in 1 .. n /\ id[e[i]] \in P
          /\ \A i, k \in 1 .. m : i < k => e[i] < e[k]
          /\ \A k \in 1 .. n : id[k] \in P => \E i \in 1 .. m : e[i] = k
  BY <1>0 DEF Picks
<1> DEFINE f == [i \in 1 .. m |-> e[i]]
<1>6. f \in [1 .. m -> P]
  BY <1>5
<1>7. \A i, k \in 1 .. m : i < k => f[i] < f[k]
  BY <1>5
<1>8. \A x \in P : \E i \in 1 .. m : f[i] = x
  BY <1>5
<1> HIDE DEF f
<1> QED
  BY <1>6, <1>7, <1>8

\* They are listed by any ascending sequence of as many of them.
LEMMA Listing ==
    ASSUME NEW n \in Nat, NEW P \in SUBSET (1 .. n)
    PROVE  /\ Cardinality(P) \in 0 .. n
           /\ \E e \in [1 .. Cardinality(P) -> P] :
                  \A i, k \in DOMAIN e : i < k => e[i] < e[k]
           /\ \A e \in [1 .. Cardinality(P) -> P] :
                  (\A i, k \in DOMAIN e : i < k => e[i] < e[k]) =>
                      \A x \in P : \E i \in DOMAIN e : e[i] = x
<1>0. PICK m \in Nat : \E f \in [1 .. m -> P] :
          /\ \A i, k \in 1 .. m : i < k => f[i] < f[k]
          /\ \A x \in P : \E i \in 1 .. m : f[i] = x
  BY Listable
<1>1. PICK f \in [1 .. m -> P] :
          /\ \A i, k \in 1 .. m : i < k => f[i] < f[k]
          /\ \A x \in P : \E i \in 1 .. m : f[i] = x
  BY <1>0
<1>2. IsFiniteSet(P) /\ Cardinality(P) \in 0 .. n
  <2>1. IsFiniteSet(1 .. n) /\ Cardinality(1 .. n) = n
    BY FS_Interval
  <2>2. IsFiniteSet(P) /\ Cardinality(P) \in Nat /\ Cardinality(P) <= Cardinality(1 .. n)
    BY <2>1, FS_Subset, FS_CardinalityType
  <2> QED
    BY <2>1, <2>2
<1>3. ASSUME NEW l \in Nat, NEW e \in [1 .. l -> P],
             \A i, k \in 1 .. l : i < k => e[i] < e[k]
      PROVE  e \in Injection(1 .. l, P)
  <2>1. \A i, k \in 1 .. l : e[i] = e[k] => i = k
    <3>1. \A i \in 1 .. l : e[i] \in 1 .. n
      OBVIOUS
    <3> QED
      BY <1>3, <3>1
  <2> QED
    BY <2>1 DEF Injection, IsInjective
<1>4. Cardinality(P) = m
  <2>1. f \in Bijection(1 .. m, P)
    BY <1>1, <1>3 DEF Bijection, Surjection
  <2> QED
    BY <2>1, FS_CountingElements DEF ExistsBijection
<1>5. ASSUME NEW e \in [1 .. m -> P], \A i, k \in DOMAIN e : i < k => e[i] < e[k]
      PROVE  \A x \in P : \E i \in DOMAIN e : e[i] = x
  <2>1. e \in Injection(1 .. m, P)
    BY <1>3, <1>5
  <2>2. Cardinality(1 .. m) = m
    BY FS_Interval
  <2>3. e \in Surjection(1 .. m, P)
    BY <1>2, <1>4, <2>1, <2>2, FS_Injection
  <2> QED
    BY <2>3 DEF Surjection
<1> QED
  BY <1>1, <1>2, <1>4, <1>5

-----------------------------------------------------------------------------
(* The listing.                                                            *)

\* What GitHub lists: each repository of the account, by name.
LEMMA ListedIs ==
    /\ Listed \in [1 .. Len(Listed) -> Names] /\ Len(Listed) \in 0 .. MaxRepositories
    /\ \A i, k \in 1 .. Len(Listed) : i < k => Listed[i] < Listed[k]
    /\ \A i \in 1 .. Len(Listed) : account[Listed[i]] # "absent"
    /\ \A n \in Names : account[n] # "absent" => \E i \in 1 .. Len(Listed) : Listed[i] = n
<1> DEFINE there == {n \in Names : account[n] # "absent"}
           C == Cardinality(there)
           Ascends(e) == \A i, k \in DOMAIN e : i < k => e[i] < e[k]
<1>1. MaxRepositories \in Nat /\ there \in SUBSET (1 .. MaxRepositories)
  BY ClientAssumption DEF Names
<1>2. Listed = CHOOSE e \in [1 .. C -> there] : Ascends(e)
  BY DEF Listed
<1> HIDE DEF there
<1>3. /\ C \in 0 .. MaxRepositories
      /\ \E e \in [1 .. C -> there] : Ascends(e)
      /\ \A e \in [1 .. C -> there] :
             Ascends(e) => \A x \in there : \E i \in DOMAIN e : e[i] = x
  BY <1>1, Listing
<1> HIDE DEF C, Ascends
<1>4. Listed \in [1 .. C -> there] /\ Ascends(Listed)
  BY <1>2, <1>3
<1>5. C \in Nat /\ DOMAIN Listed = 1 .. C
  BY <1>1, <1>3, <1>4
<1>6. Len(Listed) = C
  BY <1>4, <1>5
<1>7. \A i, k \in 1 .. C : i < k => Listed[i] < Listed[k]
  BY <1>4, <1>5 DEF Ascends
<1>8. \A i \in 1 .. C : Listed[i] \in there
  BY <1>4
<1>9. \A x \in there : \E i \in 1 .. C : Listed[i] = x
  BY <1>3, <1>4, <1>5
<1> QED
  BY <1>3, <1>4, <1>5, <1>6, <1>7, <1>8, <1>9 DEF there

\* The first j entries of the listing.
First(j) == [i \in 1 .. j |-> <<Listed[i], account[Listed[i]]>>]

IsPage(a) == a = Page(a[2]) /\ a[2] \in Nat \ {0}

\* The pages that precede page k are full if there is anything on it or after.
LEMMA PageIs ==
    ASSUME NEW k \in Nat \ {0}, (k - 1) * PageSize <= Len(Listed)
    PROVE  /\ NextLink(Page(k)) = None =>
                  First((k - 1) * PageSize) \o Representation(Page(k)) = First(Len(Listed))
           /\ NextLink(Page(k)) # None =>
                  /\ NextLink(Page(k)) = Page(k + 1)
                  /\ k * PageSize <= Len(Listed)
                  /\ First((k - 1) * PageSize) \o Representation(Page(k)) = First(k * PageSize)
<1> DEFINE before == (k - 1) * PageSize
           upto == Min2(k * PageSize, Len(Listed))
<1>1. /\ PageSize \in Nat \ {0} /\ Len(Listed) \in Nat
      /\ before \in Nat /\ before <= Len(Listed) /\ k * PageSize = before + PageSize
  BY ClientAssumption, ListedIs
<1>2. upto \in before .. Len(Listed) /\ upto \in Nat
  BY <1>1 DEF Min2
<1>3. Page(k)[1] = "page" /\ Page(k)[2] = k
  BY DEF Page
<1>4. NextLink(Page(k)) = IF Len(Listed) > k * PageSize THEN Page(k + 1) ELSE None
  BY <1>3 DEF NextLink
<1>5. First(before) \o Representation(Page(k)) = First(upto)
  <2> DEFINE page == SubSeq(Listed, before + 1, upto)
  <2>1. Representation(Page(k)) = [i \in 1 .. Len(page) |-> <<page[i], account[page[i]]>>]
    BY <1>3 DEF Representation
  <2>2. Listed \in Seq(Names)
    BY <1>1, ListedIs
  <2> HIDE DEF before, upto
  <2>3. page = [i \in 1 .. upto - before |-> Listed[before + i]]
    BY <1>1, <1>2, <2>2
  <2>4. Len(page) = upto - before /\ upto - before \in Nat
    BY <1>1, <1>2, <2>3
  <2>5. Representation(Page(k))
            = [i \in 1 .. upto - before |-> <<Listed[before + i], account[Listed[before + i]]>>]
    BY <2>1, <2>3, <2>4
  <2> HIDE DEF page
  <2>6. PICK entry : entry = [i \in 1 .. Len(Listed) |-> <<Listed[i], account[Listed[i]]>>]
    OBVIOUS
  <2>7. Representation(Page(k)) = [i \in 1 .. upto - before |-> entry[before + i]]
    <3>1. \A i \in 1 .. upto - before : before + i \in 1 .. Len(Listed)
      BY <1>1, <1>2
    <3> QED
      BY <2>5, <2>6, <3>1
  <2>8. First(before) = [i \in 1 .. before |-> entry[i]] /\ First(upto) = [i \in 1 .. upto |-> entry[i]]
    BY <1>1, <1>2, <2>6 DEF First
  <2>9. [i \in 1 .. before |-> entry[i]] \o [i \in 1 .. upto - before |-> entry[before + i]]
            = [i \in 1 .. upto |-> entry[i]]
    BY <1>1, <1>2
  <2> QED
    BY <2>7, <2>8, <2>9
<1>6. CASE Len(Listed) > k * PageSize
  <2>1. upto = k * PageSize
    BY <1>1, <1>6 DEF Min2
  <2>2. Page(k + 1) \in Addresses
    <3>1. Len(Listed) <= MaxRepositories /\ MaxRepositories \in Nat
      BY ListedIs, ClientAssumption
    <3>2. k * PageSize >= k
      BY <1>1
    <3>3. k + 1 \in 1 .. MaxRepositories + 1
      BY <1>1, <1>6, <3>1, <3>2
    <3> QED
      BY <3>3 DEF Addresses
  <2>3. NextLink(Page(k)) = Page(k + 1) /\ Page(k + 1) # None
    BY <1>4, <1>6, <2>2, NoneAssumption
  <2> QED
    BY <1>1, <1>5, <1>6, <2>1, <2>3
<1>7. CASE ~(Len(Listed) > k * PageSize)
  <2>1. upto = Len(Listed)
    BY <1>1, <1>7 DEF Min2
  <2>2. NextLink(Page(k)) = None
    BY <1>4, <1>7
  <2> QED
    BY <1>5, <2>1, <2>2
<1> QED
  BY <1>6, <1>7

\* What is returned of a listing: the repositories that are not archived.
LEMMA UnarchivedIs ==
    ASSUME NEW S, NEW s \in Seq(S)
    PROVE  Takes(Unarchived(s), s, {x \in S : x[2] # "archived"}, Len(s))
<1> DEFINE n == Len(s)
           T == Seq(S)
           step == [j \in 1 .. n |-> [t \in T |->
                       IF s[j][2] = "archived" THEN t ELSE Append(t, s[j])]]
           Equation(g) == g = [k \in 0 .. n |->
                                  IF k = 0 THEN <<>>
                                  ELSE IF s[k][2] = "archived" THEN g[k - 1]
                                  ELSE Append(g[k - 1], s[k])]
           live == {x \in S : x[2] # "archived"}
<1>1. Unarchived(s) = (CHOOSE g : Equation(g))[n]
  BY DEF Unarchived
<1>2. n \in Nat /\ <<>> \in T /\ \A j \in 1 .. n : s[j] \in S
  OBVIOUS
<1>3. Within(step, n, T)
  BY <1>2 DEF Within
<1>4. \A j \in 1 .. n : \A t \in T :
          step[j][t] = IF s[j][2] = "archived" THEN t ELSE Append(t, s[j])
  OBVIOUS
<1> HIDE DEF n, T, step
<1>5. PICK h : Runs(h, step, <<>>, n, T)
  BY <1>2, <1>3, RunsExist
<1>6. Equation(h)
  <2>1. \A k \in 1 .. n : k - 1 \in 0 .. n
    BY <1>2
  <2>2. \A k \in 1 .. n : h[k] = IF s[k][2] = "archived" THEN h[k - 1] ELSE Append(h[k - 1], s[k])
    BY <1>4, <1>5, <2>1, Zenon DEF Runs
  <2>3. h = [k \in 0 .. n |-> h[k]] /\ h[0] = <<>>
    BY <1>5 DEF Runs
  <2>4. \A k \in 0 .. n : k = 0 \/ k \in 1 .. n
    BY <1>2
  <2> QED
    BY <2>2, <2>3, <2>4
<1>7. PICK g : g = (CHOOSE f : Equation(f)) /\ Equation(g)
  BY <1>6
<1>8. /\ g[0] = <<>>
      /\ \A k \in 1 .. n : g[k] = IF s[k][2] = "archived" THEN g[k - 1] ELSE Append(g[k - 1], s[k])
  <2>1. 0 \in 0 .. n /\ \A k \in 1 .. n : k \in 0 .. n /\ k # 0
    BY <1>2
  <2>2. \A k \in 0 .. n : g[k] = IF k = 0 THEN <<>>
                                 ELSE IF s[k][2] = "archived" THEN g[k - 1]
                                 ELSE Append(g[k - 1], s[k])
    BY <1>7
  <2> HIDE DEF Equation
  <2> QED
    BY <2>1, <2>2
<1> DEFINE good == {j \in 0 .. n : Takes(g[j], s, live, j)}
<1>9. 0 \in good
  BY <1>2, <1>8, TakesNone
<1>10. ASSUME NEW j \in 1 .. n, j - 1 \in good
       PROVE  j \in good
  <2>1. Takes(g[j - 1], s, live, j - 1) /\ j \in Nat \ {0}
    BY <1>10, <1>2
  <2>2. s[j] \in live <=> s[j][2] # "archived"
    BY <1>2
  <2>3. g[j] = IF s[j] \in live THEN Append(g[j - 1], s[j]) ELSE g[j - 1]
    BY <1>8, <2>2
  <2> HIDE DEF live
  <2>4. PICK t : t = g[j - 1]
    OBVIOUS
  <2>5. Takes(t, s, live, j - 1)
    BY <2>1, <2>4
  <2>6. /\ s[j] \notin live => Takes(t, s, live, j)
        /\ s[j] \in live => Takes(Append(t, s[j]), s, live, j)
    BY <2>1, <2>5, TakesNext
  <2>7. g[j] = IF s[j] \in live THEN Append(t, s[j]) ELSE t
    BY <2>3, <2>4
  <2>8. Takes(g[j], s, live, j)
    BY <2>6, <2>7
  <2> QED
    BY <1>10, <2>8
<1>11. n \in good
  <2>1. n \in Nat /\ n \in 0 .. n
    BY <1>2
  <2> HIDE DEF good
  <2>2. \A j \in 0 .. n : j \in good
    BY <1>9, <1>10, <2>1, UpTo
  <2> QED
    BY <2>1, <2>2
<1> QED
  BY <1>1, <1>7, <1>11 DEF n

\* The whole listing, without the archived ones, is the account.
LEMMA WholeListing ==
    ASSUME account \in [Names -> {"absent", "live", "archived"}],
           NEW repos, repos = Unarchived(First(Len(Listed)))
    PROVE  /\ Range(repos) = {<<n, "live">> : n \in {m \in Names : account[m] = "live"}}
           /\ \A i, k \in DOMAIN repos : i < k => repos[i][1] < repos[k][1]
<1> DEFINE s == First(Len(Listed))
           S == Names \X {"live", "archived"}
           live == {x \in S : x[2] # "archived"}
           n == Len(Listed)
<1>1. /\ n \in Nat /\ \A i \in 1 .. n : Listed[i] \in Names
      /\ \A i, k \in 1 .. n : i < k => Listed[i] < Listed[k]
      /\ \A x \in Names : account[x] # "absent" => \E i \in 1 .. n : Listed[i] = x
  BY ListedIs, ClientAssumption
<1>2. s = [i \in 1 .. n |-> <<Listed[i], account[Listed[i]]>>]
  BY DEF First
<1>3. s \in Seq(S) /\ Len(s) = n /\ \A i \in 1 .. n : s[i] = <<Listed[i], account[Listed[i]]>>
  <2>1. \A i \in 1 .. n : account[Listed[i]] \in {"live", "archived"}
    BY <1>1, ListedIs DEF Names
  <2> HIDE DEF n, s
  <2> QED
    BY <1>1, <1>2, <2>1
<1>4. Takes(repos, s, live, n)
  <2>1. repos = Unarchived(s)
    OBVIOUS
  <2> HIDE DEF s, S, n
  <2>2. Takes(Unarchived(s), s, live, Len(s))
    BY <1>3, UnarchivedIs
  <2> QED
    BY <1>3, <2>1, <2>2
<1> HIDE DEF s, n
<1>5. PICK m \in Nat : \E e : Picks(repos, s, live, n, m, e)
  BY <1>4 DEF Takes
<1>6. PICK e :
          /\ \A i \in 1 .. m : e[i] \in 1 .. n /\ s[e[i]] \in live
          /\ \A i, k \in 1 .. m : i < k => e[i] < e[k]
          /\ \A k \in 1 .. n : s[k] \in live => \E i \in 1 .. m : e[i] = k
          /\ repos = [i \in 1 .. m |-> s[e[i]]]
  BY <1>5 DEF Picks
<1>7. DOMAIN repos = 1 .. m /\ \A i \in 1 .. m : repos[i] = s[e[i]]
  BY <1>6
<1>8. ASSUME NEW i \in 1 .. m
      PROVE  \E x \in Names : account[x] = "live" /\ repos[i] = <<x, "live">>
  <2>1. e[i] \in 1 .. n /\ s[e[i]][2] = "live" /\ repos[i] = s[e[i]]
    BY <1>6, <1>7
  <2> QED
    BY <1>1, <1>3, <2>1
<1>9. ASSUME NEW x \in Names, account[x] = "live"
      PROVE  \E i \in 1 .. m : repos[i] = <<x, "live">>
  <2>1. PICK k \in 1 .. n : Listed[k] = x
    BY <1>1, <1>9
  <2>2. s[k] = <<x, "live">>
    BY <1>3, <1>9, <2>1
  <2>3. s[k] \in live
    BY <2>2
  <2>4. PICK i \in 1 .. m : e[i] = k
    BY <1>6, <2>3
  <2> QED
    BY <1>7, <2>2, <2>4
<1>10. \A i, k \in 1 .. m : i < k => repos[i][1] < repos[k][1]
  <2> SUFFICES ASSUME NEW i \in 1 .. m, NEW k \in 1 .. m, i < k
               PROVE  repos[i][1] < repos[k][1]
    OBVIOUS
  <2>1. e[i] \in 1 .. n /\ e[k] \in 1 .. n /\ e[i] < e[k]
    BY <1>6
  <2>2. Listed[e[i]] < Listed[e[k]]
    BY <1>1, <2>1
  <2>3. /\ repos[i] = <<Listed[e[i]], account[Listed[e[i]]]>>
        /\ repos[k] = <<Listed[e[k]], account[Listed[e[k]]]>>
    BY <1>3, <1>7, <2>1
  <2> QED
    BY <2>2, <2>3
<1>11. Range(repos) = {<<x, "live">> : x \in {y \in Names : account[y] = "live"}}
  <2>1. Range(repos) = {repos[i] : i \in 1 .. m}
    BY <1>7 DEF Range
  <2> DEFINE all == {<<x, "live">> : x \in {y \in Names : account[y] = "live"}}
  <2>2. ASSUME NEW i \in 1 .. m
        PROVE  repos[i] \in all
    BY <1>8
  <2>3. ASSUME NEW r \in all
        PROVE  \E i \in 1 .. m : repos[i] = r
    <3>1. PICK x \in Names : account[x] = "live" /\ r = <<x, "live">>
      OBVIOUS
    <3> QED
      BY <1>9, <3>1
  <2> HIDE DEF all
  <2>4. Range(repos) = all
    BY <2>1, <2>2, <2>3
  <2> QED
    BY <2>4 DEF all
<1> QED
  BY <1>7, <1>10, <1>11

\* What is known of client c while the account stays as it was at its first
\* page: it holds the pages before the one it asks for, and whatever it reads
\* next is that page.
Follows(c) ==
    LET before == (at[c][2] - 1) * PageSize
    IN  /\ before <= Len(Listed) /\ items[c] = First(before)
        /\ answer[c] # None =>
               /\ answer[c].next = NextLink(at[c])
               /\ answer[c].status = "200" => answer[c].page = Representation(at[c])
               /\ answer[c].status = "304" => cached[c] = Representation(at[c])

\* What an answer can be for, and say.
Asked(a) == a = Profile \/ a[1] = "page" \/ a[1] = "commits"

Sound(c) ==
    /\ answer[c] # None => Asked(at[c]) /\ answer[c].status \in Statuses
    /\ at[c][1] = "page" => IsPage(at[c])
    /\ at[c] \in {New, Profile, Page(1)} => items[c] = <<>>
    /\ answer[c] # None /\ answer[c].next # None =>
           IsPage(answer[c].next) /\ answer[c].next # Page(1)
    /\ at[c][1] = "page" /\ quiet[c] => Follows(c)

ListingInvariant ==
    /\ account \in [Names -> {"absent", "live", "archived"}]
    /\ DOMAIN at = Clients /\ DOMAIN cached = Clients /\ DOMAIN answer = Clients
    /\ DOMAIN items = Clients /\ quiet \in [Clients -> BOOLEAN]
    /\ \A c \in Clients : Sound(c)

LEMMA SameListing ==
    ASSUME account' = account
    PROVE  /\ Listed' = Listed
           /\ \A j : First(j)' = First(j)
           /\ \A a : Representation(a)' = Representation(a) /\ NextLink(a)' = NextLink(a)
<1>1. Listed' = Listed
  BY DEF Listed
<1>2. \A j : First(j)' = First(j)
  BY <1>1 DEF First
<1>3. \A a : NextLink(a)' = NextLink(a)
  BY <1>1 DEF NextLink
<1>4. \A a : Representation(a)' = Representation(a)
  BY <1>1 DEF Representation
<1> QED
  BY <1>1, <1>2, <1>3, <1>4

\* A client nothing happens to, but that what it was answered may be read.
LEMMA Undisturbed ==
    ASSUME NEW c \in Clients, Sound(c), account' = account,
           at'[c] = at[c], items'[c] = items[c], cached'[c] = cached[c],
           answer'[c] \in {answer[c], None}, quiet'[c] = quiet[c]
    PROVE  Sound(c)'
<1>1. IsPage(at'[c]) <=> IsPage(at[c])
  OBVIOUS
<1>2. Follows(c) => Follows(c)'
  BY SameListing DEF Follows
<1> QED
  BY <1>1, <1>2 DEF Sound, IsPage, Asked

LEMMA InitListing == Init => ListingInvariant
<1> SUFFICES ASSUME Init
             PROVE  ListingInvariant
  OBVIOUS
<1>1. ASSUME NEW c \in Clients
      PROVE  Sound(c)
  BY DEF Init, Sound, New
<1> QED
  BY <1>1 DEF Init, ListingInvariant

LEMMA ChangeListing ==
    ASSUME ListingInvariant, NEW n \in Names, Change(n)
    PROVE  ListingInvariant'
<1>1. /\ UNCHANGED client /\ quiet' = [c \in Clients |-> FALSE]
      /\ account' \in [Names -> {"absent", "live", "archived"}]
  BY DEF Change, ListingInvariant
<1>2. ASSUME NEW c \in Clients
      PROVE  Sound(c)'
  BY <1>1 DEF ListingInvariant, Sound, IsPage, Asked, client
<1> QED
  BY <1>1, <1>2 DEF ListingInvariant, client

LEMMA RequestListing ==
    ASSUME ListingInvariant, NEW c \in Clients, NEW status \in Statuses,
           answer[c] = None, at[c] \in Addresses, answer' = [answer EXCEPT ![c] = Answer(status, c)],
           status = "304" => cached[c] = Representation(at[c]),
           quiet' = quiet \/ quiet' = [quiet EXCEPT ![c] = @ \/ at[c] = Page(1)],
           UNCHANGED <<account, at, cached, items>>
    PROVE  ListingInvariant'
<1>1. PICK got : got = Answer(status, c)
  OBVIOUS
<1>2. got.next = NextLink(at[c]) /\ got.status = status /\ got.page = Representation(at[c])
  BY <1>1 DEF Answer
<1>3. answer'[c] = got /\ DOMAIN answer' = Clients /\ \A d \in Clients \ {c} : answer'[d] = answer[d]
  BY <1>1 DEF ListingInvariant
<1>4. /\ quiet' \in [Clients -> BOOLEAN] /\ \A d \in Clients \ {c} : quiet'[d] = quiet[d]
      /\ quiet'[c] => quiet[c] \/ at[c] = Page(1)
  BY DEF ListingInvariant
<1>5. ASSUME NEW d \in Clients \ {c}
      PROVE  Sound(d)'
  BY <1>3, <1>4, Undisturbed DEF ListingInvariant
<1>6. Sound(c) /\ PageSize \in Nat
  BY ClientAssumption DEF ListingInvariant
<1>7. ASSUME at[c][1] = "page", quiet'[c]
      PROVE  Follows(c)'
  <2>1. LET before == (at[c][2] - 1) * PageSize
        IN  before <= Len(Listed) /\ items[c] = First(before)
    <3>1. CASE quiet[c]
      BY <1>6, <1>7, <3>1 DEF Sound, Follows
    <3>2. CASE at[c] = Page(1)
      <4>1. items[c] = <<>> /\ (at[c][2] - 1) * PageSize = 0
        BY <1>6, <3>2 DEF Sound, Page
      <4>2. First(0) = <<>>
        BY DEF First
      <4>3. 0 <= Len(Listed)
        BY ListedIs, ClientAssumption
      <4> QED
        BY <4>1, <4>2, <4>3
    <3> QED
      BY <1>4, <1>7, <3>1, <3>2
  <2> QED
    BY <1>2, <1>3, <2>1, SameListing DEF Follows
<1>8. ASSUME NextLink(at[c]) # None
      PROVE  IsPage(NextLink(at[c])) /\ NextLink(at[c]) # Page(1)
  <2>1. at[c][1] = "page" /\ NextLink(at[c]) = Page(at[c][2] + 1)
    BY <1>8 DEF NextLink
  <2>2. at[c][2] \in Nat \ {0}
    BY <1>6, <2>1 DEF Sound, IsPage
  <2> QED
    BY <2>1, <2>2 DEF IsPage, Page
<1>9. Asked(at[c])
  BY DEF Addresses, Asked, Page, Commits
<1>10. Sound(c)'
  BY <1>2, <1>3, <1>6, <1>7, <1>8, <1>9, SameListing DEF Sound, IsPage, Asked
<1> QED
  BY <1>3, <1>4, <1>5, <1>10 DEF ListingInvariant

\* What client c may hold when it goes on to ask for a.
Fits(c, a, found) ==
    /\ a[1] = "page" => IsPage(a)
    /\ a \in {New, Profile, Page(1)} => found = <<>>
    /\ a[1] = "page" /\ quiet[c] =>
           (a[2] - 1) * PageSize <= Len(Listed) /\ found = First((a[2] - 1) * PageSize)

LEMMA GoesOn ==
    ASSUME ListingInvariant, NEW c \in Clients, NEW a, NEW found, Fits(c, a, found),
           account' = account, quiet' = quiet,
           answer' = [answer EXCEPT ![c] = None] \/ (answer' = answer /\ answer[c] = None),
           at' = [at EXCEPT ![c] = a],
           items' = [items EXCEPT ![c] = found] \/ (items' = items /\ items[c] = found),
           \E from : cached' = [cached EXCEPT ![c] = from]
    PROVE  ListingInvariant'
<1>1. /\ DOMAIN at' = Clients /\ DOMAIN cached' = Clients /\ DOMAIN answer' = Clients
      /\ DOMAIN items' = Clients
      /\ at'[c] = a /\ items'[c] = found
      /\ answer'[c] = None
  BY DEF ListingInvariant
<1>2. ASSUME NEW d \in Clients \ {c}
      PROVE  Sound(d)'
  <2>1. /\ at'[d] = at[d] /\ items'[d] = items[d] /\ cached'[d] = cached[d]
        /\ answer'[d] = answer[d]
    BY DEF ListingInvariant
  <2> QED
    BY <2>1, Undisturbed DEF ListingInvariant
<1>3. Sound(c)'
  <2>1. Sound(c)
    BY DEF ListingInvariant
  <2>2. a[1] = "page" /\ quiet'[c] => Follows(c)'
    BY <1>1, SameListing DEF Fits, Follows
  <2> QED
    BY <1>1, <2>1, <2>2 DEF Fits, Sound, IsPage, Asked
<1> QED
  BY <1>1, <1>2, <1>3 DEF ListingInvariant

LEMMA LookIs ==
    ASSUME NEW c, NEW a, NEW stored, Look(c, a, stored)
    PROVE  /\ at' = [at EXCEPT ![c] = a]
           /\ \E from : cached' = [cached EXCEPT ![c] = from]
  BY DEF Look

LEMMA LookUpIs ==
    ASSUME NEW c, NEW left, NEW stored, LookUp(c, left, stored)
    PROVE  \E a : /\ a = Done \/ a[1] = "commits"
                  /\ Look(c, a, stored)
<1>1. CASE left = <<>>
  BY <1>1 DEF LookUp
<1>2. CASE left # <<>>
  <2>1. Commits(left[1][1])[1] = "commits"
    BY DEF Commits
  <2> QED
    BY <1>2, <2>1 DEF LookUp
<1> QED
  BY <1>1, <1>2

LEMMA BeginListing ==
    ASSUME ListingInvariant, NEW c \in Clients, Begin(c)
    PROVE  ListingInvariant'
<1>1. /\ UNCHANGED <<account, quiet, answer, items>>
      /\ at[c] = New /\ Look(c, Profile, cache)
  BY DEF Begin
<1>2. items[c] = <<>> /\ answer[c] = None
  BY <1>1 DEF ListingInvariant, Sound, Asked, New, Profile
<1>3. Fits(c, Profile, <<>>) /\ Profile[1] # "page"
  BY DEF Fits, Profile
<1> QED
  BY <1>1, <1>2, <1>3, LookIs, GoesOn

\* A client that raises ends, or looks up the next repository.
LEMMA RaiseListing ==
    ASSUME ListingInvariant, NEW c \in Clients, Raise(c),
           account' = account, quiet' = quiet, answer' = [answer EXCEPT ![c] = None]
    PROVE  /\ ListingInvariant'
           /\ at[c][1] = "page" => at'[c] = Failed
<1>1. items' = items
  BY DEF Raise
<1>2. PICK a : /\ a \in {Done, Failed} \/ a[1] = "commits"
               /\ at[c][1] = "page" => a = Failed
               /\ Look(c, a, cache)
  BY LookUpIs DEF Raise
<1>3. Fits(c, a, items[c])
  BY <1>2 DEF Fits, Done, Failed, New, Profile, Page
<1>4. at' = [at EXCEPT ![c] = a] /\ \E from : cached' = [cached EXCEPT ![c] = from]
  BY <1>2, LookIs
<1>5. ListingInvariant'
  BY <1>1, <1>3, <1>4, GoesOn
<1>6. at'[c] = a
  BY <1>4 DEF ListingInvariant
<1> QED
  BY <1>2, <1>5, <1>6

\* What the client holds of the account when the last page has been read.
IsAccount(repos) ==
    /\ Range(repos) = {<<n, "live">> : n \in {m \in Names : account[m] = "live"}}
    /\ \A i, k \in DOMAIN repos : i < k => repos[i][1] < repos[k][1]

LEMMA ReturnListing ==
    ASSUME ListingInvariant, NEW c \in Clients, NEW payload, NEW next, NEW stored,
           Return(c, payload, next, stored),
           account' = account, quiet' = quiet, answer' = [answer EXCEPT ![c] = None],
           next # None => IsPage(next) /\ next # Page(1),
           Asked(at[c]),
           at[c][1] = "page" /\ quiet[c] =>
               next = NextLink(at[c]) /\ payload = Representation(at[c])
    PROVE  /\ ListingInvariant'
           /\ at[c][1] = "page" /\ quiet[c] /\ (at'[c] = Done \/ at'[c][1] = "commits") =>
                  IsAccount(items'[c])
<1> DEFINE found == items[c] \o payload
<1>1. Sound(c) /\ DOMAIN items = Clients /\ DOMAIN at = Clients
  BY DEF ListingInvariant
<1>2. CASE at[c] = Profile
  <2>0. Profile[1] # "page" /\ Profile[1] # "commits"
    BY DEF Profile
  <2>1. Look(c, Page(1), stored) /\ items' = items /\ items[c] = <<>>
    BY <1>1, <1>2, <2>0 DEF Return, Sound
  <2>2. First(0) = <<>> /\ 0 <= Len(Listed) /\ Page(1)[2] = 1 /\ Page(1)[1] = "page" /\ PageSize \in Nat
    BY ListedIs, ClientAssumption DEF First, Page
  <2>3. (Page(1)[2] - 1) * PageSize = 0
    BY <2>2
  <2>4. Fits(c, Page(1), <<>>)
    BY <2>2, <2>3 DEF Fits, IsPage
  <2>5. ListingInvariant'
    BY <1>1, <2>1, <2>4, LookIs, GoesOn
  <2> QED
    BY <1>2, <2>5 DEF Profile
<1>3. CASE at[c][1] = "page"
  <2>1. at[c] # Profile /\ IsPage(at[c])
    BY <1>1, <1>3 DEF Profile, Sound
  <2>2. PICK k \in Nat \ {0} : at[c] = Page(k)
    BY <2>1 DEF IsPage
  <2>3. at[c][2] = k
    BY <2>2 DEF Page
  <2>4. ASSUME quiet[c]
        PROVE  /\ (k - 1) * PageSize <= Len(Listed) /\ items[c] = First((k - 1) * PageSize)
               /\ next = NextLink(Page(k)) /\ payload = Representation(Page(k))
    BY <1>1, <1>3, <2>2, <2>3, <2>4 DEF Sound, Follows
  <2>5. CASE next # None
    <3>1. Look(c, next, stored) /\ items' = [items EXCEPT ![c] = found]
      BY <1>3, <2>1, <2>5 DEF Return
    <3>2. IsPage(next) /\ next # Page(1) /\ next[1] = "page" /\ next \notin {New, Profile}
      BY <2>5 DEF IsPage, Page, New, Profile
    <3>3. ASSUME quiet[c]
          PROVE  (next[2] - 1) * PageSize <= Len(Listed) /\ found = First((next[2] - 1) * PageSize)
      <4>1. next = Page(k + 1) /\ k * PageSize <= Len(Listed) /\ found = First(k * PageSize)
        BY <2>4, <2>5, <3>3, PageIs
      <4>2. next[2] - 1 = k
        BY <4>1 DEF Page
      <4> QED
        BY <4>1, <4>2
    <3> HIDE DEF found
    <3>4. Fits(c, next, found)
      BY <3>2, <3>3 DEF Fits
    <3>5. ListingInvariant'
      BY <3>1, <3>4, LookIs, GoesOn
    <3>6. at'[c] = next
      BY <1>1, <3>1, LookIs
    <3> QED
      BY <3>2, <3>5, <3>6 DEF Done
  <2>6. CASE next = None
    <3> DEFINE repos == Unarchived(found)
    <3>1. LookUp(c, Selected(repos), stored) /\ items' = [items EXCEPT ![c] = repos]
      BY <1>3, <2>1, <2>6 DEF Return
    <3>2. quiet[c] => found = First(Len(Listed))
      BY <2>4, <2>6, PageIs
    <3>3. quiet[c] => IsAccount(repos)
      <4>1. account \in [Names -> {"absent", "live", "archived"}]
        BY DEF ListingInvariant
      <4> HIDE DEF repos
      <4>2. ASSUME quiet[c]
            PROVE  repos = Unarchived(First(Len(Listed)))
        BY <3>2, <4>2 DEF repos
      <4> QED
        BY <4>1, <4>2, WholeListing DEF IsAccount
    <3> HIDE DEF repos, found
    <3>4. PICK a : (a = Done \/ a[1] = "commits") /\ Look(c, a, stored)
      BY <3>1, LookUpIs
    <3>5. Fits(c, a, repos)
      BY <3>4 DEF Fits, Done, New, Profile, Page
    <3>6. ListingInvariant'
      BY <3>1, <3>4, <3>5, LookIs, GoesOn
    <3>7. items'[c] = repos
      BY <1>1, <3>1
    <3>8. ASSUME IsAccount(repos)
          PROVE  IsAccount(items'[c])
      BY <3>7, <3>8
    <3> QED
      BY <3>3, <3>6, <3>8
  <2> QED
    BY <2>5, <2>6
<1>4. CASE at[c] # Profile /\ at[c][1] # "page"
  <2>1. PICK a : (a = Done \/ a[1] = "commits") /\ Look(c, a, stored) /\ items' = items
    <3>1. LookUp(c, lookups[c], stored) /\ UNCHANGED items
      BY <1>4 DEF Return, Asked
    <3> QED
      BY <3>1, LookUpIs
  <2>2. Fits(c, a, items[c])
    BY <2>1 DEF Fits, Done, New, Profile, Page
  <2>3. ListingInvariant'
    BY <1>1, <2>1, <2>2, LookIs, GoesOn
  <2> QED
    BY <1>4, <2>3
<1> QED
  BY <1>2, <1>3, <1>4

LEMMA ReceiveListing ==
    ASSUME ListingInvariant, NEW c \in Clients, Receive(c)
    PROVE  /\ ListingInvariant'
           /\ at[c][1] = "page" /\ quiet[c] /\ (at'[c] = Done \/ at'[c][1] = "commits") =>
                  IsAccount(items'[c])
<1>1. /\ answer[c] # None /\ answer' = [answer EXCEPT ![c] = None]
      /\ account' = account /\ quiet' = quiet
  BY DEF Receive
<1>2. Sound(c) /\ Asked(at[c]) /\ answer[c].status \in Statuses
  BY <1>1 DEF ListingInvariant, Sound
<1>3. PICK next : next = NextOf(c)
  OBVIOUS
<1>4. /\ next # None => IsPage(next) /\ next # Page(1)
      /\ at[c][1] = "page" /\ quiet[c] => next = NextLink(at[c])
  BY <1>1, <1>2, <1>3 DEF NextOf, Sound, Follows
<1>5. CASE answer[c].status = "200"
  <2>1. PICK payload : payload = answer[c].page
    OBVIOUS
  <2>2. Return(c, payload, next, cache')
    BY <1>3, <1>5, <2>1 DEF Receive
  <2>3. at[c][1] = "page" /\ quiet[c] => payload = Representation(at[c])
    BY <1>1, <1>2, <1>5, <2>1 DEF Sound, Follows
  <2> QED
    BY <1>1, <1>2, <1>4, <2>2, <2>3, ReturnListing
<1>6. CASE answer[c].status = "304"
  <2>1. PICK payload : payload = cached[c]
    OBVIOUS
  <2>2. Return(c, payload, next, cache)
    BY <1>3, <1>6, <2>1 DEF Receive
  <2>3. at[c][1] = "page" /\ quiet[c] => payload = Representation(at[c])
    BY <1>1, <1>2, <1>6, <2>1 DEF Sound, Follows
  <2> QED
    BY <1>1, <1>2, <1>4, <2>2, <2>3, ReturnListing
<1>7. ASSUME Raise(c)
      PROVE  /\ ListingInvariant'
             /\ at[c][1] = "page" => at'[c] # Done /\ at'[c][1] # "commits"
  <2>1. ListingInvariant' /\ (at[c][1] = "page" => at'[c] = Failed)
    BY <1>1, <1>7, RaiseListing
  <2>2. Failed # Done /\ Failed[1] # "commits"
    BY DEF Done, Failed
  <2> QED
    BY <2>1, <2>2
<1>8. CASE answer[c].status \in {"exhausted", "error", "lost"}
  <2>1. Raise(c)
    BY <1>8 DEF Receive
  <2> QED
    BY <1>7, <2>1
<1>9. CASE answer[c].status = "throttled"
  <2>1. Throttled(c)
    BY <1>9 DEF Receive
  <2>2. CASE UNCHANGED <<at, cached, items>>
    <3>1. ASSUME NEW d \in Clients
          PROVE  Sound(d)'
      <4>1. answer'[d] \in {answer[d], None}
        BY <1>1 DEF ListingInvariant
      <4> QED
        BY <1>1, <2>2, <4>1, Undisturbed DEF ListingInvariant
    <3>2. ListingInvariant'
      BY <1>1, <2>2, <3>1 DEF ListingInvariant
    <3> QED
      BY <2>2, <3>2 DEF Done
  <2>3. CASE Raise(c)
    BY <1>7, <2>3
  <2> QED
    BY <2>1, <2>2, <2>3 DEF Throttled
<1> QED
  BY <1>2, <1>5, <1>6, <1>8, <1>9 DEF Statuses

LEMMA StepListing == ListingInvariant /\ [Next]_vars => ListingInvariant'
<1> SUFFICES ASSUME ListingInvariant, [Next]_vars
             PROVE  ListingInvariant'
  OBVIOUS
<1>1. ASSUME NEW c \in Clients, Request(c)
      PROVE  ListingInvariant'
  <2>1. PICK status :
            status = IF quota = 0 THEN "exhausted"
                     ELSE IF cached[c] # None /\ cached[c] = Representation(at[c])
                     THEN "304" ELSE "200"
    OBVIOUS
  <2>2. /\ status \in Statuses /\ (status = "304" => cached[c] = Representation(at[c]))
    BY <2>1 DEF Statuses
  <2>3. answer' = [answer EXCEPT ![c] = Answer(status, c)]
    BY <1>1, <2>1 DEF Request
  <2>4. /\ answer[c] = None /\ at[c] \in Addresses
        /\ quiet' = [quiet EXCEPT ![c] = @ \/ at[c] = Page(1)]
        /\ UNCHANGED <<account, at, cached, items>>
    BY <1>1 DEF Request, Waiting
  <2> QED
    BY <2>2, <2>3, <2>4, RequestListing
<1>2. ASSUME NEW c \in Clients, Refusal(c)
      PROVE  ListingInvariant'
  <2>1. PICK status \in {"throttled", "error"} :
            answer' = [answer EXCEPT ![c] = Answer(status, c)]
    BY <1>2 DEF Refusal
  <2>2. /\ answer[c] = None /\ at[c] \in Addresses
        /\ UNCHANGED <<account, at, cached, items, quiet>>
    BY <1>2 DEF Refusal, Waiting
  <2>3. status \in Statuses /\ status # "304"
    BY DEF Statuses
  <2> QED
    BY <2>1, <2>2, <2>3, RequestListing
<1>3. ASSUME NEW c \in Clients, Lose(c)
      PROVE  ListingInvariant'
  <2>1. /\ answer[c] = None /\ at[c] \in Addresses
        /\ answer' = [answer EXCEPT ![c] = Answer("lost", c)]
        /\ UNCHANGED <<account, at, cached, items, quiet>>
    BY <1>3 DEF Lose, Waiting
  <2>2. "lost" \in Statuses /\ "lost" # "304"
    BY DEF Statuses
  <2> QED
    BY <2>1, <2>2, RequestListing
<1>4. CASE NewHour \/ UNCHANGED vars
  <2>1. UNCHANGED <<account, answer, at, cached, items, quiet>>
    BY <1>4 DEF NewHour, client, vars
  <2>2. \A c \in Clients : Sound(c)'
    BY <2>1, Undisturbed DEF ListingInvariant
  <2> QED
    BY <2>1, <2>2 DEF ListingInvariant
<1> QED
  BY <1>1, <1>2, <1>3, <1>4, ReceiveListing, BeginListing, ChangeListing DEF Next, Step

THEOREM ListingIsFollowed == Spec => []ListingInvariant
<1> QED
  BY InitListing, StepListing, PTL DEF Spec

\* Where a client is, only its own steps change.
LEMMA OthersStay ==
    ASSUME ListingInvariant, NEW d \in Clients, Receive(d) \/ Begin(d),
           NEW c \in Clients \ {d}
    PROVE  at'[c] = at[c]
<1>0. ASSUME NEW a, at' = [at EXCEPT ![d] = a]
      PROVE  at'[c] = at[c]
  BY <1>0 DEF ListingInvariant
<1>1. ASSUME NEW a, NEW stored, Look(d, a, stored)
      PROVE  at' = [at EXCEPT ![d] = a]
  BY <1>1 DEF Look
<1>2. ASSUME NEW left, NEW stored, LookUp(d, left, stored)
      PROVE  \E a : at' = [at EXCEPT ![d] = a]
  BY <1>1, <1>2, LookUpIs
<1>3. ASSUME Raise(d)
      PROVE  \E a : at' = [at EXCEPT ![d] = a]
  BY <1>1, <1>2, <1>3 DEF Raise
<1>4. ASSUME NEW payload, NEW next, NEW stored, Return(d, payload, next, stored), Asked(at[d])
      PROVE  \E a : at' = [at EXCEPT ![d] = a]
  <2>1. CASE at[d] = Profile
    <3>1. Profile[1] # "page" /\ Profile[1] # "commits"
      BY DEF Profile
    <3>2. Look(d, Page(1), stored)
      BY <1>4, <2>1, <3>1 DEF Return
    <3> QED
      BY <1>1, <3>2
  <2>2. CASE at[d][1] = "page" \/ at[d][1] = "commits"
    <3>1. at[d] # Profile
      BY <2>2 DEF Profile
    <3>2. CASE at[d][1] = "page" /\ next # None
      <4>1. Look(d, next, stored)
        BY <1>4, <3>1, <3>2 DEF Return
      <4> QED
        BY <1>1, <4>1
    <3>3. CASE at[d][1] = "page" /\ next = None
      <4>1. \E left : LookUp(d, left, stored)
        BY <1>4, <3>1, <3>3 DEF Return
      <4> QED
        BY <1>2, <4>1
    <3>4. CASE at[d][1] = "commits"
      <4>1. LookUp(d, lookups[d], stored)
        BY <1>4, <3>1, <3>4 DEF Return
      <4> QED
        BY <1>2, <4>1
    <3> QED
      BY <2>2, <3>2, <3>3, <3>4
  <2> QED
    BY <1>4, <2>1, <2>2 DEF Asked
<1>5. CASE Begin(d)
  BY <1>0, <1>1, <1>5 DEF Begin
<1>6. CASE Receive(d)
  <2>1. Asked(at[d]) /\ answer[d].status \in Statuses
    BY <1>6 DEF Receive, ListingInvariant, Sound
  <2>2. CASE answer[d].status = "200"
    <3>1. Return(d, answer[d].page, NextOf(d), cache')
      BY <1>6, <2>2 DEF Receive
    <3>2. \E a : at' = [at EXCEPT ![d] = a]
      BY <1>4, <2>1, <3>1
    <3> QED
      BY <1>0, <3>2
  <2>3. CASE answer[d].status = "304"
    <3>1. Return(d, cached[d], NextOf(d), cache)
      BY <1>6, <2>3 DEF Receive
    <3>2. \E a : at' = [at EXCEPT ![d] = a]
      BY <1>4, <2>1, <3>1
    <3> QED
      BY <1>0, <3>2
  <2>4. CASE answer[d].status \in {"throttled", "exhausted", "error", "lost"}
    <3>1. Raise(d) \/ Throttled(d)
      BY <1>6, <2>4 DEF Receive
    <3>2. CASE Throttled(d)
      <4>1. Raise(d) \/ at' = at
        BY <3>2 DEF Throttled
      <4> QED
        BY <1>0, <1>3, <4>1
    <3> QED
      BY <1>0, <1>3, <3>1, <3>2
  <2> QED
    BY <2>1, <2>2, <2>3, <2>4 DEF Statuses
<1> QED
  BY <1>5, <1>6

\* The listing is the account, if that does not change while it is listed:
\* whichever pages come from the cache, whoever stored them there and when,
\* however many clients share it, and for any account and size of a page.
THEOREM ListingIsTheAccount == Spec => ListingIsAccount
<1>1. ASSUME ListingInvariant, [Next]_vars, NEW c \in Clients,
             at[c][1] = "page", quiet[c], at'[c] = Done \/ at'[c][1] = "commits"
      PROVE  IsAccount(items'[c])
  <2>1. CASE Receive(c)
    BY <1>1, <2>1, ReceiveListing
  <2>2. at[c] # New /\ at'[c] # at[c]
    BY <1>1 DEF New, Done
  <2>3. ASSUME NEW d \in Clients, d # c, Receive(d) \/ Begin(d)
        PROVE  FALSE
    BY <1>1, <2>2, <2>3, OthersStay
  <2>4. ~UNCHANGED at /\ ~Begin(c)
    BY <2>2 DEF Begin
  <2> QED
    BY <1>1, <2>1, <2>3, <2>4
    DEF Next, Step, Request, Refusal, Lose, Change, NewHour, client, vars
<1>2. ListingInvariant /\ [Next]_vars =>
          [\A c \in Clients :
              /\ at[c][1] = "page" /\ quiet[c]
              /\ at'[c] = Done \/ at'[c][1] = "commits"
              => /\ Range(items'[c]) = {<<n, "live">> : n \in {m \in Names : account[m] = "live"}}
                 /\ \A i, k \in DOMAIN items'[c] :
                        i < k => items'[c][i][1] < items'[c][k][1]]_vars
  BY <1>1 DEF IsAccount
<1> QED
  BY <1>2, ListingIsFollowed, PTL DEF Spec, ListingIsAccount

-----------------------------------------------------------------------------
(* How much is looked up.                                                  *)

\* The most repositories a client looks up, and at least the one request of any.
Most ==
    IF relevance_threshold >= relevance_limit
    THEN IF relevance_threshold = 0 THEN 1 ELSE relevance_threshold
    ELSE relevance_limit

LEMMA MostFacts ==
    /\ Most \in Nat \ {0}
    /\ relevance_threshold \in Nat /\ relevance_threshold <= Most
    /\ relevance_limit \in Nat /\ relevance_limit <= Most
    /\ rate_limit_floor \in Nat /\ MaxClients \in Nat
    /\ MaxClients * Most <= rate_limit_floor + 1
  BY ClientAssumption, FloorAssumption DEF Most

Pages == Seq(Names \X {"absent", "live", "archived"})

\* What client c has read are pages, and what it looks up is selected from them.
Reads(c) ==
    /\ cached[c] \in Pages \cup {None}
    /\ answer[c] # None =>
           /\ answer[c].page \in Pages
           /\ answer[c].status = "304" => cached[c] # None
    /\ items[c] \in Pages
    /\ lookups[c] \in Pages /\ 1 + Len(lookups[c]) <= Most

PagesInvariant ==
    /\ cache \in [Addresses -> Pages \cup {None}]
    /\ DOMAIN lookups = Clients
    /\ \A c \in Clients : Reads(c)

LEMMA NothingIsPage == <<>> \in Pages /\ Len(<<>>) = 0 /\ 1 + Len(<<>>) <= Most
  BY MostFacts DEF Pages

LEMMA RepresentationIsPage ==
    ASSUME ListingInvariant, NEW a, a[1] = "page" => IsPage(a)
    PROVE  Representation(a) \in Pages
<1>1. CASE a[1] # "page"
  BY <1>1, NothingIsPage DEF Representation
<1>2. CASE a[1] = "page"
  <2> DEFINE m == (a[2] - 1) * PageSize + 1
             n == Min2(a[2] * PageSize, Len(Listed))
             page == SubSeq(Listed, m, n)
             whole == [k \in 1 .. Len(page) |-> <<page[k], account[page[k]]>>]
  <2>1. Representation(a) = whole
    BY <1>2 DEF Representation
  <2>2. /\ Len(Listed) \in Nat /\ Listed \in Seq(Names)
        /\ account \in [Names -> {"absent", "live", "archived"}]
    <3>1. Len(Listed) \in Nat
      BY ListedIs, ClientAssumption
    <3> QED
      BY <3>1, ListedIs DEF ListingInvariant
  <2>3. m \in Nat \ {0} /\ n \in Nat /\ n <= Len(Listed)
    <3>1. a[2] \in Nat \ {0} /\ PageSize \in Nat
      BY <1>2, ClientAssumption DEF IsPage
    <3>2. (a[2] - 1) * PageSize \in Nat /\ a[2] * PageSize \in Nat
      BY <3>1
    <3> QED
      BY <2>2, <3>2 DEF Min2
  <2> HIDE DEF m, n
  <2>4. page \in Seq(Names) /\ Len(page) \in Nat
    BY <2>2, <2>3
  <2> HIDE DEF page
  <2>5. \A k \in 1 .. Len(page) : <<page[k], account[page[k]]>> \in Names \X {"absent", "live", "archived"}
    BY <2>2, <2>4
  <2>6. whole \in Pages
    BY <2>4, <2>5 DEF Pages
  <2> QED
    BY <2>1, <2>6
<1> QED
  BY <1>1, <1>2

\* What is kept of a listing, and what is selected of it.
LEMMA SelectedIsPage ==
    ASSUME NEW found \in Pages
    PROVE  /\ Unarchived(found) \in Pages
           /\ Selected(found) \in Pages /\ Len(Selected(found)) <= Most
<1>1. Unarchived(found) \in Pages
  <2> DEFINE S == Names \X {"absent", "live", "archived"}
             live == {x \in S : x[2] # "archived"}
  <2>1. found \in Seq(S)
    BY DEF Pages
  <2> HIDE DEF S
  <2>2. Takes(Unarchived(found), found, live, Len(found))
    BY <2>1, UnarchivedIs
  <2>3. PICK m \in Nat : \E e : Picks(Unarchived(found), found, live, Len(found), m, e)
    BY <2>2 DEF Takes
  <2>4. PICK e : Picks(Unarchived(found), found, live, Len(found), m, e)
    BY <2>3
  <2>5. /\ Unarchived(found) = [i \in 1 .. m |-> found[e[i]]]
        /\ \A i \in 1 .. m : found[e[i]] \in S
    BY <2>4 DEF Picks
  <2>6. [i \in 1 .. m |-> found[e[i]]] \in Seq(S)
    BY <2>5
  <2> QED
    BY <2>5, <2>6 DEF Pages, S
<1>2. CASE Len(found) <= relevance_threshold
  BY <1>1, <1>2, MostFacts DEF Selected, Pages
<1>3. CASE ~(Len(found) <= relevance_threshold)
  <2> DEFINE n == Min2(relevance_limit, Len(found))
  <2>1. Selected(found) = SubSeq(found, 1, n)
    BY <1>3 DEF Selected
  <2>2. n \in Nat /\ n <= Len(found) /\ n <= Most
    BY MostFacts DEF Min2, Pages
  <2> HIDE DEF n
  <2>3. SubSeq(found, 1, n) \in Pages /\ Len(SubSeq(found, 1, n)) = n
    BY <2>2 DEF Pages
  <2> QED
    BY <1>1, <2>1, <2>2, <2>3
<1> QED
  BY <1>1, <1>2, <1>3

LEMMA InitPages == Init => PagesInvariant
<1> SUFFICES ASSUME Init
             PROVE  PagesInvariant
  OBVIOUS
<1>1. \A c \in Clients : Reads(c)
  BY NothingIsPage DEF Init, Reads
<1> QED
  BY <1>1 DEF Init, PagesInvariant

\* A client nothing happens to.
LEMMA ReadsStays ==
    ASSUME NEW c \in Clients, Reads(c), cached'[c] = cached[c], items'[c] = items[c],
           lookups'[c] = lookups[c], answer'[c] \in {answer[c], None}
    PROVE  Reads(c)'
  BY DEF Reads

\* An answer carries a page.
LEMMA AnswerPages ==
    ASSUME ListingInvariant, PagesInvariant, NEW c \in Clients, NEW status,
           at[c] \in Addresses,
           answer' = [answer EXCEPT ![c] = Answer(status, c)],
           status = "304" => cached[c] # None,
           UNCHANGED <<cache, cached, items, lookups>>
    PROVE  PagesInvariant'
<1>1. PICK got : got = Answer(status, c)
  OBVIOUS
<1>2. got.status = status /\ got.page = Representation(at[c])
  BY <1>1 DEF Answer
<1>3. answer'[c] = got /\ \A d \in Clients \ {c} : answer'[d] = answer[d]
  BY <1>1 DEF ListingInvariant
<1>4. got.page \in Pages
  BY <1>2, RepresentationIsPage DEF ListingInvariant, Sound
<1>5. Reads(c)'
  BY <1>2, <1>3, <1>4 DEF PagesInvariant, Reads
<1>6. \A d \in Clients \ {c} : Reads(d)'
  BY <1>3, ReadsStays DEF PagesInvariant
<1> QED
  BY <1>5, <1>6 DEF PagesInvariant

\* A client that goes on has read pages, and has selected from them.
LEMMA GoesOnPages ==
    ASSUME ListingInvariant, PagesInvariant, NEW c \in Clients, NEW a, NEW stored,
           stored \in [Addresses -> Pages \cup {None}], Look(c, a, stored),
           cache' \in [Addresses -> Pages \cup {None}],
           answer' = [answer EXCEPT ![c] = None] \/ (answer' = answer /\ answer[c] = None),
           NEW found \in Pages,
           items' = [items EXCEPT ![c] = found] \/ items' = items,
           NEW left \in Pages, 1 + Len(left) <= Most,
           lookups' = [lookups EXCEPT ![c] = left] \/ lookups' = lookups
    PROVE  /\ PagesInvariant'
           /\ \A d \in Clients \ {c} : lookups'[d] = lookups[d]
<1>1. PICK from \in Pages \cup {None} : cached' = [cached EXCEPT ![c] = from]
  BY DEF Look
<1>2. /\ cached'[c] = from /\ answer'[c] = None
      /\ items'[c] \in {found, items[c]} /\ lookups'[c] \in {left, lookups[c]}
      /\ DOMAIN lookups' = Clients
      /\ \A d \in Clients \ {c} :
             /\ cached'[d] = cached[d] /\ answer'[d] = answer[d]
             /\ items'[d] = items[d] /\ lookups'[d] = lookups[d]
  BY <1>1 DEF ListingInvariant, PagesInvariant
<1>3. Reads(c)'
  BY <1>2 DEF Reads, PagesInvariant
<1>4. \A d \in Clients \ {c} : Reads(d)'
  BY <1>2, ReadsStays DEF PagesInvariant
<1> QED
  BY <1>2, <1>3, <1>4 DEF PagesInvariant

\* The next repository is looked up, and it is one less.
LEMMA LookUpPages ==
    ASSUME NEW c \in Clients, NEW left \in Pages, Len(left) <= Most, NEW stored,
           LookUp(c, left, stored)
    PROVE  \E a : \E rest \in Pages :
               /\ Look(c, a, stored)
               /\ lookups' = [lookups EXCEPT ![c] = rest] /\ 1 + Len(rest) <= Most
               /\ a = Done \/ 1 + Len(rest) = Len(left)
<1>1. CASE left = <<>>
  BY <1>1, NothingIsPage DEF LookUp
<1>2. CASE left # <<>>
  <2>1. /\ Look(c, Commits(left[1][1]), stored)
        /\ lookups' = [lookups EXCEPT ![c] = Tail(left)]
    BY <1>2 DEF LookUp
  <2>2. Tail(left) \in Pages /\ 1 + Len(Tail(left)) = Len(left)
    BY <1>2 DEF Pages
  <2> QED
    BY <2>1, <2>2
<1> QED
  BY <1>1, <1>2

LEMMA RaisePages ==
    ASSUME ListingInvariant, PagesInvariant, NEW c \in Clients, Raise(c),
           answer' = [answer EXCEPT ![c] = None]
    PROVE  /\ PagesInvariant'
           /\ at'[c] \in {Done, Failed} \/ 1 + Len(lookups'[c]) = Len(lookups[c])
           /\ \A d \in Clients \ {c} : lookups'[d] = lookups[d]
<1>1. items' = items /\ cache' = cache
  BY DEF Raise
<1>2. /\ lookups[c] \in Pages /\ 1 + Len(lookups[c]) <= Most /\ items[c] \in Pages
      /\ Len(lookups[c]) <= Most /\ cache \in [Addresses -> Pages \cup {None}]
      /\ DOMAIN at = Clients /\ DOMAIN lookups = Clients
  <2>1. lookups[c] \in Pages /\ 1 + Len(lookups[c]) <= Most /\ Len(lookups[c]) \in Nat
    BY DEF PagesInvariant, Reads, Pages
  <2> QED
    BY <2>1, MostFacts DEF PagesInvariant, Reads, ListingInvariant
<1>3. CASE at[c][1] = "commits"
  <2>1. LookUp(c, lookups[c], cache)
    BY <1>3 DEF Raise
  <2>2. PICK a : \E rest \in Pages :
            /\ Look(c, a, cache)
            /\ lookups' = [lookups EXCEPT ![c] = rest] /\ 1 + Len(rest) <= Most
            /\ a = Done \/ 1 + Len(rest) = Len(lookups[c])
    BY <1>2, <2>1, LookUpPages
  <2>3. PICK rest \in Pages :
            /\ Look(c, a, cache)
            /\ lookups' = [lookups EXCEPT ![c] = rest] /\ 1 + Len(rest) <= Most
            /\ a = Done \/ 1 + Len(rest) = Len(lookups[c])
    BY <2>2
  <2>4. PagesInvariant' /\ \A d \in Clients \ {c} : lookups'[d] = lookups[d]
    BY <1>1, <1>2, <2>3, GoesOnPages
  <2>5. at'[c] = a /\ lookups'[c] = rest
    BY <1>2, <2>3, LookIs
  <2> QED
    BY <2>3, <2>4, <2>5
<1>4. CASE at[c][1] # "commits"
  <2>1. Look(c, Failed, cache) /\ lookups' = lookups
    BY <1>4 DEF Raise
  <2>2. PagesInvariant' /\ \A d \in Clients \ {c} : lookups'[d] = lookups[d]
    BY <1>1, <1>2, <2>1, GoesOnPages
  <2>3. at'[c] = Failed
    BY <1>2, <2>1, LookIs
  <2> QED
    BY <2>2, <2>3
<1> QED
  BY <1>3, <1>4

LEMMA ReturnPages ==
    ASSUME ListingInvariant, PagesInvariant, NEW c \in Clients, NEW payload \in Pages,
           NEW next, NEW stored \in [Addresses -> Pages \cup {None}],
           Return(c, payload, next, stored), Asked(at[c]),
           cache' \in [Addresses -> Pages \cup {None}],
           answer' = [answer EXCEPT ![c] = None]
    PROVE  /\ PagesInvariant'
           /\ \A d \in Clients \ {c} : lookups'[d] = lookups[d]
<1> DEFINE found == items[c] \o payload
           repos == Unarchived(found)
<1>1. /\ items[c] \in Pages /\ lookups[c] \in Pages
      /\ 1 + Len(lookups[c]) <= Most /\ Len(lookups[c]) <= Most
  <2>1. lookups[c] \in Pages /\ 1 + Len(lookups[c]) <= Most /\ Len(lookups[c]) \in Nat
    BY DEF PagesInvariant, Reads, Pages
  <2> QED
    BY <2>1, MostFacts DEF PagesInvariant, Reads
<1>2. found \in Pages
  BY <1>1 DEF Pages
<1>3. Profile[1] # "page" /\ Profile[1] # "commits"
  BY DEF Profile
<1>4. CASE at[c] = Profile
  <2>1. Look(c, Page(1), stored) /\ items' = items /\ lookups' = lookups
    BY <1>3, <1>4 DEF Return
  <2> QED
    BY <1>1, <2>1, GoesOnPages
<1>5. CASE at[c][1] = "page" /\ next # None
  <2>1. /\ Look(c, next, stored) /\ items' = [items EXCEPT ![c] = found]
        /\ lookups' = lookups
    BY <1>3, <1>5 DEF Return
  <2> HIDE DEF found
  <2> QED
    BY <1>1, <1>2, <2>1, GoesOnPages
<1>6. CASE at[c][1] = "page" /\ next = None
  <2>1. items' = [items EXCEPT ![c] = repos] /\ LookUp(c, Selected(repos), stored)
    BY <1>3, <1>6 DEF Return
  <2> HIDE DEF found
  <2>2. repos \in Pages
    BY <1>2, SelectedIsPage
  <2> HIDE DEF repos
  <2>3. Selected(repos) \in Pages /\ Len(Selected(repos)) <= Most
    BY <2>2, SelectedIsPage
  <2>4. PICK a : \E rest \in Pages :
            /\ Look(c, a, stored)
            /\ lookups' = [lookups EXCEPT ![c] = rest] /\ 1 + Len(rest) <= Most
    BY <2>1, <2>3, LookUpPages
  <2> QED
    BY <2>1, <2>2, <2>4, GoesOnPages
<1>7. CASE at[c][1] = "commits"
  <2>1. at[c] # Profile /\ at[c][1] # "page"
    BY <1>3, <1>7
  <2>2. LookUp(c, lookups[c], stored) /\ items' = items
    BY <1>7, <2>1 DEF Return
  <2>3. PICK a : \E rest \in Pages :
            /\ Look(c, a, stored)
            /\ lookups' = [lookups EXCEPT ![c] = rest] /\ 1 + Len(rest) <= Most
    BY <1>1, <2>2, LookUpPages
  <2> QED
    BY <1>1, <2>2, <2>3, GoesOnPages
<1> QED
  BY <1>4, <1>5, <1>6, <1>7 DEF Asked

LEMMA ReceivePages ==
    ASSUME ListingInvariant, PagesInvariant, NEW c \in Clients, Receive(c)
    PROVE  /\ PagesInvariant'
           /\ \A d \in Clients \ {c} : lookups'[d] = lookups[d]
           /\ answer[c].status = "lost" =>
                  at'[c] \in {Done, Failed} \/ 1 + Len(lookups'[c]) = Len(lookups[c])
<1> DEFINE OthersLookUp == \A d \in Clients \ {c} : lookups'[d] = lookups[d]
<1>1. answer[c] # None /\ answer' = [answer EXCEPT ![c] = None]
  BY DEF Receive
<1>2. /\ Asked(at[c]) /\ answer[c].status \in Statuses
      /\ answer[c].page \in Pages /\ (answer[c].status = "304" => cached[c] \in Pages)
      /\ cache \in [Addresses -> Pages \cup {None}]
  BY <1>1 DEF ListingInvariant, Sound, PagesInvariant, Reads
<1>3. CASE answer[c].status = "200"
  <2>1. cache' = [cache EXCEPT ![at[c]] = answer[c].page] /\ Return(c, answer[c].page, NextOf(c), cache')
    BY <1>3 DEF Receive
  <2>2. cache' \in [Addresses -> Pages \cup {None}]
    BY <1>2, <2>1
  <2>3. PagesInvariant' /\ OthersLookUp
    BY <1>1, <1>2, <2>1, <2>2, ReturnPages
  <2> QED
    BY <1>3, <2>3
<1>4. CASE answer[c].status = "304"
  <2>1. cache' = cache /\ Return(c, cached[c], NextOf(c), cache)
    BY <1>4 DEF Receive
  <2>2. PagesInvariant' /\ OthersLookUp
    BY <1>1, <1>2, <1>4, <2>1, ReturnPages
  <2> QED
    BY <1>4, <2>2
<1>5. CASE answer[c].status = "throttled"
  <2>1. Raise(c) \/ UNCHANGED <<cached, items, lookups, cache>>
    BY <1>5 DEF Receive, Throttled
  <2>2. CASE UNCHANGED <<cached, items, lookups, cache>>
    <3>1. \A d \in Clients : answer'[d] \in {answer[d], None}
      BY <1>1 DEF ListingInvariant
    <3> QED
      BY <1>5, <2>2, <3>1, ReadsStays DEF PagesInvariant
  <2>3. CASE Raise(c)
    BY <1>1, <1>5, <2>3, RaisePages
  <2> QED
    BY <2>1, <2>2, <2>3
<1>6. CASE answer[c].status \in {"exhausted", "error", "lost"}
  BY <1>1, <1>6, RaisePages DEF Receive
<1> QED
  BY <1>2, <1>3, <1>4, <1>5, <1>6 DEF Statuses

LEMMA StepPages ==
    ListingInvariant /\ PagesInvariant /\ [Next]_vars => PagesInvariant'
<1> SUFFICES ASSUME ListingInvariant, PagesInvariant, [Next]_vars
             PROVE  PagesInvariant'
  OBVIOUS
<1>1. ASSUME NEW c \in Clients, Request(c)
      PROVE  PagesInvariant'
  <2>1. PICK status :
            status = IF quota = 0 THEN "exhausted"
                     ELSE IF cached[c] # None /\ cached[c] = Representation(at[c])
                     THEN "304" ELSE "200"
    OBVIOUS
  <2>2. /\ status = "304" => cached[c] # None
        /\ answer' = [answer EXCEPT ![c] = Answer(status, c)]
        /\ at[c] \in Addresses /\ UNCHANGED <<cache, cached, items, lookups>>
    BY <1>1, <2>1 DEF Request, Waiting
  <2> QED
    BY <2>2, AnswerPages
<1>2. ASSUME NEW c \in Clients, Refusal(c) \/ Lose(c)
      PROVE  PagesInvariant'
  <2>1. PICK status \in {"throttled", "error", "lost"} :
            answer' = [answer EXCEPT ![c] = Answer(status, c)]
    BY <1>2 DEF Refusal, Lose
  <2>2. at[c] \in Addresses /\ UNCHANGED <<cache, cached, items, lookups>>
    BY <1>2 DEF Refusal, Lose, Waiting
  <2> QED
    BY <2>1, <2>2, AnswerPages
<1>3. ASSUME NEW c \in Clients, Begin(c)
      PROVE  PagesInvariant'
  <2>1. /\ Look(c, Profile, cache) /\ UNCHANGED <<cache, answer, items, lookups>>
        /\ answer[c] = None
    BY <1>3 DEF Begin, ListingInvariant, Sound, Asked, New, Profile
  <2> QED
    BY <2>1, NothingIsPage, GoesOnPages DEF PagesInvariant
<1>4. CASE NewHour \/ (\E n \in Names : Change(n)) \/ UNCHANGED vars
  <2>1. UNCHANGED <<cache, cached, items, lookups, answer>>
    BY <1>4 DEF NewHour, Change, client, vars
  <2> QED
    BY <2>1, ReadsStays DEF PagesInvariant
<1> QED
  BY <1>1, <1>2, <1>3, <1>4, ReceivePages DEF Next, Step

-----------------------------------------------------------------------------
(* The quota.                                                              *)

\* The requests client c may still be charged for below the floor: none when it is
\* over or has seen the floor, and otherwise the one it makes and those it looks up
\* should the answers be lost.
Ahead(c) ==
    IF Over(c) \/ ~MayAsk(c) THEN 0
    ELSE IF answer[c] = None THEN 1 + Len(lookups[c])
    ELSE IF answer[c].status = "lost" THEN Len(lookups[c])
    ELSE Most

\* What the clients together have less than Most of them each.
SlackOf(ahead) == {p \in Clients \X (1 .. Most) : p[2] > ahead[p[1]]}

Slack == SlackOf([c \in Clients |-> Ahead(c)])

QuotaInvariant ==
    /\ quota \in Nat
    /\ remaining \in [Clients -> Nat \cup {None}]
    /\ passed \in [Clients -> BOOLEAN]
    /\ quota + Cardinality(Slack) > rate_limit_floor
    /\ QuotaIsNeverSpent

LEMMA AheadIsNumber ==
    ASSUME PagesInvariant, NEW c \in Clients
    PROVE  Ahead(c) \in Nat /\ 1 + Len(lookups[c]) \in 1 .. Most /\ Len(lookups[c]) \in Nat
  BY MostFacts DEF Ahead, PagesInvariant, Reads, Pages

LEMMA AheadWillBeNumber ==
    ASSUME PagesInvariant', NEW c \in Clients
    PROVE  Ahead(c)' \in Nat /\ 1 + Len(lookups'[c]) \in 1 .. Most
  BY MostFacts DEF Ahead, PagesInvariant, Reads, Pages

LEMMA SlackFacts ==
    ASSUME NEW ahead \in [Clients -> Nat]
    PROVE  /\ IsFiniteSet(SlackOf(ahead)) /\ Cardinality(SlackOf(ahead)) \in Nat
           /\ \A c \in Clients : ahead[c] > 0 => Cardinality(SlackOf(ahead)) < MaxClients * Most
<1> DEFINE all == Clients \X (1 .. Most)
           some == SlackOf(ahead)
<1>1. /\ IsFiniteSet(Clients) /\ Cardinality(Clients) = MaxClients
      /\ IsFiniteSet(1 .. Most) /\ Cardinality(1 .. Most) = Most
  BY FS_Interval, MostFacts DEF Clients
<1>2. IsFiniteSet(all) /\ Cardinality(all) = MaxClients * Most
  BY <1>1, FS_Product
<1>3. some \in SUBSET all
  BY DEF SlackOf
<1>4. \A c \in Clients : ahead[c] > 0 => <<c, 1>> \in all /\ <<c, 1>> \notin some
  BY MostFacts DEF SlackOf
<1> HIDE DEF all, some
<1>5. /\ IsFiniteSet(some) /\ Cardinality(some) \in Nat /\ Cardinality(some) <= Cardinality(all)
      /\ Cardinality(some) = Cardinality(all) => some = all
  BY <1>2, <1>3, FS_Subset, FS_CardinalityType
<1>6. ASSUME NEW c \in Clients, ahead[c] > 0
      PROVE  Cardinality(some) < MaxClients * Most
  <2>1. some # all
    BY <1>4, <1>6
  <2>2. MaxClients * Most \in Nat
    BY MostFacts
  <2> QED
    BY <1>2, <1>5, <2>1, <2>2
<1> QED
  BY <1>5, <1>6 DEF some

LEMMA SlackStays ==
    ASSUME NEW old \in [Clients -> Nat], NEW new \in [Clients -> Nat],
           \A c \in Clients : new[c] <= old[c]
    PROVE  Cardinality(SlackOf(old)) <= Cardinality(SlackOf(new))
<1>1. SlackOf(old) \in SUBSET SlackOf(new)
  BY DEF SlackOf
<1> QED
  BY <1>1, SlackFacts, FS_Subset

LEMMA SlackGrows ==
    ASSUME NEW old \in [Clients -> Nat], NEW new \in [Clients -> Nat],
           \A c \in Clients : new[c] <= old[c],
           NEW c \in Clients, old[c] \in 1 .. Most, new[c] < old[c]
    PROVE  Cardinality(SlackOf(old)) + 1 <= Cardinality(SlackOf(new))
<1> DEFINE p == <<c, old[c]>>
<1>1. p \notin SlackOf(old) /\ SlackOf(old) \cup {p} \in SUBSET SlackOf(new)
  BY DEF SlackOf
<1> HIDE DEF p
<1>2. /\ IsFiniteSet(SlackOf(old)) /\ IsFiniteSet(SlackOf(new))
      /\ Cardinality(SlackOf(old)) \in Nat /\ Cardinality(SlackOf(new)) \in Nat
  BY SlackFacts
<1>3. Cardinality(SlackOf(old) \cup {p}) = Cardinality(SlackOf(old)) + 1
  BY <1>1, <1>2, FS_AddElement
<1>4. Cardinality(SlackOf(old) \cup {p}) <= Cardinality(SlackOf(new))
  BY <1>1, <1>2, FS_Subset
<1> QED
  BY <1>3, <1>4

\* A client that may ask may still be charged, so something is left.
LEMMA SomethingIsLeft ==
    ASSUME PagesInvariant, QuotaInvariant, NEW c \in Clients, Waiting(c), MayAsk(c)
    PROVE  quota > 0 /\ Ahead(c) = 1 + Len(lookups[c]) /\ Ahead(c) \in 1 .. Most
<1>1. Ahead(c) = 1 + Len(lookups[c]) /\ Ahead(c) \in 1 .. Most
  <2>1. ~ Over(c)
    BY DEF Waiting, Over, Done, Failed, Addresses, Profile, Page, Commits
  <2> QED
    BY <2>1, AheadIsNumber DEF Ahead, Waiting
<1> DEFINE ahead == [d \in Clients |-> Ahead(d)]
<1>2. ahead \in [Clients -> Nat] /\ ahead[c] > 0
  BY <1>1, AheadIsNumber
<1> HIDE DEF ahead
<1>3. Cardinality(SlackOf(ahead)) \in Nat /\ Cardinality(SlackOf(ahead)) < MaxClients * Most
  BY <1>2, SlackFacts
<1>4. quota + Cardinality(SlackOf(ahead)) > rate_limit_floor /\ quota \in Nat
  BY DEF QuotaInvariant, Slack, ahead
<1>5. MaxClients * Most \in Nat
  BY MostFacts
<1> QED
  BY <1>1, <1>3, <1>4, <1>5, MostFacts

LEMMA AnAnswerIsSomething ==
    ASSUME ListingInvariant, NEW c \in Clients, at[c] \in Addresses, NEW status \in Statuses
    PROVE  Answer(status, c) # None /\ Answer(status, c).status = status
<1>1. at[c][1] = "page" => IsPage(at[c])
  BY DEF ListingInvariant, Sound
<1>2. Representation(at[c]) \in Pages
  BY <1>1, RepresentationIsPage
<1>3. NextLink(at[c]) \in Addresses \cup {None}
  <2>1. CASE at[c][1] = "page" /\ Len(Listed) > at[c][2] * PageSize
    <3>1. at[c][2] \in Nat \ {0} /\ PageSize \in Nat \ {0} /\ MaxRepositories \in Nat
      BY <1>1, <2>1, ClientAssumption DEF IsPage
    <3>2. at[c][2] * PageSize >= at[c][2]
      BY <3>1
    <3>3. Len(Listed) \in Nat /\ Len(Listed) <= MaxRepositories /\ at[c][2] * PageSize \in Nat
      BY <3>1, ListedIs
    <3>4. at[c][2] + 1 \in 1 .. MaxRepositories + 1
      BY <2>1, <3>1, <3>2, <3>3
    <3> QED
      BY <2>1, <3>4 DEF NextLink, Addresses
  <2> QED
    BY <2>1 DEF NextLink
<1>4. Answer(status, c) \in [status : Statuses, next : Addresses \cup {None}, page : Pages]
  BY <1>2, <1>3 DEF Answer
<1> QED
  BY <1>4, NoneAssumption DEF Answer, Pages

\* A request takes one of those its client may be charged for.
LEMMA AskKeeps ==
    ASSUME ListingInvariant, PagesInvariant, PagesInvariant', QuotaInvariant,
           NEW c \in Clients, Waiting(c), MayAsk(c),
           NEW status \in Statuses, status # "exhausted",
           answer' = [answer EXCEPT ![c] = Answer(status, c)],
           quota' \in {quota, Charged},
           \/ /\ remaining' = [remaining EXCEPT ![c] = quota']
              /\ passed' = [passed EXCEPT ![c] = FALSE]
           \/ status = "lost" /\ UNCHANGED <<remaining, passed>>,
           UNCHANGED <<at, lookups>>
    PROVE  QuotaInvariant'
<1>1. quota > 0 /\ Ahead(c) = 1 + Len(lookups[c]) /\ Ahead(c) \in 1 .. Most
  BY SomethingIsLeft
<1>2. quota \in Nat /\ quota' \in Nat /\ quota' >= quota - 1
  BY <1>1 DEF Charged, QuotaInvariant
<1>3. /\ remaining' \in [Clients -> Nat \cup {None}] /\ passed' \in [Clients -> BOOLEAN]
      /\ \A d \in Clients \ {c} : remaining'[d] = remaining[d] /\ passed'[d] = passed[d]
  BY <1>2 DEF QuotaInvariant
<1>4. /\ answer'[c] # None /\ answer'[c].status = status
      /\ \A d \in Clients \ {c} : answer'[d] = answer[d]
  <2>1. Answer(status, c) # None /\ Answer(status, c).status = status
    BY AnAnswerIsSomething DEF Waiting
  <2> QED
    BY <2>1 DEF ListingInvariant
<1> DEFINE old == [d \in Clients |-> Ahead(d)]
           new == [d \in Clients |-> Ahead(d)']
<1>5. old \in [Clients -> Nat] /\ new \in [Clients -> Nat]
  BY AheadIsNumber, AheadWillBeNumber
<1>6. Slack = SlackOf(old) /\ Slack' = SlackOf(new)
  BY DEF Slack
<1>7. \A d \in Clients \ {c} : Ahead(d)' = Ahead(d)
  BY <1>3, <1>4 DEF Ahead, Over, MayAsk
<1>8. ASSUME quota' <= rate_limit_floor
      PROVE  Ahead(c)' < Ahead(c)
  <2>1. CASE remaining' = [remaining EXCEPT ![c] = quota'] /\ passed' = [passed EXCEPT ![c] = FALSE]
    <3>1. remaining'[c] = quota' /\ ~ passed'[c] /\ quota' # None
      BY <1>2, <2>1, NoneAssumption DEF QuotaInvariant
    <3>2. Ahead(c)' = 0
      BY <1>8, <3>1 DEF Ahead, MayAsk
    <3> QED
      BY <1>1, <3>2
  <2>2. CASE status = "lost"
    <3>1. Ahead(c)' \in {0, Len(lookups[c])}
      BY <1>4, <2>2 DEF Ahead
    <3> QED
      BY <1>1, <3>1, AheadIsNumber
  <2> QED
    BY <2>1, <2>2
<1>9. quota' + Cardinality(Slack') > rate_limit_floor
  <2>1. Cardinality(SlackOf(new)) \in Nat /\ Cardinality(SlackOf(old)) \in Nat
    BY <1>5, SlackFacts
  <2>2. CASE quota' <= rate_limit_floor
    <3>1. Ahead(c)' < Ahead(c) /\ \A d \in Clients : Ahead(d)' <= Ahead(d)
      BY <1>7, <1>8, <2>2, AheadIsNumber, AheadWillBeNumber
    <3>2. \A d \in Clients : new[d] <= old[d]
      BY <3>1
    <3>3. new[c] < old[c] /\ old[c] \in 1 .. Most
      BY <1>1, <3>1
    <3> HIDE DEF old, new
    <3>4. Cardinality(SlackOf(old)) + 1 <= Cardinality(SlackOf(new))
      BY <1>5, <3>2, <3>3, SlackGrows
    <3>5. quota + Cardinality(SlackOf(old)) > rate_limit_floor
      BY <1>6 DEF QuotaInvariant
    <3> QED
      BY <1>2, <1>6, <2>1, <3>4, <3>5, MostFacts
  <2>3. CASE quota' > rate_limit_floor
    <3> HIDE DEF old, new
    <3> QED
      BY <1>2, <1>6, <2>1, <2>3, MostFacts
  <2> QED
    BY <1>2, <2>2, <2>3, MostFacts
<1>10. QuotaIsNeverSpent'
  BY <1>4 DEF QuotaIsNeverSpent, QuotaInvariant
<1> QED
  BY <1>2, <1>3, <1>9, <1>10 DEF QuotaInvariant

\* What takes nothing of the quota leaves every client at most as far ahead.
LEMMA NothingSpent ==
    ASSUME PagesInvariant, PagesInvariant', QuotaInvariant,
           UNCHANGED <<quota, remaining, passed>>,
           \A d \in Clients : answer'[d] \in {answer[d], None},
           \A d \in Clients : Ahead(d)' <= Ahead(d)
    PROVE  QuotaInvariant'
<1> DEFINE old == [d \in Clients |-> Ahead(d)]
           new == [d \in Clients |-> Ahead(d)']
<1>1. old \in [Clients -> Nat] /\ new \in [Clients -> Nat]
  BY AheadIsNumber, AheadWillBeNumber
<1>2. Slack = SlackOf(old) /\ Slack' = SlackOf(new)
  BY DEF Slack
<1>3. \A d \in Clients : new[d] <= old[d]
  OBVIOUS
<1> HIDE DEF old, new
<1>4. Cardinality(SlackOf(old)) <= Cardinality(SlackOf(new))
  BY <1>1, <1>3, SlackStays
<1>5. Cardinality(SlackOf(new)) \in Nat /\ Cardinality(SlackOf(old)) \in Nat
  BY <1>1, SlackFacts
<1>6. quota' + Cardinality(Slack') > rate_limit_floor
  BY <1>2, <1>4, <1>5, MostFacts DEF QuotaInvariant
<1>7. QuotaIsNeverSpent'
  BY DEF QuotaIsNeverSpent, QuotaInvariant
<1> QED
  BY <1>6, <1>7 DEF QuotaInvariant

\* A client that reads its answer may look up as many repositories as any, and
\* one whose answer was lost has one less.
LEMMA ReceiveKeeps ==
    ASSUME ListingInvariant, PagesInvariant, QuotaInvariant, NEW c \in Clients, Receive(c)
    PROVE  QuotaInvariant'
<1>1. /\ answer[c] # None /\ answer' = [answer EXCEPT ![c] = None]
      /\ UNCHANGED <<quota, remaining, passed>>
  BY DEF Receive
<1>2. /\ PagesInvariant'
      /\ \A d \in Clients \ {c} : lookups'[d] = lookups[d]
      /\ answer[c].status = "lost" =>
             at'[c] \in {Done, Failed} \/ 1 + Len(lookups'[c]) = Len(lookups[c])
  BY ReceivePages
<1>3. \A d \in Clients \ {c} : at'[d] = at[d] /\ answer'[d] = answer[d]
  BY <1>1, OthersStay DEF ListingInvariant
<1>4. answer'[c] = None
  BY <1>1 DEF ListingInvariant
<1>5. \A d \in Clients \ {c} : Ahead(d)' = Ahead(d)
  BY <1>1, <1>2, <1>3 DEF Ahead, Over, MayAsk
<1>6. Ahead(c)' <= Ahead(c)
  <2>1. MayAsk(c)' <=> MayAsk(c)
    BY <1>1 DEF MayAsk
  <2>2. ~ Over(c)
    BY <1>1 DEF ListingInvariant, Sound, Asked, Over, Done, Failed, Profile
  <2>3. 1 + Len(lookups'[c]) \in 1 .. Most /\ Ahead(c)' \in {0, 1 + Len(lookups'[c])}
    <3>1. 1 + Len(lookups'[c]) \in 1 .. Most
      BY <1>2, AheadWillBeNumber
    <3> QED
      BY <1>4, <3>1 DEF Ahead
  <2>4. Ahead(c) \in Nat
    BY AheadIsNumber
  <2>5. CASE ~MayAsk(c)
    BY <2>1, <2>4, <2>5 DEF Ahead
  <2>6. CASE MayAsk(c) /\ answer[c].status # "lost"
    <3>1. Ahead(c) = Most
      BY <1>1, <2>2, <2>6 DEF Ahead
    <3> QED
      BY <2>3, <3>1, MostFacts
  <2>7. CASE MayAsk(c) /\ answer[c].status = "lost"
    <3>1. Ahead(c) = Len(lookups[c])
      BY <1>1, <2>2, <2>7 DEF Ahead
    <3>2. CASE at'[c] \in {Done, Failed}
      BY <2>4, <3>2 DEF Ahead, Over
    <3>3. CASE 1 + Len(lookups'[c]) = Len(lookups[c])
      BY <2>3, <2>4, <3>1, <3>3
    <3> QED
      BY <1>2, <2>7, <3>2, <3>3
  <2> QED
    BY <2>5, <2>6, <2>7
<1>7. \A d \in Clients : Ahead(d)' <= Ahead(d)
  BY <1>5, <1>6, AheadIsNumber
<1>8. \A d \in Clients : answer'[d] \in {answer[d], None}
  BY <1>3, <1>4
<1> QED
  BY <1>1, <1>2, <1>7, <1>8, NothingSpent

LEMMA InitQuota == Init => QuotaInvariant
<1> SUFFICES ASSUME Init
             PROVE  QuotaInvariant
  OBVIOUS
<1>1. PagesInvariant
  BY InitPages
<1>2. [c \in Clients |-> Ahead(c)] \in [Clients -> Nat]
  BY <1>1, AheadIsNumber
<1>3. Cardinality(Slack) \in Nat
  BY <1>2, SlackFacts DEF Slack
<1>4. quota = Quota /\ Quota \in Nat /\ Quota > rate_limit_floor /\ rate_limit_floor \in Nat
  BY ClientAssumption DEF Init
<1> QED
  BY <1>3, <1>4 DEF Init, QuotaInvariant, QuotaIsNeverSpent

LEMMA StepQuota ==
    ListingInvariant /\ PagesInvariant /\ QuotaInvariant /\ [Next]_vars => QuotaInvariant'
<1> SUFFICES ASSUME ListingInvariant, PagesInvariant, QuotaInvariant, [Next]_vars
             PROVE  QuotaInvariant'
  OBVIOUS
<1>0. PagesInvariant'
  BY StepPages
<1>1. ASSUME NEW c \in Clients, Request(c)
      PROVE  QuotaInvariant'
  <2>1. Waiting(c) /\ MayAsk(c) /\ quota > 0
    BY <1>1, SomethingIsLeft DEF Request
  <2>2. PICK status \in {"200", "304"} :
            /\ answer' = [answer EXCEPT ![c] = Answer(status, c)]
            /\ quota' = IF status = "200" THEN Charged ELSE quota
            /\ remaining' = [remaining EXCEPT ![c] = quota']
            /\ passed' = [passed EXCEPT ![c] = FALSE]
            /\ UNCHANGED <<at, lookups>>
    <3>1. PICK status : status = IF cached[c] # None /\ cached[c] = Representation(at[c])
                                 THEN "304" ELSE "200"
      OBVIOUS
    <3>2. status \in {"200", "304"}
      BY <3>1
    <3>3. status = IF quota = 0 THEN "exhausted"
                   ELSE IF cached[c] # None /\ cached[c] = Representation(at[c])
                   THEN "304" ELSE "200"
      BY <2>1, <3>1 DEF QuotaInvariant
    <3> QED
      BY <1>1, <3>2, <3>3 DEF Request
  <2>3. quota' \in {quota, Charged} /\ status \in Statuses /\ status # "exhausted"
    BY <2>2 DEF Statuses
  <2> QED
    BY <1>0, <2>1, <2>2, <2>3, AskKeeps
<1>2. ASSUME NEW c \in Clients, Refusal(c)
      PROVE  QuotaInvariant'
  <2>1. PICK status \in {"throttled", "error"} :
            /\ answer' = [answer EXCEPT ![c] = Answer(status, c)]
            /\ quota' \in {quota, Charged}
            /\ remaining' = [remaining EXCEPT ![c] = quota']
    BY <1>2 DEF Refusal
  <2>2. /\ Waiting(c) /\ MayAsk(c) /\ UNCHANGED <<at, lookups>>
        /\ passed' = [passed EXCEPT ![c] = FALSE]
    BY <1>2 DEF Refusal
  <2>3. status \in Statuses /\ status # "exhausted"
    BY DEF Statuses
  <2> QED
    BY <1>0, <2>1, <2>2, <2>3, AskKeeps
<1>3. ASSUME NEW c \in Clients, Lose(c)
      PROVE  QuotaInvariant'
  <2>1. /\ Waiting(c) /\ MayAsk(c) /\ quota' \in {quota, Charged}
        /\ answer' = [answer EXCEPT ![c] = Answer("lost", c)]
        /\ UNCHANGED <<at, lookups, remaining, passed>>
    BY <1>3 DEF Lose
  <2>2. "lost" \in Statuses /\ "lost" # "exhausted"
    BY DEF Statuses
  <2> QED
    BY <1>0, <2>1, <2>2, AskKeeps
<1>4. ASSUME NEW c \in Clients, Begin(c)
      PROVE  QuotaInvariant'
  <2>1. /\ at[c] = New /\ at' = [at EXCEPT ![c] = Profile]
        /\ UNCHANGED <<quota, answer, remaining, passed, lookups>>
    BY <1>4 DEF Begin, Look
  <2>2. ASSUME NEW d \in Clients
        PROVE  Ahead(d)' = Ahead(d)
    <3>1. at'[d] = at[d] \/ (at[d] = New /\ at'[d] = Profile)
      BY <2>1 DEF ListingInvariant
    <3>2. Over(d)' <=> Over(d)
      BY <3>1 DEF Over, New, Profile, Done, Failed
    <3> QED
      BY <2>1, <3>2 DEF Ahead, MayAsk
  <2>3. \A d \in Clients : Ahead(d)' <= Ahead(d)
    BY <2>2, AheadIsNumber
  <2> QED
    BY <1>0, <2>1, <2>3, NothingSpent
<1>5. CASE (\E n \in Names : Change(n)) \/ UNCHANGED vars
  <2>1. UNCHANGED <<quota, answer, remaining, passed, at, lookups>>
    BY <1>5 DEF Change, client, vars
  <2>2. \A d \in Clients : Ahead(d)' <= Ahead(d)
    <3>1. \A d \in Clients : Ahead(d)' = Ahead(d)
      BY <2>1 DEF Ahead, Over, MayAsk
    <3> QED
      BY <3>1, AheadIsNumber
  <2> QED
    BY <1>0, <2>1, <2>2, NothingSpent
<1>6. CASE NewHour
  <2>1. /\ quota' = Quota /\ UNCHANGED <<remaining, answer>>
        /\ passed' = [c \in Clients |-> remaining[c] # None]
    BY <1>6 DEF NewHour, client
  <2>2. [d \in Clients |-> Ahead(d)'] \in [Clients -> Nat]
    BY <1>0, AheadWillBeNumber
  <2>3. Cardinality(Slack') \in Nat
    <3>1. Slack' = SlackOf([d \in Clients |-> Ahead(d)'])
      BY DEF Slack
    <3> QED
      BY <2>2, <3>1, SlackFacts
  <2>4. Quota \in Nat /\ Quota > rate_limit_floor /\ rate_limit_floor \in Nat
    BY ClientAssumption
  <2>5. QuotaIsNeverSpent'
    BY <2>1 DEF QuotaIsNeverSpent, QuotaInvariant
  <2> QED
    BY <2>1, <2>3, <2>4, <2>5 DEF QuotaInvariant
<1> QED
  BY <1>1, <1>2, <1>3, <1>4, <1>5, <1>6, ReceiveKeeps DEF Next, Step

\* What the quota stands at and what the clients may still spend of the floor,
\* at every moment.
THEOREM QuotaIsGuarded == Spec => [](PagesInvariant /\ QuotaInvariant)
<1> QED
  BY InitPages, StepPages, InitQuota, StepQuota, ListingIsFollowed, PTL DEF Spec

\* No request of the client is refused for want of quota, for any number of
\* clients that the floor is enough for, whichever answers are lost, however they
\* are interleaved, however often the account changes and hours end.
THEOREM QuotaIsEnough == Spec => []QuotaIsNeverSpent
<1>1. QuotaInvariant => QuotaIsNeverSpent
  BY DEF QuotaInvariant
<1> QED
  BY <1>1, QuotaIsGuarded, PTL

=============================================================================
