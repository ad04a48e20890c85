---------------------------- MODULE Cohort_proofs ----------------------------
(***************************************************************************)
(* What holds of every posting and cohort, by the parts of Cohort:         *)
(*                                                                         *)
(*   - of an account of any size the best by score and name are read, as   *)
(*     many as the limit says, and what matches nothing is never read in   *)
(*     the place of work the posting asks for;                             *)
(*   - a verdict on the four-fifths rule is right, although it compares    *)
(*     rates that were rounded;                                            *)
(*   - candidates whose bands overlap share a group, although only         *)
(*     neighbours are compared;                                            *)
(*   - what a posting asks for stays asked while it is written.            *)
(*                                                                         *)
(* The theorems of the specification are at the end.                       *)
(***************************************************************************)
EXTENDS Cohort, FiniteSetTheorems, SequenceTheorems, WellFoundedInduction,
        TLAPS

LEMMA MinOfTwo ==
    ASSUME NEW a \in Int, NEW b \in Int
    PROVE  Min({a, b}) = IF a <= b THEN a ELSE b
<1> DEFINE least == IF a <= b THEN a ELSE b
<1>1. least \in {a, b} /\ \A y \in {a, b} : least <= y
  OBVIOUS
<1>2. \A x \in {a, b} : (\A y \in {a, b} : x <= y) => x = least
  OBVIOUS
<1> QED
  BY <1>1, <1>2 DEF Min

\* A text of finitely many words has finitely many terms.
LEMMA TermsAreFinite ==
    ASSUME NEW words \in Seq(Words)
    PROVE  IsFiniteSet(Terms(words))
<1>1. words \in Surjection(DOMAIN words, Range(words))
  BY DEF Range, Surjection
<1>2. DOMAIN words = 1 .. Len(words) /\ Len(words) \in Nat
  OBVIOUS
<1>3. IsFiniteSet(DOMAIN words)
  BY <1>2, FS_Interval
<1>4. IsFiniteSet(Range(words))
  BY <1>1, <1>3, FS_Surjection
<1>5. Terms(words) \in SUBSET Range(words)
  BY DEF Terms, Range
<1> QED
  BY <1>4, <1>5, FS_Subset

-----------------------------------------------------------------------------
(* The points of a repository.                                             *)

\* The points a shared set of terms is worth, at most two of them.
LEMMA AtMostTwo ==
    ASSUME NEW words \in Seq(Words), NEW named
    PROVE  /\ Min({2, Cardinality(named \cap Terms(words))}) \in 0 .. 2
           /\ named \cap Terms(words) # {} =>
                  Min({2, Cardinality(named \cap Terms(words))}) \in 1 .. 2
<1> DEFINE shared == named \cap Terms(words)
<1>1. IsFiniteSet(shared)
  BY TermsAreFinite, FS_Subset
<1>2. Cardinality(shared) \in Nat
  BY <1>1, FS_CardinalityType
<1>3. shared # {} => Cardinality(shared) # 0
  BY <1>1, FS_EmptySet
<1> HIDE DEF shared
<1>4. Min({2, Cardinality(shared)}) =
          IF 2 <= Cardinality(shared) THEN 2 ELSE Cardinality(shared)
  BY <1>2, MinOfTwo
<1> QED
  BY <1>2, <1>3, <1>4 DEF shared

\* A repository in a language or on a topic of the posting has a match's points.
LEMMA MatchPoints ==
    ASSUME NEW words \in Seq(Words), NEW repo
    PROVE  /\ Matched(repo, words) \in Nat
           /\ (repo.language \in LanguagesNamed(words) \/ repo.topics \cap Terms(words) # {})
                  => Matched(repo, words) >= TOPIC_MATCH
<1> DEFINE topics == Min({2, Cardinality(repo.topics \cap Terms(words))})
           described == Min({2, Cardinality(repo.described \cap Terms(words))})
<1>1. topics \in 0 .. 2 /\ (repo.topics \cap Terms(words) # {} => topics \in 1 .. 2)
  BY AtMostTwo
<1>2. described \in 0 .. 2
  BY AtMostTwo
<1>3. Matched(repo, words) =
          (IF repo.language \in LanguagesNamed(words) THEN LANGUAGE_MATCH ELSE 0)
          + TOPIC_MATCH * topics + DESCRIPTION_MATCH * described
  BY DEF Matched
<1> HIDE DEF topics, described
<1> QED
  BY <1>1, <1>2, <1>3 DEF LANGUAGE_MATCH, TOPIC_MATCH, DESCRIPTION_MATCH

\* Size and recency are worth less than one topic.
LEMMA StandingPoints ==
    ASSUME NEW r \in DOMAIN Account
    PROVE  Standing(Account[r]) \in 0 .. SIZE_WEIGHT + RECENCY_WEIGHT
<1> DEFINE size == Min({Account[r].size, SIZE_WEIGHT})
<1>1. size \in 0 .. SIZE_WEIGHT
  <2>1. Account[r].size \in Nat /\ SIZE_WEIGHT \in Nat
    BY AccountAssumption DEF SIZE_WEIGHT
  <2>2. size = IF Account[r].size <= SIZE_WEIGHT THEN Account[r].size ELSE SIZE_WEIGHT
    BY <2>1, MinOfTwo
  <2> QED
    BY <2>1, <2>2
<1>2. RECENCY_WEIGHT \div 2 \in 0 .. RECENCY_WEIGHT
  BY DEF RECENCY_WEIGHT
<1> HIDE DEF size
<1>3. CASE Account[r].pushed = "recently"
  <2>1. Standing(Account[r]) = size + RECENCY_WEIGHT
    BY <1>3 DEF Standing, size
  <2> QED
    BY <1>1, <2>1 DEF SIZE_WEIGHT, RECENCY_WEIGHT
<1>4. CASE Account[r].pushed = "last year"
  <2>1. Standing(Account[r]) = size + RECENCY_WEIGHT \div 2
    BY <1>4 DEF Standing, size
  <2> QED
    BY <1>1, <1>2, <2>1 DEF SIZE_WEIGHT, RECENCY_WEIGHT
<1>5. CASE Account[r].pushed = "long ago"
  <2>1. Standing(Account[r]) = size + 0
    BY <1>5 DEF Standing, size
  <2> QED
    BY <1>1, <2>1 DEF SIZE_WEIGHT, RECENCY_WEIGHT
<1> QED
  BY <1>3, <1>4, <1>5, AccountAssumption

\* Points are whole numbers, and a match outweighs all else that speaks for a
\* repository, unless it is a fork.
LEMMA MatchOutweighs ==
    ASSUME NEW words \in Seq(Words), NEW r \in DOMAIN Account
    PROVE  LET points == RepositoryScore(Account[r], words)
           IN  /\ points \in Int
               /\ /\ ~Account[r].fork
                  /\ \/ Account[r].language \in LanguagesNamed(words)
                     \/ Account[r].topics \cap Terms(words) # {}
                  => points >= TOPIC_MATCH
               /\ ~(Matched(Account[r], words) > 0) => points < TOPIC_MATCH
<1> DEFINE matched == Matched(Account[r], words)
           standing == Standing(Account[r])
<1>1. matched \in Nat
  BY MatchPoints
<1>2. /\ Account[r].language \in LanguagesNamed(words)
         \/ Account[r].topics \cap Terms(words) # {}
      => matched >= TOPIC_MATCH
  BY MatchPoints
<1>3. standing \in 0 .. SIZE_WEIGHT + RECENCY_WEIGHT
  BY StandingPoints
<1>4. Account[r].fork \in BOOLEAN
  BY AccountAssumption
<1>5. RepositoryScore(Account[r], words) =
          matched + (IF Account[r].fork THEN FORK_PENALTY ELSE 0) + standing
  BY DEF RepositoryScore
<1> HIDE DEF matched, standing
<1>6. SIZE_WEIGHT + RECENCY_WEIGHT = 250 /\ TOPIC_MATCH = 300 /\ FORK_PENALTY = -400
  BY DEF SIZE_WEIGHT, RECENCY_WEIGHT, TOPIC_MATCH, FORK_PENALTY
<1> QED
  BY <1>1, <1>2, <1>3, <1>4, <1>5, <1>6 DEF matched

-----------------------------------------------------------------------------
(* The cut.                                                                *)

\* The order of select_repositories: by points, then by name.
Ahead(words, q, r) ==
    LET points == [s \in DOMAIN Account |-> RepositoryScore(Account[s], words)]
    IN  \/ points[q] > points[r]
        \/ points[q] = points[r] /\ q < r

AheadOf(words, r) == {q \in DOMAIN Account : Ahead(words, q, r)}

\* An account is a finite list, and its order is total.
LEMMA OrderOfTheAccount ==
    ASSUME NEW words \in Seq(Words)
    PROVE  /\ DOMAIN Account \subseteq Nat /\ IsFiniteSet(DOMAIN Account)
           /\ \A q, r \in DOMAIN Account :
                  /\ q # r /\ ~Ahead(words, q, r) => Ahead(words, r, q)
                  /\ Ahead(words, q, r) => ~Ahead(words, r, q)
           /\ \A q, r, s \in DOMAIN Account :
                  Ahead(words, q, r) /\ Ahead(words, r, s) => Ahead(words, q, s)
<1>1. DOMAIN Account = 1 .. Len(Account) /\ Len(Account) \in Nat
  BY AccountAssumption, LenProperties
<1>2. IsFiniteSet(DOMAIN Account)
  BY <1>1, FS_Interval
<1>3. DOMAIN Account \subseteq Nat
  BY <1>1
<1>4. PICK points : points = [s \in DOMAIN Account |-> RepositoryScore(Account[s], words)]
  OBVIOUS
<1>5. \A s \in DOMAIN Account : points[s] \in Int
  BY <1>4, MatchOutweighs
<1>6. \A q, r \in DOMAIN Account :
          Ahead(words, q, r) <=> \/ points[q] > points[r]
                                 \/ points[q] = points[r] /\ q < r
  BY <1>4 DEF Ahead
<1>7. \A q, r \in DOMAIN Account :
          /\ q # r /\ ~Ahead(words, q, r) => Ahead(words, r, q)
          /\ Ahead(words, q, r) => ~Ahead(words, r, q)
  BY <1>3, <1>5, <1>6
<1>8. \A q, r, s \in DOMAIN Account :
          Ahead(words, q, r) /\ Ahead(words, r, s) => Ahead(words, q, s)
  BY <1>3, <1>5, <1>6
<1> QED
  BY <1>2, <1>3, <1>7, <1>8

\* A large account is cut to those with fewer than the limit ahead of them.
LEMMA TheCut ==
    ASSUME NEW words \in Seq(Words)
    PROVE  SelectRepositories(Account, words) =
               IF Len(Account) <= relevance_threshold
               THEN DOMAIN Account
               ELSE {r \in DOMAIN Account :
                        Cardinality(AheadOf(words, r)) < relevance_limit}
BY DEF SelectRepositories, AheadOf, Ahead

\* Who is ahead has fewer ahead of them.
LEMMA FewerAhead ==
    ASSUME NEW words \in Seq(Words), NEW q \in DOMAIN Account, NEW r \in DOMAIN Account,
           Ahead(words, q, r)
    PROVE  /\ Cardinality(AheadOf(words, q)) \in Nat
           /\ Cardinality(AheadOf(words, r)) \in Nat
           /\ Cardinality(AheadOf(words, q)) < Cardinality(AheadOf(words, r))
<1> DEFINE less == AheadOf(words, q)
           more == AheadOf(words, r)
<1>1. IsFiniteSet(more) /\ IsFiniteSet(less)
  BY OrderOfTheAccount, FS_Subset DEF AheadOf
<1>2. less \subseteq more /\ q \in more /\ q \notin less
  BY OrderOfTheAccount DEF AheadOf
<1> HIDE DEF less, more
<1>3. Cardinality(less) \in Nat /\ Cardinality(more) \in Nat
  BY <1>1, FS_CardinalityType
<1>4. Cardinality(less) <= Cardinality(more) /\ Cardinality(less) # Cardinality(more)
  BY <1>1, <1>2, FS_Subset
<1> QED
  BY <1>3, <1>4 DEF less, more

\* What is read is ahead of what is not.
LEMMA ReadIsAhead ==
    ASSUME NEW words \in Seq(Words),
           NEW q \in SelectRepositories(Account, words),
           NEW r \in DOMAIN Account \ SelectRepositories(Account, words)
    PROVE  q \in DOMAIN Account /\ Ahead(words, q, r)
<1>1. /\ q \in DOMAIN Account
      /\ Cardinality(AheadOf(words, q)) < relevance_limit
      /\ ~(Cardinality(AheadOf(words, r)) < relevance_limit)
  BY TheCut
<1>2. relevance_limit \in Nat
  BY SelectionAssumption
<1>3. q # r
  OBVIOUS
<1>4. SUFFICES ASSUME Ahead(words, r, q)
               PROVE  FALSE
  BY <1>1, <1>3, OrderOfTheAccount
<1>5. /\ Cardinality(AheadOf(words, r)) \in Nat
      /\ Cardinality(AheadOf(words, q)) \in Nat
      /\ Cardinality(AheadOf(words, r)) < Cardinality(AheadOf(words, q))
  BY <1>1, <1>4, FewerAhead
<1> QED
  BY <1>1, <1>2, <1>5

\* For every posting and account: no repository that matches nothing is read in
\* the place of work of the candidate's own that the posting asks for.
LEMMA MatchIsRead ==
    ASSUME text \in Seq(Words)
    PROVE  MatchIsNeverCrowdedOut
<1> SUFFICES ASSUME NEW r \in DOMAIN Account \ SelectRepositories(Account, text),
                    NEW q \in SelectRepositories(Account, text),
                    ~Account[r].fork,
                    \/ Account[r].language \in LanguagesNamed(text)
                    \/ Account[r].topics \cap Terms(text) # {}
             PROVE  Matched(Account[q], text) > 0
  BY DEF MatchIsNeverCrowdedOut
<1> DEFINE points(s) == RepositoryScore(Account[s], text)
<1>1. q \in DOMAIN Account /\ Ahead(text, q, r)
  BY ReadIsAhead
<1>2. points(q) >= points(r)
  <2>1. points(q) \in Int /\ points(r) \in Int
    BY <1>1, MatchOutweighs
  <2>2. points(q) > points(r) \/ points(q) = points(r)
    BY <1>1 DEF Ahead
  <2> QED
    BY <2>1, <2>2
<1>3. points(r) \in Int /\ points(r) >= TOPIC_MATCH
  BY MatchOutweighs
<1>4. points(q) \in Int /\ (~(Matched(Account[q], text) > 0) => points(q) < TOPIC_MATCH)
  BY <1>1, MatchOutweighs
<1> HIDE DEF points
<1> QED
  BY <1>2, <1>3, <1>4 DEF TOPIC_MATCH

\* However large the account, no more repositories are read than the limit says:
\* each has another number of others ahead of it, and fewer than the limit.
THEOREM TheLimitHolds ==
    ASSUME NEW words \in Seq(Words), Len(Account) > relevance_threshold
    PROVE  /\ IsFiniteSet(SelectRepositories(Account, words))
           /\ Cardinality(SelectRepositories(Account, words)) <= relevance_limit
<1> DEFINE selected == SelectRepositories(Account, words)
           places == 0 .. relevance_limit - 1
           place == [r \in selected |-> Cardinality(AheadOf(words, r))]
<1>1. Len(Account) \in Nat /\ {relevance_threshold, relevance_limit} \subseteq Nat
  BY AccountAssumption, SelectionAssumption, LenProperties
<1>2. selected = {r \in DOMAIN Account : Cardinality(AheadOf(words, r)) < relevance_limit}
  BY <1>1, TheCut
<1>3. \A r \in selected : Cardinality(AheadOf(words, r)) \in Nat
  <2> TAKE r \in selected
  <2>1. IsFiniteSet(AheadOf(words, r))
    BY OrderOfTheAccount, FS_Subset DEF AheadOf
  <2> QED
    BY <2>1, FS_CardinalityType
<1>4. place \in [selected -> places]
  BY <1>1, <1>2, <1>3
<1>5. \A q, r \in selected : q # r => place[q] # place[r]
  <2> SUFFICES ASSUME NEW q \in selected, NEW r \in selected, q # r
               PROVE  place[q] # place[r]
    OBVIOUS
  <2>1. q \in DOMAIN Account /\ r \in DOMAIN Account
    BY <1>2
  <2>2. Ahead(words, q, r) \/ Ahead(words, r, q)
    BY <2>1, OrderOfTheAccount
  <2>3. ASSUME NEW a \in DOMAIN Account, NEW b \in DOMAIN Account, Ahead(words, a, b)
        PROVE  Cardinality(AheadOf(words, a)) # Cardinality(AheadOf(words, b))
    BY <2>3, FewerAhead
  <2> QED
    BY <2>1, <2>2, <2>3
<1> HIDE DEF selected, place
<1>6. place \in Injection(selected, places)
  BY <1>4, <1>5 DEF Injection, IsInjective
<1>7. IsFiniteSet(places) /\ Cardinality(places) = relevance_limit
  <2>1. relevance_limit \in Nat /\ 0 \in Int /\ relevance_limit - 1 \in Int
    BY <1>1
  <2>2. /\ IsFiniteSet(places)
        /\ Cardinality(places) =
               IF 0 > relevance_limit - 1 THEN 0 ELSE (relevance_limit - 1) - 0 + 1
    BY <2>1, FS_Interval
  <2> QED
    BY <2>1, <2>2
<1>8. IsFiniteSet(selected) /\ Cardinality(selected) <= Cardinality(places)
  BY <1>6, <1>7, FS_Injection
<1> QED
  BY <1>7, <1>8 DEF selected

-----------------------------------------------------------------------------
(* The verdict on the four-fifths rule.                                    *)

\* What multiplies to a natural number is left to arithmetic here alone.
LEMMA Product ==
    ASSUME NEW a \in Nat, NEW b \in Nat
    PROVE  a * b \in Nat
OBVIOUS

\* Numbers have a least and a greatest.
LEMMA LeastAndGreatest ==
    ASSUME NEW top \in Nat, NEW numbers \in SUBSET (0 .. top), numbers # {}
    PROVE  /\ Min(numbers) \in numbers /\ \A x \in numbers : Min(numbers) <= x
           /\ Max(numbers) \in numbers /\ \A x \in numbers : Max(numbers) >= x
<1>1. ASSUME NEW some \in SUBSET Nat, some # {}
      PROVE  \E x \in some : \A y \in some : x <= y
  <2>1. PICK x \in some : \A y \in some : ~(<<y, x>> \in OpToRel(<, Nat))
    BY <1>1, NatLessThanWellFounded, WFMin
  <2>2. \A y \in some : y \in Nat /\ x \in Nat /\ ~(y < x)
    BY <2>1 DEF OpToRel
  <2> QED
    BY <2>2
<1>2. \E x \in numbers : \A y \in numbers : x <= y
  BY <1>1
<1>3. \E x \in numbers : \A y \in numbers : x >= y
  <2> DEFINE mirrored == {top - x : x \in numbers}
  <2>1. mirrored \in SUBSET Nat /\ mirrored # {}
    <3>1. \A x \in numbers : top - x \in Nat
      OBVIOUS
    <3> QED
      BY <3>1, Zenon
  <2>2. \E z \in mirrored : \A y \in mirrored : z <= y
    <3> HIDE DEF mirrored
    <3> QED
      BY <1>1, <2>1
  <2>3. PICK x \in numbers : \A y \in numbers : top - x <= top - y
    BY <2>2
  <2>4. \A y \in numbers : x >= y
    BY <2>3
  <2> QED
    BY <2>4
<1> QED
  BY <1>2, <1>3 DEF Min, Max

\* A rounded rate is within half a millionth of the rate.
LEMMA Rounded ==
    ASSUME NEW n \in Nat, NEW d \in Nat, d > 0
    PROVE  /\ Quotient(n, d) \in Nat
           /\ (2 * d) * Quotient(n, d) <= 2 * n + d
           /\ 2 * n < (2 * d) * Quotient(n, d) + d
<1> DEFINE e == 2 * d
           m == 2 * n + d
           q == m \div e
<1>1. e \in Nat /\ e > 0 /\ m \in Nat
  OBVIOUS
<1> HIDE DEF e, m
<1>2. q \in Int /\ e * q <= m /\ m < e * q + e
  BY <1>1
<1>3. q \in Nat
  BY <1>1
<1> HIDE DEF q
<1>4. e * q \in Nat
  BY <1>1, <1>3, Product
<1> QED
  BY <1>2, <1>3, <1>4 DEF q, e, m, Quotient

LEMMA OneIsPositive == One \in Nat /\ One > 0
BY SMT DEF One

\* Comparing rounded rates errs at most at four fifths exactly: s of m are
\* selected here, t of n there.
LEMMA RoundedRatesCompare ==
    ASSUME NEW m \in Nat, m > 0, NEW n \in Nat, n > 0, 9 * (m * n) < 2 * One,
           NEW s \in Nat, NEW t \in Nat,
           NEW p \in Nat, NEW q \in Nat,
           (2 * m) * p <= 2 * (One * s) + m, 2 * (One * s) < (2 * m) * p + m,
           (2 * n) * q <= 2 * (One * t) + n, 2 * (One * t) < (2 * n) * q + n
    PROVE  /\ 5 * p >= 4 * q => 5 * (s * n) >= 4 * (t * m)
           /\ 5 * (s * n) > 4 * (t * m) => 5 * p > 4 * q
<1> DEFINE P == (2 * m) * p
           Q == (2 * n) * q
           S == 2 * (One * s)
           T == 2 * (One * t)
           ahead == 5 * (s * n) - 4 * (t * m)
           rounded == 5 * p - 4 * q
           common == m * n
<1>1. One \in Nat /\ One > 0
  BY OneIsPositive
<1>2. P \in Nat /\ Q \in Nat /\ S \in Nat /\ T \in Nat
  BY <1>1, Product
<1>3. ahead \in Int /\ rounded \in Int /\ common \in Nat /\ common > 0
  BY Product
<1>4. 5 * (P * n) - 4 * (Q * m) = 2 * (common * rounded)
  OBVIOUS
<1>5. 5 * (S * n) - 4 * (T * m) = 2 * (One * ahead)
  BY <1>1
<1>6. /\ n * (S + m - P) \in Nat /\ n * (P + m - S) \in Nat
      /\ m * (T + n - Q) \in Nat /\ m * (Q + n - T) \in Nat
  BY <1>2, Product
<1>7. /\ P * n <= S * n + common /\ S * n <= P * n + common
      /\ Q * m <= T * m + common /\ T * m <= Q * m + common
  BY <1>2, <1>6
<1>8. /\ P * n \in Nat /\ Q * m \in Nat /\ S * n \in Nat /\ T * m \in Nat
      /\ common * rounded \in Int /\ One * ahead \in Int
  BY <1>1, <1>2, <1>3, Product
<1>9. /\ ahead <= -1 => One * ahead <= -One
      /\ ahead >= 1 => One * ahead >= One
      /\ rounded >= 0 => common * rounded >= 0
      /\ rounded <= 0 => common * rounded <= 0
  BY <1>1, <1>3
<1> HIDE DEF P, Q, S, T, common
<1>10. ASSUME rounded >= 0
       PROVE  ahead >= 0
  BY <1>1, <1>3, <1>4, <1>5, <1>7, <1>8, <1>9, <1>10 DEF common
<1>11. ASSUME ahead >= 1
       PROVE  rounded >= 1
  BY <1>1, <1>3, <1>4, <1>5, <1>7, <1>8, <1>9, <1>11 DEF common
<1> QED
  BY <1>3, <1>10, <1>11

\* Cohorts in which the counts of two groups are told apart by their rounded rates.
Comparable == CohortSize <= 942

\* The groups share nobody, so the more are in one, the fewer are in the other.
LEMMA CountsAreTold ==
    ASSUME Comparable, NEW m \in Nat, NEW n \in Nat, m + n <= CohortSize
    PROVE  9 * (m * n) < 2 * One
<1>1. m * n \in Nat
  BY Product
<1>2. m + n <= 942
  BY CohortAssumption DEF Comparable
<1>3. (m - 471) * (m - 471) >= 0
  <2>1. CASE m >= 471
    BY <2>1, Product
  <2>2. CASE m < 471
    <3>1. (471 - m) * (471 - m) \in Nat /\ (471 - m) * (471 - m) = (m - 471) * (m - 471)
      BY <2>2, Product
    <3> QED
      BY <3>1
  <2> QED
    BY <2>1, <2>2
<1>4. m * (942 - m) <= 221841
  BY <1>3
<1>5. m * ((942 - m) - n) \in Nat
  BY <1>2, Product
<1>6. m * n <= m * (942 - m)
  BY <1>1, <1>5
<1> QED
  BY <1>1, <1>4, <1>6, SMT DEF One

\* Everybody has a score, or None for one.
EverybodyIsScored == DOMAIN scores = Candidates

\* The groups are counted among the candidates, and their rates are rounded.
LEMMA GroupsAreCounted ==
    ASSUME EverybodyIsScored, NEW g \in LabelledGroups
    PROVE  LET n == Cardinality(Considered(g))
               s == Cardinality(SelectedOf(g))
               q == SelectionRate(g)
           IN  /\ n \in 1 .. CohortSize /\ s \in Nat
               /\ IsFiniteSet(Considered(g)) /\ Considered(g) \subseteq Candidates
               /\ s > 0 => SelectedOf(g) # {}
               /\ q \in 0 .. One
               /\ (2 * n) * q <= 2 * (One * s) + n
               /\ 2 * (One * s) < (2 * n) * q + n
<1> DEFINE n == Cardinality(Considered(g))
           s == Cardinality(SelectedOf(g))
           q == SelectionRate(g)
<1>1. CohortSize \in Nat
  BY CohortAssumption
<1>2. IsFiniteSet(Candidates) /\ Cardinality(Candidates) = CohortSize
  BY <1>1, FS_Interval DEF Candidates
<1>3. /\ SelectedOf(g) \subseteq Considered(g) /\ Considered(g) \subseteq Candidates
      /\ Considered(g) # {}
  BY DEF SelectedOf, Considered, Scored, LabelledGroups, EverybodyIsScored
<1>4. IsFiniteSet(Considered(g)) /\ n <= CohortSize
  BY <1>2, <1>3, FS_Subset
<1>5. IsFiniteSet(SelectedOf(g)) /\ s <= n
  BY <1>3, <1>4, FS_Subset
<1>6. s \in Nat /\ n \in Nat /\ n # 0 /\ (s # 0 => SelectedOf(g) # {})
  BY <1>3, <1>4, <1>5, FS_CardinalityType, FS_EmptySet
<1>7. q = Quotient(One * s, n)
  BY DEF SelectionRate
<1> HIDE DEF n, s, q
<1>8. One \in Nat /\ One * s \in Nat
  BY <1>6, OneIsPositive, Product
<1>9. q \in Nat /\ (2 * n) * q <= 2 * (One * s) + n /\ 2 * (One * s) < (2 * n) * q + n
  BY <1>6, <1>7, <1>8, Rounded
<1>10. q <= One
  <2>1. SUFFICES ASSUME q >= One + 1
                 PROVE  FALSE
    BY <1>8, <1>9
  <2>2. n * (q - (One + 1)) \in Nat /\ One * (n - s) \in Nat
    BY <1>5, <1>6, <1>8, <1>9, <2>1, Product
  <2>3. n * (q - (One + 1)) = n * q - n * One - n /\ One * (n - s) = n * One - One * s
    BY <1>6, <1>8, <1>9
  <2>4. n * q \in Nat /\ n * One \in Nat /\ (2 * n) * q = 2 * (n * q)
    BY <1>6, <1>8, <1>9, Product
  <2> QED
    BY <1>6, <1>8, <1>9, <2>2, <2>3, <2>4
<1>11. n \in 1 .. CohortSize /\ q \in 0 .. One /\ (s > 0 => SelectedOf(g) # {})
  BY <1>1, <1>4, <1>6, <1>8, <1>9, <1>10
<1> QED
  BY <1>3, <1>4, <1>6, <1>9, <1>11 DEF n, s, q

\* Nobody is in two groups.
LEMMA GroupsAreApart ==
    ASSUME EverybodyIsScored, NEW g \in LabelledGroups, NEW h \in LabelledGroups, g # h
    PROVE  Cardinality(Considered(g)) + Cardinality(Considered(h)) <= CohortSize
<1>1. CohortSize \in Nat /\ IsFiniteSet(Candidates) /\ Cardinality(Candidates) = CohortSize
  BY CohortAssumption, FS_Interval DEF Candidates
<1> DEFINE A == Considered(g)
           B == Considered(h)
<1>2. IsFiniteSet(A) /\ IsFiniteSet(B) /\ A \cup B \subseteq Candidates
  BY GroupsAreCounted
<1>3. A \cap B = {}
  BY DEF Considered
<1> HIDE DEF A, B
<1>4. Cardinality(A \cup B) = Cardinality(A) + Cardinality(B)
  <2>1. Cardinality(A \cup B) = Cardinality(A) + Cardinality(B) - Cardinality(A \cap B)
    BY <1>2, FS_Union
  <2>2. Cardinality(A) \in Nat /\ Cardinality(B) \in Nat /\ Cardinality(A \cap B) = 0
    BY <1>2, <1>3, FS_CardinalityType, FS_EmptySet
  <2> QED
    BY <2>1, <2>2
<1>5. Cardinality(A \cup B) <= CohortSize
  BY <1>1, <1>2, FS_Subset
<1> QED
  BY <1>4, <1>5 DEF A, B

\* A verdict that is given is right.
LEMMA VerdictIsRight ==
    ASSUME Comparable, EverybodyIsScored
    PROVE  VerdictIsFourFifths
<1> DEFINE rates == {SelectionRate(g) : g \in LabelledGroups}
           ahead(g, h) == 5 * Share(g, h) - 4 * Share(h, g)
<1> SUFFICES ASSUME PassesFourFifths # None
             PROVE  /\ \A g \in LabelledGroups : Cardinality(Considered(g)) > 1
                    /\ PassesFourFifths =>
                           /\ \E g \in LabelledGroups : SelectedOf(g) # {}
                           /\ \A g, h \in LabelledGroups : 5 * Share(g, h) >= 4 * Share(h, g)
                    /\ ~PassesFourFifths =>
                           \E g, h \in LabelledGroups : 5 * Share(g, h) <= 4 * Share(h, g)
  BY DEF VerdictIsFourFifths
<1>1. Judged
  BY DEF PassesFourFifths
<1>2. PassesFourFifths <=> Max(rates) > 0 /\ AtLeastFourFifths(Min(rates), Max(rates))
  BY <1>1 DEF PassesFourFifths
<1>3. LabelledGroups # {}
  <2>1. Cardinality({}) = 0
    BY FS_EmptySet
  <2> QED
    BY <1>1, <2>1 DEF Judged
<1>4. \A g \in LabelledGroups :
          /\ Cardinality(Considered(g)) \in 1 .. CohortSize
          /\ Cardinality(SelectedOf(g)) \in Nat
          /\ SelectionRate(g) \in 0 .. One
          /\ SelectionRate(g) \in Nat
  BY GroupsAreCounted, OneIsPositive
<1>5. /\ Min(rates) \in rates /\ \A x \in rates : Min(rates) <= x
      /\ Max(rates) \in rates /\ \A x \in rates : Max(rates) >= x
  <2>1. rates \in SUBSET (0 .. One) /\ rates # {}
    BY <1>3, <1>4
  <2> HIDE DEF rates
  <2> QED
    BY <2>1, LeastAndGreatest, OneIsPositive
<1>6. PICK least \in LabelledGroups : SelectionRate(least) = Min(rates)
  BY <1>5
<1>7. PICK most \in LabelledGroups : SelectionRate(most) = Max(rates)
  BY <1>5
<1>8. \A g \in LabelledGroups :
          /\ SelectionRate(least) <= SelectionRate(g)
          /\ SelectionRate(g) <= SelectionRate(most)
  BY <1>5, <1>6, <1>7
<1> HIDE DEF rates
<1>9. ASSUME NEW g \in LabelledGroups, NEW h \in LabelledGroups
      PROVE  /\ Share(g, h) \in Nat
             /\ 5 * SelectionRate(g) >= 4 * SelectionRate(h) =>
                    5 * Share(g, h) >= 4 * Share(h, g)
             /\ 5 * Share(g, h) > 4 * Share(h, g) =>
                    5 * SelectionRate(g) > 4 * SelectionRate(h)
  <2> DEFINE m == Cardinality(Considered(g))
             n == Cardinality(Considered(h))
             s == Cardinality(SelectedOf(g))
             t == Cardinality(SelectedOf(h))
             p == SelectionRate(g)
             q == SelectionRate(h)
  <2>1. /\ m \in 1 .. CohortSize /\ n \in 1 .. CohortSize
        /\ s \in Nat /\ t \in Nat /\ p \in Nat /\ q \in Nat
        /\ (2 * m) * p <= 2 * (One * s) + m /\ 2 * (One * s) < (2 * m) * p + m
        /\ (2 * n) * q <= 2 * (One * t) + n /\ 2 * (One * t) < (2 * n) * q + n
    BY <1>4, GroupsAreCounted
  <2>2. Share(g, h) = s * n /\ Share(h, g) = t * m
    BY DEF Share
  <2> HIDE DEF m, n, s, t, p, q
  <2>3. /\ m \in Nat /\ m > 0 /\ m \in 0 .. CohortSize
        /\ n \in Nat /\ n > 0 /\ n \in 0 .. CohortSize
    BY <2>1, CohortAssumption
  <2>4. ASSUME g # h
        PROVE  /\ 5 * p >= 4 * q => 5 * (s * n) >= 4 * (t * m)
               /\ 5 * (s * n) > 4 * (t * m) => 5 * p > 4 * q
    <3>1. m + n <= CohortSize
      BY <2>4, GroupsAreApart DEF m, n
    <3>2. 9 * (m * n) < 2 * One
      BY <2>3, <3>1, CountsAreTold
    <3> QED
      BY <2>1, <2>3, <3>2, RoundedRatesCompare
  \* A group is at least as well off as it is, and somebody selected is a rate.
  <2>5. ASSUME g = h
        PROVE  /\ 5 * (s * n) >= 4 * (t * m)
               /\ 5 * (s * n) > 4 * (t * m) => 5 * p > 4 * q
    <3>1. s = t /\ m = n /\ p = q /\ s * n \in Nat
      BY <2>1, <2>3, <2>5, Product DEF m, n, s, t, p, q
    <3>2. ASSUME p = 0
          PROVE  s = 0
      <4>1. 2 * (One * s) < m
        BY <2>1, <2>3, <3>2
      <4>2. m <= 942 /\ One > 942
        BY <2>3, CohortAssumption, SMT DEF Comparable, One
      <4>3. s >= 1 => One * s >= One
        <5>1. s >= 1 => One * (s - 1) \in Nat /\ One * (s - 1) = One * s - One
          BY <2>1, OneIsPositive, Product
        <5>2. One * s \in Nat
          BY <2>1, OneIsPositive, Product
        <5> QED
          BY <5>1, <5>2, OneIsPositive
      <4>4. One * s \in Nat /\ One \in Nat
        BY <2>1, OneIsPositive, Product
      <4> QED
        BY <2>1, <2>3, <4>1, <4>2, <4>3, <4>4
    <3>3. s = 0 => s * n = 0
      BY <2>3
    <3> QED
      BY <2>1, <3>1, <3>2, <3>3
  <2>6. s * n \in Nat
    BY <2>1, <2>3, Product
  <2> QED
    BY <2>2, <2>4, <2>5, <2>6 DEF p, q
<1>10. \A g \in LabelledGroups : Cardinality(Considered(g)) > 1
  BY <1>1, <1>4 DEF Judged, MIN_GROUP_SIZE
<1>11. ASSUME PassesFourFifths
       PROVE  /\ \E g \in LabelledGroups : SelectedOf(g) # {}
              /\ \A g, h \in LabelledGroups : 5 * Share(g, h) >= 4 * Share(h, g)
  <2>1. SelectionRate(most) > 0 /\ 5 * SelectionRate(least) >= 4 * SelectionRate(most)
    BY <1>2, <1>4, <1>6, <1>7, <1>11 DEF AtLeastFourFifths
  <2>2. SelectedOf(most) # {}
    <3>1. SUFFICES ASSUME Cardinality(SelectedOf(most)) = 0
                   PROVE  FALSE
      BY <1>4, GroupsAreCounted
    <3> DEFINE n == Cardinality(Considered(most))
               q == SelectionRate(most)
    <3>2. (2 * n) * q <= 2 * (One * 0) + n
      BY <3>1, GroupsAreCounted
    <3>3. n \in Nat /\ n > 0 /\ q \in Nat /\ q > 0
      BY <1>4, <2>1, CohortAssumption
    <3> HIDE DEF n, q
    <3>4. n * (q - 1) \in Nat /\ n * (q - 1) = n * q - n /\ (2 * n) * q = 2 * (n * q)
      BY <3>3, Product
    <3>5. n * q \in Nat /\ One * 0 = 0
      BY <3>3, Product, OneIsPositive
    <3> QED
      BY <3>2, <3>3, <3>4, <3>5
  <2>3. ASSUME NEW g \in LabelledGroups, NEW h \in LabelledGroups
        PROVE  5 * Share(g, h) >= 4 * Share(h, g)
    <3>1. 5 * SelectionRate(g) >= 4 * SelectionRate(h)
      BY <1>4, <1>8, <2>1
    <3> QED
      BY <1>9, <3>1
  <2> QED
    BY <2>2, <2>3
<1>12. ASSUME ~PassesFourFifths
       PROVE  5 * Share(least, most) <= 4 * Share(most, least)
              \/ 5 * Share(most, most) <= 4 * Share(most, most)
  <2>1. SUFFICES ASSUME 5 * Share(least, most) > 4 * Share(most, least)
                 PROVE  FALSE
    BY <1>9
  <2>2. 5 * SelectionRate(least) > 4 * SelectionRate(most)
    BY <1>9, <2>1
  <2>3. SelectionRate(most) > 0
    BY <1>4, <1>8, <2>2
  <2> QED
    BY <1>2, <1>6, <1>7, <1>12, <2>2, <2>3 DEF AtLeastFourFifths
<1> QED
  BY <1>10, <1>11, <1>12

-----------------------------------------------------------------------------
(* The tie groups.                                                         *)

\* Candidates that can be ordered: finitely many, with numbers for scores.
Orderable(scored) ==
    /\ IsFiniteSet(Scored(scored)) /\ Scored(scored) \subseteq Int
    /\ \A c \in Scored(scored) : scored[c].score \in Int /\ scored[c].width \in Int

\* The order of compare is total.
LEMMA AboveIsTotal ==
    ASSUME NEW scored, Orderable(scored),
           NEW a \in Scored(scored), NEW b \in Scored(scored)
    PROVE  /\ a # b /\ ~Above(scored, a, b) => Above(scored, b, a)
           /\ Above(scored, a, b) => ~Above(scored, b, a)
           /\ ~Above(scored, a, a)
           /\ \A c \in Scored(scored) :
                  Above(scored, a, b) /\ Above(scored, b, c) => Above(scored, a, c)
<1>1. \A c \in Scored(scored) : c \in Int /\ scored[c].score \in Int
  BY DEF Orderable
<1> QED
  BY <1>1 DEF Above

\* Who is above has the smaller rank.
LEMMA RanksFollowTheOrder ==
    ASSUME NEW scored, Orderable(scored),
           NEW a \in Scored(scored), NEW b \in Scored(scored), Above(scored, a, b)
    PROVE  /\ RankOf(scored, a) \in Nat /\ RankOf(scored, b) \in Nat
           /\ RankOf(scored, a) < RankOf(scored, b)
<1> DEFINE fewer == {c \in Scored(scored) : Above(scored, c, a)}
           more == {c \in Scored(scored) : Above(scored, c, b)}
<1>1. IsFiniteSet(Scored(scored))
  BY DEF Orderable
<1>2. fewer \subseteq more /\ a \in more /\ a \notin fewer
  BY AboveIsTotal
<1>3. IsFiniteSet(more) /\ IsFiniteSet(fewer)
  BY <1>1, FS_Subset
<1>4. RankOf(scored, a) = 1 + Cardinality(fewer) /\ RankOf(scored, b) = 1 + Cardinality(more)
  BY DEF RankOf
<1> HIDE DEF fewer, more
<1>5. Cardinality(fewer) \in Nat /\ Cardinality(more) \in Nat
  BY <1>3, FS_CardinalityType
<1>6. Cardinality(fewer) <= Cardinality(more) /\ Cardinality(fewer) # Cardinality(more)
  BY <1>2, <1>3, FS_Subset
<1> QED
  BY <1>4, <1>5, <1>6

\* Every place from the first to the last is somebody's.
LEMMA RanksArePlaces ==
    ASSUME NEW scored, Orderable(scored)
    PROVE  LET n == Cardinality(Scored(scored))
           IN  /\ n \in Nat
               /\ \A c \in Scored(scored) : RankOf(scored, c) \in 1 .. n
               /\ \A a, b \in Scored(scored) :
                      RankOf(scored, a) = RankOf(scored, b) => a = b
               /\ \A k \in 1 .. n : \E c \in Scored(scored) : RankOf(scored, c) = k
<1> DEFINE S == Scored(scored)
           n == Cardinality(S)
           rank == [c \in S |-> RankOf(scored, c)]
<1>1. IsFiniteSet(S) /\ n \in Nat
  BY FS_CardinalityType DEF Orderable
<1>2. ASSUME NEW c \in S
      PROVE  RankOf(scored, c) \in 1 .. n
  <2> DEFINE before == {b \in S : Above(scored, b, c)}
  <2>1. c \notin before /\ before \subseteq S
    BY AboveIsTotal
  <2>2. RankOf(scored, c) = 1 + Cardinality(before)
    BY DEF RankOf
  <2> HIDE DEF before, S
  <2>3. IsFiniteSet(before) /\ Cardinality(before) \in Nat
    BY <1>1, <2>1, FS_Subset, FS_CardinalityType
  <2>4. Cardinality(before) <= n /\ Cardinality(before) # n
    BY <1>1, <1>2, <2>1, FS_Subset
  <2> QED
    BY <1>1, <2>2, <2>3, <2>4
<1>3. ASSUME NEW a \in S, NEW b \in S, RankOf(scored, a) = RankOf(scored, b)
      PROVE  a = b
  <2>1. ASSUME NEW x \in S, NEW y \in S, Above(scored, x, y)
        PROVE  RankOf(scored, x) # RankOf(scored, y)
    BY <2>1, RanksFollowTheOrder
  <2> QED
    BY <1>3, <2>1, AboveIsTotal
<1>4. rank \in Injection(S, 1 .. n)
  <2> HIDE DEF S
  <2>1. rank \in [S -> 1 .. n]
    BY <1>2
  <2>2. \A a, b \in DOMAIN rank : rank[a] = rank[b] => a = b
    BY <1>3
  <2> QED
    BY <2>1, <2>2 DEF Injection, IsInjective
<1>5. IsFiniteSet(1 .. n) /\ Cardinality(1 .. n) = n
  BY <1>1, FS_Interval
<1>6. rank \in Surjection(S, 1 .. n)
  <2> HIDE DEF rank, S
  <2> QED
    BY <1>4, <1>5, FS_Injection
<1>7. \A k \in 1 .. n : \E c \in S : RankOf(scored, c) = k
  BY <1>6 DEF Surjection
<1> QED
  BY <1>1, <1>2, <1>3, <1>7

\* The list of compare has everybody in their place.
LEMMA EverybodyInPlace ==
    ASSUME NEW scored, Orderable(scored)
    PROVE  LET ordered == Ordered(scored)
           IN  /\ DOMAIN ordered = 1 .. Cardinality(Scored(scored))
               /\ \A k \in DOMAIN ordered :
                      ordered[k] \in Scored(scored) /\ RankOf(scored, ordered[k]) = k
               /\ \A c \in Scored(scored) :
                      (CHOOSE k \in DOMAIN ordered : ordered[k] = c) = RankOf(scored, c)
<1> DEFINE ordered == Ordered(scored)
           n == Cardinality(Scored(scored))
<1>1. DOMAIN ordered = 1 .. n
  BY DEF Ordered
<1>2. \A k \in 1 .. n : \E c \in Scored(scored) : RankOf(scored, c) = k
  BY RanksArePlaces
<1>3. \A k \in 1 .. n : ordered[k] = CHOOSE c \in Scored(scored) : RankOf(scored, c) = k
  BY DEF Ordered
<1>4. \A k \in 1 .. n : ordered[k] \in Scored(scored) /\ RankOf(scored, ordered[k]) = k
  BY <1>2, <1>3
<1> HIDE DEF ordered, n
<1>5. ASSUME NEW c \in Scored(scored)
      PROVE  (CHOOSE k \in DOMAIN ordered : ordered[k] = c) = RankOf(scored, c)
  <2>1. RankOf(scored, c) \in DOMAIN ordered
    BY <1>1, RanksArePlaces DEF n
  <2>2. ordered[RankOf(scored, c)] = c
    BY <1>1, <1>4, <2>1, RanksArePlaces
  <2>3. \A k \in DOMAIN ordered : ordered[k] = c => k = RankOf(scored, c)
    BY <1>1, <1>4
  <2> QED
    BY <2>1, <2>2, <2>3
<1> QED
  BY <1>1, <1>4, <1>5 DEF ordered, n

\* Two candidates whose bands overlap are of one group, unless somebody between
\* them is surer of their place than one of them.
LEMMA OverlapsAreTied ==
    ASSUME NEW scored, Orderable(scored),
           NEW a \in Scored(scored), NEW b \in Scored(scored),
           Above(scored, a, b), Overlap(scored, a, b),
           \A c \in Scored(scored) :
               Above(scored, a, c) /\ Above(scored, c, b) =>
                   scored[c].width >= Min({scored[a].width, scored[b].width})
    PROVE  TieGroups(scored)[a] = TieGroups(scored)[b]
<1> DEFINE ordered == Ordered(scored)
           Begins(k) == k > 1 /\ ~Overlap(scored, ordered[k - 1], ordered[k])
           first == RankOf(scored, a)
           last == RankOf(scored, b)
           n == Cardinality(Scored(scored))
<1>1. first \in 1 .. n /\ last \in 1 .. n /\ n \in Nat /\ first < last
  BY RanksArePlaces, RanksFollowTheOrder
<1>2. /\ TieGroups(scored)[a] = Cardinality({k \in 1 .. first : Begins(k)})
      /\ TieGroups(scored)[b] = Cardinality({k \in 1 .. last : Begins(k)})
  BY EverybodyInPlace DEF TieGroups
<1>3. /\ \A c \in Scored(scored) : scored[c].score \in Int /\ scored[c].width \in Int
      /\ \A c, d \in Scored(scored) :
             Overlap(scored, c, d) <=>
                 /\ scored[c].score - scored[d].score < scored[c].width
                 /\ scored[c].score - scored[d].score < scored[d].width
  <2>1. \A c \in Scored(scored) : scored[c].score \in Int /\ scored[c].width \in Int
    BY DEF Orderable
  <2>2. \A c, d \in Scored(scored) :
            Min({scored[c].width, scored[d].width}) =
                IF scored[c].width <= scored[d].width
                THEN scored[c].width ELSE scored[d].width
    BY <2>1, MinOfTwo
  <2> QED
    BY <2>1, <2>2 DEF Overlap
<1>4. ASSUME NEW c \in Scored(scored), RankOf(scored, c) \in first .. last
      PROVE  /\ scored[a].score >= scored[c].score /\ scored[c].score >= scored[b].score
             /\ \/ scored[c].width >= scored[a].width
                \/ scored[c].width >= scored[b].width
  <2>1. c = a \/ Above(scored, a, c)
    <3>1. Above(scored, c, a) => RankOf(scored, c) < first
      BY RanksFollowTheOrder
    <3> QED
      BY <1>1, <1>4, <3>1, AboveIsTotal
  <2>2. c = b \/ Above(scored, c, b)
    <3>1. Above(scored, b, c) => last < RankOf(scored, c)
      BY RanksFollowTheOrder
    <3> QED
      BY <1>1, <1>4, <3>1, AboveIsTotal
  <2>3. scored[a].score >= scored[c].score /\ scored[c].score >= scored[b].score
    BY <1>3, <2>1, <2>2 DEF Above
  <2>4. CASE c = a \/ c = b
    BY <1>3, <2>3, <2>4
  <2>5. CASE Above(scored, a, c) /\ Above(scored, c, b)
    <3>1. scored[c].width >= Min({scored[a].width, scored[b].width})
      BY <2>5
    <3>2. Min({scored[a].width, scored[b].width}) \in {scored[a].width, scored[b].width}
      BY <1>3, MinOfTwo
    <3> QED
      BY <2>3, <3>1, <3>2
  <2> QED
    BY <2>1, <2>2, <2>4, <2>5
<1>5. ASSUME NEW k \in first + 1 .. last
      PROVE  ~Begins(k)
  <2> DEFINE c == ordered[k - 1]
             d == ordered[k]
  <2>1. k \in 1 .. n /\ k - 1 \in 1 .. n
    BY <1>1
  <2>2. /\ c \in Scored(scored) /\ RankOf(scored, c) = k - 1
        /\ d \in Scored(scored) /\ RankOf(scored, d) = k
    BY <2>1, EverybodyInPlace
  <2> HIDE DEF c, d
  <2>3. k - 1 \in first .. last /\ k \in first .. last
    BY <1>1
  <2>4. Overlap(scored, c, d)
    <3>1. /\ scored[a].score >= scored[c].score
          /\ scored[c].width >= scored[a].width \/ scored[c].width >= scored[b].width
      BY <1>4, <2>2, <2>3
    <3>2. /\ scored[d].score >= scored[b].score
          /\ scored[d].width >= scored[a].width \/ scored[d].width >= scored[b].width
      BY <1>4, <2>2, <2>3
    <3> QED
      BY <1>3, <2>2, <3>1, <3>2
  <2> QED
    BY <2>4 DEF c, d
<1> HIDE DEF Begins, first, last
<1>6. {k \in 1 .. first : Begins(k)} = {k \in 1 .. last : Begins(k)}
  BY <1>1, <1>5
<1> QED
  BY <1>2, <1>6

-----------------------------------------------------------------------------
(* Sums over finite sets: the lemmas of Assessment_proofs, whose variables *)
(* have no place here, as far as a score needs them.                       *)

\* What holds of a finite set as soon as it holds of all that is less, holds of
\* every part of it.
LEMMA PartsInduction ==
    ASSUME NEW S, IsFiniteSet(S), NEW T \in SUBSET (SUBSET S),
           \A A \in SUBSET S : (\A B \in SUBSET A : B # A => B \in T) => A \in T
    PROVE  T = SUBSET S
<1> SUFFICES ASSUME (SUBSET S) \ T # {}
             PROVE  FALSE
  OBVIOUS
<1> DEFINE rest == (SUBSET S) \ T
           Less == StrictSubsetOrdering(S)
<1>1. IsWellFoundedOn(Less, SUBSET S)
  <2>1. FiniteSubsetsOf(S) = SUBSET S
    BY FS_FiniteSubsetsOfFinite
  <2>2. IsWellFoundedOn(Less, FiniteSubsetsOf(S))
    BY FS_StrictSubsetOrderingWellFounded
  <2> QED
    BY <2>1, <2>2
<1>2. PICK A \in rest : \A B \in rest : <<B, A>> \notin Less
  <2>1. rest \subseteq SUBSET S /\ rest # {}
    OBVIOUS
  <2> HIDE DEF rest, Less
  <2>2. \E A \in rest : \A B \in rest : ~(<<B, A>> \in Less)
    BY <1>1, <2>1, WFMin
  <2> QED
    BY <2>2
<1>3. \A B \in SUBSET A : B # A => B \in T
  BY <1>2 DEF StrictSubsetOrdering
<1> QED
  BY <1>2, <1>3

Pick(A) == CHOOSE x \in A : TRUE

\* The recursion of FoldFunction over the parts of A.
Adds(f, A, g) ==
    g = [B \in SUBSET A |-> IF B = {} THEN 0 ELSE f[Pick(B)] + g[B \ {Pick(B)}]]

SumOver(f, A) == (CHOOSE g : Adds(f, A, g))[A]

\* SumFunction of the community modules is this sum over the function's domain.
LEMMA SumIsSum ==
    ASSUME NEW f
    PROVE  SumFunction(f) = SumOver(f, DOMAIN f)
BY DEF SumFunction, SumFunctionOnSet, FoldFunctionOnSet, MapThenFoldSet, SumOver, Adds, Pick

\* What CHOOSE takes from a set is in it.
LEMMA PickIsIn ==
    ASSUME NEW A, A # {}
    PROVE  Pick(A) \in A
BY DEF Pick

\* Two recursions over two sets give every common part the same sum.
LEMMA SumsAgree ==
    ASSUME NEW S, IsFiniteSet(S), NEW A \in SUBSET S, NEW B \in SUBSET S, NEW f,
           NEW g, Adds(f, A, g), NEW h, Adds(f, B, h)
    PROVE  \A C \in SUBSET (A \cap B) : g[C] = h[C]
<1> DEFINE T == {C \in SUBSET S : C \in SUBSET (A \cap B) => g[C] = h[C]}
<1>1. ASSUME NEW C \in SUBSET S, \A D \in SUBSET C : D # C => D \in T,
             C \in SUBSET (A \cap B)
      PROVE  g[C] = h[C]
  <2>1. CASE C = {}
    BY <1>1, <2>1 DEF Adds
  <2>2. CASE C # {}
    <3>1. Pick(C) \in C
      BY <2>2, PickIsIn
    <3>2. g[C \ {Pick(C)}] = h[C \ {Pick(C)}]
      BY <1>1, <3>1
    <3>3. g[C] = f[Pick(C)] + g[C \ {Pick(C)}]
      BY <1>1, <2>2 DEF Adds
    <3>4. C \in SUBSET B
      BY <1>1
    <3>5. h = [D \in SUBSET B |-> IF D = {} THEN 0 ELSE f[Pick(D)] + h[D \ {Pick(D)}]]
      BY DEF Adds
    <3>6. h[C] = f[Pick(C)] + h[C \ {Pick(C)}]
      BY <2>2, <3>4, <3>5
    <3> QED
      BY <3>2, <3>3, <3>6
  <2> QED
    BY <2>1, <2>2
<1>2. T = SUBSET S
  <2>1. T \in SUBSET (SUBSET S)
    OBVIOUS
  <2>2. \A C \in SUBSET S : (\A D \in SUBSET C : D # C => D \in T) => C \in T
    BY <1>1
  <2> HIDE DEF T
  <2> QED
    BY <2>1, <2>2, PartsInduction
<1> QED
  BY <1>2

\* Over a finite set there is such a recursion.
LEMMA SumsExist ==
    ASSUME NEW S, IsFiniteSet(S), NEW f
    PROVE  \E g : Adds(f, S, g)
<1> DEFINE T == {A \in SUBSET S : \E g : Adds(f, A, g)}
<1>1. ASSUME NEW A \in SUBSET S, \A B \in SUBSET A : B # A => B \in T
      PROVE  \E g : Adds(f, A, g)
  <2> DEFINE Of(B) == CHOOSE g : Adds(f, B, g)
             g == [B \in SUBSET A |->
                      IF B = {} THEN 0
                      ELSE f[Pick(B)] + Of(B \ {Pick(B)})[B \ {Pick(B)}]]
  <2>1. \A B \in SUBSET A : B # A => Adds(f, B, Of(B))
    BY <1>1
  <2>2. ASSUME NEW B \in SUBSET A, B # A
        PROVE  g[B] = Of(B)[B]
    <3>1. Adds(f, B, Of(B))
      BY <2>1, <2>2
    <3> HIDE DEF Of
    <3>2. CASE B = {}
      BY <3>1, <3>2 DEF Adds
    <3>3. CASE B # {}
      <4> DEFINE C == B \ {Pick(B)}
      <4>1. Pick(B) \in B
        BY <3>3, PickIsIn
      <4>2. C \in SUBSET A /\ C # A /\ C \in SUBSET B
        BY <4>1
      <4>3. Adds(f, C, Of(C))
        BY <2>1, <4>2
      <4>4. Of(C)[C] = Of(B)[C]
        <5>1. B \in SUBSET S /\ C \in SUBSET S /\ C \in SUBSET (B \cap C)
          BY <4>2
        <5> HIDE DEF C
        <5> QED
          BY <3>1, <4>3, <5>1, SumsAgree
      <4>5. Of(B)[B] = f[Pick(B)] + Of(B)[C]
        BY <3>1, <3>3 DEF Adds
      <4>6. g[B] = f[Pick(B)] + Of(C)[C]
        BY <3>3
      <4> QED
        BY <4>4, <4>5, <4>6
    <3> QED
      BY <3>2, <3>3
  <2>3. \A B \in SUBSET A :
            B # {} => g[B \ {Pick(B)}] = Of(B \ {Pick(B)})[B \ {Pick(B)}]
    <3> SUFFICES ASSUME NEW B \in SUBSET A, B # {}
                 PROVE  g[B \ {Pick(B)}] = Of(B \ {Pick(B)})[B \ {Pick(B)}]
      OBVIOUS
    <3>1. Pick(B) \in B
      BY PickIsIn
    <3>2. B \ {Pick(B)} \in SUBSET A /\ B \ {Pick(B)} # A
      BY <3>1
    <3> HIDE DEF g, Of
    <3> QED
      BY <2>2, <3>2
  <2>4. Adds(f, A, g)
    <3>1. g = [B \in SUBSET A |-> IF B = {} THEN 0 ELSE f[Pick(B)] + g[B \ {Pick(B)}]]
      <4>1. g = [B \in SUBSET A |-> g[B]]
        OBVIOUS
      <4>2. \A B \in SUBSET A :
                g[B] = IF B = {} THEN 0
                       ELSE f[Pick(B)] + Of(B \ {Pick(B)})[B \ {Pick(B)}]
        OBVIOUS
      <4> HIDE DEF g, Of
      <4>3. \A B \in SUBSET A :
                g[B] = IF B = {} THEN 0 ELSE f[Pick(B)] + g[B \ {Pick(B)}]
        BY <2>3, <4>2
      <4> QED
        BY <4>1, <4>3
    <3> HIDE DEF g
    <3> QED
      BY <3>1 DEF Adds
  <2> QED
    BY <2>4
<1>2. T = SUBSET S
  <2>1. T \in SUBSET (SUBSET S)
    OBVIOUS
  <2>2. \A A \in SUBSET S : (\A B \in SUBSET A : B # A => B \in T) => A \in T
    BY <1>1
  <2> HIDE DEF T
  <2> QED
    BY <2>1, <2>2, PartsInduction
<1> QED
  BY <1>2

\* The recursion, for a finite set.
LEMMA SumStep ==
    ASSUME NEW A, IsFiniteSet(A), NEW f
    PROVE  /\ SumOver(f, {}) = 0
           /\ A # {} => SumOver(f, A) = f[Pick(A)] + SumOver(f, A \ {Pick(A)})
<1> DEFINE Of(B) == CHOOSE g : Adds(f, B, g)
<1>1. ASSUME NEW B \in SUBSET A
      PROVE  Adds(f, B, Of(B))
  BY <1>1, SumsExist, FS_Subset
<1>2. \A B : SumOver(f, B) = Of(B)[B]
  BY DEF SumOver
<1> HIDE DEF Of
<1>3. Of({})[{}] = 0
  BY <1>1 DEF Adds
<1>4. ASSUME A # {}
      PROVE  Of(A)[A] = f[Pick(A)] + Of(A \ {Pick(A)})[A \ {Pick(A)}]
  <2> DEFINE B == A \ {Pick(A)}
  <2>1. Adds(f, A, Of(A)) /\ Adds(f, B, Of(B))
    BY <1>1
  <2>2. Of(A)[B] = Of(B)[B]
    BY <2>1, SumsAgree
  <2>3. Of(A)[A] = f[Pick(A)] + Of(A)[B]
    BY <2>1, <1>4 DEF Adds
  <2> QED
    BY <2>2, <2>3
<1> QED
  BY <1>2, <1>3, <1>4

\* A sum of integers is one, and more than nothing if there are some and all are.
LEMMA SumOfNumbers ==
    ASSUME NEW f, IsFiniteSet(DOMAIN f), \A x \in DOMAIN f : f[x] \in Int
    PROVE  /\ SumFunction(f) \in Int
           /\ DOMAIN f # {} /\ (\A x \in DOMAIN f : f[x] > 0) => SumFunction(f) > 0
<1> DEFINE S == DOMAIN f
           positive == \A x \in S : f[x] > 0
           Good(A) == /\ SumOver(f, A) \in Int
                      /\ positive => SumOver(f, A) >= 0 /\ (A # {} => SumOver(f, A) > 0)
           T == {A \in SUBSET S : Good(A)}
<1>1. ASSUME NEW A \in SUBSET S, \A B \in SUBSET A : B # A => B \in T
      PROVE  Good(A)
  <2>1. IsFiniteSet(A)
    BY FS_Subset
  <2>2. CASE A = {}
    <3>1. SumOver(f, A) = 0
      BY <2>1, <2>2, SumStep
    <3> HIDE DEF positive
    <3> QED
      BY <2>2, <3>1
  <2>3. CASE A # {}
    <3> DEFINE C == A \ {Pick(A)}
    <3>1. Pick(A) \in A
      BY <2>3, PickIsIn
    <3>2. Good(C)
      BY <1>1, <3>1
    <3>3. SumOver(f, A) = f[Pick(A)] + SumOver(f, C)
      BY <2>1, <2>3, SumStep
    <3>4. f[Pick(A)] \in Int /\ (positive => f[Pick(A)] > 0)
      BY <3>1
    <3> HIDE DEF C, positive
    <3> QED
      BY <3>2, <3>3, <3>4
  <2> QED
    BY <2>2, <2>3
<1>2. T = SUBSET S
  <2>1. T \in SUBSET (SUBSET S)
    OBVIOUS
  <2>2. \A A \in SUBSET S : (\A B \in SUBSET A : B # A => B \in T) => A \in T
    BY <1>1
  <2> HIDE DEF T
  <2> QED
    BY <2>1, <2>2, PartsInduction
<1>3. Good(S)
  BY <1>2
<1> QED
  BY <1>3, SumIsSum

-----------------------------------------------------------------------------
(* The score of a candidate.                                               *)

Score(person, phrases) == Weighted(person, DerivedRubric(phrases))

\* The weights of a derived rubric are numbers, whatever a posting names.
LEMMA DerivedWeightsAreNumbers ==
    ASSUME NEW words
    PROVE  \A d \in DIMENSIONS : DerivedRubric(Emphases(words)).weights[d] \in Int
<1> DEFINE phrases == Emphases(words)
           named == {e \in DOMAIN SIGNALS : phrases[e] # {}}
           asked == [d \in named |->
                        DEFAULT_WEIGHTS[d]
                            + EMPHASIS_STEP * Min({Cardinality(phrases[d]), MAX_STEPS})]
<1>1. \A d \in DIMENSIONS : DEFAULT_WEIGHTS[d] \in Int
  BY DEF DIMENSIONS, DEFAULT_WEIGHTS
<1>2. DOMAIN phrases = DOMAIN SIGNALS /\ \A d \in DOMAIN SIGNALS : phrases[d] \subseteq SIGNALS[d]
  BY DEF Emphases
<1>3. DerivedWeights(phrases) = WithDefaults(asked)
  BY DEF DerivedWeights
<1>4. DerivedRubric(phrases).weights = WithDefaults(DerivedWeights(phrases))
  BY DEF DerivedRubric, Loaded
<1> HIDE DEF phrases
<1>5. \A d \in named : asked[d] \in Int
  <2> SUFFICES ASSUME NEW d \in named
               PROVE  asked[d] \in Int
    OBVIOUS
  <2>1. d \in DOMAIN SIGNALS /\ d \in DIMENSIONS
    BY SignalsAssumption
  <2>2. IsFiniteSet(phrases[d])
    BY <1>2, <2>1, SignalsAssumption, FS_Subset
  <2>3. Cardinality(phrases[d]) \in Nat
    BY <2>2, FS_CardinalityType
  <2> DEFINE steps == Min({Cardinality(phrases[d]), MAX_STEPS})
  <2>4. steps \in Int
    BY <2>3, MinOfTwo DEF MAX_STEPS
  <2>5. asked[d] = DEFAULT_WEIGHTS[d] + 12 * steps
    BY DEF EMPHASIS_STEP
  <2> HIDE DEF steps, asked
  <2> QED
    BY <1>1, <2>1, <2>4, <2>5
<1>6. DOMAIN asked = named
  OBVIOUS
<1> HIDE DEF asked, named
<1>7. \A d \in DIMENSIONS : DerivedWeights(phrases)[d] \in Int
  BY <1>1, <1>3, <1>5, <1>6 DEF WithDefaults
<1>8. DIMENSIONS \subseteq DOMAIN DerivedWeights(phrases)
  BY <1>3 DEF WithDefaults
<1> QED
  BY <1>4, <1>7, <1>8 DEF WithDefaults, phrases

\* There are six built-in dimensions.
LEMMA DimensionsAreFinite == IsFiniteSet(DIMENSIONS)
<1>1. DIMENSIONS = ((((({"authenticity"} \cup {"code_quality"}) \cup {"claim_corroboration"})
                      \cup {"test_quality"}) \cup {"security"}) \cup {"breadth"})
  BY DEF DIMENSIONS, DEFAULT_WEIGHTS
<1>2. \A S, x : IsFiniteSet(S) => IsFiniteSet(S \cup {x})
  BY FS_AddElement
<1>3. IsFiniteSet({"authenticity"})
  BY FS_Singleton
<1> QED
  BY <1>1, <1>2, <1>3

\* score_candidate returns numbers, if anything was measured: it divides a sum of
\* weighted measurements by a sum of weights, which is not zero.
LEMMA ScoresAreNumbers ==
    ASSUME NEW person \in Profiles, NEW words,
           Score(person, Emphases(words)).score # None
    PROVE  /\ Score(person, Emphases(words)).score \in Int
           /\ Score(person, Emphases(words)).width \in Int
<1> DEFINE rules == DerivedRubric(Emphases(words))
           measured == {d \in DOMAIN person : Measured(person[d]) /\ rules.weights[d] > 0}
           weights == [d \in measured |-> rules.weights[d]]
           scoreOf == [d \in measured |-> person[d].score]
           coverageOf == [d \in measured |-> person[d].coverage]
           Weigh(of) == [d \in measured |-> rules.weights[d] * of[d]]
           Mean(of) == Quotient(SumFunction(Weigh(of)), SumFunction(weights))
<1>1. DOMAIN person = DIMENSIONS
  BY ProfilesAssumption
<1>2. measured # {}
  BY DEF Score, Weighted
<1>3. /\ Score(person, Emphases(words)).score = Mean(scoreOf)
      /\ Score(person, Emphases(words)).width =
             BAND_FLOOR + Quotient(One - Mean(coverageOf), BAND_SPAN)
  BY <1>2 DEF Score, Weighted
<1>4. \A d \in measured : rules.weights[d] \in Int /\ rules.weights[d] > 0
  BY <1>1, DerivedWeightsAreNumbers
<1>5. \A d \in measured : person[d].score \in Int /\ person[d].coverage \in Int
  BY <1>1, ProfilesAssumption DEF Measured
<1>6. IsFiniteSet(measured)
  BY <1>1, DimensionsAreFinite, FS_Subset
<1> HIDE DEF rules, measured
<1>7. SumFunction(weights) \in Int /\ SumFunction(weights) > 0
  <2>1. DOMAIN weights = measured /\ \A d \in measured : weights[d] \in Int /\ weights[d] > 0
    BY <1>4
  <2> HIDE DEF weights
  <2> QED
    BY <1>2, <1>6, <2>1, SumOfNumbers
<1>8. ASSUME NEW of, \A d \in measured : of[d] \in Int
      PROVE  Mean(of) \in Int
  <2> DEFINE total == SumFunction(weights)
             sum == SumFunction(Weigh(of))
  <2>1. DOMAIN Weigh(of) = measured /\ \A d \in measured : Weigh(of)[d] \in Int
    BY <1>4, <1>8
  <2>2. sum \in Int
    <3> HIDE DEF Weigh
    <3> QED
      BY <1>6, <2>1, SumOfNumbers
  <2>3. total \in Int /\ total > 0
    BY <1>7
  <2> HIDE DEF total, sum
  <2>4. Quotient(sum, total) \in Int
    BY <2>2, <2>3 DEF Quotient
  <2> QED
    BY <2>4 DEF total, sum
<1>9. Mean(scoreOf) \in Int /\ Mean(coverageOf) \in Int
  <2>1. \A d \in measured : scoreOf[d] \in Int /\ coverageOf[d] \in Int
    BY <1>5
  <2> HIDE DEF scoreOf, coverageOf, Mean
  <2> QED
    BY <1>8, <2>1
<1> HIDE DEF Mean, scoreOf, coverageOf
<1>10. BAND_FLOOR + Quotient(One - Mean(coverageOf), BAND_SPAN) \in Int
  BY <1>9, OneIsPositive DEF BAND_FLOOR, BAND_SPAN, Quotient
<1> QED
  BY <1>3, <1>9, <1>10

-----------------------------------------------------------------------------
(* Values that are computed in a number of steps.                          *)

\* What holds at the start and goes from each number to the next holds up to n.
LEMMA UpTo ==
    ASSUME NEW n \in Nat, NEW T, 0 \in T, \A j \in 1 .. n : j - 1 \in T => j \in T
    PROVE  \A j \in 0 .. n : j \in T
<1> SUFFICES ASSUME (0 .. n) \ T # {}
             PROVE  FALSE
  OBVIOUS
<1> DEFINE rest == (0 .. n) \ T
<1>1. PICK x \in rest : \A y \in rest : ~(<<y, x>> \in OpToRel(<, Nat))
  <2>1. rest \in SUBSET Nat /\ rest # {}
    OBVIOUS
  <2> HIDE DEF rest
  <2> QED
    BY <2>1, NatLessThanWellFounded, WFMin
<1>2. x \in Nat /\ x <= n /\ x \notin T /\ \A y \in rest : y \in Nat
  OBVIOUS
<1>3. \A y \in rest : ~(y < x)
  <2> HIDE DEF rest
  <2> QED
    BY <1>1, <1>2 DEF OpToRel
<1>4. x \in 1 .. n /\ x - 1 \in 0 .. n /\ x - 1 < x
  BY <1>2
<1>5. x - 1 \in T
  BY <1>3, <1>4
<1> QED
  BY <1>2, <1>4, <1>5

\* A value that is computed in n steps from a first one.
Within(step, n, T) == \A j \in 1 .. n, t \in T : step[j][t] \in T

Runs(h, step, base, n, T) ==
    /\ h = [j \in 0 .. n |-> h[j]] /\ h[0] = base
    /\ \A j \in 0 .. n : h[j] \in T
    /\ \A j \in 1 .. n : h[j] = step[j][h[j - 1]]

LEMMA RunsExist ==
    ASSUME NEW n \in Nat, NEW T, NEW base \in T, NEW step, Within(step, n, T)
    PROVE  \E h : Runs(h, step, base, n, T)
<1> DEFINE good == {j \in 0 .. n : \E h : Runs(h, step, base, j, T)}
<1>1. 0 \in good
  <2> DEFINE h == [j \in 0 .. 0 |-> base]
  <2>1. Runs(h, step, base, 0, T)
    BY DEF Runs
  <2> HIDE DEF h
  <2> QED
    BY <2>1
<1>2. ASSUME NEW j \in 1 .. n, j - 1 \in good
      PROVE  j \in good
  <2>1. PICK h : Runs(h, step, base, j - 1, T)
    BY <1>2
  <2> DEFINE f == [i \in 0 .. j |-> IF i = j THEN step[j][h[j - 1]] ELSE h[i]]
  <2>2. step[j][h[j - 1]] \in T
    BY <2>1 DEF Runs, Within
  <2>3. f[0] = base /\ \A i \in 0 .. j : f[i] \in T
    BY <2>1, <2>2 DEF Runs
  <2>4. ASSUME NEW i \in 1 .. j
        PROVE  f[i] = step[i][f[i - 1]]
    <3>1. CASE i = j
      <4>1. f[i] = step[j][h[j - 1]] /\ f[i - 1] = h[j - 1]
        BY <3>1
      <4> QED
        BY <3>1, <4>1
    <3>2. CASE i # j
      <4>1. i \in 1 .. j - 1 /\ f[i] = h[i] /\ f[i - 1] = h[i - 1]
        BY <3>2
      <4> QED
        BY <2>1, <4>1 DEF Runs
    <3> QED
      BY <3>1, <3>2
  <2>5. f = [i \in 0 .. j |-> f[i]]
    OBVIOUS
  <2> HIDE DEF f
  <2>6. Runs(f, step, base, j, T)
    BY <2>3, <2>4, <2>5 DEF Runs
  <2> QED
    BY <2>6
<1>3. n \in good
  <2> HIDE DEF good
  <2> QED
    BY <1>1, <1>2, UpTo
<1> QED
  BY <1>3


-----------------------------------------------------------------------------
(* Folds of the community modules, which take the largest index first.     *)

Largest(B) == CHOOSE x \in B : \A y \in B : x >= y

LEMMA LargestIs ==
    ASSUME NEW n \in Nat, NEW B \in SUBSET (1 .. n), B # {}
    PROVE  Largest(B) \in B /\ \A k \in B : k <= Largest(B)
<1> DEFINE Greatest(A) == \E x \in A : \A y \in A : x >= y
           good == {j \in 0 .. n : \A A \in SUBSET (1 .. j) : A # {} => Greatest(A)}
<1>1. 0 \in good
  <2>1. \A A \in SUBSET (1 .. 0) : A = {}
    <3>1. 1 .. 0 = {}
      OBVIOUS
    <3> QED
      BY <3>1
  <2>2. 0 \in 0 .. n
    OBVIOUS
  <2> HIDE DEF Greatest
  <2> QED
    BY <2>1, <2>2
<1>2. ASSUME NEW j \in 1 .. n, j - 1 \in good
      PROVE  j \in good
  <2> SUFFICES ASSUME NEW A \in SUBSET (1 .. j), A # {}
               PROVE  Greatest(A)
    OBVIOUS
  <2>1. CASE j \in A
    BY <2>1
  <2>2. CASE j \notin A
    <3>1. A \in SUBSET (1 .. j - 1)
      BY <2>2
    <3> QED
      BY <1>2, <3>1
  <2> QED
    BY <2>1, <2>2
<1>3. n \in good
  <2>1. n \in 0 .. n
    OBVIOUS
  <2> HIDE DEF good
  <2>2. \A j \in 0 .. n : j \in good
    BY <1>1, <1>2, UpTo
  <2> QED
    BY <2>1, <2>2
<1>4. Greatest(B)
  BY <1>3
<1>5. \E x \in B : \A y \in B : x >= y
  BY <1>4
<1>6. Largest(B) \in B /\ \A y \in B : Largest(B) >= y
  BY <1>5 DEF Largest
<1> QED
  BY <1>6

\* g gives every part of the indices what the steps of that part compute.
Folds(g, step, base, n, T) ==
    /\ g = [B \in SUBSET (1 .. n) |-> g[B]] /\ g[{}] = base
    /\ \A B \in SUBSET (1 .. n) : g[B] \in T
    /\ \A B \in SUBSET (1 .. n) : B # {} => g[B] = step[Largest(B)][g[B \ {Largest(B)}]]

LEMMA FoldExists ==
    ASSUME NEW n \in Nat, NEW T, NEW base \in T, NEW step, Within(step, n, T)
    PROVE  \E g : Folds(g, step, base, n, T)
<1> DEFINE parts == SUBSET (1 .. n)
           U == [parts -> T]
           next == [j \in 1 .. n |-> [f \in U |->
                       [B \in parts |-> IF j \in B THEN step[j][f[B]] ELSE f[B]]]]
           first == [B \in parts |-> base]
<1>1. first \in U
  OBVIOUS
<1>2. ASSUME NEW j \in 1 .. n, NEW f \in U
      PROVE  [B \in parts |-> IF j \in B THEN step[j][f[B]] ELSE f[B]] \in U
  <2>1. \A B \in parts : f[B] \in T /\ step[j][f[B]] \in T
    BY DEF Within
  <2> HIDE DEF parts
  <2> QED
    BY <2>1
<1>3. \A j \in 1 .. n, f \in U :
          next[j][f] = [B \in parts |-> IF j \in B THEN step[j][f[B]] ELSE f[B]]
  <2> HIDE DEF U, parts
  <2> QED
    OBVIOUS
<1>4. Within(next, n, U)
  <2>1. ASSUME NEW j \in 1 .. n, NEW f \in U
        PROVE  next[j][f] \in U
    <3>1. PICK t : t = [B \in parts |-> IF j \in B THEN step[j][f[B]] ELSE f[B]]
      OBVIOUS
    <3>2. t \in U
      BY <1>2, <3>1
    <3>3. next[j][f] = t
      BY <1>3, <3>1
    <3> QED
      BY <3>2, <3>3
  <2> HIDE DEF next, U, parts
  <2> QED
    BY <2>1, Zenon DEF Within
<1> HIDE DEF next, first, U
<1>5. PICK h : Runs(h, next, first, n, U)
  BY <1>1, <1>4, RunsExist
<1>6. /\ h[0] = first
      /\ \A j \in 0 .. n : h[j] \in U
      /\ \A j \in 1 .. n : h[j] = next[j][h[j - 1]]
  BY <1>5 DEF Runs
<1>7. ASSUME NEW j \in 1 .. n, NEW B \in parts
      PROVE  h[j][B] = IF j \in B THEN step[j][h[j - 1][B]] ELSE h[j - 1][B]
  <2>1. j - 1 \in 0 .. n
    OBVIOUS
  <2>2. h[j] = [A \in parts |-> IF j \in A THEN step[j][h[j - 1][A]] ELSE h[j - 1][A]]
    BY <1>3, <1>6, <2>1
  <2> HIDE DEF parts
  <2> QED
    BY <2>2
<1> DEFINE g == h[n]
<1>8. g \in U /\ g = [B \in parts |-> g[B]] /\ \A B \in parts : g[B] \in T
  <2>1. n \in 0 .. n
    OBVIOUS
  <2>2. g \in U
    BY <1>6, <2>1
  <2> HIDE DEF g, parts
  <2> QED
    BY <2>2 DEF U
\* Up to an index that a part does not have, nothing happens to it.
<1>9. ASSUME NEW B \in parts, NEW k \in 0 .. n, \A i \in 1 .. k : i \notin B
      PROVE  h[k][B] = base
  <2> DEFINE good == {j \in 0 .. k : h[j][B] = base}
  <2>1. 0 \in good
    <3>1. h[0][B] = base
      BY <1>6 DEF first
    <3> QED
      BY <3>1
  <2>2. ASSUME NEW j \in 1 .. k, j - 1 \in good
        PROVE  j \in good
    BY <1>7, <1>9, <2>2
  <2>3. k \in Nat /\ k \in 0 .. k
    OBVIOUS
  <2> HIDE DEF good
  <2>4. \A j \in 0 .. k : j \in good
    BY <2>1, <2>2, <2>3, UpTo
  <2>5. k \in good
    BY <2>3, <2>4
  <2> QED
    BY <2>5 DEF good
<1>10. g[{}] = base
  <2>1. {} \in parts /\ n \in 0 .. n
    OBVIOUS
  <2> QED
    BY <1>9, <2>1
<1>11. ASSUME NEW B \in parts, B # {}
       PROVE  g[B] = step[Largest(B)][g[B \ {Largest(B)}]]
  <2>1. PICK x : x = Largest(B)
    OBVIOUS
  <2>2. x \in B /\ x \in 1 .. n /\ \A k \in B : k <= x
    BY <1>11, <2>1, LargestIs
  <2> DEFINE A == B \ {x}
             good == {j \in 0 .. n : IF j < x THEN h[j][A] = h[j][B]
                                     ELSE h[j][B] = h[x][B] /\ h[j][A] = h[x - 1][A]}
  <2>3. A \in parts /\ \A i \in 1 .. n : i # x => (i \in A <=> i \in B)
    OBVIOUS
  <2> HIDE DEF A
  <2>4. 0 \in good
    <3>1. h[0][B] = base /\ h[0][A] = base
      BY <1>6, <2>3 DEF first
    <3> QED
      BY <2>2, <3>1
  <2>5. ASSUME NEW j \in 1 .. n, j - 1 \in good
        PROVE  j \in good
    <3>1. /\ h[j][B] = IF j \in B THEN step[j][h[j - 1][B]] ELSE h[j - 1][B]
          /\ h[j][A] = IF j \in A THEN step[j][h[j - 1][A]] ELSE h[j - 1][A]
      BY <1>7, <2>3
    <3>2. CASE j < x
      <4>1. h[j - 1][A] = h[j - 1][B] /\ (j \in A <=> j \in B)
        BY <2>2, <2>3, <2>5, <3>2
      <4>2. h[j][A] = h[j][B]
        BY <3>1, <4>1
      <4> QED
        BY <3>2, <4>2
    <3>3. CASE j = x
      <4>1. x \notin A
        BY DEF A
      <4>2. h[j][A] = h[x - 1][A]
        BY <3>1, <3>3, <4>1
      <4> QED
        BY <2>2, <3>3, <4>2
    <3>4. CASE j > x
      <4>1. j \notin B /\ j \notin A
        BY <2>2, <2>3, <3>4
      <4>2. h[j - 1][B] = h[x][B] /\ h[j - 1][A] = h[x - 1][A]
        BY <2>2, <2>5, <3>4
      <4>3. h[j][B] = h[x][B] /\ h[j][A] = h[x - 1][A]
        BY <3>1, <4>1, <4>2
      <4> QED
        BY <2>2, <3>4, <4>3
    <3> QED
      BY <2>2, <3>2, <3>3, <3>4
  <2>6. \A j \in 0 .. n : j \in good
    <3> HIDE DEF good
    <3> QED
      BY <2>4, <2>5, UpTo
  <2>7. h[n][B] = h[x][B] /\ h[n][A] = h[x - 1][A]
    BY <2>2, <2>6
  <2>8. h[x - 1][A] = h[x - 1][B]
    BY <2>2, <2>6
  <2>9. h[x][B] = step[x][h[x - 1][B]]
    BY <1>7, <2>2
  <2> QED
    BY <2>1, <2>7, <2>8, <2>9 DEF A
<1> HIDE DEF g
<1>12. Folds(g, step, base, n, T)
  BY <1>8, <1>10, <1>11 DEF Folds
<1> QED
  BY <1>12

\* What any solution of the recursion gives for all the indices is the last
\* value of a run.
Solves(g, step, base, n, T) ==
    /\ g[{}] = base
    /\ \A B \in SUBSET (1 .. n) :
           B # {} /\ g[B \ {Largest(B)}] \in T => g[B] = step[Largest(B)][g[B \ {Largest(B)}]]

LEMMA FoldRuns ==
    ASSUME NEW n \in Nat, NEW T, NEW base \in T, NEW step, Within(step, n, T),
           NEW g, Solves(g, step, base, n, T)
    PROVE  \E h : Runs(h, step, base, n, T) /\ h[n] = g[1 .. n]
<1> DEFINE h == [j \in 0 .. n |-> g[1 .. j]]
<1>1. h = [j \in 0 .. n |-> h[j]] /\ h[0] = base
  <2>1. 1 .. 0 = {}
    OBVIOUS
  <2> QED
    BY <2>1 DEF Solves
<1>2. ASSUME NEW j \in 1 .. n, h[j - 1] \in T
      PROVE  h[j] = step[j][h[j - 1]]
  <2>1. PICK B : B = 1 .. j
    OBVIOUS
  <2>2. B \in SUBSET (1 .. n) /\ B # {} /\ j \in B /\ \A k \in B : k <= j /\ k \in Nat
    <3>1. \A k \in 1 .. j : k \in 1 .. n /\ k <= j /\ k \in Nat
      OBVIOUS
    <3>2. j \in 1 .. j
      OBVIOUS
    <3> QED
      BY <2>1, <3>1, <3>2
  <2>3. Largest(B) = j
    <3>1. Largest(B) \in B /\ \A k \in B : k <= Largest(B)
      BY <2>2, LargestIs
    <3>2. Largest(B) \in Nat
      BY <2>2, <3>1
    <3> QED
      BY <2>2, <3>1, <3>2
  <2>4. B \ {j} = 1 .. (j - 1)
    BY <2>1
  <2>5. h[j] = g[B] /\ h[j - 1] = g[B \ {Largest(B)}]
    <3>1. j \in 0 .. n /\ j - 1 \in 0 .. n
      OBVIOUS
    <3>2. h[j] = g[1 .. j] /\ h[j - 1] = g[1 .. (j - 1)]
      BY <3>1
    <3> HIDE DEF h
    <3> QED
      BY <2>1, <2>3, <2>4, <3>2
  <2> HIDE DEF h
  <2> QED
    BY <1>2, <2>2, <2>3, <2>5 DEF Solves
<1> DEFINE good == {j \in 0 .. n : h[j] \in T}
<1>3. 0 \in good
  BY <1>1
<1>4. ASSUME NEW j \in 1 .. n, j - 1 \in good
      PROVE  j \in good
  <2>1. h[j - 1] \in T
    BY <1>4
  <2> HIDE DEF h
  <2>2. h[j] = step[j][h[j - 1]]
    BY <1>2, <2>1
  <2> QED
    BY <2>1, <2>2 DEF Within
<1>5. \A j \in 0 .. n : j \in good
  <2> HIDE DEF good
  <2> QED
    BY <1>3, <1>4, UpTo
<1>6. \A j \in 1 .. n : j - 1 \in 0 .. n
  OBVIOUS
<1>7. h[n] = g[1 .. n]
  OBVIOUS
<1> HIDE DEF h
<1>8. Runs(h, step, base, n, T)
  BY <1>1, <1>2, <1>5, <1>6 DEF Runs
<1> QED
  BY <1>7, <1>8

-----------------------------------------------------------------------------
(* The scanner of a posting, word after word.                              *)

LongestAt(t, k) ==
    {phrase \in {p \in Phrases : At(t, p, k)} :
        \A other \in {p \in Phrases : At(t, p, k)} : Len(other) <= Len(phrase)}

ScanAt(t, scanned, k) ==
    IF k < scanned.next \/ LongestAt(t, k) = {}
    THEN scanned
    ELSE [next |-> k + Len(CHOOSE p \in LongestAt(t, k) : TRUE),
          found |-> scanned.found \cup {[at |-> k, phrase |-> CHOOSE p \in LongestAt(t, k) : TRUE]}]

\* h[j] is where the scanner is when it has seen j words.
Scans(h, t) ==
    /\ h[0] = [next |-> 1, found |-> {}]
    /\ \A j \in 1 .. Len(t) : h[j] = ScanAt(t, h[j - 1], j)
    /\ \A j \in 0 .. Len(t) : h[j] = [next |-> h[j].next, found |-> h[j].found]

LEMMA PhrasesAreLists ==
    ASSUME NEW phrase \in Phrases
    PROVE  phrase \in Seq(Range(phrase)) /\ Len(phrase) \in Nat
BY SignalsAssumption DEF Phrases

LEMMA MatchesAreScanned ==
    ASSUME NEW t, t \in Seq(Words)
    PROVE  \E h : Scans(h, t) /\ Matches(t) = h[Len(t)].found
<1> DEFINE n == Len(t)
           seq == [i \in DOMAIN t |-> i]
           T == [next : Nat, found : SUBSET [at : Nat, phrase : Phrases]]
           base == [next |-> 1, found |-> {}]
           step == [j \in 1 .. n |-> [s \in T |-> ScanAt(t, s, seq[j])]]
           Equation(g) == g = [B \in SUBSET (1 .. n) |->
                                  IF B = {} THEN base
                                  ELSE ScanAt(t, g[B \ {Largest(B)}], seq[Largest(B)])]
<1>1. n \in Nat /\ DOMAIN seq = 1 .. n /\ base \in T /\ \A j \in 1 .. n : seq[j] = j
  OBVIOUS
<1>2. Matches(t) = (CHOOSE g : Equation(g))[1 .. n].found
  BY <1>1 DEF Matches, ScanAt, LongestAt, FoldLeftDomain, FoldLeft, MapThenFoldSet, Max, Largest
<1>3. \A j \in 1 .. n : \A s \in T : step[j][s] = ScanAt(t, s, seq[j])
  <2> HIDE DEF T
  <2> QED
    OBVIOUS
<1>4. ASSUME NEW j \in 1 .. n, NEW s \in T
      PROVE  ScanAt(t, s, j) \in T
  <2>1. CASE j < s.next \/ LongestAt(t, j) = {}
    BY <2>1 DEF ScanAt
  <2>2. CASE ~(j < s.next \/ LongestAt(t, j) = {})
    <3>1. PICK p : p = (CHOOSE q \in LongestAt(t, j) : TRUE)
      OBVIOUS
    <3>2. p \in Phrases
      BY <2>2, <3>1 DEF LongestAt
    <3>3. ScanAt(t, s, j) = [next |-> j + Len(p), found |-> s.found \cup {[at |-> j, phrase |-> p]}]
      BY <2>2, <3>1 DEF ScanAt
    <3>4. Len(p) \in Nat /\ j \in Nat
      BY <1>1, <3>2, PhrasesAreLists
    <3> QED
      BY <3>2, <3>3, <3>4
  <2> QED
    BY <2>1, <2>2
<1>5. Within(step, n, T)
  <2>1. ASSUME NEW j \in 1 .. n, NEW s \in T
        PROVE  step[j][s] \in T
    BY <1>1, <1>3, <1>4
  <2> HIDE DEF n, T, step
  <2> QED
    BY <2>1, Zenon DEF Within
<1> HIDE DEF n, T, step, seq, base
<1>6. PICK f : Folds(f, step, base, n, T)
  BY <1>1, <1>5, FoldExists
<1>7. ASSUME NEW B \in SUBSET (1 .. n), B # {}
      PROVE  Largest(B) \in 1 .. n /\ B \ {Largest(B)} \in SUBSET (1 .. n)
  BY <1>1, <1>7, LargestIs
<1>8. Equation(f)
  <2>1. ASSUME NEW B \in SUBSET (1 .. n), B # {}
        PROVE  f[B] = ScanAt(t, f[B \ {Largest(B)}], seq[Largest(B)])
    <3>1. f[B] = step[Largest(B)][f[B \ {Largest(B)}]] /\ f[B \ {Largest(B)}] \in T
      BY <1>6, <1>7, <2>1 DEF Folds
    <3> QED
      BY <1>3, <1>7, <2>1, <3>1
  <2> QED
    BY <1>6, <2>1 DEF Folds
<1>9. PICK g : g = (CHOOSE f_1 : Equation(f_1)) /\ Equation(g)
  <2> HIDE DEF Equation
  <2> QED
    BY <1>8
<1>10. Solves(g, step, base, n, T)
  <2>1. ASSUME NEW B \in SUBSET (1 .. n), B # {}, g[B \ {Largest(B)}] \in T
        PROVE  g[B] = step[Largest(B)][g[B \ {Largest(B)}]]
    <3>1. g[B] = ScanAt(t, g[B \ {Largest(B)}], seq[Largest(B)])
      BY <1>9, <2>1
    <3> QED
      BY <1>3, <1>7, <2>1, <3>1
  <2>2. g[{}] = base
    BY <1>9
  <2> QED
    BY <2>1, <2>2 DEF Solves
<1>11. PICK h : Runs(h, step, base, n, T) /\ h[n] = g[1 .. n]
  BY <1>1, <1>5, <1>10, FoldRuns
<1>12. Scans(h, t)
  <2>1. h[0] = base
    BY <1>11 DEF Runs
  <2>2. ASSUME NEW j \in 1 .. n
        PROVE  h[j] = ScanAt(t, h[j - 1], j)
    <3>1. h[j] = step[j][h[j - 1]] /\ h[j - 1] \in T
      BY <1>1, <1>11 DEF Runs
    <3> QED
      BY <1>1, <1>3, <3>1
  <2>3. ASSUME NEW j \in 0 .. n
        PROVE  h[j] = [next |-> h[j].next, found |-> h[j].found]
    <3>1. h[j] \in T
      BY <1>11 DEF Runs
    <3> QED
      BY <3>1 DEF T
  <2> QED
    BY <2>1, <2>2, <2>3 DEF Scans, n, base
<1>13. h[n] = (CHOOSE g_1 : Equation(g_1))[1 .. n]
  BY <1>9, <1>11
<1> QED
  BY <1>2, <1>12, <1>13 DEF n

\* A phrase stands at k if its words do.
Stands(t, p, k) ==
    k + Len(p) <= Len(t) + 1 /\ \A i \in 1 .. Len(p) : t[k + i - 1] = p[i]

LEMMA AtMeans ==
    ASSUME NEW t, t \in Seq(Range(t)), NEW k \in 1 .. Len(t), NEW p, p \in Seq(Range(p))
    PROVE  At(t, p, k) <=> Stands(t, p, k)
<1> DEFINE n == Len(t)
           m == Len(p)
<1>1. n \in Nat /\ m \in Nat /\ k \in Nat /\ 1 <= k /\ k <= n
  OBVIOUS
<1>2. PICK rest : rest = SubSeq(t, k, n)
  OBVIOUS
<1>3. /\ rest \in Seq(Range(t)) /\ Len(rest) = n - k + 1
      /\ \A i \in 1 .. (n - k + 1) : rest[i] = t[k + i - 1]
  BY <1>1, <1>2
<1>4. At(t, p, k) <=> m <= n - k + 1 /\ SubSeq(p, 1, m) = SubSeq(rest, 1, m)
  BY <1>2, <1>3 DEF At, IsPrefix
<1>5. SubSeq(p, 1, m) = p
  BY <1>1
<1>6. ASSUME m <= n - k + 1
      PROVE  p = SubSeq(rest, 1, m) <=> \A i \in 1 .. m : t[k + i - 1] = p[i]
  <2>1. PICK s : s = SubSeq(rest, 1, m)
    OBVIOUS
  <2>2. Len(s) = m /\ s = [i \in 1 .. m |-> s[i]] /\ \A i \in 1 .. m : s[i] = t[k + i - 1]
    <3>1. m \in 0 .. Len(rest)
      BY <1>1, <1>3, <1>6
    <3>2. s = [i \in 1 .. m |-> rest[i]]
      BY <1>3, <2>1, <3>1
    <3>3. \A i \in 1 .. m : i \in 1 .. (n - k + 1)
      BY <1>1, <1>6
    <3> HIDE DEF n, m
    <3>4. Len(s) = m
      BY <1>1, <3>2
    <3> QED
      BY <1>3, <3>2, <3>3, <3>4
  <2>3. p = [i \in 1 .. m |-> p[i]]
    OBVIOUS
  <2>4. ASSUME \A i \in 1 .. m : t[k + i - 1] = p[i]
        PROVE  p = s
    <3>1. \A i \in 1 .. m : s[i] = p[i]
      BY <2>2, <2>4
    <3>2. [i \in 1 .. m |-> s[i]] = [i \in 1 .. m |-> p[i]]
      BY <3>1, Zenon
    <3> QED
      BY <2>2, <2>3, <3>2, Zenon
  <2>5. p = s => \A i \in 1 .. m : t[k + i - 1] = p[i]
    BY <2>2
  <2> QED
    BY <2>1, <2>4, <2>5, Zenon
<1> QED
  BY <1>1, <1>4, <1>5, <1>6 DEF Stands

\* One word more takes no phrase away, and brings those that end with it.
LEMMA OneWordMore ==
    ASSUME NEW t \in Seq(Words), NEW word \in Words, NEW k \in 1 .. Len(t), NEW p \in Phrases
    PROVE  /\ At(t, p, k) <=> Stands(t, p, k)
           /\ At(Append(t, word), p, k) <=> Stands(Append(t, word), p, k)
           /\ At(t, p, k) => At(Append(t, word), p, k)
           /\ At(Append(t, word), p, k) /\ ~At(t, p, k) => k + Len(p) = Len(t) + 2
<1>1. PICK u : u = Append(t, word)
  OBVIOUS
<1>2. /\ u \in Seq(Words) /\ Len(u) = Len(t) + 1 /\ Len(t) \in Nat
      /\ \A i \in 1 .. Len(t) : u[i] = t[i]
  BY <1>1
<1>3. t \in Seq(Range(t)) /\ u \in Seq(Range(u))
  BY <1>2 DEF Range
<1>4. p \in Seq(Range(p)) /\ Len(p) \in Nat
  BY PhrasesAreLists
<1>5. k \in 1 .. Len(u)
  BY <1>2
<1>6. (At(t, p, k) <=> Stands(t, p, k)) /\ (At(u, p, k) <=> Stands(u, p, k))
  BY <1>3, <1>4, <1>5, AtMeans
<1>7. Stands(t, p, k) => Stands(u, p, k)
  <2> SUFFICES ASSUME Stands(t, p, k)
               PROVE  Stands(u, p, k)
    OBVIOUS
  <2>1. \A i \in 1 .. Len(p) : k + i - 1 \in 1 .. Len(t)
    BY <1>2, <1>4 DEF Stands
  <2>2. \A i \in 1 .. Len(p) : u[k + i - 1] = t[k + i - 1]
    BY <1>2, <2>1
  <2>3. k + Len(p) <= Len(u) + 1
    BY <1>2, <1>4 DEF Stands
  <2> QED
    BY <2>2, <2>3 DEF Stands
<1>8. Stands(u, p, k) /\ ~Stands(t, p, k) => k + Len(p) = Len(t) + 2
  <2>1. ASSUME Stands(u, p, k), k + Len(p) <= Len(t) + 1
        PROVE  Stands(t, p, k)
    <3>1. \A i \in 1 .. Len(p) : k + i - 1 \in 1 .. Len(t)
      BY <1>2, <1>4, <2>1
    <3> QED
      BY <1>2, <1>4, <2>1, <3>1 DEF Stands
  <2>2. Stands(u, p, k) => k + Len(p) <= Len(t) + 2
    BY <1>2, <1>4 DEF Stands
  <2> QED
    BY <1>2, <1>4, <2>1, <2>2
<1> QED
  BY <1>1, <1>6, <1>7, <1>8

\* What was found stays found, and stands where it was found.
Founded(found, t, j) ==
    \A m \in found : m.at \in 1 .. j /\ m.phrase \in Phrases /\ At(t, m.phrase, m.at)

LEMMA FoundStays ==
    ASSUME NEW t \in Seq(Words), NEW h, Scans(h, t)
    PROVE  /\ \A j \in 0 .. Len(t) : Founded(h[j].found, t, j)
           /\ \A j \in 1 .. Len(t) :
                  h[j - 1].found \subseteq h[j].found
                  /\ \A m \in h[j].found : m \in h[j - 1].found \/ m.at = j
<1> DEFINE n == Len(t)
<1>1. n \in Nat /\ h[0].found = {}
  BY DEF Scans
<1>2. ASSUME NEW j \in 1 .. n
      PROVE  \/ h[j].found = h[j - 1].found
             \/ \E p \in Phrases : /\ At(t, p, j)
                                   /\ h[j].found = h[j - 1].found \cup {[at |-> j, phrase |-> p]}
  <2>1. h[j] = ScanAt(t, h[j - 1], j)
    BY DEF Scans
  <2>2. CASE j < h[j - 1].next \/ LongestAt(t, j) = {}
    BY <2>1, <2>2 DEF ScanAt
  <2>3. CASE ~(j < h[j - 1].next \/ LongestAt(t, j) = {})
    <3>1. PICK p : p = (CHOOSE q \in LongestAt(t, j) : TRUE)
      OBVIOUS
    <3>2. p \in Phrases /\ At(t, p, j)
      BY <2>3, <3>1 DEF LongestAt
    <3>3. h[j] = [next |-> j + Len(p), found |-> h[j - 1].found \cup {[at |-> j, phrase |-> p]}]
      BY <2>1, <2>3, <3>1 DEF ScanAt
    <3> QED
      BY <3>2, <3>3
  <2> QED
    BY <2>2, <2>3
<1>3. ASSUME NEW j \in 1 .. n
      PROVE  h[j - 1].found \subseteq h[j].found
             /\ \A m \in h[j].found : m \in h[j - 1].found \/ m.at = j
  BY <1>2
<1> DEFINE good == {j \in 0 .. n : Founded(h[j].found, t, j)}
<1>4. 0 \in good
  BY <1>1 DEF Founded
<1>5. ASSUME NEW j \in 1 .. n, j - 1 \in good
      PROVE  j \in good
  <2>1. Founded(h[j - 1].found, t, j - 1)
    BY <1>5
  <2>2. \A m \in h[j - 1].found : m.at \in 1 .. j /\ m.phrase \in Phrases /\ At(t, m.phrase, m.at)
    BY <1>1, <2>1 DEF Founded
  <2>3. Founded(h[j].found, t, j)
    BY <1>1, <1>2, <2>2 DEF Founded
  <2> QED
    BY <1>1, <2>3
<1>6. \A j \in 0 .. n : j \in good
  <2> HIDE DEF good
  <2> QED
    BY <1>1, <1>4, <1>5, UpTo
<1> QED
  BY <1>3, <1>6

\* A phrase of the longer text that ends with it, from k on.
EndsAt(t, p, k) == p \in Phrases /\ At(t, p, k) /\ k + Len(p) = Len(t) + 1

\* The scan of the longer text is the same, or has met a phrase that ends with it,
\* and kept what was found before that.
LEMMA ScansTogether ==
    ASSUME NEW t \in Seq(Words), NEW word \in Words,
           NEW h, Scans(h, t), NEW g, Scans(g, Append(t, word)), NEW j \in 0 .. Len(t)
    PROVE  \/ g[j] = h[j]
           \/ \E k \in 1 .. j, p \in Phrases :
                  EndsAt(Append(t, word), p, k) /\ h[k - 1].found \subseteq g[j].found
<1>1. PICK u : u = Append(t, word)
  OBVIOUS
<1> DEFINE n == Len(t)
           Met(i) == \E k \in 1 .. i, p \in Phrases :
                         EndsAt(u, p, k) /\ h[k - 1].found \subseteq g[i].found
           good == {i \in 0 .. n : g[i] = h[i] \/ Met(i)}
<1>2. n \in Nat /\ u \in Seq(Words) /\ Len(u) = n + 1
  BY <1>1
<1>3. 0 \in good
  BY <1>1, <1>2 DEF Scans
<1>4. ASSUME NEW i \in 1 .. n, i - 1 \in good
      PROVE  i \in good
  <2>1. h[i] = ScanAt(t, h[i - 1], i) /\ g[i] = ScanAt(u, g[i - 1], i)
    BY <1>1, <1>2 DEF Scans
  <2>2. g[i - 1].found \subseteq g[i].found
    <3>1. i \in 1 .. Len(u)
      BY <1>2
    <3> QED
      BY <1>1, <1>2, <3>1, FoundStays
  <2>3. CASE Met(i - 1)
    <3>1. PICK k \in 1 .. (i - 1), p \in Phrases :
              EndsAt(u, p, k) /\ h[k - 1].found \subseteq g[i - 1].found
      BY <2>3
    <3>2. k \in 1 .. i /\ h[k - 1].found \subseteq g[i].found
      BY <1>2, <2>2, <3>1
    <3>3. Met(i)
      BY <3>1, <3>2
    <3> QED
      BY <3>3
  <2>4. CASE g[i - 1] = h[i - 1]
    <3>1. CASE \E p \in Phrases : At(u, p, i) /\ ~At(t, p, i)
      <4>1. PICK p \in Phrases : At(u, p, i) /\ ~At(t, p, i)
        BY <3>1
      <4>2. i + Len(p) = n + 2
        BY <1>1, <4>1, OneWordMore
      <4>3. EndsAt(u, p, i)
        BY <1>2, <4>1, <4>2 DEF EndsAt
      <4>4. h[i - 1].found \subseteq g[i].found /\ i \in 1 .. i
        BY <2>2, <2>4
      <4> QED
        BY <4>3, <4>4
    <3>2. CASE \A p \in Phrases : At(u, p, i) => At(t, p, i)
      <4>1. \A p \in Phrases : At(u, p, i) <=> At(t, p, i)
        BY <1>1, <3>2, OneWordMore
      <4>2. {p \in Phrases : At(u, p, i)} = {p \in Phrases : At(t, p, i)}
        BY <4>1
      <4>3. LongestAt(u, i) = LongestAt(t, i)
        BY <4>2 DEF LongestAt
      <4>4. g[i] = h[i]
        BY <2>1, <2>4, <4>3 DEF ScanAt
      <4> QED
        BY <4>4
    <3> QED
      BY <3>1, <3>2
  <2> QED
    BY <1>4, <2>3, <2>4
<1>5. \A i \in 0 .. n : i \in good
  <2> HIDE DEF good
  <2> QED
    BY <1>2, <1>3, <1>4, UpTo
<1> QED
  BY <1>1, <1>5

\* What was found is found again, or stands within a phrase that ends the text.
LEMMA FoundAgain ==
    ASSUME NEW t \in Seq(Words), NEW word \in Words, NEW m \in Matches(t)
    PROVE  /\ m.at \in 1 .. Len(t) /\ m.phrase \in Phrases
           /\ \/ m \in Matches(Append(t, word))
              \/ \E k \in 1 .. m.at, p \in Phrases :
                     EndsAt(Append(t, word), p, k) /\ At(t, m.phrase, m.at)
<1>1. PICK u : u = Append(t, word)
  OBVIOUS
<1> DEFINE n == Len(t)
<1>2. n \in Nat /\ u \in Seq(Words) /\ Len(u) = n + 1
  BY <1>1
<1>3. PICK h : Scans(h, t) /\ Matches(t) = h[n].found
  BY MatchesAreScanned
<1>4. PICK g : Scans(g, u) /\ Matches(u) = g[n + 1].found
  BY <1>2, MatchesAreScanned
<1>5. m.at \in 1 .. n /\ m.phrase \in Phrases /\ At(t, m.phrase, m.at)
  <2>1. Founded(h[n].found, t, n)
    BY <1>2, <1>3, FoundStays
  <2> QED
    BY <1>3, <2>1 DEF Founded
<1>6. g[n].found \subseteq Matches(u)
  <2>1. n + 1 \in 1 .. Len(u) /\ (n + 1) - 1 = n
    BY <1>2
  <2>2. g[(n + 1) - 1].found \subseteq g[n + 1].found
    BY <1>2, <1>4, <2>1, FoundStays
  <2> QED
    BY <1>4, <2>1, <2>2
<1>7. CASE g[n] = h[n]
  BY <1>1, <1>3, <1>5, <1>6, <1>7
<1>8. CASE \E k \in 1 .. n, p \in Phrases : EndsAt(u, p, k) /\ h[k - 1].found \subseteq g[n].found
  <2>1. PICK k \in 1 .. n, p \in Phrases : EndsAt(u, p, k) /\ h[k - 1].found \subseteq g[n].found
    BY <1>8
  <2>2. CASE k <= m.at
    <3>1. k \in 1 .. m.at
      BY <1>5, <2>2
    <3> QED
      BY <1>1, <1>5, <2>1, <3>1
  <2>3. CASE m.at < k
    <3> DEFINE good == {i \in 0 .. n : i >= k - 1 /\ m \in h[i].found => m \in h[k - 1].found}
    <3>1. 0 \in good
      <4>1. ASSUME 0 >= k - 1
            PROVE  0 = k - 1
        BY <2>1, <4>1
      <4> QED
        BY <1>2, <4>1
    <3>2. ASSUME NEW i \in 1 .. n, i - 1 \in good
          PROVE  i \in good
      <4>1. CASE i = k - 1
        BY <4>1
      <4>2. CASE i < k - 1
        BY <4>2
      <4>3. CASE i > k - 1
        <5>1. m \in h[i].found => m \in h[i - 1].found \/ m.at = i
          BY <1>3, FoundStays
        <5>2. i >= k /\ m.at # i /\ i - 1 >= k - 1
          BY <1>5, <2>3, <4>3
        <5> QED
          BY <3>2, <5>1, <5>2
      <4> QED
        BY <4>1, <4>2, <4>3
    <3>3. \A i \in 0 .. n : i \in good
      <4> HIDE DEF good
      <4> QED
        BY <1>2, <3>1, <3>2, UpTo
    <3>4. n \in good
      <4>1. n \in 0 .. n
        BY <1>2
      <4> HIDE DEF good
      <4> QED
        BY <3>3, <4>1
    <3>5. m \in h[k - 1].found
      BY <1>2, <1>3, <2>1, <3>4
    <3>6. m \in Matches(u)
      BY <1>6, <2>1, <3>5
    <3> QED
      BY <1>1, <1>5, <3>6
  <2> QED
    BY <1>5, <2>2, <2>3
<1>9. g[n] = h[n] \/ \E k \in 1 .. n, p \in Phrases : EndsAt(u, p, k) /\ h[k - 1].found \subseteq g[n].found
  <2>1. n \in 0 .. Len(t)
    BY <1>2
  <2> QED
    BY <1>1, <1>3, <1>4, <2>1, ScansTogether
<1> QED
  BY <1>7, <1>8, <1>9

\* Whether a phrase is denied depends on the words before it.
LEMMA DeniedBefore ==
    ASSUME NEW t \in Seq(Words), NEW word \in Words, NEW at \in 1 .. Len(t)
    PROVE  IsNegated(Append(t, word), at) <=> IsNegated(t, at)
<1>1. PICK u : u = Append(t, word)
  OBVIOUS
<1> DEFINE n == Len(t)
           first == Max({1, at - NEGATION_WINDOW})
           After(s) == {first} \cup {k + 1 : k \in {i \in first .. at - 1 : s[i] \in ClauseBoundaries}}
<1>2. /\ n \in Nat /\ at \in Nat /\ 1 <= at /\ at <= n /\ NEGATION_WINDOW \in Nat
      /\ u \in Seq(Words) /\ Len(u) = n + 1 /\ \A i \in 1 .. n : u[i] = t[i]
  BY <1>1, SignalsAssumption
<1>3. first \in 1 .. at
  <2> DEFINE greater == IF 1 >= at - NEGATION_WINDOW THEN 1 ELSE at - NEGATION_WINDOW
  <2>1. greater \in {1, at - NEGATION_WINDOW} /\ \A y \in {1, at - NEGATION_WINDOW} : greater >= y
    BY <1>2
  <2>2. \A x \in {1, at - NEGATION_WINDOW} :
            (\A y \in {1, at - NEGATION_WINDOW} : x >= y) => x = greater
    BY <1>2
  <2>3. first = greater
    BY <2>1, <2>2 DEF Max
  <2> QED
    BY <1>2, <2>3
<1> HIDE DEF first
<1>4. After(u) = After(t)
  <2>1. \A i \in first .. at - 1 : u[i] = t[i]
    BY <1>2, <1>3
  <2>2. {i \in first .. at - 1 : u[i] \in ClauseBoundaries}
            = {i \in first .. at - 1 : t[i] \in ClauseBoundaries}
    BY <2>1
  <2> QED
    BY <2>2
<1>5. Max(After(t)) \in 1 .. at
  <2>1. PICK B : B = After(t)
    OBVIOUS
  <2>2. B \in SUBSET (1 .. at) /\ B # {}
    BY <1>2, <1>3, <2>1
  <2>3. Largest(B) \in B
    BY <1>2, <2>2, LargestIs
  <2>4. Max(B) = Largest(B)
    BY DEF Max, Largest
  <2> QED
    BY <2>1, <2>2, <2>3, <2>4
<1>6. Clause(t, at) = SubSeq(t, Max(After(t)), at - 1) /\ Clause(u, at) = SubSeq(u, Max(After(u)), at - 1)
  BY DEF Clause, first
<1> HIDE DEF After
<1>7. PICK b \in 1 .. at : b = Max(After(t))
  BY <1>5
<1>8. SubSeq(u, b, at - 1) = SubSeq(t, b, at - 1)
  <2>1. at - 1 <= n /\ at - 1 <= n + 1 /\ \A i \in 1 .. (at - b) : b + i - 1 \in 1 .. n
    BY <1>2
  <2>2. SubSeq(u, b, at - 1) = [i \in 1 .. (at - b) |-> u[b + i - 1]]
    BY <1>2, <2>1
  <2>3. SubSeq(t, b, at - 1) = [i \in 1 .. (at - b) |-> t[b + i - 1]]
    BY <1>2, <2>1
  <2>4. [i \in 1 .. (at - b) |-> u[b + i - 1]] = [i \in 1 .. (at - b) |-> t[b + i - 1]]
    BY <1>2, <2>1
  <2> QED
    BY <2>2, <2>3, <2>4
<1>9. Clause(u, at) = Clause(t, at)
  BY <1>4, <1>6, <1>7, <1>8
<1> QED
  BY <1>1, <1>9 DEF IsNegated

\* A phrase that ends a text is a suffix of it, and holds whatever stands in it.
LEMMA EndsText ==
    ASSUME NEW t \in Seq(Words), NEW word \in Words, NEW m \in Phrases, NEW at \in 1 .. Len(t),
           At(t, m, at), NEW k \in 1 .. at, NEW p, EndsAt(Append(t, word), p, k)
    PROVE  /\ p \in Phrases \ {m} /\ IsSuffix(p, Append(t, word))
           /\ \E i \in DOMAIN p : At(p, m, i)
<1>1. PICK u : u = Append(t, word)
  OBVIOUS
<1> DEFINE n == Len(t)
           l == Len(p)
<1>2. /\ n \in Nat /\ u \in Seq(Words) /\ Len(u) = n + 1 /\ \A i \in 1 .. n : u[i] = t[i]
      /\ at \in Nat /\ 1 <= at /\ at <= n /\ k \in Nat /\ 1 <= k /\ k <= at
  BY <1>1
<1>3. p \in Phrases /\ At(u, p, k) /\ k + l = n + 2
  BY <1>1, <1>2 DEF EndsAt
<1>4. p \in Seq(Range(p)) /\ l \in Nat /\ m \in Seq(Range(m)) /\ Len(m) \in Nat
  BY <1>3, PhrasesAreLists
<1>5. Stands(u, p, k) /\ Stands(t, m, at)
  <2>1. k \in 1 .. n
    BY <1>2
  <2> QED
    BY <1>1, <1>3, <2>1, OneWordMore
<1>6. at + Len(m) <= n + 1 /\ \A i \in 1 .. Len(m) : t[at + i - 1] = m[i]
  BY <1>5 DEF Stands
<1>7. \A i \in 1 .. l : u[k + i - 1] = p[i]
  BY <1>5 DEF Stands
<1>8. Len(m) < l /\ p # m
  BY <1>2, <1>3, <1>4, <1>6
<1>9. IsSuffix(p, u)
  <2>1. PICK r : r = Reverse(p)
    OBVIOUS
  <2>2. PICK v : v = Reverse(u)
    OBVIOUS
  <2>3. r = [i \in 1 .. l |-> p[(l - i) + 1]] /\ v = [i \in 1 .. (n + 1) |-> u[((n + 1) - i) + 1]]
    BY <1>2, <2>1, <2>2 DEF Reverse
  <2>4. Len(r) = l /\ Len(v) = n + 1
    BY <1>2, <1>4, <2>3
  <2>5. \A i \in 1 .. l : r[i] = v[i]
    <3> SUFFICES ASSUME NEW i \in 1 .. l
                 PROVE  r[i] = v[i]
      OBVIOUS
    <3>1. (l - i) + 1 \in 1 .. l /\ i \in 1 .. (n + 1)
      BY <1>2, <1>3, <1>4
    <3>2. r[i] = p[(l - i) + 1] /\ v[i] = u[((n + 1) - i) + 1]
      BY <2>3, <3>1
    <3>3. u[k + ((l - i) + 1) - 1] = p[(l - i) + 1]
      BY <1>7, <3>1
    <3>4. k + ((l - i) + 1) - 1 = ((n + 1) - i) + 1
      <4>1. i \in Int /\ l \in Int /\ n \in Int /\ k \in Int /\ k + l = n + 2
        BY <1>2, <1>3, <1>4
      <4> HIDE DEF n, l
      <4> QED
        BY <4>1
    <3> QED
      BY <3>2, <3>3, <3>4
  <2>6. \A i \in 1 .. l : p[(l - i) + 1] \in Range(p)
    BY <1>4
  <2>7. r \in Seq(Range(p))
    BY <1>4, <2>3, <2>6
  <2>8. v \in Seq(Words)
    <3>1. \A i \in 1 .. (n + 1) : u[((n + 1) - i) + 1] \in Words
      BY <1>2
    <3> QED
      BY <1>2, <2>3, <3>1
  <2>9. l <= n + 1
    BY <1>2, <1>3, <1>4
  <2>10. SubSeq(r, 1, l) = [i \in 1 .. l |-> r[i]] /\ SubSeq(v, 1, l) = [i \in 1 .. l |-> v[i]]
    BY <1>2, <1>4, <2>4, <2>7, <2>8, <2>9
  <2>11. [i \in 1 .. l |-> r[i]] = [i \in 1 .. l |-> v[i]]
    BY <2>5, Zenon
  <2>12. IsPrefix(r, v)
    BY <2>4, <2>9, <2>10, <2>11 DEF IsPrefix
  <2> QED
    BY <2>1, <2>2, <2>12 DEF IsSuffix
<1>10. PICK i : i = at - k + 1
  OBVIOUS
<1>11. i \in 1 .. l
  BY <1>2, <1>3, <1>4, <1>10
<1>12. Stands(p, m, i)
  <2>1. i + Len(m) <= l + 1
    BY <1>2, <1>3, <1>4, <1>6, <1>10
  <2>2. ASSUME NEW q \in 1 .. Len(m)
        PROVE  p[i + q - 1] = m[q]
    <3>1. i + q - 1 \in 1 .. l /\ at + q - 1 \in 1 .. n
      BY <1>2, <1>3, <1>4, <1>6, <1>10
    <3>2. u[k + (i + q - 1) - 1] = p[i + q - 1]
      BY <1>7, <3>1
    <3>3. k + (i + q - 1) - 1 = at + q - 1
      BY <1>2, <1>10
    <3>4. u[at + q - 1] = t[at + q - 1] /\ t[at + q - 1] = m[q]
      BY <1>2, <1>6, <3>1
    <3> QED
      BY <3>2, <3>3, <3>4
  <2> QED
    BY <2>1, <2>2 DEF Stands
<1>13. At(p, m, i)
  BY <1>4, <1>11, <1>12, AtMeans
<1>14. i \in DOMAIN p
  BY <1>4, <1>11
<1> QED
  BY <1>1, <1>3, <1>8, <1>9, <1>13, <1>14

-----------------------------------------------------------------------------
(* The specification: what was read, asked and scored fits together.       *)

CohortInvariant ==
    /\ text \in Seq(Words) /\ emphases = Emphases(text)
    /\ cohort \in [Candidates -> Profiles]
    /\ scores = [c \in Candidates |-> Score(cohort[c], emphases)]
    /\ groups = TieGroups(scores)

LEMMA CohortFitsTogether == Spec => []CohortInvariant
<1>1. Init => CohortInvariant
  BY DEF Init, CohortInvariant, Score
<1>2. CohortInvariant /\ [Next]_vars => CohortInvariant'
  <2> SUFFICES ASSUME CohortInvariant, [Next]_vars
               PROVE  CohortInvariant'
    OBVIOUS
  <2>1. ASSUME NEW word \in Words, Write(word)
        PROVE  CohortInvariant'
    BY <2>1 DEF Write, Rescore, CohortInvariant, Score
  <2>2. CASE UNCHANGED vars
    BY <2>2 DEF vars, CohortInvariant
  <2> QED
    BY <2>1, <2>2 DEF Next
<1> QED
  BY <1>1, <1>2, PTL DEF Spec

\* "One enormous repository cannot crowd out everything a posting actually asked
\* for": select_repositories reads nothing that matches nothing in the place of
\* work of the candidate's own in a language or on a topic of the posting.
THEOREM MatchesAreRead == Spec => []MatchIsNeverCrowdedOut
<1>1. CohortInvariant => MatchIsNeverCrowdedOut
  BY MatchIsRead DEF CohortInvariant
<1> QED
  BY <1>1, CohortFitsTogether, PTL

\* A verdict of audit_comparison on the four-fifths rule is right, whoever is in
\* the groups and however many are selected, up to 942 candidates: of more, the
\* counts of two groups may be closer than six decimals of a rate can tell.
THEOREM VerdictsAreRight ==
    ASSUME Comparable
    PROVE  Spec => []VerdictIsFourFifths
<1>1. CohortInvariant => EverybodyIsScored
  BY DEF CohortInvariant, EverybodyIsScored
<1>2. EverybodyIsScored => VerdictIsFourFifths
  BY VerdictIsRight
<1> QED
  BY <1>1, <1>2, CohortFitsTogether, PTL

\* compare, which looks at neighbours only, still puts any two candidates into
\* one tie group whose bands overlap, unless the band of somebody between them
\* is narrower than both of theirs: in a cohort of any size, for any posting.
THEOREM OverlapsShareGroups == Spec => []OverlapSharesGroup
<1>1. CohortInvariant => OverlapSharesGroup
  <2> SUFFICES ASSUME CohortInvariant
               PROVE  OverlapSharesGroup
    OBVIOUS
  <2>1. DOMAIN scores = Candidates
    BY DEF CohortInvariant
  <2>2. IsFiniteSet(Candidates) /\ Candidates \subseteq Int
    BY CohortAssumption, FS_Interval DEF Candidates
  <2>3. \A c \in Scored(scores) : scores[c].score \in Int /\ scores[c].width \in Int
    <3> SUFFICES ASSUME NEW c \in Scored(scores)
                 PROVE  scores[c].score \in Int /\ scores[c].width \in Int
      OBVIOUS
    <3>1. c \in Candidates /\ scores[c].score # None
      BY <2>1 DEF Scored
    <3>2. scores[c] = Score(cohort[c], Emphases(text)) /\ cohort[c] \in Profiles
      BY <3>1 DEF CohortInvariant
    <3> QED
      BY <3>1, <3>2, ScoresAreNumbers
  <2>4. Orderable(scores)
    BY <2>1, <2>2, <2>3, FS_Subset DEF Orderable, Scored
  <2>5. groups = TieGroups(scores)
    BY DEF CohortInvariant
  <2> QED
    BY <2>4, <2>5, OverlapsAreTied DEF OverlapSharesGroup
<1> QED
  BY <1>1, CohortFitsTogether, PTL

\* Whatever is written after it: no phrase a posting asks with is withdrawn, unless
\* it is part of a longer phrase that the last word completed. The scanner takes
\* one phrase at a time, and a negation what follows it alone.
THEOREM AskedIsKept == Spec => AskedStaysAsked
<1>1. ASSUME CohortInvariant, [Next]_vars
      PROVE  [\A d \in DOMAIN SIGNALS : \A phrase \in emphases[d] \ emphases'[d] :
                  \E longer \in Phrases \ {phrase} :
                      /\ IsSuffix(longer, text')
                      /\ \E k \in DOMAIN longer : At(longer, phrase, k)]_vars
  <2>1. CASE UNCHANGED vars
    BY <2>1
  <2>2. ASSUME NEW word \in Words, Write(word),
               NEW d \in DOMAIN SIGNALS, NEW phrase \in emphases[d] \ emphases'[d]
        PROVE  \E longer \in Phrases \ {phrase} :
                   IsSuffix(longer, text') /\ \E k \in DOMAIN longer : At(longer, phrase, k)
    <3>1. /\ text \in Seq(Words) /\ text' = Append(text, word)
          /\ emphases = Emphases(text) /\ emphases' = Emphases(text')
      BY <1>1, <2>2 DEF CohortInvariant, Write
    <3>2. PICK m \in Matches(text) : m.phrase = phrase /\ ~IsNegated(text, m.at)
      BY <2>2, <3>1 DEF Emphases
    <3>3. phrase \in SIGNALS[d]
      BY <2>2, <3>1 DEF Emphases
    <3>4. m.at \in 1 .. Len(text) /\ m.phrase \in Phrases
      BY <3>1, FoundAgain
    <3>5. ~IsNegated(text', m.at)
      BY <3>1, <3>2, <3>4, DeniedBefore
    <3>6. m \notin Matches(text')
      <4> SUFFICES ASSUME m \in Matches(text')
                   PROVE  phrase \in emphases'[d]
        BY <2>2
      <4> QED
        BY <3>1, <3>2, <3>3, <3>5 DEF Emphases
    <3>7. PICK k \in 1 .. m.at, p \in Phrases : EndsAt(text', p, k) /\ At(text, m.phrase, m.at)
      BY <3>1, <3>6, FoundAgain
    <3>8. p \in Phrases \ {m.phrase} /\ IsSuffix(p, text') /\ \E i \in DOMAIN p : At(p, m.phrase, i)
      BY <3>1, <3>4, <3>7, EndsText
    <3> QED
      BY <3>2, <3>8
  <2> QED
    BY <1>1, <2>1, <2>2 DEF Next
<1> QED
  BY <1>1, CohortFitsTogether, PTL DEF Spec, AskedStaysAsked

=============================================================================
