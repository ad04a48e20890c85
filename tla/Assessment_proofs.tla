-------------------------- MODULE Assessment_proofs --------------------------
(***************************************************************************)
(* What scoring, ranking and reviewing promise (Assessment), proved for    *)
(* every portfolio, every document, every table of findings and every      *)
(* rubric:                                                                 *)
(*                                                                         *)
(*   - scoring never raises: each dimension passes its own checks;         *)
(*   - repositories nobody read widen the band, and nothing else;          *)
(*   - a human's dismissal never hurts the candidate it is about;          *)
(*   - a stored comparison and the screen, which sort apart, show the same *)
(*     list once nothing distinguishes their inputs;                       *)
(*   - no labelled value is in a claim or in what a model was sent;        *)
(*   - a source that fails takes nothing of another one along;             *)
(*   - a model repeats nothing that was claimed without it.                *)
(*                                                                         *)
(* The module goes from the parts to the whole: sums over finite sets,     *)
(* rounded quotients, the dimensions of one dossier, the score of one      *)
(* candidate, the place in the cohort, what is shown; then the folds that  *)
(* redact, parse and merge the documents, the claims they leave, the       *)
(* dossier a run builds, and last the theorems of the specification.       *)
(***************************************************************************)
EXTENDS Assessment, FiniteSetTheorems, WellFoundedInduction, SequenceTheorems, TLAPS

-----------------------------------------------------------------------------
(* Sums over finite sets, taken one element after another.                 *)

\* What holds of a finite set as soon as it holds of all that is less, holds of
\* every part of it.
LEMMA PartsInduction ==
    ASSUME NEW S, IsFiniteSet(S), NEW T \in SUBSET (SUBSET S),
           \A A \in SUBSET S : (\A B \in SUBSET A : B # A => B \in T) => A \in T
    PROVE  T = SUBSET S
<1> SUFFICES ASSUME (SUBSET S) \ T # {}
             PROVE  FALSE
  OBVIOUS
<1> DEFINE rest == (SUBSET S) \ T
           Less == StrictSubsetOrdering(S)
<1>1. IsWellFoundedOn(Less, SUBSET S)
  <2>1. FiniteSubsetsOf(S) = SUBSET S
    BY FS_FiniteSubsetsOfFinite
  <2>2. IsWellFoundedOn(Less, FiniteSubsetsOf(S))
    BY FS_StrictSubsetOrderingWellFounded
  <2> QED
    BY <2>1, <2>2
<1>2. PICK A \in rest : \A B \in rest : <<B, A>> \notin Less
  <2>1. rest \subseteq SUBSET S /\ rest # {}
    OBVIOUS
  <2> HIDE DEF rest, Less
  <2>2. \E A \in rest : \A B \in rest : ~(<<B, A>> \in Less)
    BY <1>1, <2>1, WFMin
  <2> QED
    BY <2>2
<1>3. \A B \in SUBSET A : B # A => B \in T
  BY <1>2 DEF StrictSubsetOrdering
<1> QED
  BY <1>2, <1>3

Pick(A) == CHOOSE x \in A : TRUE

\* The recursion of FoldFunction over the parts of A.
Adds(f, A, g) ==
    g = [B \in SUBSET A |-> IF B = {} THEN 0 ELSE f[Pick(B)] + g[B \ {Pick(B)}]]

SumOver(f, A) == (CHOOSE g : Adds(f, A, g))[A]

\* SumFunction of the community modules is this sum over the function's domain.
LEMMA SumIsSum ==
    ASSUME NEW f
    PROVE  SumFunction(f) = SumOver(f, DOMAIN f)
BY DEF SumFunction, SumFunctionOnSet, FoldFunctionOnSet, MapThenFoldSet, SumOver, Adds, Pick

\* What CHOOSE takes from a set is in it.
LEMMA PickIsIn ==
    ASSUME NEW A, A # {}
    PROVE  Pick(A) \in A
BY DEF Pick

\* Two recursions over two sets give every common part the same sum.
LEMMA SumsAgree ==
    ASSUME NEW S, IsFiniteSet(S), NEW A \in SUBSET S, NEW B \in SUBSET S, NEW f,
           NEW g, Adds(f, A, g), NEW h, Adds(f, B, h)
    PROVE  \A C \in SUBSET (A \cap B) : g[C] = h[C]
<1> DEFINE T == {C \in SUBSET S : C \in SUBSET (A \cap B) => g[C] = h[C]}
<1>1. ASSUME NEW C \in SUBSET S, \A D \in SUBSET C : D # C => D \in T,
             C \in SUBSET (A \cap B)
      PROVE  g[C] = h[C]
  <2>1. CASE C = {}
    BY <1>1, <2>1 DEF Adds
  <2>2. CASE C # {}
    <3>1. Pick(C) \in C
      BY <2>2, PickIsIn
    <3>2. g[C \ {Pick(C)}] = h[C \ {Pick(C)}]
      BY <1>1, <3>1
    <3>3. g[C] = f[Pick(C)] + g[C \ {Pick(C)}]
      BY <1>1, <2>2 DEF Adds
    <3>4. C \in SUBSET B
      BY <1>1
    <3>5. h = [D \in SUBSET B |-> IF D = {} THEN 0 ELSE f[Pick(D)] + h[D \ {Pick(D)}]]
      BY DEF Adds
    <3>6. h[C] = f[Pick(C)] + h[C \ {Pick(C)}]
      BY <2>2, <3>4, <3>5
    <3> QED
      BY <3>2, <3>3, <3>6
  <2> QED
    BY <2>1, <2>2
<1>2. T = SUBSET S
  <2>1. T \in SUBSET (SUBSET S)
    OBVIOUS
  <2>2. \A C \in SUBSET S : (\A D \in SUBSET C : D # C => D \in T) => C \in T
    BY <1>1
  <2> HIDE DEF T
  <2> QED
    BY <2>1, <2>2, PartsInduction
<1> QED
  BY <1>2

\* Over a finite set there is such a recursion.
LEMMA SumsExist ==
    ASSUME NEW S, IsFiniteSet(S), NEW f
    PROVE  \E g : Adds(f, S, g)
<1> DEFINE T == {A \in SUBSET S : \E g : Adds(f, A, g)}
<1>1. ASSUME NEW A \in SUBSET S, \A B \in SUBSET A : B # A => B \in T
      PROVE  \E g : Adds(f, A, g)
  <2> DEFINE Of(B) == CHOOSE g : Adds(f, B, g)
             g == [B \in SUBSET A |->
                      IF B = {} THEN 0
                      ELSE f[Pick(B)] + Of(B \ {Pick(B)})[B \ {Pick(B)}]]
  <2>1. \A B \in SUBSET A : B # A => Adds(f, B, Of(B))
    BY <1>1
  <2>2. ASSUME NEW B \in SUBSET A, B # A
        PROVE  g[B] = Of(B)[B]
    <3>1. Adds(f, B, Of(B))
      BY <2>1, <2>2
    <3> HIDE DEF Of
    <3>2. CASE B = {}
      BY <3>1, <3>2 DEF Adds
    <3>3. CASE B # {}
      <4> DEFINE C == B \ {Pick(B)}
      <4>1. Pick(B) \in B
        BY <3>3, PickIsIn
      <4>2. C \in SUBSET A /\ C # A /\ C \in SUBSET B
        BY <4>1
      <4>3. Adds(f, C, Of(C))
        BY <2>1, <4>2
      <4>4. Of(C)[C] = Of(B)[C]
        <5>1. B \in SUBSET S /\ C \in SUBSET S /\ C \in SUBSET (B \cap C)
          BY <4>2
        <5> HIDE DEF C
        <5> QED
          BY <3>1, <4>3, <5>1, SumsAgree
      <4>5. Of(B)[B] = f[Pick(B)] + Of(B)[C]
        BY <3>1, <3>3 DEF Adds
      <4>6. g[B] = f[Pick(B)] + Of(C)[C]
        BY <3>3
      <4> QED
        BY <4>4, <4>5, <4>6
    <3> QED
      BY <3>2, <3>3
  <2>3. \A B \in SUBSET A :
            B # {} => g[B \ {Pick(B)}] = Of(B \ {Pick(B)})[B \ {Pick(B)}]
    <3> SUFFICES ASSUME NEW B \in SUBSET A, B # {}
                 PROVE  g[B \ {Pick(B)}] = Of(B \ {Pick(B)})[B \ {Pick(B)}]
      OBVIOUS
    <3>1. Pick(B) \in B
      BY PickIsIn
    <3>2. B \ {Pick(B)} \in SUBSET A /\ B \ {Pick(B)} # A
      BY <3>1
    <3> HIDE DEF g, Of
    <3> QED
      BY <2>2, <3>2
  <2>4. Adds(f, A, g)
    <3>1. g = [B \in SUBSET A |-> IF B = {} THEN 0 ELSE f[Pick(B)] + g[B \ {Pick(B)}]]
      <4>1. g = [B \in SUBSET A |-> g[B]]
        OBVIOUS
      <4>2. \A B \in SUBSET A :
                g[B] = IF B = {} THEN 0
                       ELSE f[Pick(B)] + Of(B \ {Pick(B)})[B \ {Pick(B)}]
        OBVIOUS
      <4> HIDE DEF g, Of
      <4>3. \A B \in SUBSET A :
                g[B] = IF B = {} THEN 0 ELSE f[Pick(B)] + g[B \ {Pick(B)}]
        BY <2>3, <4>2
      <4> QED
        BY <4>1, <4>3
    <3> HIDE DEF g
    <3> QED
      BY <3>1 DEF Adds
  <2> QED
    BY <2>4
<1>2. T = SUBSET S
  <2>1. T \in SUBSET (SUBSET S)
    OBVIOUS
  <2>2. \A A \in SUBSET S : (\A B \in SUBSET A : B # A => B \in T) => A \in T
    BY <1>1
  <2> HIDE DEF T
  <2> QED
    BY <2>1, <2>2, PartsInduction
<1> QED
  BY <1>2

\* The recursion, for a finite set.
LEMMA SumStep ==
    ASSUME NEW A, IsFiniteSet(A), NEW f
    PROVE  /\ SumOver(f, {}) = 0
           /\ A # {} => SumOver(f, A) = f[Pick(A)] + SumOver(f, A \ {Pick(A)})
<1> DEFINE Of(B) == CHOOSE g : Adds(f, B, g)
<1>1. ASSUME NEW B \in SUBSET A
      PROVE  Adds(f, B, Of(B))
  BY <1>1, SumsExist, FS_Subset
<1>2. \A B : SumOver(f, B) = Of(B)[B]
  BY DEF SumOver
<1> HIDE DEF Of
<1>3. Of({})[{}] = 0
  BY <1>1 DEF Adds
<1>4. ASSUME A # {}
      PROVE  Of(A)[A] = f[Pick(A)] + Of(A \ {Pick(A)})[A \ {Pick(A)}]
  <2> DEFINE B == A \ {Pick(A)}
  <2>1. Adds(f, A, Of(A)) /\ Adds(f, B, Of(B))
    BY <1>1
  <2>2. Of(A)[B] = Of(B)[B]
    BY <2>1, SumsAgree
  <2>3. Of(A)[A] = f[Pick(A)] + Of(A)[B]
    BY <2>1, <1>4 DEF Adds
  <2> QED
    BY <2>2, <2>3
<1> QED
  BY <1>2, <1>3, <1>4

\* A sum of integers is an integer.
LEMMA SumIsInt ==
    ASSUME NEW S, IsFiniteSet(S), NEW f, \A x \in S : f[x] \in Int
    PROVE  \A A \in SUBSET S : SumOver(f, A) \in Int
<1> DEFINE T == {A \in SUBSET S : SumOver(f, A) \in Int}
<1>1. ASSUME NEW A \in SUBSET S, \A B \in SUBSET A : B # A => B \in T
      PROVE  SumOver(f, A) \in Int
  <2>1. IsFiniteSet(A)
    BY FS_Subset
  <2>2. CASE A = {}
    BY <2>1, <2>2, SumStep
  <2>3. CASE A # {}
    <3>1. Pick(A) \in A
      BY <2>3, PickIsIn
    <3>2. SumOver(f, A \ {Pick(A)}) \in Int /\ f[Pick(A)] \in Int
      BY <1>1, <3>1
    <3>3. SumOver(f, A) = f[Pick(A)] + SumOver(f, A \ {Pick(A)})
      BY <2>1, <2>3, SumStep
    <3> QED
      BY <3>2, <3>3
  <2> QED
    BY <2>2, <2>3
<1>2. T = SUBSET S
  <2>1. T \in SUBSET (SUBSET S)
    OBVIOUS
  <2>2. \A A \in SUBSET S : (\A B \in SUBSET A : B # A => B \in T) => A \in T
    BY <1>1
  <2> HIDE DEF T
  <2> QED
    BY <2>1, <2>2, PartsInduction
<1> QED
  BY <1>2

\* The order in which a sum is taken does not matter.
LEMMA SumWithout ==
    ASSUME NEW S, IsFiniteSet(S), NEW f, \A x \in S : f[x] \in Int
    PROVE  \A A \in SUBSET S : \A x \in A : SumOver(f, A) = f[x] + SumOver(f, A \ {x})
<1> DEFINE T == {A \in SUBSET S :
                    \A x \in A : SumOver(f, A) = f[x] + SumOver(f, A \ {x})}
<1>1. ASSUME NEW A \in SUBSET S, \A B \in SUBSET A : B # A => B \in T, NEW x \in A
      PROVE  SumOver(f, A) = f[x] + SumOver(f, A \ {x})
  <2> DEFINE p == Pick(A)
             B == A \ {p}
             C == A \ {x}
             D == A \ {p, x}
  <2>1. p \in A
    BY PickIsIn
  <2>2. SumOver(f, A) = f[p] + SumOver(f, B)
    BY SumStep, FS_Subset
  <2>3. SumOver(f, B) \in Int /\ SumOver(f, D) \in Int /\ f[p] \in Int /\ f[x] \in Int
    BY <2>1, SumIsInt
  <2>4. CASE p = x
    BY <2>2, <2>4
  <2>5. CASE p # x
    <3>1. B \in T /\ C \in T
      BY <1>1, <2>1
    <3>2. x \in B /\ p \in C /\ B \ {x} = D /\ C \ {p} = D
      BY <2>1, <2>5
    <3> HIDE DEF p, B, C, D
    <3>3. SumOver(f, B) = f[x] + SumOver(f, D)
      BY <3>1, <3>2
    <3>4. SumOver(f, C) = f[p] + SumOver(f, D)
      BY <3>1, <3>2
    <3>5. SumOver(f, A) = f[x] + SumOver(f, C)
      BY <2>2, <2>3, <3>3, <3>4
    <3> QED
      BY <3>5 DEF C
  <2> QED
    BY <2>4, <2>5
<1>2. T = SUBSET S
  <2>1. T \in SUBSET (SUBSET S)
    OBVIOUS
  <2>2. \A A \in SUBSET S : (\A B \in SUBSET A : B # A => B \in T) => A \in T
    BY <1>1
  <2> HIDE DEF T
  <2> QED
    BY <2>1, <2>2, PartsInduction
<1> QED
  BY <1>2

\* A sum of more, where nothing more is negative, is no less.
LEMMA SumOfMore ==
    ASSUME NEW S, IsFiniteSet(S),
           NEW f, \A x \in S : f[x] \in Int,
           NEW P \in SUBSET S, NEW g, \A x \in P : g[x] \in Int /\ g[x] <= f[x],
           \A x \in S \ P : f[x] >= 0
    PROVE  SumOver(g, P) <= SumOver(f, S)
<1> DEFINE T == {A \in SUBSET S : SumOver(g, P \cap A) <= SumOver(f, A)}
<1>1. ASSUME NEW A \in SUBSET S, \A B \in SUBSET A : B # A => B \in T
      PROVE  SumOver(g, P \cap A) <= SumOver(f, A)
  <2>1. IsFiniteSet(A) /\ IsFiniteSet(P)
    BY FS_Subset
  <2>2. CASE A = {}
    <3>1. P \cap A = {}
      BY <2>2
    <3> QED
      BY <2>1, <2>2, <3>1, SumStep
  <2>3. CASE A # {}
    <3> DEFINE p == Pick(A)
               B == A \ {p}
    <3>1. p \in A
      BY <2>3, PickIsIn
    <3>2. SumOver(f, A) = f[p] + SumOver(f, B)
      BY <2>1, <2>3, SumStep
    <3>3. SumOver(g, P \cap B) <= SumOver(f, B)
      BY <1>1, <3>1
    <3>4. SumOver(f, B) \in Int /\ f[p] \in Int
      BY <3>1, SumIsInt
    <3>5. SumOver(g, P \cap B) \in Int /\ (P \cap A) \in SUBSET P
      <4>1. (P \cap B) \in SUBSET P
        OBVIOUS
      <4> QED
        BY <2>1, <4>1, SumIsInt
    <3>6. CASE p \in P
      <4>1. p \in P \cap A /\ (P \cap A) \ {p} = P \cap B
        BY <3>1, <3>6
      <4> HIDE DEF p, B
      <4>2. SumOver(g, P \cap A) = g[p] + SumOver(g, (P \cap A) \ {p})
        BY <2>1, <3>5, <4>1, SumWithout
      <4>3. g[p] \in Int /\ g[p] <= f[p]
        BY <3>6
      <4>4. SumOver(g, P \cap A) = g[p] + SumOver(g, P \cap B)
        BY <4>1, <4>2
      <4> HIDE DEF T
      <4> QED
        BY <3>2, <3>3, <3>4, <3>5, <4>3, <4>4
    <3>7. CASE p \notin P
      <4>1. P \cap A = P \cap B /\ f[p] >= 0
        BY <3>1, <3>7
      <4> HIDE DEF p, B
      <4>2. SumOver(g, P \cap A) = SumOver(g, P \cap B)
        BY <4>1
      <4> HIDE DEF T
      <4> QED
        BY <3>2, <3>3, <3>4, <3>5, <4>1, <4>2
    <3> QED
      BY <3>6, <3>7
  <2> QED
    BY <2>2, <2>3
<1>2. T = SUBSET S
  <2>1. T \in SUBSET (SUBSET S)
    OBVIOUS
  <2>2. \A A \in SUBSET S : (\A B \in SUBSET A : B # A => B \in T) => A \in T
    BY <1>1
  <2> HIDE DEF T
  <2> QED
    BY <2>1, <2>2, PartsInduction
<1>3. P \cap S = P
  OBVIOUS
<1> QED
  BY <1>2, <1>3

-----------------------------------------------------------------------------
(* Numbers.                                                                *)

\* The least and the greatest of two.
LEMMA MinOfTwo ==
    ASSUME NEW a \in Int, NEW b \in Int
    PROVE  Min({a, b}) = IF a <= b THEN a ELSE b
<1> DEFINE least == IF a <= b THEN a ELSE b
<1>1. least \in {a, b} /\ \A y \in {a, b} : least <= y
  OBVIOUS
<1>2. \A x \in {a, b} : (\A y \in {a, b} : x <= y) => x = least
  OBVIOUS
<1> QED
  BY <1>1, <1>2 DEF Min

LEMMA MaxOfTwo ==
    ASSUME NEW a \in Int, NEW b \in Int
    PROVE  Max({a, b}) = IF a >= b THEN a ELSE b
<1> DEFINE greatest == IF a >= b THEN a ELSE b
<1>1. greatest \in {a, b} /\ \A y \in {a, b} : greatest >= y
  OBVIOUS
<1>2. \A x \in {a, b} : (\A y \in {a, b} : x >= y) => x = greatest
  OBVIOUS
<1> QED
  BY <1>1, <1>2 DEF Max

\* What multiplies to a natural number is left to arithmetic here alone.
LEMMA Product ==
    ASSUME NEW a \in Nat, NEW b \in Nat
    PROVE  a * b \in Nat
OBVIOUS

\* A rounded quotient is no less, or no more, than what the dividend holds.
LEMMA QuotientBetween ==
    ASSUME NEW n \in Int, NEW d \in Int, d > 0, NEW k \in Int
    PROVE  /\ Quotient(n, d) \in Int
           /\ (2 * d) * k <= 2 * n + d => k <= Quotient(n, d)
           /\ 2 * n + d < (2 * d) * (k + 1) => Quotient(n, d) <= k
<1> DEFINE e == 2 * d
           m == 2 * n + d
           q == m \div e
<1>1. e \in Int /\ e > 0 /\ m \in Int
  OBVIOUS
<1> HIDE DEF e, m
<1>2. q \in Int /\ e * q <= m /\ m < e * q + e
  BY <1>1
<1> HIDE DEF q
<1>3. ASSUME e * k <= m
      PROVE  k <= q
  <2>1. SUFFICES ASSUME k >= q + 1
                 PROVE  FALSE
    BY <1>2
  <2>2. e * (k - (q + 1)) \in Nat
    BY <1>1, <1>2, <2>1, Product
  <2>3. e * (k - (q + 1)) = e * k - e * q - e
    BY <1>1, <1>2
  <2> QED
    BY <1>1, <1>2, <1>3, <2>2, <2>3
<1>4. ASSUME m < e * (k + 1)
      PROVE  q <= k
  <2>1. SUFFICES ASSUME q >= k + 1
                 PROVE  FALSE
    BY <1>2
  <2>2. e * (q - (k + 1)) \in Nat
    BY <1>1, <1>2, <2>1, Product
  <2>3. e * (q - (k + 1)) = e * q - e * (k + 1)
    BY <1>1, <1>2
  <2> QED
    BY <1>1, <1>2, <1>4, <2>2, <2>3
<1> QED
  BY <1>2, <1>3, <1>4 DEF q, e, m, Quotient

\* Rounding keeps the order of the dividends.
LEMMA QuotientMonotone ==
    ASSUME NEW m \in Int, NEW n \in Int, m <= n, NEW d \in Int, d > 0
    PROVE  Quotient(m, d) <= Quotient(n, d)
<1> DEFINE q == Quotient(m, d)
           e == 2 * d
<1>1. q \in Int
  BY QuotientBetween
<1>2. e * q <= 2 * m + d
  BY DEF Quotient
<1>3. e * q \in Int
  BY <1>1
<1> HIDE DEF q, e
<1>4. e * q <= 2 * n + d
  BY <1>2, <1>3
<1> QED
  BY <1>1, <1>4, QuotientBetween DEF q, e

LEMMA OneIsPositive == One \in Nat /\ One > 0
BY SMT DEF One

-----------------------------------------------------------------------------
(* The dimensions of a dossier.                                            *)

\* What scoring may rely on: counts that fit together, and findings of the table.
Sane(d) ==
    /\ IsFiniteSet(d.red_flags)
    /\ \A flag \in d.red_flags : flag.check \in DOMAIN Finding
    /\ d.considered \in Nat /\ d.analysed \in 0 .. d.considered
    /\ d.analysed > 0 => d.snapshot # {}
    /\ d.authored \in 0 .. d.analysed /\ d.deep \in 0 .. d.analysed
    /\ d.corroborated \in Nat /\ d.contradicted \in Nat /\ d.claims \in Nat
    /\ d.resolved = d.corroborated + d.contradicted /\ d.resolved <= d.claims

Gradable(flags) ==
    /\ IsFiniteSet(flags)
    /\ \A flag \in flags : flag.check \in DOMAIN Finding

Points(flags) ==
    [flag \in flags |-> SEVERITY_PENALTY[Finding[flag.check].severity]
                            * Finding[flag.check].confidence * 100]

\* No finding of the table takes a negative number of points off.
LEMMA PointsAreNatural ==
    ASSUME NEW flags, Gradable(flags)
    PROVE  \A flag \in flags : Points(flags)[flag] \in Nat
<1> SUFFICES ASSUME NEW flag \in flags
             PROVE  Points(flags)[flag] \in Nat
  OBVIOUS
<1> DEFINE finding == Finding[flag.check]
<1>1. finding.severity \in DOMAIN SEVERITY_PENALTY /\ finding.confidence \in Nat
  BY FindingAssumption DEF Gradable
<1> HIDE DEF finding
<1>2. SEVERITY_PENALTY[finding.severity] \in Nat
  BY <1>1 DEF SEVERITY_PENALTY
<1>3. SEVERITY_PENALTY[finding.severity] * finding.confidence \in Nat
  BY <1>1, <1>2, Product
<1> QED
  BY <1>3 DEF finding, Points

\* Fewer flags cost no more.
LEMMA PenaltyOfFewer ==
    ASSUME NEW flags, Gradable(flags), NEW fewer \in SUBSET flags
    PROVE  /\ Gradable(fewer)
           /\ Penalty(fewer) \in Nat /\ Penalty(flags) \in Nat
           /\ Penalty(fewer) <= Penalty(flags)
<1>1. Gradable(fewer)
  BY FS_Subset DEF Gradable
<1>2. ASSUME NEW some, Gradable(some)
      PROVE  Penalty(some) = SumOver(Points(some), some)
  BY SumIsSum DEF Penalty, Points
<1>3. \A flag \in fewer : Points(fewer)[flag] = Points(flags)[flag]
  BY DEF Points
<1>4. ASSUME NEW some, Gradable(some)
      PROVE  SumOver(Points(some), some) \in Nat
  <2>1. IsFiniteSet(some) /\ \A flag \in some : Points(some)[flag] \in Int
    BY <1>4, PointsAreNatural DEF Gradable
  <2>2. \A flag \in some : Points(some)[flag] >= 0
    BY <1>4, PointsAreNatural
  <2> DEFINE points == Points(some)
             none == {}
  <2> HIDE DEF points
  <2>3. SumOver(points, some) \in Int
    BY <2>1, SumIsInt DEF points
  <2>4. SumOver(points, none) = 0
    BY <2>1, SumStep
  <2>5. /\ none \in SUBSET some
        /\ \A x \in none : points[x] \in Int /\ points[x] <= points[x]
        /\ \A x \in some \ none : points[x] >= 0
    BY <2>2 DEF points
  <2>6. SumOver(points, none) <= SumOver(points, some)
    <3> HIDE DEF none
    <3> QED
      BY <2>1, <2>5, SumOfMore DEF points
  <2> QED
    BY <2>3, <2>4, <2>6 DEF points
<1>5. SumOver(Points(fewer), fewer) <= SumOver(Points(flags), flags)
  <2> DEFINE f == Points(flags)
             g == Points(fewer)
  <2>1. IsFiniteSet(flags) /\ \A x \in flags : f[x] \in Int
    BY PointsAreNatural DEF Gradable
  <2>2. \A x \in fewer : g[x] \in Int /\ g[x] <= f[x]
    BY <1>3, <2>1
  <2>3. \A x \in flags \ fewer : f[x] >= 0
    BY PointsAreNatural
  <2> HIDE DEF f, g
  <2> QED
    BY <2>1, <2>2, <2>3, SumOfMore DEF f, g
<1> QED
  BY <1>1, <1>2, <1>4, <1>5

\* The score a penalty leaves, averaged over what was judged.
Remaining(flags, scale) == One - Capped(Quotient(Penalty(flags), Max({1, scale})))

\* Fewer flags leave no less of a dimension, and never more than all of it.
LEMMA RemainingOfFewer ==
    ASSUME NEW flags, Gradable(flags), NEW fewer \in SUBSET flags, NEW scale \in Nat
    PROVE  /\ Remaining(fewer, scale) \in 0 .. One /\ Remaining(flags, scale) \in 0 .. One
           /\ Remaining(fewer, scale) >= Remaining(flags, scale)
<1> DEFINE d == Max({1, scale})
           m == Penalty(fewer)
           n == Penalty(flags)
<1>1. d \in Int /\ d > 0
  BY MaxOfTwo
<1>2. m \in Nat /\ n \in Nat /\ m <= n
  BY PenaltyOfFewer
<1> HIDE DEF d, m, n
<1>3. Quotient(m, d) \in Int /\ Quotient(n, d) \in Int
  BY <1>1, <1>2, QuotientBetween
<1>4. Quotient(m, d) <= Quotient(n, d)
  BY <1>1, <1>2, QuotientMonotone
<1>5. 0 <= Quotient(m, d) /\ 0 <= Quotient(n, d)
  <2>1. (2 * d) * 0 <= 2 * m + d /\ (2 * d) * 0 <= 2 * n + d
    BY <1>1, <1>2
  <2> QED
    BY <1>1, <1>2, <2>1, QuotientBetween
<1>6. One \in Int /\ One > 0
  BY OneIsPositive
<1>7. \A k \in Int : Capped(k) = IF One <= k THEN One ELSE k
  BY <1>6, MinOfTwo DEF Capped
<1> QED
  BY <1>3, <1>4, <1>5, <1>6, <1>7 DEF Remaining, d, m, n

\* What becomes of a dimension when flags are dismissed: it is measured as before
\* and by as much, and no worse.
NoWorse(before, after) ==
    /\ after.coverage = before.coverage
    /\ \/ before.score = None /\ after.score = None
       \/ /\ before.score \in 0 .. One /\ after.score \in 0 .. One
          /\ after.score >= before.score

\* The same for a dimension scored by its penalty.
LEMMA FromPenaltyNoWorse ==
    ASSUME NEW d, d.snapshot # {}, NEW flags, Gradable(flags), NEW fewer \in SUBSET flags,
           NEW scale \in Nat, NEW coverage
    PROVE  NoWorse(FromPenalty(d, flags, scale, coverage),
                   FromPenalty(d, fewer, scale, coverage))
<1>1. \A some : FromPenalty(d, some, scale, coverage) =
                    [score |-> Remaining(some, scale), coverage |-> coverage, evidence |-> TRUE]
  BY DEF FromPenalty, Remaining
<1> QED
  BY <1>1, RemainingOfFewer DEF NoWorse

\* More dismissals leave fewer live flags.
LEMMA DismissedFewer ==
    ASSUME NEW d, Sane(d), NEW without, NEW more, without \subseteq more, NEW checks
    PROVE  /\ Gradable(LiveFlags(d, without, checks))
           /\ LiveFlags(d, more, checks) \in SUBSET LiveFlags(d, without, checks)
<1>1. LiveFlags(d, without, checks) \in SUBSET d.red_flags
  BY DEF LiveFlags
<1>2. IsFiniteSet(LiveFlags(d, without, checks))
  BY <1>1, FS_Subset DEF Sane
<1> QED
  BY <1>1, <1>2 DEF Sane, Gradable, LiveFlags

LEMMA OverRepositoriesNoWorse ==
    ASSUME NEW d, Sane(d), NEW without, NEW more, without \subseteq more, NEW checks
    PROVE  NoWorse(OverRepositories(d, without, checks), OverRepositories(d, more, checks))
<1>1. CASE d.analysed = 0
  BY <1>1 DEF OverRepositories, Unmeasured, NoWorse
<1>2. CASE d.analysed # 0
  <2>1. d.snapshot # {} /\ d.analysed \in Nat
    BY <1>2 DEF Sane
  <2>2. /\ Gradable(LiveFlags(d, without, checks))
        /\ LiveFlags(d, more, checks) \in SUBSET LiveFlags(d, without, checks)
    BY DismissedFewer
  <2> QED
    BY <1>2, <2>1, <2>2, FromPenaltyNoWorse DEF OverRepositories
<1> QED
  BY <1>1, <1>2

LEMMA OverCodeNoWorse ==
    ASSUME NEW d, Sane(d), NEW without, NEW more, without \subseteq more, NEW family
    PROVE  NoWorse(OverCode(d, without, family), OverCode(d, more, family))
<1>1. CASE d.deep = 0 \/ AccountRead(d) <= 0
  BY <1>1 DEF OverCode, Unmeasured, NoWorse
<1>2. CASE ~(d.deep = 0 \/ AccountRead(d) <= 0)
  <2> DEFINE checks == ChecksOf({family})
  <2>1. d.snapshot # {} /\ d.deep \in Nat
    BY <1>2 DEF Sane
  <2>2. /\ Gradable(LiveFlags(d, without, checks))
        /\ LiveFlags(d, more, checks) \in SUBSET LiveFlags(d, without, checks)
    BY DismissedFewer
  <2> HIDE DEF checks
  <2> QED
    BY <1>2, <2>1, <2>2, FromPenaltyNoWorse DEF OverCode, checks
<1> QED
  BY <1>1, <1>2

\* A part of a whole that fits is a share of it, and not none when the part is not.
LEMMA ShareOfWhole ==
    ASSUME NEW a \in Nat, NEW d \in Nat, d > 0, a <= d
    PROVE  /\ Quotient(One * a, d) \in 0 .. One
           /\ a > 0 /\ d <= One => Quotient(One * a, d) >= a
<1> DEFINE n == One * a
<1>1. n \in Nat /\ One \in Nat /\ One > 0
  BY OneIsPositive, Product
<1>2. 2 * n + d < (2 * d) * (One + 1)
  <2>1. One * (d - a) \in Nat
    BY <1>1, Product
  <2>2. One * (d - a) = One * d - n
    BY <1>1
  <2>3. (2 * d) * (One + 1) = 2 * (One * d) + 2 * d /\ One * d \in Nat
    BY <1>1, Product
  <2> HIDE DEF n
  <2> QED
    BY <1>1, <2>1, <2>2, <2>3
<1> HIDE DEF n
<1>3. (2 * d) * 0 <= 2 * n + d
  BY <1>1
<1>4. ASSUME d <= One
      PROVE  (2 * d) * a <= 2 * n + d
  <2>1. a * (One - d) \in Nat
    BY <1>1, <1>4, Product
  <2>2. a * (One - d) = n - a * d
    BY <1>1 DEF n
  <2>3. a * d \in Nat /\ (2 * d) * a = 2 * (a * d)
    OBVIOUS
  <2> QED
    BY <1>1, <2>1, <2>2, <2>3
<1>5. Quotient(n, d) \in Int /\ Quotient(n, d) <= One /\ 0 <= Quotient(n, d)
  BY <1>1, <1>2, <1>3, QuotientBetween
<1>6. d <= One => a <= Quotient(n, d)
  BY <1>1, <1>4, QuotientBetween
<1> QED
  BY <1>1, <1>5, <1>6 DEF n

\* The share of the account that was read is at least a millionth of every
\* repository of an account of up to a million.
LEMMA AccountReadShare ==
    ASSUME NEW d, Sane(d)
    PROVE  /\ AccountRead(d) \in 0 .. One
           /\ d.analysed > 0 /\ d.considered <= One => AccountRead(d) >= d.analysed
           /\ d.analysed > 0 =>
                  Capped(Quotient(One * d.analysed, Max({1, d.considered}))) = AccountRead(d)
<1> DEFINE a == d.analysed
           n == d.considered
<1>1. a \in Nat /\ n \in Nat /\ a <= n /\ One \in Nat /\ One > 0
  BY OneIsPositive DEF Sane
<1>2. \A k \in Int : Capped(k) = IF One <= k THEN One ELSE k
  BY <1>1, MinOfTwo DEF Capped
<1>3. CASE n = 0
  <2>1. a = 0 /\ AccountRead(d) = 0
    BY <1>1, <1>3 DEF AccountRead
  <2> QED
    BY <1>1, <2>1
<1>4. CASE n > 0
  <2>1. AccountRead(d) = Capped(Quotient(One * a, n))
    BY <1>1, <1>4 DEF AccountRead
  <2>2. Max({1, n}) = n
    BY <1>1, <1>4, MaxOfTwo
  <2>3. Quotient(One * a, n) \in 0 .. One /\ (a > 0 /\ n <= One => Quotient(One * a, n) >= a)
    BY <1>1, <1>4, ShareOfWhole
  <2>4. Capped(Quotient(One * a, n)) = Quotient(One * a, n)
    BY <1>1, <1>2, <2>3
  <2> QED
    BY <2>1, <2>2, <2>3, <2>4
<1> QED
  BY <1>1, <1>3, <1>4

\* Claim corroboration is a number whenever it is measured.
LEMMA ClaimsScore ==
    ASSUME NEW d, Sane(d), d.resolved # 0
    PROVE  /\ d.resolved \in Nat /\ d.resolved > 0
           /\ Quotient(One * Max({0, d.corroborated - CONTRADICTION_WEIGHT * d.contradicted}),
                       d.resolved) \in 0 .. One
<1> DEFINE raw == d.corroborated - CONTRADICTION_WEIGHT * d.contradicted
           top == Max({0, raw})
<1>1. raw \in Int /\ raw <= d.resolved /\ d.resolved \in Nat /\ d.resolved > 0
  BY DEF Sane, CONTRADICTION_WEIGHT
<1> HIDE DEF raw
<1>2. top \in Nat /\ top <= d.resolved
  BY <1>1, MaxOfTwo
<1> HIDE DEF top
<1> QED
  BY <1>1, <1>2, ShareOfWhole DEF top, raw

\* Breadth is a number whenever it is measured.
LEMMA BreadthScore ==
    ASSUME NEW d, Sane(d)
    PROVE  Capped(Quotient(One * d.authored, FULL_BREADTH_REPOS)) \in 0 .. One
<1> DEFINE n == One * d.authored
<1>1. n \in Nat /\ One \in Nat /\ One > 0
  BY OneIsPositive, Product DEF Sane
<1> HIDE DEF n
<1>2. Quotient(n, 5) \in Int /\ 0 <= Quotient(n, 5)
  BY <1>1, QuotientBetween
<1>3. Capped(Quotient(n, 5)) = IF One <= Quotient(n, 5) THEN One ELSE Quotient(n, 5)
  BY <1>1, <1>2, MinOfTwo DEF Capped
<1> QED
  BY <1>1, <1>2, <1>3 DEF n, FULL_BREADTH_REPOS

\* Every dimension, built in or a team's own, is as measured as before, and no worse.
LEMMA DimensionsNoWorse ==
    ASSUME NEW d, Sane(d), NEW without, NEW more, without \subseteq more, NEW rules,
           NEW name \in DIMENSIONS \cup DOMAIN rules.custom
    PROVE  NoWorse(ScoreDimensions(d, without, rules)[name],
                   ScoreDimensions(d, more, rules)[name])
<1>1. NoWorse(ClaimCorroboration(d), ClaimCorroboration(d))
  <2>1. CASE d.resolved = 0 \/ (d.cited = {} /\ d.snapshot = {})
    BY <2>1 DEF ClaimCorroboration, Unmeasured, NoWorse
  <2>2. CASE ~(d.resolved = 0 \/ (d.cited = {} /\ d.snapshot = {}))
    <3>1. ClaimCorroboration(d).score \in 0 .. One
      BY <2>2, ClaimsScore DEF ClaimCorroboration
    <3> QED
      BY <3>1, OneIsPositive DEF NoWorse
  <2> QED
    BY <2>1, <2>2
<1>2. NoWorse(Breadth(d), Breadth(d))
  <2>1. CASE d.analysed = 0 \/ d.snapshot = {}
    BY <2>1 DEF Breadth, Unmeasured, NoWorse
  <2>2. CASE ~(d.analysed = 0 \/ d.snapshot = {})
    <3>1. Breadth(d).score \in 0 .. One
      BY <2>2, BreadthScore DEF Breadth
    <3> QED
      BY <3>1, OneIsPositive DEF NoWorse
  <2> QED
    BY <2>1, <2>2
<1>3. \A checks : NoWorse(OverRepositories(d, without, checks), OverRepositories(d, more, checks))
  BY OverRepositoriesNoWorse
<1>4. \A family : NoWorse(OverCode(d, without, family), OverCode(d, more, family))
  BY OverCodeNoWorse
<1> QED
  BY <1>1, <1>2, <1>3, <1>4 DEF ScoreDimensions

-----------------------------------------------------------------------------
(* What DimensionScore checks of itself.                                   *)

\* Up to a million repositories and claims, no share rounds to nothing.
Countable(d) == d.considered <= One /\ d.claims <= One

LEMMA UnmeasuredIsWellFormed == WellFormed(Unmeasured)
BY OneIsPositive DEF WellFormed, Unmeasured

\* What has a share, a score in range and evidence passes the checks.
LEMMA MeasuredIsWellFormed ==
    ASSUME NEW score \in 0 .. One, NEW coverage \in 0 .. One, coverage > 0
    PROVE  WellFormed([score |-> score, coverage |-> coverage, evidence |-> TRUE])
BY OneIsPositive, NoneAssumption DEF WellFormed

LEMMA FromPenaltyIsWellFormed ==
    ASSUME NEW d, d.snapshot # {}, NEW flags, Gradable(flags), NEW scale \in Nat,
           NEW coverage \in 0 .. One, coverage > 0
    PROVE  WellFormed(FromPenalty(d, flags, scale, coverage))
<1>1. FromPenalty(d, flags, scale, coverage) =
          [score |-> Remaining(flags, scale), coverage |-> coverage, evidence |-> TRUE]
  BY DEF FromPenalty, Remaining
<1>2. Remaining(flags, scale) \in 0 .. One
  BY RemainingOfFewer
<1> QED
  BY <1>1, <1>2, MeasuredIsWellFormed

LEMMA OverRepositoriesIsWellFormed ==
    ASSUME NEW d, Sane(d), Countable(d), NEW without, NEW checks
    PROVE  WellFormed(OverRepositories(d, without, checks))
<1>1. CASE d.analysed = 0
  BY <1>1, UnmeasuredIsWellFormed DEF OverRepositories
<1>2. CASE d.analysed # 0
  <2> DEFINE coverage == Capped(Quotient(One * d.analysed, Max({1, d.considered})))
             flags == LiveFlags(d, without, checks)
  <2>1. d.analysed \in Nat /\ d.analysed > 0 /\ d.snapshot # {} /\ d.considered <= One
    BY <1>2 DEF Sane, Countable
  <2>2. coverage \in 0 .. One /\ coverage > 0
    BY <2>1, OneIsPositive, AccountReadShare
  <2>3. Gradable(flags)
    BY DismissedFewer
  <2>4. OverRepositories(d, without, checks) = FromPenalty(d, flags, d.analysed, coverage)
    BY <1>2 DEF OverRepositories
  <2> HIDE DEF coverage, flags
  <2> QED
    BY <2>1, <2>2, <2>3, <2>4, FromPenaltyIsWellFormed
<1> QED
  BY <1>1, <1>2

\* What is seen in depth of the share that was read.
LEMMA DeepShare ==
    ASSUME NEW d, Sane(d), Countable(d), d.deep # 0
    PROVE  Quotient(AccountRead(d) * DeepSeen(d), Max({1, d.authored})) \in 1 .. One
<1> DEFINE read == AccountRead(d)
           seen == DeepSeen(d)
           authored == Max({1, d.authored})
<1>1. authored \in Nat /\ authored > 0 /\ authored <= d.analysed /\ d.analysed \in Nat
  BY MaxOfTwo DEF Sane
<1>2. seen \in Nat /\ seen > 0 /\ seen <= authored
  <2>1. d.deep \in Nat /\ d.deep > 0
    BY DEF Sane
  <2>2. DeepSeen(d) = IF d.deep <= authored THEN d.deep ELSE authored
    BY <1>1, <2>1, MinOfTwo DEF DeepSeen
  <2> QED
    BY <1>1, <2>1, <2>2
<1>3. read \in Nat /\ read <= One /\ read >= d.analysed
  <2>1. d.considered <= One /\ d.analysed > 0
    BY <1>1 DEF Countable
  <2>2. read \in 0 .. One /\ read >= d.analysed
    BY <2>1, AccountReadShare
  <2> HIDE DEF read
  <2> QED
    BY <2>2, OneIsPositive
<1> HIDE DEF read, seen, authored
<1>4. read * seen \in Nat /\ read * seen >= authored
  <2>1. read * seen \in Nat
    BY <1>2, <1>3, Product
  <2>2. read * (seen - 1) \in Nat
    BY <1>2, <1>3, Product
  <2>3. read * (seen - 1) = read * seen - read
    BY <1>2, <1>3
  <2> QED
    BY <1>1, <1>3, <2>1, <2>2, <2>3
<1>5. read * seen <= One * authored /\ One * authored \in Nat
  <2>1. (One - read) * seen \in Nat /\ One * (authored - seen) \in Nat /\ One * authored \in Nat
    BY <1>1, <1>2, <1>3, OneIsPositive, Product
  <2>2. (One - read) * seen = One * seen - read * seen
    BY <1>2, <1>3, OneIsPositive
  <2>3. One * (authored - seen) = One * authored - One * seen
    BY <1>1, <1>2, OneIsPositive
  <2>4. One * seen \in Nat
    BY <1>2, OneIsPositive, Product
  <2> QED
    BY <1>4, <2>1, <2>2, <2>3, <2>4
<1>6. (2 * authored) * 1 <= 2 * (read * seen) + authored
  BY <1>1, <1>4
<1>7. 2 * (read * seen) + authored < (2 * authored) * (One + 1)
  <2>1. (2 * authored) * (One + 1) = 2 * (One * authored) + 2 * authored
    BY <1>1, OneIsPositive
  <2> QED
    BY <1>1, <1>4, <1>5, <2>1
<1>8. /\ Quotient(read * seen, authored) \in Int
      /\ 1 <= Quotient(read * seen, authored)
      /\ Quotient(read * seen, authored) <= One
  <2> DEFINE n == read * seen
  <2>1. n \in Int
    BY <1>4
  <2>2. (2 * authored) * 1 <= 2 * n + authored /\ 2 * n + authored < (2 * authored) * (One + 1)
    BY <1>6, <1>7
  <2> HIDE DEF n
  <2>3. \A k \in Int :
            /\ (2 * authored) * k <= 2 * n + authored => k <= Quotient(n, authored)
            /\ 2 * n + authored < (2 * authored) * (k + 1) => Quotient(n, authored) <= k
    BY <1>1, <2>1, QuotientBetween
  <2>4. 1 <= Quotient(n, authored)
    BY <2>2, <2>3
  <2>5. Quotient(n, authored) <= One
    BY <2>2, <2>3, OneIsPositive
  <2>6. Quotient(n, authored) \in Int
    BY <1>1, <2>1, QuotientBetween
  <2> QED
    BY <2>4, <2>5, <2>6 DEF n
<1>9. Quotient(read * seen, authored) \in 1 .. One
  <2>1. PICK q : q = Quotient(read * seen, authored)
    OBVIOUS
  <2>2. q \in Int /\ 1 <= q /\ q <= One
    BY <1>8, <2>1, Zenon
  <2>3. q \in 1 .. One
    BY <2>2, OneIsPositive
  <2> QED
    BY <2>1, <2>3
<1> QED
  BY <1>9 DEF read, seen, authored

LEMMA OverCodeIsWellFormed ==
    ASSUME NEW d, Sane(d), Countable(d), NEW without, NEW family
    PROVE  WellFormed(OverCode(d, without, family))
<1>1. CASE d.deep = 0 \/ AccountRead(d) <= 0
  BY <1>1, UnmeasuredIsWellFormed DEF OverCode
<1>2. CASE ~(d.deep = 0 \/ AccountRead(d) <= 0)
  <2> DEFINE coverage == Quotient(AccountRead(d) * DeepSeen(d), Max({1, d.authored}))
             flags == LiveFlags(d, without, ChecksOf({family}))
  <2>1. d.deep \in Nat /\ d.snapshot # {}
    BY <1>2 DEF Sane
  <2>2. coverage \in 0 .. One /\ coverage > 0
    BY <1>2, DeepShare, OneIsPositive
  <2>3. Gradable(flags)
    BY DismissedFewer
  <2>4. OverCode(d, without, family) = FromPenalty(d, flags, d.deep, coverage)
    BY <1>2 DEF OverCode
  <2> HIDE DEF coverage, flags
  <2> QED
    BY <2>1, <2>2, <2>3, <2>4, FromPenaltyIsWellFormed
<1> QED
  BY <1>1, <1>2

LEMMA ClaimsAreWellFormed ==
    ASSUME NEW d, Sane(d), Countable(d)
    PROVE  WellFormed(ClaimCorroboration(d))
<1>1. CASE d.resolved = 0 \/ (d.cited = {} /\ d.snapshot = {})
  BY <1>1, UnmeasuredIsWellFormed DEF ClaimCorroboration
<1>2. CASE ~(d.resolved = 0 \/ (d.cited = {} /\ d.snapshot = {}))
  <2> DEFINE raw == d.corroborated - CONTRADICTION_WEIGHT * d.contradicted
             score == Quotient(One * Max({0, raw}), d.resolved)
             coverage == Quotient(One * d.resolved, d.claims)
  <2>1. score \in 0 .. One /\ d.resolved \in Nat /\ d.resolved > 0
    BY <1>2, ClaimsScore
  <2>2. d.claims \in Nat /\ d.claims > 0 /\ d.resolved <= d.claims /\ d.claims <= One
    BY <2>1 DEF Sane, Countable
  <2>3. coverage \in 0 .. One /\ coverage > 0
    BY <2>1, <2>2, OneIsPositive, ShareOfWhole
  <2>4. ClaimCorroboration(d) = [score |-> score, coverage |-> coverage, evidence |-> TRUE]
    BY <1>2 DEF ClaimCorroboration
  <2> HIDE DEF raw, score, coverage
  <2> QED
    BY <2>1, <2>3, <2>4, MeasuredIsWellFormed
<1> QED
  BY <1>1, <1>2

LEMMA BreadthIsWellFormed ==
    ASSUME NEW d, Sane(d), Countable(d)
    PROVE  WellFormed(Breadth(d))
<1>1. CASE d.analysed = 0 \/ d.snapshot = {}
  BY <1>1, UnmeasuredIsWellFormed DEF Breadth
<1>2. CASE ~(d.analysed = 0 \/ d.snapshot = {})
  <2> DEFINE score == Capped(Quotient(One * d.authored, FULL_BREADTH_REPOS))
             coverage == AccountRead(d)
  <2>1. score \in 0 .. One
    BY BreadthScore
  <2>2. coverage \in 0 .. One /\ coverage > 0
    <3>1. d.considered <= One /\ d.analysed \in Nat /\ d.analysed > 0
      BY <1>2 DEF Sane, Countable
    <3>2. coverage \in 0 .. One /\ coverage >= d.analysed
      BY <3>1, AccountReadShare
    <3> HIDE DEF coverage
    <3> QED
      BY <3>1, <3>2, OneIsPositive
  <2>3. Breadth(d) = [score |-> score, coverage |-> coverage, evidence |-> TRUE]
    BY <1>2 DEF Breadth
  <2> HIDE DEF score, coverage
  <2> QED
    BY <2>1, <2>2, <2>3, MeasuredIsWellFormed
<1> QED
  BY <1>1, <1>2

\* Every dimension of a dossier that can be counted passes the checks.
LEMMA DimensionsAreWellFormed ==
    ASSUME NEW d, Sane(d), Countable(d), NEW without, NEW rules,
           NEW name \in DIMENSIONS \cup DOMAIN rules.custom
    PROVE  WellFormed(ScoreDimensions(d, without, rules)[name])
<1>1. WellFormed(ClaimCorroboration(d)) /\ WellFormed(Breadth(d))
  BY ClaimsAreWellFormed, BreadthIsWellFormed
<1>2. \A checks : WellFormed(OverRepositories(d, without, checks))
  BY OverRepositoriesIsWellFormed
<1>3. \A family : WellFormed(OverCode(d, without, family))
  BY OverCodeIsWellFormed
<1> QED
  BY <1>1, <1>2, <1>3 DEF ScoreDimensions

-----------------------------------------------------------------------------
(* The candidate, and the cohort.                                          *)

\* What a rubric that loads gives a score to go by.
Usable(rules) ==
    /\ IsFiniteSet(DOMAIN rules.custom)
    /\ \A name \in DIMENSIONS \cup DOMAIN rules.custom : rules.weights[name] \in Nat
    /\ \A name \in DOMAIN rules.bars : rules.bars[name] \in Int

MeasuredBy(dimensions, rules) ==
    {name \in DOMAIN dimensions : Measured(dimensions[name]) /\ rules.weights[name] > 0}

WeightsOf(measured, rules) == [name \in measured |-> rules.weights[name]]

Terms(measured, rules, of) == [name \in measured |-> rules.weights[name] * of[name]]

MeanOf(measured, rules, of) ==
    Quotient(SumFunction(Terms(measured, rules, of)), SumFunction(WeightsOf(measured, rules)))

\* Weighted, with its local definitions by name.
LEMMA WeightedIsMean ==
    ASSUME NEW dimensions, NEW rules
    PROVE  LET measured == MeasuredBy(dimensions, rules)
               coverage == MeanOf(measured, rules,
                                  [name \in measured |-> dimensions[name].coverage])
               score == MeanOf(measured, rules, [name \in measured |-> dimensions[name].score])
           IN  Weighted(dimensions, rules) =
                   IF measured = {}
                   THEN [score |-> None, width |-> One \div 2, coverage |-> 0,
                         dimensions |-> dimensions, breaches |-> {}]
                   ELSE [score |-> score,
                         width |-> BAND_FLOOR + Quotient(One - coverage, BAND_SPAN),
                         coverage |-> coverage, dimensions |-> dimensions,
                         breaches |-> {name \in measured \cap DOMAIN rules.bars :
                                          dimensions[name].score < rules.bars[name]}]
BY DEF Weighted, MeasuredBy, MeanOf, Terms, WeightsOf

\* The weights of what is measured add up to something.
LEMMA WeightsArePositive ==
    ASSUME NEW measured, IsFiniteSet(measured), measured # {}, NEW rules,
           \A name \in measured : rules.weights[name] \in Nat /\ rules.weights[name] > 0
    PROVE  /\ SumFunction(WeightsOf(measured, rules)) \in Int
           /\ SumFunction(WeightsOf(measured, rules)) > 0
<1> DEFINE f == WeightsOf(measured, rules)
<1>1. SumFunction(f) = SumOver(f, measured)
  BY SumIsSum DEF WeightsOf
<1>2. \A x \in measured : f[x] \in Int /\ f[x] > 0
  BY DEF WeightsOf
<1>3. PICK m : m \in measured
  OBVIOUS
<1> HIDE DEF f
<1>4. SumOver(f, measured) \in Int
  BY <1>2, SumIsInt
<1>5. SumOver(f, {m}) = f[m]
  <2> DEFINE one == {m}
  <2>1. IsFiniteSet(one) /\ one \in SUBSET one /\ m \in one /\ one \ {m} = {}
    BY FS_Singleton
  <2>2. \A x \in one : f[x] \in Int
    BY <1>2, <1>3
  <2>3. SumOver(f, {}) = 0
    BY <2>1, SumStep
  <2> HIDE DEF one
  <2>4. SumOver(f, one) = f[m] + SumOver(f, one \ {m})
    BY <2>1, <2>2, SumWithout
  <2> QED
    BY <1>2, <1>3, <2>1, <2>3, <2>4 DEF one
<1>6. SumOver(f, {m}) <= SumOver(f, measured)
  <2> DEFINE one == {m}
  <2>1. /\ one \in SUBSET measured
        /\ \A x \in measured : f[x] \in Int
        /\ \A x \in one : f[x] \in Int /\ f[x] <= f[x]
        /\ \A x \in measured \ one : f[x] >= 0
    BY <1>2, <1>3
  <2> HIDE DEF one
  <2>2. SumOver(f, one) <= SumOver(f, measured)
    BY <2>1, SumOfMore
  <2> QED
    BY <2>2 DEF one
<1> QED
  BY <1>1, <1>2, <1>3, <1>4, <1>5, <1>6 DEF f

\* A mean of what is no less is no less.
LEMMA MeanOfMore ==
    ASSUME NEW measured, IsFiniteSet(measured), measured # {}, NEW rules,
           \A name \in measured : rules.weights[name] \in Nat /\ rules.weights[name] > 0,
           NEW s, NEW t,
           \A name \in measured : s[name] \in Nat /\ t[name] \in Nat /\ s[name] <= t[name]
    PROVE  /\ MeanOf(measured, rules, s) \in Int /\ MeanOf(measured, rules, t) \in Int
           /\ MeanOf(measured, rules, s) <= MeanOf(measured, rules, t)
<1> DEFINE f == Terms(measured, rules, t)
           g == Terms(measured, rules, s)
           total == SumFunction(WeightsOf(measured, rules))
<1>1. total \in Int /\ total > 0
  BY WeightsArePositive
<1>2. SumFunction(f) = SumOver(f, measured) /\ SumFunction(g) = SumOver(g, measured)
  BY SumIsSum DEF Terms
<1>3. \A x \in measured : f[x] \in Nat /\ g[x] \in Nat /\ g[x] <= f[x]
  <2> SUFFICES ASSUME NEW x \in measured
               PROVE  f[x] \in Nat /\ g[x] \in Nat /\ g[x] <= f[x]
    OBVIOUS
  <2> DEFINE w == rules.weights[x]
  <2>1. w \in Nat /\ s[x] \in Nat /\ t[x] \in Nat /\ s[x] <= t[x]
    OBVIOUS
  <2>2. f[x] = w * t[x] /\ g[x] = w * s[x]
    BY DEF Terms
  <2> HIDE DEF w, f, g
  <2>3. w * t[x] \in Nat /\ w * s[x] \in Nat /\ w * (t[x] - s[x]) \in Nat
    BY <2>1, Product
  <2>4. w * (t[x] - s[x]) = w * t[x] - w * s[x]
    BY <2>1
  <2> QED
    BY <2>2, <2>3, <2>4
<1> HIDE DEF f, g, total
<1>4. SumOver(f, measured) \in Int /\ SumOver(g, measured) \in Int
  BY <1>3, SumIsInt
<1>5. SumOver(g, measured) <= SumOver(f, measured)
  <2>1. \A x \in measured : f[x] \in Int
    BY <1>3
  <2>2. \A x \in measured : g[x] \in Int /\ g[x] <= f[x]
    BY <1>3
  <2>3. \A x \in measured \ measured : f[x] >= 0
    OBVIOUS
  <2> QED
    BY <2>1, <2>2, <2>3, SumOfMore
<1>6. /\ Quotient(SumFunction(f), total) \in Int /\ Quotient(SumFunction(g), total) \in Int
      /\ Quotient(SumFunction(g), total) <= Quotient(SumFunction(f), total)
  BY <1>1, <1>2, <1>4, <1>5, QuotientBetween, QuotientMonotone
<1> QED
  BY <1>6 DEF MeanOf, f, g, total

\* There are six built-in dimensions.
LEMMA DimensionsAreFinite == IsFiniteSet(DIMENSIONS)
<1>1. DIMENSIONS = ((((({"authenticity"} \cup {"code_quality"}) \cup {"claim_corroboration"})
                      \cup {"test_quality"}) \cup {"security"}) \cup {"breadth"})
  BY DEF DIMENSIONS, DEFAULT_WEIGHTS
<1>2. \A S, x : IsFiniteSet(S) => IsFiniteSet(S \cup {x})
  BY FS_AddElement
<1>3. IsFiniteSet({"authenticity"})
  BY FS_Singleton
<1> QED
  BY <1>1, <1>2, <1>3

\* Dimensions that are no worse make no worse a candidate.
LEMMA WeightedNoWorse ==
    ASSUME NEW rules, Usable(rules),
           NEW a, DOMAIN a = DIMENSIONS \cup DOMAIN rules.custom,
           NEW b, DOMAIN b = DOMAIN a,
           \A name \in DOMAIN a : NoWorse(a[name], b[name])
    PROVE  LET before == Weighted(a, rules)
               after == Weighted(b, rules)
           IN  /\ after.width = before.width
               /\ after.breaches \subseteq before.breaches
               /\ \/ before.score = None /\ after.score = None
                  \/ before.score \in Int /\ after.score \in Int /\ before.score <= after.score
<1> DEFINE measured == MeasuredBy(a, rules)
           coverageOf(x) == [name \in measured |-> x[name].coverage]
           scoreOf(x) == [name \in measured |-> x[name].score]
<1>1. MeasuredBy(b, rules) = measured
  BY NoneAssumption, OneIsPositive DEF MeasuredBy, Measured, NoWorse
<1>2. coverageOf(a) = coverageOf(b)
  BY DEF NoWorse, MeasuredBy
<1>3. IsFiniteSet(measured)
  <2>1. IsFiniteSet(DIMENSIONS)
    BY DimensionsAreFinite
  <2>2. IsFiniteSet(DOMAIN a)
    BY <2>1, FS_Union DEF Usable
  <2> QED
    BY <2>2, FS_Subset DEF MeasuredBy
<1>4. \A name \in measured : rules.weights[name] \in Nat /\ rules.weights[name] > 0
  BY DEF MeasuredBy, Usable
<1>5. \A name \in measured : /\ a[name].score \in Nat /\ b[name].score \in Nat
                             /\ a[name].score <= b[name].score
  BY OneIsPositive DEF MeasuredBy, Measured, NoWorse
<1>6. CASE measured = {}
  BY <1>1, <1>6, WeightedIsMean
<1>7. CASE measured # {}
  <2>1. \A name \in measured : /\ scoreOf(a)[name] \in Nat /\ scoreOf(b)[name] \in Nat
                               /\ scoreOf(a)[name] <= scoreOf(b)[name]
    BY <1>5
  <2>2. /\ MeanOf(measured, rules, scoreOf(a)) \in Int
        /\ MeanOf(measured, rules, scoreOf(b)) \in Int
        /\ MeanOf(measured, rules, scoreOf(a)) <= MeanOf(measured, rules, scoreOf(b))
    <3> HIDE DEF measured, scoreOf
    <3> QED
      BY <1>3, <1>4, <1>7, <2>1, MeanOfMore
  <2>3. /\ Weighted(a, rules).score = MeanOf(measured, rules, scoreOf(a))
        /\ Weighted(a, rules).width =
               BAND_FLOOR + Quotient(One - MeanOf(measured, rules, coverageOf(a)), BAND_SPAN)
        /\ Weighted(a, rules).breaches =
               {name \in measured \cap DOMAIN rules.bars : a[name].score < rules.bars[name]}
    BY <1>7, WeightedIsMean
  <2>4. /\ Weighted(b, rules).score = MeanOf(measured, rules, scoreOf(b))
        /\ Weighted(b, rules).width =
               BAND_FLOOR + Quotient(One - MeanOf(measured, rules, coverageOf(b)), BAND_SPAN)
        /\ Weighted(b, rules).breaches =
               {name \in measured \cap DOMAIN rules.bars : b[name].score < rules.bars[name]}
    BY <1>1, <1>7, WeightedIsMean
  <2>5. Weighted(b, rules).breaches \subseteq Weighted(a, rules).breaches
    <3> HIDE DEF measured
    <3>1. \A name \in DOMAIN rules.bars : rules.bars[name] \in Int
      BY DEF Usable
    <3> QED
      BY <1>5, <2>3, <2>4, <3>1
  <2> QED
    BY <1>2, <2>2, <2>3, <2>4, <2>5
<1> QED
  BY <1>6, <1>7

\* A score carries the dimensions it was weighted from.
LEMMA WeightedKeepsDimensions ==
    ASSUME NEW dimensions, NEW rules
    PROVE  Weighted(dimensions, rules).dimensions = dimensions
BY WeightedIsMean

\* More dismissals never make a candidate worse.
LEMMA MoreDismissedNoWorse ==
    ASSUME NEW d, Sane(d), NEW rules, Usable(rules),
           NEW without, NEW more, without \subseteq more
    PROVE  LET before == ScoreCandidate(d, rules, without)
               after == ScoreCandidate(d, rules, more)
           IN  /\ after.width = before.width
               /\ after.breaches \subseteq before.breaches
               /\ \A name \in DOMAIN before.dimensions :
                      Measured(before.dimensions[name]) => Measured(after.dimensions[name])
               /\ \/ before.score = None /\ after.score = None
                  \/ before.score \in Int /\ after.score \in Int /\ before.score <= after.score
<1> DEFINE a == ScoreDimensions(d, without, rules)
           b == ScoreDimensions(d, more, rules)
<1>1. DOMAIN a = DIMENSIONS \cup DOMAIN rules.custom /\ DOMAIN b = DOMAIN a
  BY DEF ScoreDimensions
<1>2. \A name \in DOMAIN a : NoWorse(a[name], b[name])
  BY <1>1, DimensionsNoWorse
<1> HIDE DEF a, b
<1>3. \A name \in DOMAIN a : Measured(a[name]) => Measured(b[name])
  BY <1>2, NoneAssumption, OneIsPositive DEF NoWorse, Measured
<1>4. ScoreCandidate(d, rules, without) = Weighted(a, rules)
  BY DEF ScoreCandidate, a
<1>5. ScoreCandidate(d, rules, more) = Weighted(b, rules)
  BY DEF ScoreCandidate, b
<1>6. Weighted(a, rules).dimensions = a /\ Weighted(b, rules).dimensions = b
  BY WeightedKeepsDimensions
<1> QED
  BY <1>1, <1>2, <1>3, <1>4, <1>5, <1>6, WeightedNoWorse

\* Whoever scores no less keeps their place, as long as nobody else changes.
LEMMA NobodyOvertakes ==
    ASSUME NEW S \in SUBSET Nat, IsFiniteSet(S), NEW c \in S,
           NEW before, DOMAIN before = S, NEW after, DOMAIN after = S,
           \A b \in S \ {c} : after[b] = before[b],
           \A b \in S : before[b].score = None \/ before[b].score \in Int,
           before[c].score \in Int, after[c].score \in Int, before[c].score <= after[c].score
    PROVE  RankOf(after, c) <= RankOf(before, c)
<1> DEFINE ahead == {b \in Scored(before) : Above(before, b, c)}
           still == {b \in Scored(after) : Above(after, b, c)}
<1>1. ASSUME NEW b \in still
      PROVE  b \in ahead
  <2>1. b \in S /\ after[b].score # None /\ Above(after, b, c)
    BY DEF Scored
  <2>2. b # c
    BY <2>1 DEF Above
  <2>3. after[b] = before[b]
    BY <2>1, <2>2
  <2>4. before[b].score \in Int
    BY <2>1, <2>3
  <2>5. Above(before, b, c)
    BY <2>1, <2>3, <2>4 DEF Above
  <2> QED
    BY <2>1, <2>3, <2>5 DEF Scored
<1>2. ahead \in SUBSET S
  BY DEF Scored
<1>3. still \in SUBSET ahead
  BY <1>1
<1> HIDE DEF ahead, still
<1>4. IsFiniteSet(ahead)
  BY <1>2, FS_Subset
<1>5. IsFiniteSet(still) /\ Cardinality(still) <= Cardinality(ahead)
  BY <1>3, <1>4, FS_Subset
<1>6. Cardinality(still) \in Nat /\ Cardinality(ahead) \in Nat
  BY <1>4, <1>5, FS_CardinalityType
<1>7. c \in Scored(before) /\ c \in Scored(after)
  BY NoneAssumption DEF Scored
<1>8. RankOf(before, c) = 1 + Cardinality(ahead) /\ RankOf(after, c) = 1 + Cardinality(still)
  BY <1>7 DEF RankOf, ahead, still
<1> QED
  BY <1>5, <1>6, <1>8

-----------------------------------------------------------------------------
(* The dossier.                                                            *)

\* As many things as were named, at most.
LEMMA ImageIsFinite ==
    ASSUME NEW S, IsFiniteSet(S), NEW f, DOMAIN f = S
    PROVE  IsFiniteSet({f[x] : x \in S}) /\ Cardinality({f[x] : x \in S}) <= Cardinality(S)
<1> DEFINE g == [x \in S |-> f[x]]
           T == {f[x] : x \in S}
<1>1. g \in Surjection(S, T)
  BY DEF Surjection
<1> HIDE DEF g
<1> QED
  BY <1>1, FS_Surjection

Listed(claims) == claims \in Seq(Range(claims)) /\ None \notin Range(claims)

\* What the reconciliation says is finite, and only what names a claim is resolved.
LEMMA ResultsAreFinite ==
    ASSUME NEW works, IsFiniteSet(DOMAIN works), NEW claims, Listed(claims),
           NEW seen \in SUBSET DOMAIN works
    PROVE  /\ IsFiniteSet(Reconciliations(works, claims, seen))
           /\ \A x \in Reconciliations(works, claims, seen) :
                  x.verdict \in {"corroborated", "contradicted"} => x.claim # None
<1> DEFINE judged == [n \in DOMAIN claims |->
                         Judge(works, claims[n], MatchClaim(claims[n], seen))]
           unnamed == [r \in DOMAIN works |->
                          [claim |-> None, verdict |-> "undisclosed", repositories |-> {r}]]
           all == {judged[n] : n \in DOMAIN claims} \cup {unnamed[r] : r \in DOMAIN works}
<1>1. IsFiniteSet(DOMAIN claims)
  <2>1. DOMAIN claims = 1 .. Len(claims) /\ Len(claims) \in Nat
    BY LenProperties DEF Listed
  <2> QED
    BY <2>1, FS_Interval
<1>2. IsFiniteSet(all)
  <2>1. IsFiniteSet({judged[n] : n \in DOMAIN claims})
    BY <1>1, ImageIsFinite
  <2>2. IsFiniteSet({unnamed[r] : r \in DOMAIN works})
    BY ImageIsFinite
  <2> QED
    BY <2>1, <2>2, FS_Union
<1>3. Reconciliations(works, claims, seen) \subseteq all
  BY DEF Reconciliations
<1>4. \A n \in DOMAIN claims : judged[n].claim = claims[n] /\ claims[n] # None
  BY DEF Judge, Listed, Range
<1>5. \A r \in DOMAIN works : unnamed[r].verdict \notin {"corroborated", "contradicted"}
  OBVIOUS
<1>6. \A x \in all : x.verdict \in {"corroborated", "contradicted"} => x.claim # None
  BY <1>4, <1>5
<1> HIDE DEF all
<1> QED
  BY <1>2, <1>3, <1>6, FS_Subset

\* The findings of a dossier are of the table, and can be counted.
LEMMA FlagsAreGradable ==
    ASSUME "contradicted_claim" \in DOMAIN Finding,
           NEW works, IsFiniteSet(DOMAIN works),
           \A r \in DOMAIN works : works[r].checks \subseteq DOMAIN Finding,
           NEW ends, DOMAIN ends = DOMAIN works,
           \A r \in DOMAIN ends : ends[r] \in Outcomes,
           NEW results, IsFiniteSet(results)
    PROVE  Gradable(RedFlags(works, ends, results))
<1> DEFINE named == [x \in results |-> x.claim]
           abouts == {named[x] : x \in results} \cup DOMAIN works
           pairs == (DOMAIN Finding) \X abouts
           flag == [p \in pairs |-> [check |-> p[1], about |-> p[2]]]
           all == {flag[p] : p \in pairs}
           flags == RedFlags(works, ends, results)
<1>1. IsFiniteSet(abouts)
  <2>1. IsFiniteSet({named[x] : x \in results})
    BY ImageIsFinite
  <2> QED
    BY <2>1, FS_Union
<1>2. IsFiniteSet(pairs)
  <2>1. IsFiniteSet(DOMAIN Finding)
    BY FindingAssumption
  <2> HIDE DEF abouts
  <2> QED
    BY <1>1, <2>1, FS_Product
<1>3. IsFiniteSet(all)
  <2> HIDE DEF pairs
  <2> QED
    BY <1>2, ImageIsFinite
<1>4. \A k \in DOMAIN Finding, x \in abouts : [check |-> k, about |-> x] \in all
  <2> SUFFICES ASSUME NEW k \in DOMAIN Finding, NEW x \in abouts
               PROVE  [check |-> k, about |-> x] \in all
    OBVIOUS
  <2> HIDE DEF abouts
  <2>1. <<k, x>> \in pairs
    OBVIOUS
  <2> HIDE DEF pairs
  <2>2. flag[<<k, x>>] = [check |-> <<k, x>>[1], about |-> <<k, x>>[2]]
    BY <2>1
  <2>3. flag[<<k, x>>] = [check |-> k, about |-> x]
    BY <2>2
  <2> HIDE DEF flag
  <2> QED
    BY <2>1, <2>3
<1>5. \A r \in DOMAIN ends : FindingsKept(works[r], ends[r]) \subseteq DOMAIN Finding
  BY DEF FindingsKept, Outcomes
<1>6. \A y \in flags : \E k \in DOMAIN Finding, x \in abouts : y = [check |-> k, about |-> x]
  <2> SUFFICES ASSUME NEW y \in flags
               PROVE  \E k \in DOMAIN Finding, x \in abouts : y = [check |-> k, about |-> x]
    OBVIOUS
  <2>1. CASE \E x \in results : y = [check |-> "contradicted_claim", about |-> x.claim]
    <3>1. PICK x \in results : y = [check |-> "contradicted_claim", about |-> x.claim]
      BY <2>1
    <3>2. x.claim \in abouts
      <4>1. named[x] = x.claim
        OBVIOUS
      <4> QED
        BY <4>1
    <3> HIDE DEF abouts
    <3> QED
      BY <3>1, <3>2
  <2>2. CASE \E r \in DOMAIN ends : \E k \in FindingsKept(works[r], ends[r]) :
                 y = [check |-> k, about |-> r]
    <3>1. PICK r \in DOMAIN ends : \E k \in FindingsKept(works[r], ends[r]) :
              y = [check |-> k, about |-> r]
      BY <2>2
    <3>2. PICK k \in FindingsKept(works[r], ends[r]) : y = [check |-> k, about |-> r]
      BY <3>1
    <3>3. k \in DOMAIN Finding /\ r \in abouts
      BY <1>5
    <3> HIDE DEF abouts
    <3> QED
      BY <3>2, <3>3
  <2> QED
    BY <2>1, <2>2 DEF RedFlags
<1>7. flags \in SUBSET all /\ \A y \in flags : y.check \in DOMAIN Finding
  <2> HIDE DEF all, abouts, flags
  <2> QED
    BY <1>4, <1>6
<1> HIDE DEF all, flags
<1> QED
  BY <1>3, <1>7, FS_Subset DEF Gradable, flags

\* Whatever build_dossier is given, what it counts fits together.
LEMMA DossierIsSane ==
    ASSUME "contradicted_claim" \in DOMAIN Finding,
           NEW works, IsFiniteSet(DOMAIN works),
           \A r \in DOMAIN works : works[r].checks \subseteq DOMAIN Finding,
           NEW claims, Listed(claims),
           NEW ends, DOMAIN ends = DOMAIN works,
           \A r \in DOMAIN ends : ends[r] \in Outcomes,
           NEW holds \in Nat
    PROVE  Sane(DossierOf(works, claims, ends, holds))
<1> DEFINE d == DossierOf(works, claims, ends, holds)
           results == Reconciliations(works, claims, WithEvidence(ends))
           analysed == Analysed(ends)
           Of(v) == {x \in results : x.verdict = v}
           named == {x \in results : x.claim # None}
<1>1. /\ IsFiniteSet(results)
      /\ \A x \in results : x.verdict \in {"corroborated", "contradicted"} => x.claim # None
  BY ResultsAreFinite DEF WithEvidence
<1>2. Gradable(RedFlags(works, ends, results))
  <2> HIDE DEF results
  <2> QED
    BY <1>1, FlagsAreGradable
<1>3. /\ d.red_flags = RedFlags(works, ends, results)
      /\ d.considered = IF holds > Cardinality(DOMAIN ends)
                        THEN holds ELSE Cardinality(DOMAIN ends)
      /\ d.analysed = Cardinality(analysed) /\ d.snapshot = analysed
      /\ d.authored = Cardinality({r \in analysed : works[r].lines > 0})
      /\ d.deep = Cardinality({r \in analysed : works[r].deep})
      /\ d.claims = Cardinality(named)
      /\ d.corroborated = Cardinality(Of("corroborated"))
      /\ d.contradicted = Cardinality(Of("contradicted"))
      /\ d.resolved = Cardinality(Of("corroborated")) + Cardinality(Of("contradicted"))
  BY DEF DossierOf
<1> HIDE DEF d, results
<1>4. IsFiniteSet(analysed) /\ Cardinality(analysed) <= Cardinality(DOMAIN ends)
  BY FS_Subset DEF Analysed
<1>5. /\ Cardinality(analysed) \in Nat /\ Cardinality(DOMAIN ends) \in Nat
      /\ (Cardinality(analysed) > 0 => analysed # {})
  BY <1>4, FS_CardinalityType, FS_EmptySet
<1> HIDE DEF analysed
<1>6. ASSUME NEW part \in SUBSET analysed
      PROVE  Cardinality(part) \in 0 .. Cardinality(analysed)
  <2>1. IsFiniteSet(part) /\ Cardinality(part) <= Cardinality(analysed)
    BY <1>4, FS_Subset
  <2>2. Cardinality(part) \in Nat
    BY <2>1, FS_CardinalityType
  <2> QED
    BY <1>5, <2>1, <2>2
<1>7. /\ Cardinality({r \in analysed : works[r].lines > 0}) \in 0 .. Cardinality(analysed)
      /\ Cardinality({r \in analysed : works[r].deep}) \in 0 .. Cardinality(analysed)
  BY <1>6
<1>8. /\ Cardinality(Of("corroborated")) \in Nat /\ Cardinality(Of("contradicted")) \in Nat
      /\ Cardinality(named) \in Nat
      /\ Cardinality(Of("corroborated")) + Cardinality(Of("contradicted")) <= Cardinality(named)
  <2> DEFINE S == Of("corroborated")
             T == Of("contradicted")
  <2>1. IsFiniteSet(S) /\ IsFiniteSet(T) /\ IsFiniteSet(named)
    BY <1>1, FS_Subset
  <2>2. S \cap T = {} /\ (S \cup T) \in SUBSET named
    BY <1>1
  <2> HIDE DEF S, T, named
  <2>3. Cardinality(S \cup T) = Cardinality(S) + Cardinality(T) - Cardinality(S \cap T)
    BY <2>1, FS_Union
  <2>4. Cardinality(S \cup T) <= Cardinality(named)
    BY <2>1, <2>2, FS_Subset
  <2>5. Cardinality(S) \in Nat /\ Cardinality(T) \in Nat /\ Cardinality(named) \in Nat
    BY <2>1, FS_CardinalityType
  <2>6. Cardinality(S \cap T) = 0
    BY <2>2, FS_EmptySet
  <2> QED
    BY <2>3, <2>4, <2>5, <2>6 DEF S, T
<1> HIDE DEF Of, named
<1>9. /\ d.considered \in Nat /\ d.analysed \in 0 .. d.considered
      /\ d.analysed > 0 => d.snapshot # {}
  BY <1>3, <1>4, <1>5
<1>10. d.authored \in 0 .. d.analysed /\ d.deep \in 0 .. d.analysed
  BY <1>3, <1>7
<1>11. /\ d.corroborated \in Nat /\ d.contradicted \in Nat /\ d.claims \in Nat
       /\ d.resolved = d.corroborated + d.contradicted /\ d.resolved <= d.claims
  BY <1>3, <1>8
<1> QED
  BY <1>2, <1>3, <1>9, <1>10, <1>11 DEF Sane, Gradable, d

-----------------------------------------------------------------------------
(* What is stored and what is shown.                                       *)

\* The scores of the cohort by a rubric, without what is dismissed.
ScoresBy(dossiers, by, without) ==
    [c \in Candidates |-> ScoreCandidate(dossiers[c], by, without[c])]

Nothing == [c \in Candidates |-> {}]

\* What is shown is scored from what is stored, and so was the comparison: from
\* the very dossiers stored now, by its own rubric, before any dismissal. Only
\* flags of a candidate's own dossier stand dismissed.
AssessmentInvariant ==
    /\ DOMAIN dossier = Candidates
    /\ dismissed = [c \in Candidates |-> dismissed[c]]
    /\ \A c \in Candidates : dismissed[c] \subseteq dossier[c].red_flags
    /\ shown = ScoresBy(dossier, rubric, dismissed)
    /\ comparison.machine = Machine(ScoresBy(dossier, comparison.rubric, Nothing))

\* The sort of create_comparison and the sort of compare are written apart, and
\* give every candidate the same place.
LEMMA OneOrder ==
    ASSUME NEW scores, NEW c
    PROVE  MachineRank(scores, c) = RankOf(scores, c)
BY DEF MachineRank, RankOf, Above

\* A comparison is stored with the scores that are shown as it is created.
LEMMA StoredAsShown ==
    ASSUME NEW scores, DOMAIN scores = Candidates, NEW c \in Candidates
    PROVE  /\ Machine(scores)[c].score = scores[c].score
           /\ Machine(scores)[c].rank = RankOf(scores, c)
BY OneOrder DEF Machine

\* A comparison by the rubric that is the latest shows what it stored.
LEMMA SameInputsSameOrder ==
    ASSUME AssessmentInvariant
    PROVE  MachineOrderShown
<1> SUFFICES ASSUME rubric = comparison.rubric,
                    \A c \in Candidates : dismissed[c] = {},
                    NEW c \in Candidates
             PROVE  /\ shown[c].score = comparison.machine[c].score
                    /\ RankOf(shown, c) = comparison.machine[c].rank
  BY DEF MachineOrderShown
<1>1. dismissed = Nothing
  BY DEF AssessmentInvariant, Nothing
<1>2. shown = ScoresBy(dossier, comparison.rubric, Nothing)
  BY <1>1 DEF AssessmentInvariant
<1>3. DOMAIN shown = Candidates
  BY DEF AssessmentInvariant, ScoresBy
<1>4. comparison.machine = Machine(shown)
  BY <1>2 DEF AssessmentInvariant
<1> QED
  BY <1>3, <1>4, StoredAsShown

-----------------------------------------------------------------------------

LEMMA InitIsSound ==
    ASSUME Init
    PROVE  AssessmentInvariant
<1>1. DOMAIN dossier = Candidates /\ dismissed = Nothing
  BY DEF Init, Nothing
<1>2. shown = ScoresBy(dossier, rubric, Nothing)
  BY DEF Init, ScoresBy, Nothing
<1>3. comparison.machine = Machine(shown) /\ comparison.rubric = rubric
  BY DEF Init
<1> QED
  BY <1>1, <1>2, <1>3 DEF AssessmentInvariant, Nothing

\* An analysis that is run again stores a new comparison of the cohort.
LEMMA RerunIsSound ==
    ASSUME AssessmentInvariant, NEW c \in Candidates, Rerun(c)
    PROVE  AssessmentInvariant'
<1>1. DOMAIN dossier' = Candidates
  BY DEF AssessmentInvariant, Rerun
<1>2. dismissed' = Nothing
  BY DEF Rerun, Nothing
<1>3. shown' = ScoresBy(dossier', rubric', Nothing)
  BY <1>2 DEF Rerun, Show, ScoresBy
<1>4. comparison'.machine = Machine(shown') /\ comparison'.rubric = rubric'
  BY DEF Rerun
<1>5. /\ dismissed' = [x \in Candidates |-> dismissed'[x]]
      /\ \A x \in Candidates : dismissed'[x] \subseteq dossier'[x].red_flags
  BY <1>2 DEF Nothing
<1> QED
  BY <1>1, <1>2, <1>3, <1>4, <1>5 DEF AssessmentInvariant

\* Whatever a human decides and whichever rubric is the latest, the screen shows
\* what follows from it, and the stored comparison stays what it was.
LEMMA ShowIsSound ==
    ASSUME AssessmentInvariant, Show, UNCHANGED <<dossier, comparison>>,
           dismissed' = [x \in Candidates |-> dismissed'[x]],
           \A x \in Candidates : dismissed'[x] \subseteq dossier[x].red_flags
    PROVE  AssessmentInvariant'
<1>1. shown' = ScoresBy(dossier', rubric', dismissed')
  BY DEF Show, ScoresBy
<1> QED
  BY <1>1 DEF AssessmentInvariant

LEMMA StepIsSound ==
    ASSUME AssessmentInvariant, [Next]_vars
    PROVE  AssessmentInvariant'
<1>1. ASSUME NEW c \in Candidates, NEW r \in Repositories(c), NEW end \in Outcomes,
             Reanalyse(c, r, end)
      PROVE  AssessmentInvariant'
  BY <1>1, RerunIsSound DEF Reanalyse
<1>2. ASSUME NEW c \in Candidates, NEW how \in Readings, Reread(c, how)
      PROVE  AssessmentInvariant'
  BY <1>2, RerunIsSound DEF Reread
<1>3. ASSUME NEW c \in Candidates, NEW flag \in dossier[c].red_flags, Dismiss(c, flag)
      PROVE  AssessmentInvariant'
  <2>1. dismissed' = [dismissed EXCEPT ![c] = dismissed[c] \cup {flag}]
    BY <1>3 DEF Dismiss
  <2>2. /\ dismissed' = [x \in Candidates |-> dismissed'[x]]
        /\ \A x \in Candidates : dismissed'[x] \subseteq dossier[x].red_flags
    BY <2>1, <1>3 DEF AssessmentInvariant
  <2> QED
    BY <1>3, <2>2, ShowIsSound DEF Dismiss
<1>4. ASSUME NEW c \in Candidates, NEW flag \in dossier[c].red_flags, Confirm(c, flag)
      PROVE  AssessmentInvariant'
  <2>1. dismissed' = [dismissed EXCEPT ![c] = dismissed[c] \ {flag}]
    BY <1>4 DEF Confirm
  <2>2. /\ dismissed' = [x \in Candidates |-> dismissed'[x]]
        /\ \A x \in Candidates : dismissed'[x] \subseteq dossier[x].red_flags
    BY <2>1, <1>4 DEF AssessmentInvariant
  <2> QED
    BY <1>4, <2>2, ShowIsSound DEF Confirm
<1>5. ASSUME NEW payload \in Rubrics, Reweight(payload)
      PROVE  AssessmentInvariant'
  BY <1>5, ShowIsSound DEF Reweight, AssessmentInvariant
<1>6. CASE UNCHANGED vars
  BY <1>6 DEF vars, AssessmentInvariant, ScoresBy
<1> QED
  BY <1>1, <1>2, <1>3, <1>4, <1>5, <1>6 DEF Next

\* What is stored and what is shown never come apart.
THEOREM AssessmentIsSound == Spec => []AssessmentInvariant
<1>1. Init => AssessmentInvariant
  BY InitIsSound
<1>2. AssessmentInvariant /\ [Next]_vars => AssessmentInvariant'
  BY StepIsSound
<1> QED
  BY <1>1, <1>2, PTL DEF Spec

\* However analyses, dismissals, confirmations and rubrics follow each other: as
\* soon as nothing stands dismissed and the comparison's rubric is the latest,
\* its own order and scores are on the screen again.
THEOREM MachineOrderReturns == Spec => []MachineOrderShown
<1>1. AssessmentInvariant => MachineOrderShown
  BY SameInputsSameOrder
<1> QED
  BY <1>1, AssessmentIsSound, PTL

-----------------------------------------------------------------------------
(* Values that are computed in a number of steps.                          *)

\* What holds at the start and goes from each number to the next holds up to n.
LEMMA UpTo ==
    ASSUME NEW n \in Nat, NEW T, 0 \in T, \A j \in 1 .. n : j - 1 \in T => j \in T
    PROVE  \A j \in 0 .. n : j \in T
<1> SUFFICES ASSUME (0 .. n) \ T # {}
             PROVE  FALSE
  OBVIOUS
<1> DEFINE rest == (0 .. n) \ T
<1>1. PICK x \in rest : \A y \in rest : ~(<<y, x>> \in OpToRel(<, Nat))
  <2>1. rest \in SUBSET Nat /\ rest # {}
    OBVIOUS
  <2> HIDE DEF rest
  <2> QED
    BY <2>1, NatLessThanWellFounded, WFMin
<1>2. x \in Nat /\ x <= n /\ x \notin T /\ \A y \in rest : y \in Nat
  OBVIOUS
<1>3. \A y \in rest : ~(y < x)
  <2> HIDE DEF rest
  <2> QED
    BY <1>1, <1>2 DEF OpToRel
<1>4. x \in 1 .. n /\ x - 1 \in 0 .. n /\ x - 1 < x
  BY <1>2
<1>5. x - 1 \in T
  BY <1>3, <1>4
<1> QED
  BY <1>2, <1>4, <1>5

\* A value that is computed in n steps from a first one.
Within(step, n, T) == \A j \in 1 .. n, t \in T : step[j][t] \in T

Runs(h, step, base, n, T) ==
    /\ h = [j \in 0 .. n |-> h[j]] /\ h[0] = base
    /\ \A j \in 0 .. n : h[j] \in T
    /\ \A j \in 1 .. n : h[j] = step[j][h[j - 1]]

LEMMA RunsExist ==
    ASSUME NEW n \in Nat, NEW T, NEW base \in T, NEW step, Within(step, n, T)
    PROVE  \E h : Runs(h, step, base, n, T)
<1> DEFINE good == {j \in 0 .. n : \E h : Runs(h, step, base, j, T)}
<1>1. 0 \in good
  <2> DEFINE h == [j \in 0 .. 0 |-> base]
  <2>1. Runs(h, step, base, 0, T)
    BY DEF Runs
  <2> HIDE DEF h
  <2> QED
    BY <2>1
<1>2. ASSUME NEW j \in 1 .. n, j - 1 \in good
      PROVE  j \in good
  <2>1. PICK h : Runs(h, step, base, j - 1, T)
    BY <1>2
  <2> DEFINE f == [i \in 0 .. j |-> IF i = j THEN step[j][h[j - 1]] ELSE h[i]]
  <2>2. step[j][h[j - 1]] \in T
    BY <2>1 DEF Runs, Within
  <2>3. f[0] = base /\ \A i \in 0 .. j : f[i] \in T
    BY <2>1, <2>2 DEF Runs
  <2>4. ASSUME NEW i \in 1 .. j
        PROVE  f[i] = step[i][f[i - 1]]
    <3>1. CASE i = j
      <4>1. f[i] = step[j][h[j - 1]] /\ f[i - 1] = h[j - 1]
        BY <3>1
      <4> QED
        BY <3>1, <4>1
    <3>2. CASE i # j
      <4>1. i \in 1 .. j - 1 /\ f[i] = h[i] /\ f[i - 1] = h[i - 1]
        BY <3>2
      <4> QED
        BY <2>1, <4>1 DEF Runs
    <3> QED
      BY <3>1, <3>2
  <2>5. f = [i \in 0 .. j |-> f[i]]
    OBVIOUS
  <2> HIDE DEF f
  <2>6. Runs(f, step, base, j, T)
    BY <2>3, <2>4, <2>5 DEF Runs
  <2> QED
    BY <2>6
<1>3. n \in good
  <2> HIDE DEF good
  <2> QED
    BY <1>1, <1>2, UpTo
<1> QED
  BY <1>3


-----------------------------------------------------------------------------
(* Folds of the community modules, which take the largest index first.     *)

Largest(B) == CHOOSE x \in B : \A y \in B : x >= y

LEMMA LargestIs ==
    ASSUME NEW n \in Nat, NEW B \in SUBSET (1 .. n), B # {}
    PROVE  Largest(B) \in B /\ \A k \in B : k <= Largest(B)
<1> DEFINE Greatest(A) == \E x \in A : \A y \in A : x >= y
           good == {j \in 0 .. n : \A A \in SUBSET (1 .. j) : A # {} => Greatest(A)}
<1>1. 0 \in good
  <2>1. \A A \in SUBSET (1 .. 0) : A = {}
    <3>1. 1 .. 0 = {}
      OBVIOUS
    <3> QED
      BY <3>1
  <2>2. 0 \in 0 .. n
    OBVIOUS
  <2> HIDE DEF Greatest
  <2> QED
    BY <2>1, <2>2
<1>2. ASSUME NEW j \in 1 .. n, j - 1 \in good
      PROVE  j \in good
  <2> SUFFICES ASSUME NEW A \in SUBSET (1 .. j), A # {}
               PROVE  Greatest(A)
    OBVIOUS
  <2>1. CASE j \in A
    BY <2>1
  <2>2. CASE j \notin A
    <3>1. A \in SUBSET (1 .. j - 1)
      BY <2>2
    <3> QED
      BY <1>2, <3>1
  <2> QED
    BY <2>1, <2>2
<1>3. n \in good
  <2>1. n \in 0 .. n
    OBVIOUS
  <2> HIDE DEF good
  <2>2. \A j \in 0 .. n : j \in good
    BY <1>1, <1>2, UpTo
  <2> QED
    BY <2>1, <2>2
<1>4. Greatest(B)
  BY <1>3
<1>5. \E x \in B : \A y \in B : x >= y
  BY <1>4
<1>6. Largest(B) \in B /\ \A y \in B : Largest(B) >= y
  BY <1>5 DEF Largest
<1> QED
  BY <1>6

\* g gives every part of the indices what the steps of that part compute.
Folds(g, step, base, n, T) ==
    /\ g = [B \in SUBSET (1 .. n) |-> g[B]] /\ g[{}] = base
    /\ \A B \in SUBSET (1 .. n) : g[B] \in T
    /\ \A B \in SUBSET (1 .. n) : B # {} => g[B] = step[Largest(B)][g[B \ {Largest(B)}]]

LEMMA FoldExists ==
    ASSUME NEW n \in Nat, NEW T, NEW base \in T, NEW step, Within(step, n, T)
    PROVE  \E g : Folds(g, step, base, n, T)
<1> DEFINE parts == SUBSET (1 .. n)
           U == [parts -> T]
           next == [j \in 1 .. n |-> [f \in U |->
                       [B \in parts |-> IF j \in B THEN step[j][f[B]] ELSE f[B]]]]
           first == [B \in parts |-> base]
<1>1. first \in U
  OBVIOUS
<1>2. ASSUME NEW j \in 1 .. n, NEW f \in U
      PROVE  [B \in parts |-> IF j \in B THEN step[j][f[B]] ELSE f[B]] \in U
  <2>1. \A B \in parts : f[B] \in T /\ step[j][f[B]] \in T
    BY DEF Within
  <2> HIDE DEF parts
  <2> QED
    BY <2>1
<1>3. \A j \in 1 .. n, f \in U :
          next[j][f] = [B \in parts |-> IF j \in B THEN step[j][f[B]] ELSE f[B]]
  <2> HIDE DEF U, parts
  <2> QED
    OBVIOUS
<1>4. Within(next, n, U)
  <2>1. ASSUME NEW j \in 1 .. n, NEW f \in U
        PROVE  next[j][f] \in U
    <3>1. PICK t : t = [B \in parts |-> IF j \in B THEN step[j][f[B]] ELSE f[B]]
      OBVIOUS
    <3>2. t \in U
      BY <1>2, <3>1
    <3>3. next[j][f] = t
      BY <1>3, <3>1
    <3> QED
      BY <3>2, <3>3
  <2> HIDE DEF next, U, parts
  <2> QED
    BY <2>1, Zenon DEF Within
<1> HIDE DEF next, first, U
<1>5. PICK h : Runs(h, next, first, n, U)
  BY <1>1, <1>4, RunsExist
<1>6. /\ h[0] = first
      /\ \A j \in 0 .. n : h[j] \in U
      /\ \A j \in 1 .. n : h[j] = next[j][h[j - 1]]
  BY <1>5 DEF Runs
<1>7. ASSUME NEW j \in 1 .. n, NEW B \in parts
      PROVE  h[j][B] = IF j \in B THEN step[j][h[j - 1][B]] ELSE h[j - 1][B]
  <2>1. j - 1 \in 0 .. n
    OBVIOUS
  <2>2. h[j] = [A \in parts |-> IF j \in A THEN step[j][h[j - 1][A]] ELSE h[j - 1][A]]
    BY <1>3, <1>6, <2>1
  <2> HIDE DEF parts
  <2> QED
    BY <2>2
<1> DEFINE g == h[n]
<1>8. g \in U /\ g = [B \in parts |-> g[B]] /\ \A B \in parts : g[B] \in T
  <2>1. n \in 0 .. n
    OBVIOUS
  <2>2. g \in U
    BY <1>6, <2>1
  <2> HIDE DEF g, parts
  <2> QED
    BY <2>2 DEF U
\* Up to an index that a part does not have, nothing happens to it.
<1>9. ASSUME NEW B \in parts, NEW k \in 0 .. n, \A i \in 1 .. k : i \notin B
      PROVE  h[k][B] = base
  <2> DEFINE good == {j \in 0 .. k : h[j][B] = base}
  <2>1. 0 \in good
    <3>1. h[0][B] = base
      BY <1>6 DEF first
    <3> QED
      BY <3>1
  <2>2. ASSUME NEW j \in 1 .. k, j - 1 \in good
        PROVE  j \in good
    BY <1>7, <1>9, <2>2
  <2>3. k \in Nat /\ k \in 0 .. k
    OBVIOUS
  <2> HIDE DEF good
  <2>4. \A j \in 0 .. k : j \in good
    BY <2>1, <2>2, <2>3, UpTo
  <2>5. k \in good
    BY <2>3, <2>4
  <2> QED
    BY <2>5 DEF good
<1>10. g[{}] = base
  <2>1. {} \in parts /\ n \in 0 .. n
    OBVIOUS
  <2> QED
    BY <1>9, <2>1
<1>11. ASSUME NEW B \in parts, B # {}
       PROVE  g[B] = step[Largest(B)][g[B \ {Largest(B)}]]
  <2>1. PICK x : x = Largest(B)
    OBVIOUS
  <2>2. x \in B /\ x \in 1 .. n /\ \A k \in B : k <= x
    BY <1>11, <2>1, LargestIs
  <2> DEFINE A == B \ {x}
             good == {j \in 0 .. n : IF j < x THEN h[j][A] = h[j][B]
                                     ELSE h[j][B] = h[x][B] /\ h[j][A] = h[x - 1][A]}
  <2>3. A \in parts /\ \A i \in 1 .. n : i # x => (i \in A <=> i \in B)
    OBVIOUS
  <2> HIDE DEF A
  <2>4. 0 \in good
    <3>1. h[0][B] = base /\ h[0][A] = base
      BY <1>6, <2>3 DEF first
    <3> QED
      BY <2>2, <3>1
  <2>5. ASSUME NEW j \in 1 .. n, j - 1 \in good
        PROVE  j \in good
    <3>1. /\ h[j][B] = IF j \in B THEN step[j][h[j - 1][B]] ELSE h[j - 1][B]
          /\ h[j][A] = IF j \in A THEN step[j][h[j - 1][A]] ELSE h[j - 1][A]
      BY <1>7, <2>3
    <3>2. CASE j < x
      <4>1. h[j - 1][A] = h[j - 1][B] /\ (j \in A <=> j \in B)
        BY <2>2, <2>3, <2>5, <3>2
      <4>2. h[j][A] = h[j][B]
        BY <3>1, <4>1
      <4> QED
        BY <3>2, <4>2
    <3>3. CASE j = x
      <4>1. x \notin A
        BY DEF A
      <4>2. h[j][A] = h[x - 1][A]
        BY <3>1, <3>3, <4>1
      <4> QED
        BY <2>2, <3>3, <4>2
    <3>4. CASE j > x
      <4>1. j \notin B /\ j \notin A
        BY <2>2, <2>3, <3>4
      <4>2. h[j - 1][B] = h[x][B] /\ h[j - 1][A] = h[x - 1][A]
        BY <2>2, <2>5, <3>4
      <4>3. h[j][B] = h[x][B] /\ h[j][A] = h[x - 1][A]
        BY <3>1, <4>1, <4>2
      <4> QED
        BY <2>2, <3>4, <4>3
    <3> QED
      BY <2>2, <3>2, <3>3, <3>4
  <2>6. \A j \in 0 .. n : j \in good
    <3> HIDE DEF good
    <3> QED
      BY <2>4, <2>5, UpTo
  <2>7. h[n][B] = h[x][B] /\ h[n][A] = h[x - 1][A]
    BY <2>2, <2>6
  <2>8. h[x - 1][A] = h[x - 1][B]
    BY <2>2, <2>6
  <2>9. h[x][B] = step[x][h[x - 1][B]]
    BY <1>7, <2>2
  <2> QED
    BY <2>1, <2>7, <2>8, <2>9 DEF A
<1> HIDE DEF g
<1>12. Folds(g, step, base, n, T)
  BY <1>8, <1>10, <1>11 DEF Folds
<1> QED
  BY <1>12

\* What any solution of the recursion gives for all the indices is the last
\* value of a run.
Solves(g, step, base, n, T) ==
    /\ g[{}] = base
    /\ \A B \in SUBSET (1 .. n) :
           B # {} /\ g[B \ {Largest(B)}] \in T => g[B] = step[Largest(B)][g[B \ {Largest(B)}]]

LEMMA FoldRuns ==
    ASSUME NEW n \in Nat, NEW T, NEW base \in T, NEW step, Within(step, n, T),
           NEW g, Solves(g, step, base, n, T)
    PROVE  \E h : Runs(h, step, base, n, T) /\ h[n] = g[1 .. n]
<1> DEFINE h == [j \in 0 .. n |-> g[1 .. j]]
<1>1. h = [j \in 0 .. n |-> h[j]] /\ h[0] = base
  <2>1. 1 .. 0 = {}
    OBVIOUS
  <2> QED
    BY <2>1 DEF Solves
<1>2. ASSUME NEW j \in 1 .. n, h[j - 1] \in T
      PROVE  h[j] = step[j][h[j - 1]]
  <2>1. PICK B : B = 1 .. j
    OBVIOUS
  <2>2. B \in SUBSET (1 .. n) /\ B # {} /\ j \in B /\ \A k \in B : k <= j /\ k \in Nat
    <3>1. \A k \in 1 .. j : k \in 1 .. n /\ k <= j /\ k \in Nat
      OBVIOUS
    <3>2. j \in 1 .. j
      OBVIOUS
    <3> QED
      BY <2>1, <3>1, <3>2
  <2>3. Largest(B) = j
    <3>1. Largest(B) \in B /\ \A k \in B : k <= Largest(B)
      BY <2>2, LargestIs
    <3>2. Largest(B) \in Nat
      BY <2>2, <3>1
    <3> QED
      BY <2>2, <3>1, <3>2
  <2>4. B \ {j} = 1 .. (j - 1)
    BY <2>1
  <2>5. h[j] = g[B] /\ h[j - 1] = g[B \ {Largest(B)}]
    <3>1. j \in 0 .. n /\ j - 1 \in 0 .. n
      OBVIOUS
    <3>2. h[j] = g[1 .. j] /\ h[j - 1] = g[1 .. (j - 1)]
      BY <3>1
    <3> HIDE DEF h
    <3> QED
      BY <2>1, <2>3, <2>4, <3>2
  <2> HIDE DEF h
  <2> QED
    BY <1>2, <2>2, <2>3, <2>5 DEF Solves
<1> DEFINE good == {j \in 0 .. n : h[j] \in T}
<1>3. 0 \in good
  BY <1>1
<1>4. ASSUME NEW j \in 1 .. n, j - 1 \in good
      PROVE  j \in good
  <2>1. h[j - 1] \in T
    BY <1>4
  <2> HIDE DEF h
  <2>2. h[j] = step[j][h[j - 1]]
    BY <1>2, <2>1
  <2> QED
    BY <2>1, <2>2 DEF Within
<1>5. \A j \in 0 .. n : j \in good
  <2> HIDE DEF good
  <2> QED
    BY <1>3, <1>4, UpTo
<1>6. \A j \in 1 .. n : j - 1 \in 0 .. n
  OBVIOUS
<1>7. h[n] = g[1 .. n]
  OBVIOUS
<1> HIDE DEF h
<1>8. Runs(h, step, base, n, T)
  BY <1>1, <1>2, <1>5, <1>6 DEF Runs
<1> QED
  BY <1>7, <1>8

-----------------------------------------------------------------------------
(* The lists the claims are built from.                                    *)

LEMMA ListIs ==
    ASSUME NEW s, IsList(s)
    PROVE  /\ Len(s) \in Nat /\ DOMAIN s = 1 .. Len(s)
           /\ Range(s) = {s[i] : i \in 1 .. Len(s)}
BY DEF IsList, Range

LEMMA SeqIsList ==
    ASSUME NEW S, NEW s \in Seq(S)
    PROVE  IsList(s) /\ Range(s) \subseteq S
<1>1. \A i \in 1 .. Len(s) : s[i] \in S
  OBVIOUS
<1>2. s = [i \in 1 .. Len(s) |-> s[i]] /\ Len(s) \in Nat
  OBVIOUS
<1>3. DOMAIN s = 1 .. Len(s)
  OBVIOUS
<1>4. Range(s) = {s[i] : i \in 1 .. Len(s)}
  BY <1>3 DEF Range
<1>5. s \in Seq(Range(s))
  BY <1>2, <1>3, <1>4
<1> QED
  BY <1>1, <1>4, <1>5 DEF IsList

\* The texts that say something.
LEMMA GivenIs ==
    ASSUME NEW S, NEW texts \in Seq(S)
    PROVE  Said!Given(texts) \in Seq(S \ {<<>>})
<1> DEFINE n == Len(texts)
           T == Seq(S \ {<<>>})
           step == [j \in 1 .. n |-> [t \in T |->
                       IF texts[j] = <<>> THEN t ELSE Append(t, texts[j])]]
           Equation(g) == g = [B \in SUBSET (1 .. n) |->
                                  IF B = {} THEN <<>>
                                  ELSE IF texts[Largest(B)] = <<>>
                                  THEN g[B \ {Largest(B)}]
                                  ELSE Append(g[B \ {Largest(B)}], texts[Largest(B)])]
<1>1. n \in Nat /\ DOMAIN texts = 1 .. n /\ <<>> \in T /\ \A j \in 1 .. n : texts[j] \in S
  OBVIOUS
<1>2. Said!Given(texts) = (CHOOSE g : Equation(g))[1 .. n]
  BY <1>1 DEF Said!Given, Said!FoldLeft, Said!MapThenFoldSet, Said!Max, Largest
<1>3. \A j \in 1 .. n : \A t \in T :
          step[j][t] = IF texts[j] = <<>> THEN t ELSE Append(t, texts[j])
  OBVIOUS
<1>4. Within(step, n, T)
  <2>1. ASSUME NEW j \in 1 .. n, NEW t \in T
        PROVE  step[j][t] \in T
    BY <1>1
  <2> HIDE DEF n, T, step
  <2> QED
    BY <2>1, Zenon DEF Within
<1> HIDE DEF n, T, step
<1>5. PICK f : Folds(f, step, <<>>, n, T)
  BY <1>1, <1>4, FoldExists
<1>6. ASSUME NEW B \in SUBSET (1 .. n), B # {}
      PROVE  Largest(B) \in 1 .. n /\ B \ {Largest(B)} \in SUBSET (1 .. n)
  BY <1>1, <1>6, LargestIs
<1>7. Equation(f)
  <2>1. ASSUME NEW B \in SUBSET (1 .. n), B # {}
        PROVE  f[B] = IF texts[Largest(B)] = <<>> THEN f[B \ {Largest(B)}]
                      ELSE Append(f[B \ {Largest(B)}], texts[Largest(B)])
    <3>1. f[B] = step[Largest(B)][f[B \ {Largest(B)}]] /\ f[B \ {Largest(B)}] \in T
      BY <1>5, <1>6, <2>1 DEF Folds
    <3> QED
      BY <1>3, <1>6, <2>1, <3>1
  <2> QED
    BY <1>5, <2>1 DEF Folds
<1>8. PICK g : g = (CHOOSE f_1 : Equation(f_1)) /\ Equation(g)
  BY <1>7
<1>9. Solves(g, step, <<>>, n, T)
  <2>1. ASSUME NEW B \in SUBSET (1 .. n), B # {}, g[B \ {Largest(B)}] \in T
        PROVE  g[B] = step[Largest(B)][g[B \ {Largest(B)}]]
    <3>1. g[B] = IF texts[Largest(B)] = <<>> THEN g[B \ {Largest(B)}]
                 ELSE Append(g[B \ {Largest(B)}], texts[Largest(B)])
      BY <1>8, <2>1
    <3> QED
      BY <1>3, <1>6, <2>1, <3>1
  <2>2. g[{}] = <<>>
    BY <1>8
  <2> QED
    BY <2>1, <2>2 DEF Solves
<1>10. PICK h : Runs(h, step, <<>>, n, T) /\ h[n] = g[1 .. n]
  BY <1>1, <1>4, <1>9, FoldRuns
<1>11. h[n] \in T
  BY <1>1, <1>10 DEF Runs
<1> QED
  BY <1>2, <1>8, <1>10, <1>11 DEF T

\* What Redact leaves out: what follows a label, up to the end of a sentence.
IsHidden(text, ends, i) ==
    \E k \in 1 .. (i - 1) : text[k] \in Labels /\ \A j \in k .. (i - 1) : j \notin ends

\* What it leaves.
Remains(text, ends) ==
    {text[i] : i \in {j \in 1 .. Len(text) : ~IsHidden(text, ends, j)}}
    \cup {mark \in {Redacted} : \E j \in 1 .. Len(text) : IsHidden(text, ends, j)}

\* The text after one word more.
HideNext(text, ends, t, i) ==
    IF ~IsHidden(text, ends, i) THEN Append(t, text[i])
    ELSE IF IsHidden(text, ends, i - 1) THEN t
    ELSE Append(t, Redacted)

\* Nothing hidden is left, and a mark only where something was.
LEMMA RedactIs ==
    ASSUME NEW text, IsList(text), NEW ends
    PROVE  Said!Redact(text, ends) \in Seq(Remains(text, ends))
<1> DEFINE n == Len(text)
           at == [i \in DOMAIN text |-> i]
           T == Seq(Remains(text, ends))
           step == [j \in 1 .. n |-> [t \in T |-> HideNext(text, ends, t, at[j])]]
           Equation(g) == g = [B \in SUBSET (1 .. n) |->
                                  IF B = {} THEN <<>>
                                  ELSE HideNext(text, ends, g[B \ {Largest(B)}], at[Largest(B)])]
<1>1. n \in Nat /\ DOMAIN at = 1 .. n /\ <<>> \in T /\ \A j \in 1 .. n : at[j] = j
  BY ListIs
<1>2. Said!Redact(text, ends) = (CHOOSE g : Equation(g))[1 .. n]
  BY <1>1 DEF Said!Redact, HideNext, IsHidden, Said!FoldLeft, Said!MapThenFoldSet, Said!Max, Largest
<1>3. \A j \in 1 .. n : \A t \in T : step[j][t] = HideNext(text, ends, t, at[j])
  OBVIOUS
<1>4. Within(step, n, T)
  <2>1. ASSUME NEW j \in 1 .. n, NEW t \in T
        PROVE  step[j][t] \in T
    <3>1. /\ ~IsHidden(text, ends, j) => text[j] \in Remains(text, ends)
          /\ IsHidden(text, ends, j) => Redacted \in Remains(text, ends)
      BY <1>1 DEF Remains
    <3>2. step[j][t] = HideNext(text, ends, t, at[j])
      OBVIOUS
    <3>3. at[j] = j
      BY <1>1
    <3> QED
      BY <3>1, <3>2, <3>3 DEF HideNext
  <2> HIDE DEF n, T, step
  <2> QED
    BY <2>1, Zenon DEF Within
<1> HIDE DEF n, T, step, at
<1>5. PICK f : Folds(f, step, <<>>, n, T)
  BY <1>1, <1>4, FoldExists
<1>6. ASSUME NEW B \in SUBSET (1 .. n), B # {}
      PROVE  Largest(B) \in 1 .. n /\ B \ {Largest(B)} \in SUBSET (1 .. n)
  BY <1>1, <1>6, LargestIs
<1>7. Equation(f)
  <2>1. ASSUME NEW B \in SUBSET (1 .. n), B # {}
        PROVE  f[B] = HideNext(text, ends, f[B \ {Largest(B)}], at[Largest(B)])
    <3>1. f[B] = step[Largest(B)][f[B \ {Largest(B)}]] /\ f[B \ {Largest(B)}] \in T
      BY <1>5, <1>6, <2>1 DEF Folds
    <3> QED
      BY <1>3, <1>6, <2>1, <3>1
  <2> QED
    BY <1>5, <2>1 DEF Folds
<1>8. PICK g : g = (CHOOSE f_1 : Equation(f_1)) /\ Equation(g)
  <2> HIDE DEF Equation
  <2> QED
    BY <1>7
<1>9. Solves(g, step, <<>>, n, T)
  <2>1. ASSUME NEW B \in SUBSET (1 .. n), B # {}, g[B \ {Largest(B)}] \in T
        PROVE  g[B] = step[Largest(B)][g[B \ {Largest(B)}]]
    <3>1. g[B] = HideNext(text, ends, g[B \ {Largest(B)}], at[Largest(B)])
      BY <1>8, <2>1
    <3> QED
      BY <1>3, <1>6, <2>1, <3>1
  <2>2. g[{}] = <<>>
    BY <1>8
  <2> QED
    BY <2>1, <2>2 DEF Solves
<1>10. PICK h : Runs(h, step, <<>>, n, T) /\ h[n] = g[1 .. n]
  BY <1>1, <1>4, <1>9, FoldRuns
<1>11. h[n] \in T
  BY <1>1, <1>10 DEF Runs
<1> QED
  BY <1>2, <1>8, <1>10, <1>11 DEF T

\* The parts after one word more.
SplitNext(text, t, i) ==
    IF text[i] = "," THEN Append(t, <<>>) ELSE [t EXCEPT ![Len(t)] = Append(@, text[i])]

\* The parts of a text are of its words.
LEMMA PartsAre ==
    ASSUME NEW text, IsList(text)
    PROVE  Said!Parts(text) \in Seq(Seq(Range(text)))
<1> DEFINE n == Len(text)
           T == {p \in Seq(Seq(Range(text))) : Len(p) > 0}
           step == [j \in 1 .. n |-> [t \in T |-> SplitNext(text, t, j)]]
           Equation(g) == g = [B \in SUBSET (1 .. n) |->
                                  IF B = {} THEN <<<<>>>>
                                  ELSE SplitNext(text, g[B \ {Largest(B)}], Largest(B))]
<1>1. n \in Nat /\ DOMAIN text = 1 .. n /\ <<<<>>>> \in T
  BY ListIs
<1>2. Said!Parts(text) = (CHOOSE g : Equation(g))[1 .. n]
  BY <1>1 DEF Said!Parts, SplitNext, Said!FoldLeft, Said!MapThenFoldSet, Said!Max, Largest
<1>3. \A j \in 1 .. n : \A t \in T : step[j][t] = SplitNext(text, t, j)
  OBVIOUS
<1>4. Within(step, n, T)
  <2>1. ASSUME NEW j \in 1 .. n, NEW t \in T
        PROVE  step[j][t] \in T
    <3>1. text[j] \in Range(text)
      BY <1>1, ListIs
    <3>2. /\ t \in Seq(Seq(Range(text))) /\ Len(t) \in 1 .. Len(t)
          /\ t[Len(t)] \in Seq(Range(text))
      OBVIOUS
    <3>3. Append(t[Len(t)], text[j]) \in Seq(Range(text))
      BY <3>1, <3>2
    <3>4. step[j][t] = SplitNext(text, t, j)
      OBVIOUS
    <3>5. [t EXCEPT ![Len(t)] = Append(t[Len(t)], text[j])] \in T
      BY <3>2, <3>3
    <3>6. Append(t, <<>>) \in T
      BY <3>2
    <3> QED
      BY <3>4, <3>5, <3>6 DEF SplitNext
  <2> HIDE DEF n, T, step
  <2> QED
    BY <2>1, Zenon DEF Within
<1> HIDE DEF n, T, step
<1>5. PICK f : Folds(f, step, <<<<>>>>, n, T)
  BY <1>1, <1>4, FoldExists
<1>6. ASSUME NEW B \in SUBSET (1 .. n), B # {}
      PROVE  Largest(B) \in 1 .. n /\ B \ {Largest(B)} \in SUBSET (1 .. n)
  BY <1>1, <1>6, LargestIs
<1>7. Equation(f)
  <2>1. ASSUME NEW B \in SUBSET (1 .. n), B # {}
        PROVE  f[B] = SplitNext(text, f[B \ {Largest(B)}], Largest(B))
    <3>1. f[B] = step[Largest(B)][f[B \ {Largest(B)}]] /\ f[B \ {Largest(B)}] \in T
      BY <1>5, <1>6, <2>1 DEF Folds
    <3> QED
      BY <1>3, <1>6, <2>1, <3>1
  <2> QED
    BY <1>5, <2>1 DEF Folds
<1>8. PICK g : g = (CHOOSE f_1 : Equation(f_1)) /\ Equation(g)
  <2> HIDE DEF Equation
  <2> QED
    BY <1>7
<1>9. Solves(g, step, <<<<>>>>, n, T)
  <2>1. ASSUME NEW B \in SUBSET (1 .. n), B # {}, g[B \ {Largest(B)}] \in T
        PROVE  g[B] = step[Largest(B)][g[B \ {Largest(B)}]]
    <3>1. g[B] = SplitNext(text, g[B \ {Largest(B)}], Largest(B))
      BY <1>8, <2>1
    <3> QED
      BY <1>3, <1>6, <2>1, <3>1
  <2>2. g[{}] = <<<<>>>>
    BY <1>8
  <2> QED
    BY <2>1, <2>2 DEF Solves
<1>10. PICK h : Runs(h, step, <<<<>>>>, n, T) /\ h[n] = g[1 .. n]
  BY <1>1, <1>4, <1>9, FoldRuns
<1>11. h[n] \in T
  BY <1>1, <1>10 DEF Runs
<1> QED
  BY <1>2, <1>8, <1>10, <1>11 DEF T

\* kept[j] is what is kept of the first j claims.
Keeps(kept, claims) ==
    /\ kept[0] = <<>>
    /\ \A j \in 0 .. Len(claims) : kept[j] \in Seq(Range(claims))
    /\ \A j \in 1 .. Len(claims) :
           kept[j] = IF \E k \in DOMAIN kept[j - 1] : Said!Same(kept[j - 1][k], claims[j])
                     THEN kept[j - 1] ELSE Append(kept[j - 1], claims[j])

\* What is kept after one claim more.
KeepNext(claims, t, i) ==
    IF \E k \in DOMAIN t : Said!Same(t[k], claims[i]) THEN t ELSE Append(t, claims[i])

\* Duplicates are merged one claim after the other.
LEMMA DedupeRuns ==
    ASSUME NEW claims, IsList(claims)
    PROVE  \E kept : Keeps(kept, claims) /\ Said!Dedupe(claims) = kept[Len(claims)]
<1> DEFINE n == Len(claims)
           T == Seq(Range(claims))
           step == [j \in 1 .. n |-> [t \in T |-> KeepNext(claims, t, j)]]
           Equation(g) == g = [B \in SUBSET (1 .. n) |->
                                  IF B = {} THEN <<>>
                                  ELSE KeepNext(claims, g[B \ {Largest(B)}], Largest(B))]
<1>1. n \in Nat /\ DOMAIN claims = 1 .. n /\ <<>> \in T
  BY ListIs
<1>2. Said!Dedupe(claims) = (CHOOSE g : Equation(g))[1 .. n]
  BY <1>1 DEF Said!Dedupe, KeepNext, Said!FoldLeft, Said!MapThenFoldSet, Said!Max, Largest
<1>3. \A j \in 1 .. n : \A t \in T : step[j][t] = KeepNext(claims, t, j)
  OBVIOUS
<1>4. Within(step, n, T)
  <2>1. ASSUME NEW j \in 1 .. n, NEW t \in T
        PROVE  step[j][t] \in T
    <3>1. claims[j] \in Range(claims)
      BY <1>1, ListIs
    <3> QED
      BY <3>1 DEF KeepNext
  <2> HIDE DEF n, T, step
  <2> QED
    BY <2>1, Zenon DEF Within
<1> HIDE DEF n, T, step
<1>5. PICK f : Folds(f, step, <<>>, n, T)
  BY <1>1, <1>4, FoldExists
<1>6. ASSUME NEW B \in SUBSET (1 .. n), B # {}
      PROVE  Largest(B) \in 1 .. n /\ B \ {Largest(B)} \in SUBSET (1 .. n)
  BY <1>1, <1>6, LargestIs
<1>7. Equation(f)
  <2>1. ASSUME NEW B \in SUBSET (1 .. n), B # {}
        PROVE  f[B] = KeepNext(claims, f[B \ {Largest(B)}], Largest(B))
    <3>1. f[B] = step[Largest(B)][f[B \ {Largest(B)}]] /\ f[B \ {Largest(B)}] \in T
      BY <1>5, <1>6, <2>1 DEF Folds
    <3> QED
      BY <1>3, <1>6, <2>1, <3>1
  <2> QED
    BY <1>5, <2>1 DEF Folds
<1>8. PICK g : g = (CHOOSE f_1 : Equation(f_1)) /\ Equation(g)
  <2> HIDE DEF Equation
  <2> QED
    BY <1>7
<1>9. Solves(g, step, <<>>, n, T)
  <2>1. ASSUME NEW B \in SUBSET (1 .. n), B # {}, g[B \ {Largest(B)}] \in T
        PROVE  g[B] = step[Largest(B)][g[B \ {Largest(B)}]]
    <3>1. g[B] = KeepNext(claims, g[B \ {Largest(B)}], Largest(B))
      BY <1>8, <2>1
    <3> QED
      BY <1>3, <1>6, <2>1, <3>1
  <2>2. g[{}] = <<>>
    BY <1>8
  <2> QED
    BY <2>1, <2>2 DEF Solves
<1>10. PICK h : Runs(h, step, <<>>, n, T) /\ h[n] = g[1 .. n]
  BY <1>1, <1>4, <1>9, FoldRuns
<1>11. ASSUME NEW j \in 1 .. n
       PROVE  h[j] = IF \E k \in DOMAIN h[j - 1] : Said!Same(h[j - 1][k], claims[j])
                     THEN h[j - 1] ELSE Append(h[j - 1], claims[j])
  <2>1. j - 1 \in 0 .. n
    BY <1>1
  <2>2. h[j] = step[j][h[j - 1]] /\ h[j - 1] \in T
    BY <1>10, <2>1 DEF Runs
  <2> QED
    BY <1>3, <2>2 DEF KeepNext
<1>12. h[0] = <<>> /\ \A j \in 0 .. n : h[j] \in T
  BY <1>10 DEF Runs
<1>13. Keeps(h, claims)
  BY <1>11, <1>12 DEF Keeps, n, T
<1> QED
  BY <1>2, <1>8, <1>10, <1>13 DEF n

Phrased(document, lines, item) == Said!Ground(document, lines, Said!Answered(lines, item))

\* What can be taken from the model's answer.
Phrases(document, lines, items) ==
    {Phrased(document, lines, items[j]) : j \in 1 .. Len(items)} \ {None}

\* found[j] is what is taken of its first j claims.
Takes(found, document, lines, existing, items) ==
    /\ found[0] = <<>>
    /\ \A j \in 0 .. Len(items) : found[j] \in Seq(Phrases(document, lines, items))
    /\ \A j \in 1 .. Len(items) :
           LET claim == Phrased(document, lines, items[j])
           IN  found[j] = IF claim = None THEN found[j - 1]
                          ELSE IF Said!Taken(claim, existing, found[j - 1]) THEN found[j - 1]
                          ELSE Append(found[j - 1], claim)

\* What is taken after one claim more, `claim`.
TakeNext(claim, existing, t) ==
    IF claim = None THEN t
    ELSE IF Said!Taken(claim, existing, t) THEN t
    ELSE Append(t, claim)

\* The claims of the model are taken one after the other.
LEMMA RefineRuns ==
    ASSUME NEW document, NEW lines, NEW existing, NEW items, IsList(items)
    PROVE  \E found : /\ Takes(found, document, lines, existing, items)
                      /\ Said!Refine(document, lines, existing, items) = found[Len(items)]
<1> DEFINE n == Len(items)
           T == Seq(Phrases(document, lines, items))
           step == [j \in 1 .. n |-> [t \in T |-> TakeNext(Phrased(document, lines, items[j]), existing, t)]]
           Equation(g) == g = [B \in SUBSET (1 .. n) |->
                                  IF B = {} THEN <<>>
                                  ELSE TakeNext(Phrased(document, lines, items[Largest(B)]), existing, g[B \ {Largest(B)}])]
<1>1. n \in Nat /\ DOMAIN items = 1 .. n /\ <<>> \in T
  BY ListIs
<1>2. Said!Refine(document, lines, existing, items) = (CHOOSE g : Equation(g))[1 .. n]
  BY <1>1 DEF Said!Refine, TakeNext, Phrased, Said!FoldLeft, Said!MapThenFoldSet, Said!Max, Largest
<1>3. \A j \in 1 .. n : \A t \in T : step[j][t] = TakeNext(Phrased(document, lines, items[j]), existing, t)
  OBVIOUS
<1>4. Within(step, n, T)
  <2>1. ASSUME NEW j \in 1 .. n, NEW t \in T
        PROVE  step[j][t] \in T
    <3>1. Phrased(document, lines, items[j]) # None =>
              Phrased(document, lines, items[j]) \in Phrases(document, lines, items)
      BY DEF Phrases
    <3>2. step[j][t] = TakeNext(Phrased(document, lines, items[j]), existing, t)
      OBVIOUS
    <3> QED
      BY <3>1, <3>2 DEF TakeNext
  <2> HIDE DEF n, T, step
  <2> QED
    BY <2>1, Zenon DEF Within
<1> HIDE DEF n, T, step
<1>5. PICK f : Folds(f, step, <<>>, n, T)
  BY <1>1, <1>4, FoldExists
<1>6. ASSUME NEW B \in SUBSET (1 .. n), B # {}
      PROVE  Largest(B) \in 1 .. n /\ B \ {Largest(B)} \in SUBSET (1 .. n)
  BY <1>1, <1>6, LargestIs
<1>7. Equation(f)
  <2>1. ASSUME NEW B \in SUBSET (1 .. n), B # {}
        PROVE  f[B] = TakeNext(Phrased(document, lines, items[Largest(B)]), existing, f[B \ {Largest(B)}])
    <3>1. f[B] = step[Largest(B)][f[B \ {Largest(B)}]] /\ f[B \ {Largest(B)}] \in T
      BY <1>5, <1>6, <2>1 DEF Folds
    <3> QED
      BY <1>3, <1>6, <2>1, <3>1
  <2> QED
    BY <1>5, <2>1 DEF Folds
<1>8. PICK g : g = (CHOOSE f_1 : Equation(f_1)) /\ Equation(g)
  <2> HIDE DEF Equation
  <2> QED
    BY <1>7
<1>9. Solves(g, step, <<>>, n, T)
  <2>1. ASSUME NEW B \in SUBSET (1 .. n), B # {}, g[B \ {Largest(B)}] \in T
        PROVE  g[B] = step[Largest(B)][g[B \ {Largest(B)}]]
    <3>1. g[B] = TakeNext(Phrased(document, lines, items[Largest(B)]), existing, g[B \ {Largest(B)}])
      BY <1>8, <2>1
    <3> QED
      BY <1>3, <1>6, <2>1, <3>1
  <2>2. g[{}] = <<>>
    BY <1>8
  <2> QED
    BY <2>1, <2>2 DEF Solves
<1>10. PICK h : Runs(h, step, <<>>, n, T) /\ h[n] = g[1 .. n]
  BY <1>1, <1>4, <1>9, FoldRuns
<1>11. ASSUME NEW j \in 1 .. n
       PROVE  h[j] = IF Phrased(document, lines, items[j]) = None THEN h[j - 1]
                       ELSE IF Said!Taken(Phrased(document, lines, items[j]), existing, h[j - 1]) THEN h[j - 1]
                       ELSE Append(h[j - 1], Phrased(document, lines, items[j]))
  <2>1. j - 1 \in 0 .. n
    BY <1>1
  <2>2. h[j] = step[j][h[j - 1]] /\ h[j - 1] \in T
    BY <1>10, <2>1 DEF Runs
  <2> QED
    BY <1>3, <2>2 DEF TakeNext
<1>12. h[0] = <<>> /\ \A j \in 0 .. n : h[j] \in T
  BY <1>10 DEF Runs
<1>13. Takes(h, document, lines, existing, items)
  BY <1>11, <1>12 DEF Takes, n, T
<1> QED
  BY <1>2, <1>8, <1>10, <1>13 DEF n

\* What holds of the texts and of any two put together holds of all of them in
\* a row.
LEMMA FlattenStays ==
    ASSUME NEW T, <<>> \in T, \A a, b \in T : a \o b \in T, NEW s \in Seq(T)
    PROVE  Said!FlattenSeq(s) \in T
<1> DEFINE n == Len(s)
           step == [j \in 1 .. n |-> [t \in T |-> IF j = 1 THEN s[1] ELSE t \o s[j]]]
           Equation(g) == g = [i \in 1 .. n |-> IF i = 1 THEN s[i] ELSE g[i - 1] \o s[i]]
<1>1. n \in Nat /\ \A j \in 1 .. n : s[j] \in T
  OBVIOUS
<1>2. CASE n = 0
  <2>1. s = <<>>
    BY <1>2
  <2> QED
    BY <1>2, <2>1 DEF Said!FlattenSeq
<1>3. CASE n # 0
  <2>1. Said!FlattenSeq(s) = (CHOOSE g : Equation(g))[n]
    BY <1>3 DEF Said!FlattenSeq
  <2>2. \A j \in 1 .. n : \A t \in T : step[j][t] = IF j = 1 THEN s[1] ELSE t \o s[j]
    OBVIOUS
  <2>3. Within(step, n, T)
    <3>1. ASSUME NEW j \in 1 .. n, NEW t \in T
          PROVE  step[j][t] \in T
      BY <1>1
    <3> HIDE DEF n, step
    <3> QED
      BY <3>1, Zenon DEF Within
  <2> HIDE DEF n, step
  <2>4. PICK h : Runs(h, step, <<>>, n, T)
    BY <1>1, <2>3, RunsExist
  <2>5. ASSUME NEW j \in 1 .. n
        PROVE  h[j] = IF j = 1 THEN s[j] ELSE h[j - 1] \o s[j]
    <3>1. j - 1 \in 0 .. n
      BY <1>1
    <3>2. h[j - 1] \in T /\ h[j] = step[j][h[j - 1]]
      BY <2>4, <3>1 DEF Runs
    <3> QED
      BY <2>2, <3>2
  <2>6. Equation([i \in 1 .. n |-> h[i]])
    <3>1. \A i \in 1 .. n : i # 1 => i - 1 \in 1 .. n
      BY <1>1
    <3> QED
      BY <2>5, <3>1
  <2>7. PICK g : g = (CHOOSE f : Equation(f)) /\ Equation(g)
    BY <2>6
  <2> DEFINE good == {j \in 0 .. n : j = 0 \/ g[j] \in T}
  <2>8. ASSUME NEW j \in 1 .. n, j - 1 \in good
        PROVE  j \in good
    <3>1. g[j] = IF j = 1 THEN s[j] ELSE g[j - 1] \o s[j]
      BY <2>7
    <3>0. j \in 0 .. n /\ j - 1 \in 0 .. n
      BY <1>1
    <3>2. CASE j = 1
      BY <1>1, <3>0, <3>1, <3>2
    <3>3. CASE j # 1
      <4>1. g[j - 1] \in T /\ s[j] \in T
        BY <1>1, <2>8, <3>0, <3>3
      <4>2. g[j] \in T
        BY <3>1, <3>3, <4>1
      <4> QED
        BY <3>0, <4>2
    <3> QED
      BY <3>2, <3>3
  <2>9. n \in good
    <3>1. 0 \in good /\ n \in 0 .. n
      BY <1>1
    <3> HIDE DEF good
    <3>2. \A j \in 0 .. n : j \in good
      BY <1>1, <2>8, <3>1, UpTo
    <3> QED
      BY <3>1, <3>2
  <2> QED
    BY <1>3, <2>1, <2>7, <2>9 DEF n
<1> QED
  BY <1>2, <1>3


-----------------------------------------------------------------------------
(* Texts without what must not be said.                                    *)

LEMMA FlattenIs ==
    ASSUME NEW U, NEW s, IsList(s), \A i \in 1 .. Len(s) : s[i] \in Seq(U)
    PROVE  Said!FlattenSeq(s) \in Seq(U)
<1> DEFINE T == Seq(U)
<1>1. <<>> \in T /\ \A a, b \in T : a \o b \in T
  OBVIOUS
<1>2. s \in Seq(T)
  <2>1. Len(s) \in Nat /\ s = [i \in 1 .. Len(s) |-> s[i]]
    BY DEF IsList
  <2> QED
    BY <2>1
<1> HIDE DEF T
<1>3. Said!FlattenSeq(s) \in T
  BY <1>1, <1>2, FlattenStays
<1> QED
  BY <1>3 DEF T

LEMMA Joining ==
    ASSUME NEW a, NEW b, IsList(a), IsList(b)
    PROVE  /\ IsList(a \o b) /\ Len(a \o b) = Len(a) + Len(b)
           /\ \A i \in 1 .. Len(a) : (a \o b)[i] = a[i]
           /\ \A i \in 1 .. Len(b) : (a \o b)[Len(a) + i] = b[i]
           /\ Range(a \o b) = Range(a) \cup Range(b)
<1>1. a \in Seq(Range(a) \cup Range(b)) /\ b \in Seq(Range(a) \cup Range(b))
  BY DEF IsList
<1>2. /\ a \o b \in Seq(Range(a) \cup Range(b))
      /\ Len(a \o b) = Len(a) + Len(b)
      /\ \A i \in 1 .. Len(a) : (a \o b)[i] = a[i]
      /\ \A i \in 1 .. Len(b) : (a \o b)[Len(a) + i] = b[i]
  BY <1>1
<1>3. IsList(a \o b) /\ Range(a \o b) \subseteq Range(a) \cup Range(b)
  BY <1>2, SeqIsList
<1>4. Range(a) \cup Range(b) \subseteq Range(a \o b)
  <2>1. /\ Len(a) \in Nat /\ Len(b) \in Nat
        /\ \A i \in 1 .. Len(a) : i \in 1 .. Len(a \o b)
        /\ \A i \in 1 .. Len(b) : Len(a) + i \in 1 .. Len(a \o b)
    BY <1>1, <1>2
  <2>2. Range(a \o b) = {(a \o b)[i] : i \in 1 .. Len(a \o b)}
    BY <1>3, ListIs
  <2>3. Range(a) = {a[i] : i \in 1 .. Len(a)} /\ Range(b) = {b[i] : i \in 1 .. Len(b)}
    BY ListIs
  <2>4. \A i \in 1 .. Len(a) : a[i] \in Range(a \o b)
    <3> SUFFICES ASSUME NEW i \in 1 .. Len(a)
                 PROVE  a[i] \in Range(a \o b)
      OBVIOUS
    <3>1. (a \o b)[i] = a[i] /\ i \in 1 .. Len(a \o b)
      BY <1>2, <2>1
    <3> QED
      BY <2>2, <3>1
  <2>5. \A i \in 1 .. Len(b) : b[i] \in Range(a \o b)
    <3> SUFFICES ASSUME NEW i \in 1 .. Len(b)
                 PROVE  b[i] \in Range(a \o b)
      OBVIOUS
    <3>1. (a \o b)[Len(a) + i] = b[i] /\ Len(a) + i \in 1 .. Len(a \o b)
      BY <1>2, <2>1
    <3> QED
      BY <2>2, <3>1
  <2> QED
    BY <2>3, <2>4, <2>5
<1> QED
  BY <1>2, <1>3, <1>4

LEMMA LabelledTogether ==
    ASSUME NEW a, NEW b, Labelled(a), Labelled(b)
    PROVE  Labelled(a \o b)
<1>1. /\ IsList(a \o b) /\ Len(a \o b) = Len(a) + Len(b)
      /\ \A i \in 1 .. Len(a) : (a \o b)[i] = a[i]
      /\ \A i \in 1 .. Len(b) : (a \o b)[Len(a) + i] = b[i]
      /\ Range(a \o b) = Range(a) \cup Range(b)
      /\ Len(a) \in Nat /\ Len(b) \in Nat
  BY Joining, ListIs DEF Labelled
<1>2. PICK c : c = a \o b
  OBVIOUS
<1>3. ASSUME NEW i \in 1 .. Len(c), c[i] \in Values
      PROVE  \E k \in 1 .. (i - 1) :
                 c[k] \in Labels /\ \A j \in k .. (i - 1) : c[j] = "." => c[j + 1] = ","
  <2>1. CASE i \in 1 .. Len(a)
    <3>1. a[i] \in Values
      BY <1>1, <1>2, <1>3, <2>1
    <3>2. PICK k \in 1 .. (i - 1) :
              a[k] \in Labels /\ \A j \in k .. (i - 1) : a[j] = "." => a[j + 1] = ","
      BY <2>1, <3>1 DEF Labelled
    <3>3. \A j \in k .. i : j \in 1 .. Len(a) /\ c[j] = a[j]
      BY <1>1, <1>2, <2>1
    <3>4. \A j \in k .. (i - 1) : j \in k .. i /\ j + 1 \in k .. i
      BY <1>1, <2>1
    <3>5. k \in k .. i
      BY <2>1
    <3> QED
      BY <3>2, <3>3, <3>4, <3>5
  <2>2. CASE i \notin 1 .. Len(a)
    <3>1. PICK m : m = i - Len(a)
      OBVIOUS
    <3>2. m \in 1 .. Len(b) /\ i = Len(a) + m
      BY <1>1, <1>2, <2>2, <3>1
    <3>3. b[m] \in Values
      BY <1>1, <1>2, <1>3, <3>2
    <3>4. PICK k \in 1 .. (m - 1) :
              b[k] \in Labels /\ \A j \in k .. (m - 1) : b[j] = "." => b[j + 1] = ","
      BY <3>2, <3>3 DEF Labelled
    <3>5. \A j \in k .. m : j \in 1 .. Len(b) /\ c[Len(a) + j] = b[j]
      BY <1>1, <1>2, <3>2
    <3>6. ASSUME NEW j \in (Len(a) + k) .. (i - 1), c[j] = "."
          PROVE  c[j + 1] = ","
      <4>1. PICK l : l = j - Len(a)
        OBVIOUS
      <4>2. /\ l \in k .. (m - 1) /\ l \in k .. m /\ l + 1 \in k .. m
            /\ j = Len(a) + l /\ j + 1 = Len(a) + (l + 1)
        BY <1>1, <3>2, <4>1
      <4>3. c[j] = b[l] /\ c[j + 1] = b[l + 1]
        BY <3>5, <4>2
      <4> QED
        BY <3>4, <3>6, <4>2, <4>3
    <3>7. Len(a) + k \in 1 .. (i - 1) /\ k \in k .. m
      BY <1>1, <3>2
    <3>8. c[Len(a) + k] \in Labels
      BY <3>4, <3>5, <3>7
    <3> QED
      BY <3>6, <3>7, <3>8
  <2> QED
    BY <2>1, <2>2
<1>4. IsList(c) /\ Redacted \notin Range(c)
  BY <1>1, <1>2 DEF Labelled
<1>5. Labelled(c)
  BY <1>3, <1>4 DEF Labelled
<1> QED
  BY <1>2, <1>5

LEMMA LabelledWord ==
    ASSUME NEW word, word \notin Values \cup {Redacted}
    PROVE  Labelled(<<word>>)
<1>1. <<word>> \in Seq({word})
  OBVIOUS
<1>2. IsList(<<word>>) /\ Range(<<word>>) \subseteq {word}
  BY <1>1, SeqIsList
<1>3. Len(<<word>>) = 1 /\ \A i \in 1 .. Len(<<word>>) : <<word>>[i] = word
  OBVIOUS
<1> QED
  BY <1>2, <1>3 DEF Labelled

LEMMA LabelledNothing == Labelled(<<>>)
<1>1. PICK S : S = {}
  OBVIOUS
<1>2. <<>> \in Seq(S)
  OBVIOUS
<1>3. PICK t : t = <<>>
  OBVIOUS
<1>4. t \in Seq(S) /\ Len(t) = 0
  BY <1>2, <1>3
<1>5. IsList(t) /\ Range(t) \subseteq S
  BY <1>4, SeqIsList
<1>6. 1 .. Len(t) = {}
  BY <1>4
<1>7. Labelled(t)
  BY <1>1, <1>5, <1>6 DEF Labelled
<1> QED
  BY <1>3, <1>7

\* Without its first word, if that is no label.
LEMMA LabelledTail ==
    ASSUME NEW text, Labelled(text), text = <<>> \/ text[1] \notin Labels
    PROVE  Labelled(SubSeq(text, 2, Len(text)))
<1>1. text \in Seq(Range(text)) /\ Len(text) \in Nat /\ DOMAIN text = 1 .. Len(text)
  BY ListIs DEF Labelled, IsList
<1>2. CASE text = <<>>
  <2>1. SubSeq(text, 2, Len(text)) = <<>>
    BY <1>2
  <2> QED
    BY <2>1, LabelledNothing
<1>3. CASE text # <<>>
  <2>1. PICK c : c = SubSeq(text, 2, Len(text))
    OBVIOUS
  <2>2. /\ c \in Seq(Range(text)) /\ Len(c) = Len(text) - 1
        /\ \A i \in 1 .. Len(c) : c[i] = text[i + 1]
    BY <1>1, <1>3, <2>1
  <2>3. IsList(c) /\ Redacted \notin Range(c)
    BY <2>2, SeqIsList DEF Labelled
  <2>4. ASSUME NEW i \in 1 .. Len(c), c[i] \in Values
        PROVE  \E k \in 1 .. (i - 1) :
                   c[k] \in Labels /\ \A j \in k .. (i - 1) : c[j] = "." => c[j + 1] = ","
    <3>1. i + 1 \in 1 .. Len(text) /\ text[i + 1] \in Values
      BY <1>1, <2>2, <2>4
    <3>2. PICK k \in 1 .. ((i + 1) - 1) :
              text[k] \in Labels /\ \A j \in k .. ((i + 1) - 1) : text[j] = "." => text[j + 1] = ","
      BY <3>1 DEF Labelled
    <3>3. k # 1
      BY <1>3, <3>2
    <3>4. k - 1 \in 1 .. (i - 1) /\ \A j \in (k - 1) .. (i - 1) :
              /\ j + 1 \in k .. ((i + 1) - 1)
              /\ j \in 1 .. Len(c) /\ j + 1 \in 1 .. Len(c)
      BY <1>1, <2>2, <3>3
    <3>5. c[k - 1] \in Labels
      <4>1. k - 1 \in 1 .. Len(c) /\ (k - 1) + 1 = k
        BY <3>4
      <4> QED
        BY <2>2, <3>2, <4>1
    <3>6. ASSUME NEW j \in (k - 1) .. (i - 1), c[j] = "."
          PROVE  c[j + 1] = ","
      <4>1. c[j] = text[j + 1] /\ c[j + 1] = text[(j + 1) + 1]
        BY <2>2, <3>4
      <4> QED
        BY <3>2, <3>4, <3>6, <4>1
    <3> QED
      BY <3>4, <3>5, <3>6
  <2>5. Labelled(c)
    BY <2>3, <2>4 DEF Labelled
  <2> QED
    BY <2>1, <2>5
<1> QED
  BY <1>2, <1>3

\* What is left shows no value, and where it shows the mark there was one.
LEMMA RedactedIs ==
    ASSUME NEW text, IsList(text), Redacted \notin Range(text), Redacted \notin Values,
           NEW ends, \A i \in 1 .. Len(text) : text[i] \in Values => IsHidden(text, ends, i),
           NEW out, out = Said!Redact(text, ends)
    PROVE  /\ IsList(out) /\ Range(out) \cap Values = {}
           /\ Redacted \in Range(out) => Said!Sensitive(text)
<1>1. IsList(out) /\ Range(out) \subseteq Remains(text, ends)
  BY RedactIs, SeqIsList
<1>2. Remains(text, ends) \cap Values = {}
  BY DEF Remains
<1>3. ASSUME Redacted \in Remains(text, ends)
      PROVE  Said!Sensitive(text)
  <2>1. /\ Len(text) \in Nat /\ \A i \in 1 .. Len(text) : text[i] # Redacted
    BY ListIs
  <2>2. PICK i \in 1 .. Len(text) : IsHidden(text, ends, i)
    BY <1>3, <2>1 DEF Remains
  <2>3. PICK k \in 1 .. (i - 1) : text[k] \in Labels
    BY <2>2 DEF IsHidden
  <2>4. k \in 1 .. (Len(text) - 1) /\ k + 1 \in 1 .. Len(text)
    BY <2>1
  <2> QED
    BY <2>1, <2>3, <2>4 DEF Said!Sensitive
<1> QED
  BY <1>1, <1>2, <1>3

LEMMA ProseIsRedacted ==
    ASSUME NEW text, Labelled(text), Redacted \notin Values, NEW out, out = Said!RedactProse(text)
    PROVE  /\ IsList(out) /\ Range(out) \cap Values = {}
           /\ Redacted \in Range(out) => Said!Sensitive(text)
<1> DEFINE ends == {j \in 1 .. (Len(text) - 1) : text[j] = "." /\ text[j + 1] # ","}
<1>1. out = Said!Redact(text, ends)
  BY DEF Said!RedactProse
<1>2. ASSUME NEW i \in 1 .. Len(text), text[i] \in Values
      PROVE  IsHidden(text, ends, i)
  BY <1>2 DEF Labelled, IsHidden
<1> HIDE DEF ends
<1> QED
  BY <1>1, <1>2, RedactedIs DEF Labelled

LEMMA SensitiveTogether ==
    ASSUME NEW a, NEW b, IsList(a), IsList(b), Said!Sensitive(a) \/ Said!Sensitive(b)
    PROVE  Said!Sensitive(a \o b)
<1>1. /\ Len(a \o b) = Len(a) + Len(b)
      /\ \A i \in 1 .. Len(a) : (a \o b)[i] = a[i]
      /\ \A i \in 1 .. Len(b) : (a \o b)[Len(a) + i] = b[i]
      /\ Len(a) \in Nat /\ Len(b) \in Nat
  BY Joining, ListIs
<1>2. CASE Said!Sensitive(a)
  <2>1. PICK k \in 1 .. (Len(a) - 1) : a[k] \in Labels /\ a[k + 1] # Redacted
    BY <1>2 DEF Said!Sensitive
  <2>2. k \in 1 .. Len(a) /\ k + 1 \in 1 .. Len(a) /\ k \in 1 .. (Len(a \o b) - 1)
    BY <1>1
  <2> QED
    BY <1>1, <2>1, <2>2 DEF Said!Sensitive
<1>3. CASE Said!Sensitive(b)
  <2>1. PICK k \in 1 .. (Len(b) - 1) : b[k] \in Labels /\ b[k + 1] # Redacted
    BY <1>3 DEF Said!Sensitive
  <2>2. /\ k \in 1 .. Len(b) /\ k + 1 \in 1 .. Len(b)
        /\ Len(a) + k \in 1 .. (Len(a \o b) - 1) /\ (Len(a) + k) + 1 = Len(a) + (k + 1)
    BY <1>1
  <2>3. (a \o b)[Len(a) + k] \in Labels /\ (a \o b)[(Len(a) + k) + 1] # Redacted
    BY <1>1, <2>1, <2>2
  <2> QED
    BY <2>2, <2>3 DEF Said!Sensitive
<1> QED
  BY <1>2, <1>3

\* Lists one after the other are a list of what is in one of them.
LEMMA FlattenHas ==
    ASSUME NEW n \in Nat, NEW s, s = [i \in 1 .. n |-> s[i]], \A i \in 1 .. n : IsList(s[i])
    PROVE  /\ IsList(Said!FlattenSeq(s))
           /\ \A x \in Range(Said!FlattenSeq(s)) : \E i \in 1 .. n : x \in Range(s[i])
<1> DEFINE U == UNION {Range(s[i]) : i \in 1 .. n}
<1>1. \A i \in 1 .. n : s[i] \in Seq(U)
  <2> SUFFICES ASSUME NEW i \in 1 .. n
               PROVE  s[i] \in Seq(U)
    OBVIOUS
  <2>1. s[i] \in Seq(Range(s[i])) /\ Range(s[i]) \subseteq U
    BY DEF IsList
  <2> HIDE DEF U
  <2> QED
    BY <2>1
<1>2. \A x \in U : \E i \in 1 .. n : x \in Range(s[i])
  OBVIOUS
<1> HIDE DEF U
<1>3. s \in Seq(Seq(U)) /\ Len(s) = n
  BY <1>1
<1>4. IsList(s)
  BY <1>3, SeqIsList
<1>5. Said!FlattenSeq(s) \in Seq(U)
  BY <1>1, <1>3, <1>4, FlattenIs
<1> QED
  BY <1>2, <1>5, SeqIsList

\* All that one line says, and all that the resume says.
LEMMA LineClaimsAre ==
    ASSUME NEW document, NEW lines, NEW n, IsList(lines[n])
    PROVE  /\ IsList(Said!LineClaims(document, lines, n))
           /\ \A claim \in Range(Said!LineClaims(document, lines, n)) :
                  /\ claim.document = document /\ claim.excerpt = lines[n]
                  /\ claim.locator = <<"line", n>>
                  /\ claim.text \in Seq(Range(lines[n]))
<1> DEFINE line == lines[n]
           kind == Said!SectionAt(lines, n)
           Made(text, subject) == Said!Claim(kind, text, subject, document, <<"line", n>>, line)
           skills == Said!SplitSkills(line)
           named == [i \in DOMAIN skills |-> Made(skills[i], skills[i])]
           subject == IF kind = "project" THEN Said!ProjectName(line) ELSE None
           whole == <<Made(line, subject)>>
           U == {Made(text, about) : text \in Seq(Range(line)), about \in Seq(Range(line)) \cup {subject}}
<1>1. \A claim \in U : /\ claim.document = document /\ claim.excerpt = line
                       /\ claim.locator = <<"line", n>> /\ claim.text \in Seq(Range(line))
  BY DEF Said!Claim
<1>2. skills \in Seq(Seq(Range(line)))
  <2>1. Said!Parts(line) \in Seq(Seq(Range(line)))
    BY PartsAre
  <2>2. Said!Given(Said!Parts(line)) \in Seq(Seq(Range(line)) \ {<<>>})
    BY <2>1, GivenIs
  <2> QED
    BY <2>2 DEF Said!SplitSkills
<1>3. named \in Seq(U)
  <2>1. \A i \in 1 .. Len(skills) : skills[i] \in Seq(Range(line))
    BY <1>2
  <2>2. DOMAIN skills = 1 .. Len(skills) /\ Len(skills) \in Nat
    BY <1>2
  <2>3. \A i \in 1 .. Len(skills) : named[i] \in U
    BY <2>1, <2>2
  <2>4. named = [i \in 1 .. Len(skills) |-> named[i]]
    BY <2>2
  <2> HIDE DEF named, U, skills
  <2> QED
    BY <2>2, <2>3, <2>4
<1>4. whole \in Seq(U)
  <2>1. line \in Seq(Range(line))
    BY DEF IsList
  <2>2. Made(line, subject) \in U
    BY <2>1
  <2> HIDE DEF U, Made
  <2> QED
    BY <2>2
<1>5. <<>> \in Seq(U)
  OBVIOUS
<1>6. Said!LineClaims(document, lines, n) \in {<<>>, named, whole}
  BY DEF Said!LineClaims
<1>7. Said!LineClaims(document, lines, n) \in Seq(U)
  <2> HIDE DEF U, named, whole
  <2> QED
    BY <1>3, <1>4, <1>5, <1>6
<1> HIDE DEF U
<1>8. /\ IsList(Said!LineClaims(document, lines, n))
      /\ Range(Said!LineClaims(document, lines, n)) \subseteq U
  BY <1>7, SeqIsList
<1> QED
  BY <1>1, <1>8 DEF line

\* A claim made of the words of line n, which it quotes.
OfLine(claim, document, lines, n) ==
    /\ claim.document = document /\ claim.excerpt = lines[n]
    /\ claim.locator = <<"line", n>> /\ claim.text \in Seq(Range(lines[n]))

LEMMA ResumeClaimsAre ==
    ASSUME NEW document, NEW lines, IsList(lines), \A n \in 1 .. Len(lines) : IsList(lines[n])
    PROVE  /\ IsList(Said!ParseResume(document, lines))
           /\ \A claim \in Range(Said!ParseResume(document, lines)) :
                  \E n \in 1 .. Len(lines) : OfLine(claim, document, lines, n)
<1> DEFINE said == [n \in 1 .. Len(lines) |-> Said!LineClaims(document, lines, n)]
<1>1. DOMAIN lines = 1 .. Len(lines) /\ Len(lines) \in Nat
  BY ListIs
<1>2. ASSUME NEW n \in 1 .. Len(lines)
      PROVE  /\ IsList(said[n])
             /\ \A claim \in Range(said[n]) : OfLine(claim, document, lines, n)
  <2>1. said[n] = Said!LineClaims(document, lines, n)
    OBVIOUS
  <2> QED
    BY <2>1, LineClaimsAre DEF OfLine
<1>3. Said!ParseResume(document, lines) = Said!FlattenSeq(said)
  BY <1>1 DEF Said!ParseResume
<1>4. said = [n \in 1 .. Len(lines) |-> said[n]]
  OBVIOUS
<1> HIDE DEF said
<1>5. IsList(Said!FlattenSeq(said)) /\ \A claim \in Range(Said!FlattenSeq(said)) :
          \E n \in 1 .. Len(lines) : claim \in Range(said[n])
  BY <1>1, <1>2, <1>4, FlattenHas
<1> QED
  BY <1>2, <1>3, <1>5

\* What the model phrases it quotes from a line.
LEMMA PhrasesAre ==
    ASSUME NEW document, NEW lines, IsList(lines), \A n \in 1 .. Len(lines) : IsList(lines[n]),
           NEW items, \A i \in 1 .. Len(items) : items[i].leaving \in Nat
    PROVE  \A claim \in Phrases(document, lines, items) :
               \E n \in 1 .. Len(lines) : OfLine(claim, document, lines, n)
<1> SUFFICES ASSUME NEW i \in 1 .. Len(items), Phrased(document, lines, items[i]) # None
             PROVE  \E n \in 1 .. Len(lines) :
                        OfLine(Phrased(document, lines, items[i]), document, lines, n)
  BY DEF Phrases
<1>1. PICK said : said = Said!Answered(lines, items[i])
  OBVIOUS
<1>2. PICK at : at = {n \in 1 .. Len(lines) : lines[n] = said.excerpt}
  OBVIOUS
<1>3. DOMAIN lines = 1 .. Len(lines) /\ Len(lines) \in Nat
  BY ListIs
<1>4. Phrased(document, lines, items[i]) = Said!Ground(document, lines, said)
  BY <1>1 DEF Phrased
<1>5. PICK claim : claim = Said!Ground(document, lines, said)
  OBVIOUS
<1>6. at # {} /\ claim = Said!Claim(said.kind, said.text, said.subject, document,
                               <<"line", Said!Min(at)>>, said.excerpt)
  BY <1>2, <1>3, <1>4, <1>5 DEF Said!Ground
<1>7. Said!Min(at) \in at
  <2>1. at \in SUBSET Nat
    BY <1>2
  <2>2. PICK x \in at : \A y \in at : ~(<<y, x>> \in OpToRel(<, Nat))
    BY <1>6, <2>1, NatLessThanWellFounded, WFMin
  <2>3. x \in Nat /\ \A y \in at : y \in Nat
    BY <2>1
  <2>4. \A y \in at : ~(y < x)
    BY <2>2, <2>3 DEF OpToRel
  <2>5. \A y \in at : x <= y
    BY <2>3, <2>4
  <2> QED
    BY <2>5 DEF Said!Min
<1>8. PICK n \in 1 .. Len(lines) : n = Said!Min(at) /\ lines[n] = said.excerpt
  BY <1>2, <1>7
<1>9. said.text \in Seq(Range(lines[n]))
  <2>1. said.text = SubSeq(said.excerpt, items[i].leaving + 1, Len(said.excerpt))
    BY <1>1 DEF Said!Answered
  <2>2. lines[n] \in Seq(Range(lines[n])) /\ items[i].leaving + 1 \in Nat \ {0}
    BY DEF IsList
  <2>3. \A t \in Seq(Range(lines[n])), m \in Nat \ {0} :
            SubSeq(t, m, Len(t)) \in Seq(Range(lines[n]))
    OBVIOUS
  <2> QED
    BY <1>8, <2>1, <2>2, <2>3
<1>10. OfLine(claim, document, lines, n)
  BY <1>6, <1>8, <1>9 DEF OfLine, Said!Claim
<1> QED
  BY <1>4, <1>5, <1>10

\* Of two texts that start with a word, or are empty, so does the whole.
LEMMA JoiningStarts ==
    ASSUME NEW W, NEW a \in Seq(W), NEW b \in Seq(W), NEW word,
           Len(a) = 0 \/ a[1] = word, Len(b) = 0 \/ b[1] = word
    PROVE  a \o b \in Seq(W) /\ (Len(a \o b) = 0 \/ (a \o b)[1] = word)
<1>1. /\ a \o b \in Seq(W) /\ Len(a \o b) = Len(a) + Len(b)
      /\ \A i \in 1 .. Len(a) : (a \o b)[i] = a[i]
      /\ \A i \in 1 .. Len(b) : (a \o b)[Len(a) + i] = b[i]
      /\ Len(a) \in Nat /\ Len(b) \in Nat
  OBVIOUS
<1>2. CASE Len(a) = 0
  <2>1. Len(b) # 0 => 1 \in 1 .. Len(b) /\ Len(a) + 1 = 1
    BY <1>1, <1>2
  <2>2. Len(b) # 0 => (a \o b)[1] = b[1]
    BY <1>1, <2>1
  <2> QED
    BY <1>1, <1>2, <2>2
<1>3. CASE Len(a) # 0
  <2>1. 1 \in 1 .. Len(a)
    BY <1>1, <1>3
  <2> QED
    BY <1>1, <1>3, <2>1
<1> QED
  BY <1>2, <1>3

\* The values of a row between commas.
LEMMA JoinedIsLabelled ==
    ASSUME NEW row, Labelled(row.company), Labelled(row.title), Labelled(row.description), Labelled(row.dates)
    PROVE  Labelled(Said!Joined(row))
<1> DEFINE S == {row.company, row.title, row.description, row.dates}
           W == {","} \cup UNION {Range(text) : text \in S}
           T == {t \in Seq(W) : Labelled(t) /\ (Len(t) = 0 \/ t[1] = ",")}
           values == Said!Given(<<row.company, row.title, row.description, row.dates>>)
           parts == [i \in DOMAIN values |-> <<",">> \o values[i]]
<1>1. values \in Seq(S)
  <2>1. <<row.company, row.title, row.description, row.dates>> \in Seq(S)
    OBVIOUS
  <2> HIDE DEF S
  <2>2. values \in Seq(S \ {<<>>})
    BY <2>1, GivenIs
  <2> HIDE DEF values
  <2> QED
    BY <2>2
<1>2. \A text \in S : Labelled(text) /\ text \in Seq(W)
  <2> SUFFICES ASSUME NEW text \in S
               PROVE  Labelled(text) /\ text \in Seq(W)
    OBVIOUS
  <2>1. Labelled(text)
    OBVIOUS
  <2>2. text \in Seq(Range(text)) /\ Range(text) \subseteq W
    BY <2>1 DEF Labelled, IsList
  <2> HIDE DEF W, S
  <2> QED
    BY <2>1, <2>2
<1>3. Labelled(<<",">>) /\ <<",">> \in Seq(W)
  <2>1. "," \in W
    OBVIOUS
  <2>2. "," \notin Values \cup {Redacted}
    BY WordsAssumption
  <2>3. Labelled(<<",">>)
    BY <2>2, LabelledWord
  <2> HIDE DEF W
  <2>4. \A word \in W : <<word>> \in Seq(W)
    OBVIOUS
  <2> QED
    BY <2>1, <2>3, <2>4
<1>4. <<>> \in T
  BY LabelledNothing
<1>5. \A a, b \in T : a \o b \in T
  <2> SUFFICES ASSUME NEW a \in T, NEW b \in T
               PROVE  a \o b \in T
    OBVIOUS
  <2> HIDE DEF W
  <2>1. Labelled(a \o b)
    BY LabelledTogether
  <2>2. /\ a \in Seq(W) /\ (Len(a) = 0 \/ a[1] = ",")
        /\ b \in Seq(W) /\ (Len(b) = 0 \/ b[1] = ",")
    OBVIOUS
  <2>3. a \o b \in Seq(W) /\ (Len(a \o b) = 0 \/ (a \o b)[1] = ",")
    BY <2>2, JoiningStarts
  <2> QED
    BY <2>1, <2>3
<1>6. \A text \in S : <<",">> \o text \in T
  <2> SUFFICES ASSUME NEW text \in S
               PROVE  <<",">> \o text \in T
    OBVIOUS
  <2>1. Labelled(<<",">> \o text)
    BY <1>2, <1>3, LabelledTogether
  <2> HIDE DEF S, W
  <2>2. <<",">> \in Seq(W) /\ text \in Seq(W)
    BY <1>2, <1>3
  <2>3. \A x, y \in Seq(W) : x \o y \in Seq(W)
    OBVIOUS
  <2>4. \A word, y : y \in Seq(W) => (<<word>> \o y)[1] = word
    OBVIOUS
  <2>5. <<",">> \o text \in Seq(W) /\ (<<",">> \o text)[1] = ","
    BY <2>2, <2>3, <2>4
  <2> QED
    BY <2>1, <2>5
<1> HIDE DEF S, W, T, values
<1>7. DOMAIN values = 1 .. Len(values) /\ Len(values) \in Nat
  BY <1>1
<1>8. parts \in Seq(T)
  <2>1. \A i \in 1 .. Len(values) : values[i] \in S
    BY <1>1
  <2>2. \A i \in 1 .. Len(values) : parts[i] \in T
    BY <1>6, <1>7, <2>1
  <2>3. parts = [i \in 1 .. Len(values) |-> parts[i]]
    BY <1>7
  <2> HIDE DEF parts
  <2> QED
    BY <1>7, <2>2, <2>3
<1>9. PICK joined : joined = Said!FlattenSeq(parts)
  OBVIOUS
<1>10. joined \in T
  <2> HIDE DEF parts
  <2> QED
    BY <1>4, <1>5, <1>8, <1>9, FlattenStays
<1>11. Labelled(joined) /\ (joined = <<>> \/ joined[1] \notin Labels)
  <2>1. joined \in Seq(W) /\ Labelled(joined) /\ (Len(joined) = 0 \/ joined[1] = ",")
    BY <1>10 DEF T
  <2>2. Len(joined) = 0 => joined = <<>>
    BY <2>1
  <2> QED
    BY <2>1, <2>2, WordsAssumption
<1>12. Labelled(SubSeq(joined, 2, Len(joined)))
  BY <1>11, LabelledTail
<1> QED
  BY <1>9, <1>12 DEF Said!Joined, values

OfExport(claim, export) ==
    claim.document = export.document /\ Labelled(claim.text) /\ Labelled(claim.excerpt)

LEMMA RowClaimsAre ==
    ASSUME NEW export, NEW i, Labelled(export.rows[i].company), Labelled(export.rows[i].title),
           Labelled(export.rows[i].description), Labelled(export.rows[i].dates)
    PROVE  \/ Said!RowClaims(export, i) = <<>>
           \/ \E claim : /\ Said!RowClaims(export, i) = <<claim>>
                         /\ OfExport(claim, export) /\ claim.locator = <<"row", i>>
<1> DEFINE row == export.rows[i]
           Made(text, about) ==
               Said!Claim(export.kind, text, about, export.document, <<"row", i>>, Said!Joined(row))
           subject == Said!OrElse(row.company, row.title)
           listed == Made(row.title, row.title)
           told == Said!OrElse(row.title \o row.company, Said!Joined(row)) \o row.description
           about == IF subject = <<>> THEN None ELSE subject
           claimed == Made(told, about)
<1>1. Labelled(Said!Joined(row))
  BY JoinedIsLabelled
<1>2. Labelled(told)
  <2>1. Labelled(row.title \o row.company)
    BY LabelledTogether
  <2>2. Labelled(Said!OrElse(row.title \o row.company, Said!Joined(row)))
    BY <1>1, <2>1 DEF Said!OrElse
  <2> QED
    BY <2>2, LabelledTogether
<1> HIDE DEF told, about
<1>3. OfExport(listed, export) /\ listed.locator = <<"row", i>>
  BY <1>1 DEF OfExport, Said!Claim
<1>4. OfExport(claimed, export) /\ claimed.locator = <<"row", i>>
  BY <1>1, <1>2 DEF OfExport, Said!Claim
<1>5. Said!RowClaims(export, i) \in {<<>>, <<listed>>, <<claimed>>}
  BY DEF Said!RowClaims, told, about
<1> HIDE DEF listed, claimed
<1> QED
  BY <1>3, <1>4, <1>5

\* A list of entries of the export, of which no two stand at the same place.
Entries(entries, export) ==
    /\ IsList(entries)
    /\ \A a \in Range(entries) : OfExport(a, export)
    /\ \A a, b \in Range(entries) : a.locator = b.locator => a = b

\* All of one sort.
AllFrom(entries, form) == \A a \in Range(entries) : \E place : a.locator = <<form, place>>

LEMMA PairsAre ==
    ASSUME NEW a, NEW b, NEW x, NEW y, <<a, b>> = <<x, y>>
    PROVE  a = x /\ b = y
<1>1. <<a, b>>[1] = <<x, y>>[1] /\ <<a, b>>[2] = <<x, y>>[2]
  OBVIOUS
<1> QED
  BY <1>1

\* An entry per place, or none.
Placed(s, n, form, export) ==
    /\ s = [i \in 1 .. n |-> s[i]]
    /\ \A i \in 1 .. n :
           \/ s[i] = <<>>
           \/ \E claim : /\ s[i] = <<claim>>
                         /\ OfExport(claim, export) /\ claim.locator = <<form, i>>

LEMMA PlacesAre ==
    ASSUME NEW export, NEW n \in Nat, NEW form, NEW s, Placed(s, n, form, export)
    PROVE  Entries(Said!FlattenSeq(s), export) /\ AllFrom(Said!FlattenSeq(s), form)
<1>1. ASSUME NEW i \in 1 .. n
      PROVE  /\ IsList(s[i])
             /\ \A a \in Range(s[i]) : /\ s[i] = <<a>>
                                       /\ OfExport(a, export) /\ a.locator = <<form, i>>
  <2>1. CASE s[i] = <<>>
    <3>1. IsList(<<>>)
      BY LabelledNothing DEF Labelled
    <3>2. Range(<<>>) = {}
      BY DEF Range
    <3> QED
      BY <2>1, <3>1, <3>2
  <2>2. CASE s[i] # <<>>
    <3>1. PICK claim : /\ s[i] = <<claim>>
                       /\ OfExport(claim, export) /\ claim.locator = <<form, i>>
      BY <2>2 DEF Placed
    <3>2. <<claim>> \in Seq({claim})
      OBVIOUS
    <3>3. IsList(<<claim>>) /\ Range(<<claim>>) \subseteq {claim}
      BY <3>2, SeqIsList
    <3> QED
      BY <3>1, <3>3
  <2> QED
    BY <2>1, <2>2
<1>2. PICK all : all = Said!FlattenSeq(s)
  OBVIOUS
<1>3. IsList(all) /\ \A a \in Range(all) : \E i \in 1 .. n : a \in Range(s[i])
  <2>1. s = [i \in 1 .. n |-> s[i]]
    BY DEF Placed
  <2> QED
    BY <1>1, <1>2, <2>1, FlattenHas
<1>4. ASSUME NEW a \in Range(all)
      PROVE  OfExport(a, export) /\ \E i \in 1 .. n : s[i] = <<a>> /\ a.locator = <<form, i>>
  BY <1>1, <1>3
<1>5. ASSUME NEW a \in Range(all), NEW b \in Range(all), a.locator = b.locator
      PROVE  a = b
  <2>1. PICK i \in 1 .. n : s[i] = <<a>> /\ a.locator = <<form, i>>
    BY <1>4
  <2>2. PICK j \in 1 .. n : s[j] = <<b>> /\ b.locator = <<form, j>>
    BY <1>4
  <2>3. <<form, i>> = <<form, j>>
    BY <1>5, <2>1, <2>2
  <2>5. i = j
    BY <2>3, PairsAre
  <2>4. <<a>>[1] = <<b>>[1]
    BY <2>1, <2>2, <2>5
  <2> QED
    BY <2>4
<1> QED
  BY <1>2, <1>3, <1>4, <1>5 DEF Entries, AllFrom

LEMMA CsvEntries ==
    ASSUME NEW export, export.form = "csv", LabelledExport(export)
    PROVE  Entries(Said!ClaimsFromCsv(export), export)
<1> DEFINE said == [i \in 1 .. Len(export.rows) |-> Said!RowClaims(export, i)]
<1>1. /\ IsList(export.rows)
      /\ \A row \in Range(export.rows) :
             Labelled(row.company) /\ Labelled(row.title) /\ Labelled(row.description) /\ Labelled(row.dates)
  BY DEF LabelledExport
<1>2. /\ DOMAIN export.rows = 1 .. Len(export.rows) /\ Len(export.rows) \in Nat
      /\ \A i \in 1 .. Len(export.rows) : export.rows[i] \in Range(export.rows)
  BY <1>1, ListIs
<1>3. Said!ClaimsFromCsv(export) = Said!FlattenSeq(said)
  BY <1>2 DEF Said!ClaimsFromCsv
<1>4. ASSUME NEW i \in 1 .. Len(export.rows)
      PROVE  \/ said[i] = <<>>
             \/ \E claim : /\ said[i] = <<claim>>
                           /\ OfExport(claim, export) /\ claim.locator = <<"row", i>>
  <2>1. said[i] = Said!RowClaims(export, i)
    OBVIOUS
  <2>2. export.rows[i] \in Range(export.rows)
    BY <1>2
  <2> HIDE DEF said
  <2> QED
    BY <1>1, <2>1, <2>2, RowClaimsAre
<1>5. said = [i \in 1 .. Len(export.rows) |-> said[i]]
  OBVIOUS
<1> HIDE DEF said
<1>6. Placed(said, Len(export.rows), "row", export)
  BY <1>4, <1>5 DEF Placed
<1>7. Entries(Said!FlattenSeq(said), export)
  BY <1>2, <1>6, PlacesAre
<1> QED
  BY <1>3, <1>7

\* Names, each at a place of its own.
Named(made, names, kind, form, tail, export) ==
    made = [i \in DOMAIN names |->
               Said!Claim(kind, names[i] \o tail, names[i], export.document, <<form, names[i]>>,
                     names[i] \o tail)]

LEMMA NamesAre ==
    ASSUME NEW export, NEW names, IsList(names), \A name \in Range(names) : Labelled(name),
           NEW kind, NEW form, NEW tail, Labelled(tail),
           NEW made, Named(made, names, kind, form, tail, export)
    PROVE  Entries(made, export) /\ AllFrom(made, form)
<1>1. DOMAIN names = 1 .. Len(names) /\ Len(names) \in Nat
      /\ \A i \in 1 .. Len(names) : names[i] \in Range(names)
  BY ListIs
<1>2. \A i \in 1 .. Len(names) :
          made[i] = Said!Claim(kind, names[i] \o tail, names[i], export.document,
                          <<form, names[i]>>, names[i] \o tail)
  BY <1>1 DEF Named
<1>3. made = [i \in 1 .. Len(names) |-> made[i]]
  BY <1>1 DEF Named
<1>4. PICK S : S = {made[i] : i \in 1 .. Len(names)}
  OBVIOUS
<1>5. made \in Seq(S) /\ Len(made) = Len(names)
  BY <1>1, <1>3, <1>4
<1>6. IsList(made) /\ Range(made) \subseteq S
  BY <1>5, SeqIsList
<1>7. ASSUME NEW i \in 1 .. Len(names)
      PROVE  OfExport(made[i], export) /\ made[i].locator = <<form, names[i]>>
  <2>1. Labelled(names[i] \o tail)
    BY <1>1, LabelledTogether
  <2>2. PICK claim : claim = Said!Claim(kind, names[i] \o tail, names[i], export.document,
                                   <<form, names[i]>>, names[i] \o tail)
    OBVIOUS
  <2>3. OfExport(claim, export) /\ claim.locator = <<form, names[i]>>
    BY <2>1, <2>2 DEF OfExport, Said!Claim
  <2>4. made[i] = claim
    BY <1>2, <2>2
  <2> QED
    BY <2>3, <2>4
<1>8. ASSUME NEW i \in 1 .. Len(names), NEW j \in 1 .. Len(names),
             made[i].locator = made[j].locator
      PROVE  made[i] = made[j]
  <2>1. names[i] = names[j]
    <3>1. <<form, names[i]>> = <<form, names[j]>>
      BY <1>7, <1>8
    <3> QED
      BY <3>1, PairsAre
  <2> QED
    BY <1>2, <2>1
<1>9. ASSUME NEW a \in Range(made)
      PROVE  \E i \in 1 .. Len(names) : a = made[i]
  BY <1>4, <1>6
<1>10. ASSUME NEW a \in Range(made)
       PROVE  OfExport(a, export) /\ \E name : a.locator = <<form, name>>
  <2>1. PICK i \in 1 .. Len(names) : a = made[i]
    BY <1>9
  <2> QED
    BY <1>7, <2>1
<1>11. ASSUME NEW a \in Range(made), NEW b \in Range(made), a.locator = b.locator
       PROVE  a = b
  <2>1. PICK i \in 1 .. Len(names) : a = made[i]
    BY <1>9
  <2>2. PICK j \in 1 .. Len(names) : b = made[j]
    BY <1>9
  <2> QED
    BY <1>8, <1>11, <2>1, <2>2
<1> QED
  BY <1>6, <1>10, <1>11 DEF Entries, AllFrom

\* Entries of two sorts.
LEMMA EntriesTogether ==
    ASSUME NEW export, NEW a, NEW b, Entries(a, export), Entries(b, export),
           \A x \in Range(a), y \in Range(b) : x.locator # y.locator
    PROVE  Entries(a \o b, export) /\ Range(a \o b) = Range(a) \cup Range(b)
<1>1. IsList(a \o b) /\ Range(a \o b) = Range(a) \cup Range(b)
  BY Joining DEF Entries
<1>2. ASSUME NEW x \in Range(a) \cup Range(b), NEW y \in Range(a) \cup Range(b),
             x.locator = y.locator
      PROVE  x = y
  BY <1>2 DEF Entries
<1> QED
  BY <1>1, <1>2 DEF Entries

LEMMA SortsTogether ==
    ASSUME NEW export, NEW a, NEW b, NEW c, Entries(a, export), Entries(b, export),
           Entries(c, export), AllFrom(a, "positions"), AllFrom(b, "skills"),
           AllFrom(c, "endorsements")
    PROVE  Entries(a \o b \o c, export)
<1>1. ASSUME NEW x \in Range(a), NEW y \in Range(b), x.locator = y.locator
      PROVE  FALSE
  <2>1. PICK i : x.locator = <<"positions", i>>
    BY DEF AllFrom
  <2>2. PICK name : y.locator = <<"skills", name>>
    BY DEF AllFrom
  <2>3. "positions" = "skills"
    BY <1>1, <2>1, <2>2, PairsAre
  <2> QED
    BY <2>3
<1>2. Entries(a \o b, export) /\ Range(a \o b) = Range(a) \cup Range(b)
  BY <1>1, EntriesTogether
<1>3. ASSUME NEW x \in Range(a) \cup Range(b), NEW y \in Range(c), x.locator = y.locator
      PROVE  FALSE
  <2>1. PICK form \in {"positions", "skills"} : \E name : x.locator = <<form, name>>
    BY DEF AllFrom
  <2>2. PICK name : x.locator = <<form, name>>
    BY <2>1
  <2>3. PICK name_1 : y.locator = <<"endorsements", name_1>>
    BY DEF AllFrom
  <2>4. form = "endorsements"
    BY <1>3, <2>2, <2>3, PairsAre
  <2> QED
    BY <2>4
<1>4. PICK all : all = a \o b
  OBVIOUS
<1>5. Entries(all, export) /\ \A x \in Range(all), y \in Range(c) : x.locator # y.locator
  BY <1>2, <1>3, <1>4
<1>6. Entries(all \o c, export)
  BY <1>5, EntriesTogether
<1> QED
  BY <1>4, <1>6

LEMMA GivenIsList ==
    ASSUME NEW texts, IsList(texts)
    PROVE  IsList(Said!Given(texts)) /\ Range(Said!Given(texts)) \subseteq Range(texts)
<1>1. Said!Given(texts) \in Seq(Range(texts) \ {<<>>})
  BY GivenIs DEF IsList
<1> QED
  BY <1>1, SeqIsList

LEMMA JsonEntries ==
    ASSUME NEW export, export.form # "csv", LabelledExport(export)
    PROVE  Entries(Said!ClaimsFromJson(export), export)
<1> DEFINE n == Len(export.positions)
           row(i) == export.positions[i]
           text(i) == row(i).title \o row(i).company \o row(i).description
           about(i) == IF row(i).company = <<>> THEN None ELSE row(i).company
           entry(i) == Said!Claim("role", text(i), about(i), export.document, <<"positions", i>>, text(i))
           positions == [i \in 1 .. n |-> IF text(i) = <<>> THEN <<>> ELSE <<entry(i)>>]
           known == Said!Given(export.skills)
           skills == [i \in DOMAIN known |->
                         Said!Claim("skill", known[i], known[i], export.document,
                               <<"skills", known[i]>>, known[i])]
           praised == Said!Given(export.endorsements)
           endorsements == [i \in DOMAIN praised |->
                               Said!Claim("endorsement", praised[i] \o <<"endorsed">>, praised[i],
                                     export.document, <<"endorsements", praised[i]>>,
                                     praised[i] \o <<"endorsed">>)]
<1>1. /\ IsList(export.positions) /\ IsList(export.skills) /\ IsList(export.endorsements)
      /\ \A r \in Range(export.positions) :
             Labelled(r.company) /\ Labelled(r.title) /\ Labelled(r.description)
      /\ \A name \in Range(export.skills) \cup Range(export.endorsements) : Labelled(name)
  BY DEF LabelledExport
<1>2. /\ DOMAIN export.positions = 1 .. n /\ n \in Nat
      /\ \A i \in 1 .. n : row(i) \in Range(export.positions)
  BY <1>1, ListIs
<1>3. Said!ClaimsFromJson(export) = Said!FlattenSeq(positions) \o skills \o endorsements
  BY <1>2 DEF Said!ClaimsFromJson
<1>4. ASSUME NEW i \in 1 .. n
      PROVE  OfExport(entry(i), export) /\ entry(i).locator = <<"positions", i>>
  <2>1. Labelled(row(i).company) /\ Labelled(row(i).title) /\ Labelled(row(i).description)
    BY <1>1, <1>2
  <2>2. Labelled(row(i).title \o row(i).company)
    BY <2>1, LabelledTogether
  <2>3. Labelled(text(i))
    BY <2>1, <2>2, LabelledTogether
  <2> HIDE DEF text, row, about
  <2> QED
    BY <2>3 DEF OfExport, Said!Claim
<1>5. Entries(Said!FlattenSeq(positions), export) /\ AllFrom(Said!FlattenSeq(positions), "positions")
  <2>1. \A i \in 1 .. n : positions[i] = IF text(i) = <<>> THEN <<>> ELSE <<entry(i)>>
    OBVIOUS
  <2>2. positions = [i \in 1 .. n |-> positions[i]]
    OBVIOUS
  <2>3. ASSUME NEW i \in 1 .. n
        PROVE  \/ positions[i] = <<>>
               \/ \E claim : /\ positions[i] = <<claim>>
                             /\ OfExport(claim, export) /\ claim.locator = <<"positions", i>>
    <3>1. PICK claim : claim = entry(i)
      OBVIOUS
    <3> HIDE DEF positions, entry, text
    <3> QED
      BY <1>4, <2>1, <3>1
  <2> HIDE DEF positions
  <2>4. Placed(positions, n, "positions", export)
    BY <2>2, <2>3 DEF Placed
  <2> QED
    BY <1>2, <2>4, PlacesAre
<1>6. Entries(skills, export) /\ AllFrom(skills, "skills")
  <2>1. IsList(known) /\ \A name \in Range(known) : Labelled(name)
    BY <1>1, GivenIsList
  <2>2. Labelled(<<>>)
    BY LabelledNothing
  <2>3. ASSUME NEW i \in DOMAIN known
        PROVE  known[i] \o <<>> = known[i]
    <3>1. known[i] \in Range(known)
      BY DEF Range
    <3>2. known[i] \in Seq(Range(known[i]))
      BY <2>1, <3>1 DEF Labelled, IsList
    <3> HIDE DEF known
    <3> QED
      BY <3>2
  <2>4. Named(skills, known, "skill", "skills", <<>>, export)
    BY <2>3 DEF Named
  <2> HIDE DEF skills, known
  <2> QED
    BY <2>1, <2>2, <2>4, NamesAre
<1>7. Entries(endorsements, export) /\ AllFrom(endorsements, "endorsements")
  <2>1. IsList(praised) /\ \A name \in Range(praised) : Labelled(name)
    BY <1>1, GivenIsList
  <2>2. Labelled(<<"endorsed">>)
    BY LabelledWord, WordsAssumption
  <2>3. Named(endorsements, praised, "endorsement", "endorsements", <<"endorsed">>, export)
    BY DEF Named
  <2> HIDE DEF endorsements, praised
  <2> QED
    BY <2>1, <2>2, <2>3, NamesAre
<1> HIDE DEF positions, skills, endorsements
<1>8. PICK flat : flat = Said!FlattenSeq(positions)
  OBVIOUS
<1>9. Entries(flat, export) /\ AllFrom(flat, "positions")
  BY <1>5, <1>8
<1>10. Entries(flat \o skills \o endorsements, export)
  BY <1>6, <1>7, <1>9, SortsTogether
<1> QED
  BY <1>3, <1>8, <1>10

LEMMA ExportEntries ==
    ASSUME NEW export, LabelledExport(export)
    PROVE  Entries(Said!LoadLinkedInExport(export), export)
BY CsvEntries, JsonEntries DEF Said!LoadLinkedInExport

-----------------------------------------------------------------------------
(* What is kept of the claims.                                             *)

\* What is kept are some of the claims, each of which is the same as one that is
\* kept, while no two of those are.
LEMMA DedupeIs ==
    ASSUME NEW claims, IsList(claims), NEW kept, kept = Said!Dedupe(claims)
    PROVE  /\ IsList(kept) /\ Range(kept) \subseteq Range(claims)
           /\ \A x \in Range(claims) : \E y \in Range(kept) : Said!Same(y, x)
           /\ \A m, n \in 1 .. Len(kept) : m < n => ~Said!Same(kept[m], kept[n])
<1>1. PICK k : Keeps(k, claims) /\ kept = k[Len(claims)]
  BY DedupeRuns
<1>2. PICK n \in Nat : n = Len(claims)
  BY ListIs
<1>3. /\ k[0] = <<>>
      /\ \A j \in 0 .. n : k[j] \in Seq(Range(claims))
      /\ \A j \in 1 .. n :
             k[j] = IF \E i \in DOMAIN k[j - 1] : Said!Same(k[j - 1][i], claims[j])
                    THEN k[j - 1] ELSE Append(k[j - 1], claims[j])
  BY <1>1, <1>2 DEF Keeps
<1> DEFINE Merged(s, j) ==
               /\ \A i \in 1 .. j : \E m \in 1 .. Len(s) : Said!Same(s[m], claims[i])
               /\ \A a, b \in 1 .. Len(s) : a < b => ~Said!Same(s[a], s[b])
           good == {j \in 0 .. n : Merged(k[j], j)}
<1>4. 0 \in good
  <2>1. Len(k[0]) = 0 /\ 1 .. 0 = {}
    BY <1>3
  <2> QED
    BY <2>1
<1>5. ASSUME NEW j \in 1 .. n, j - 1 \in good
      PROVE  j \in good
  <2>1. PICK s : s = k[j - 1]
    OBVIOUS
  <2>2. j - 1 \in 0 .. n /\ Merged(s, j - 1)
    BY <1>5, <2>1
  <2>3. s \in Seq(Range(claims)) /\ DOMAIN s = 1 .. Len(s) /\ Len(s) \in Nat
    BY <1>3, <2>1, <2>2
  <2>4. k[j] = IF \E i \in 1 .. Len(s) : Said!Same(s[i], claims[j]) THEN s ELSE Append(s, claims[j])
    BY <1>3, <2>1, <2>3
  <2>5. CASE \E i \in 1 .. Len(s) : Said!Same(s[i], claims[j])
    <3>1. k[j] = s
      BY <2>4, <2>5
    <3>2. \A i \in 1 .. j : i \in 1 .. j - 1 \/ i = j
      OBVIOUS
    <3>3. Merged(s, j)
      BY <2>2, <2>5, <3>2
    <3> HIDE DEF Merged
    <3> QED
      BY <3>1, <3>3
  <2>6. CASE ~ \E i \in 1 .. Len(s) : Said!Same(s[i], claims[j])
    <3>1. k[j] = Append(s, claims[j])
      BY <2>4, <2>6
    <3>2. PICK t : t = k[j]
      OBVIOUS
    <3>3. /\ Len(t) = Len(s) + 1 /\ t[Len(s) + 1] = claims[j]
          /\ \A i \in 1 .. Len(s) : t[i] = s[i]
      BY <2>3, <3>1, <3>2
    <3>4. \A i \in 1 .. j : i \in 1 .. j - 1 \/ i = j
      OBVIOUS
    <3>5. ASSUME NEW i \in 1 .. j
          PROVE  \E m \in 1 .. Len(t) : Said!Same(t[m], claims[i])
      <4>1. CASE i = j
        <5>1. Len(s) + 1 \in 1 .. Len(t) /\ Said!Same(claims[j], claims[j])
          BY <2>3, <3>3 DEF Said!Same
        <5> QED
          BY <3>3, <4>1, <5>1
      <4>2. CASE i \in 1 .. j - 1
        <5>1. PICK m \in 1 .. Len(s) : Said!Same(s[m], claims[i])
          BY <2>2, <4>2
        <5>2. m \in 1 .. Len(t)
          BY <2>3, <3>3
        <5> QED
          BY <3>3, <5>1, <5>2
      <4> QED
        BY <3>4, <4>1, <4>2
    <3>6. ASSUME NEW a \in 1 .. Len(t), NEW b \in 1 .. Len(t), a < b
          PROVE  ~Said!Same(t[a], t[b])
      <4>1. a \in 1 .. Len(s) /\ (b \in 1 .. Len(s) \/ b = Len(s) + 1)
        BY <2>3, <3>3, <3>6
      <4>2. CASE b \in 1 .. Len(s)
        BY <2>2, <3>3, <3>6, <4>1, <4>2
      <4>3. CASE b = Len(s) + 1
        BY <2>6, <3>3, <4>1, <4>3
      <4> QED
        BY <4>1, <4>2, <4>3
    <3>7. Merged(t, j)
      BY <3>5, <3>6
    <3> HIDE DEF Merged
    <3> QED
      BY <3>2, <3>7
  <2> QED
    BY <2>5, <2>6
<1>6. n \in good
  <2>1. n \in 0 .. n
    OBVIOUS
  <2> HIDE DEF good
  <2>2. \A j \in 0 .. n : j \in good
    BY <1>4, <1>5, UpTo
  <2> QED
    BY <2>1, <2>2
<1>7. Merged(kept, n) /\ kept \in Seq(Range(claims))
  <2>1. Merged(k[n], n) /\ k[n] \in Seq(Range(claims))
    BY <1>3, <1>6
  <2> HIDE DEF Merged
  <2> QED
    BY <1>1, <1>2, <2>1
<1>8. IsList(kept) /\ Range(kept) \subseteq Range(claims)
  BY <1>7, SeqIsList
<1>9. Range(claims) = {claims[i] : i \in 1 .. n} /\ Range(kept) = {kept[i] : i \in 1 .. Len(kept)}
  BY <1>2, <1>8, ListIs
<1>10. ASSUME NEW x \in Range(claims)
       PROVE  \E y \in Range(kept) : Said!Same(y, x)
  <2>1. PICK i \in 1 .. n : x = claims[i]
    BY <1>9
  <2>2. PICK m \in 1 .. Len(kept) : Said!Same(kept[m], claims[i])
    BY <1>7
  <2> QED
    BY <1>9, <2>1, <2>2
<1> QED
  BY <1>7, <1>8, <1>10

\* What is kept of the first claims is kept first, whatever follows them.
LEMMA DedupeStarts ==
    ASSUME NEW a, NEW b, IsList(a), IsList(b), NEW first, first = Said!Dedupe(a),
           NEW all, all = Said!Dedupe(a \o b)
    PROVE  Len(first) <= Len(all) /\ \A i \in 1 .. Len(first) : all[i] = first[i]
<1>1. PICK c : c = a \o b
  OBVIOUS
<1>2. /\ IsList(c) /\ Len(c) = Len(a) + Len(b) /\ Len(a) \in Nat /\ Len(b) \in Nat
      /\ \A i \in 1 .. Len(a) : c[i] = a[i]
  BY <1>1, Joining, ListIs
<1>3. PICK k : Keeps(k, a) /\ first = k[Len(a)]
  BY DedupeRuns
<1>4. PICK h : Keeps(h, c) /\ all = h[Len(c)]
  BY <1>1, <1>2, DedupeRuns
<1> DEFINE same == {j \in 0 .. Len(a) : k[j] = h[j]}
<1>5. 0 \in same
  BY <1>2, <1>3, <1>4 DEF Keeps
<1>6. ASSUME NEW j \in 1 .. Len(a), j - 1 \in same
      PROVE  j \in same
  <2>1. PICK s : s = k[j - 1] /\ s = h[j - 1]
    BY <1>6
  <2>2. j \in 1 .. Len(c) /\ c[j] = a[j] /\ j \in 0 .. Len(a)
    BY <1>2
  <2>3. k[j] = IF \E i \in DOMAIN s : Said!Same(s[i], a[j]) THEN s ELSE Append(s, a[j])
    BY <1>3, <2>1 DEF Keeps
  <2>4. h[j] = IF \E i \in DOMAIN s : Said!Same(s[i], a[j]) THEN s ELSE Append(s, a[j])
    BY <1>4, <2>1, <2>2 DEF Keeps
  <2> QED
    BY <2>2, <2>3, <2>4
<1>7. first = h[Len(a)] /\ h[Len(a)] \in Seq(Range(a))
  <2>1. Len(a) \in 0 .. Len(a)
    BY <1>2
  <2> HIDE DEF same
  <2>2. \A j \in 0 .. Len(a) : j \in same
    BY <1>2, <1>5, <1>6, UpTo
  <2>3. k[Len(a)] = h[Len(a)]
    BY <2>1, <2>2 DEF same
  <2> QED
    BY <1>3, <2>1, <2>3 DEF Keeps
<1> DEFINE longer == {j \in 0 .. Len(b) :
                         /\ Len(first) <= Len(h[Len(a) + j])
                         /\ \A i \in 1 .. Len(first) : h[Len(a) + j][i] = first[i]}
<1>8. 0 \in longer
  <2>1. Len(a) + 0 = Len(a) /\ 0 \in 0 .. Len(b) /\ Len(first) \in Nat
    BY <1>2, <1>7
  <2> QED
    BY <1>7, <2>1
<1>9. ASSUME NEW j \in 1 .. Len(b), j - 1 \in longer
      PROVE  j \in longer
  <2>1. PICK m : m = Len(a) + j
    OBVIOUS
  <2>2. /\ m \in 1 .. Len(c) /\ m - 1 = Len(a) + (j - 1) /\ m - 1 \in 0 .. Len(c)
        /\ j \in 0 .. Len(b)
    BY <1>2, <2>1
  <2>3. PICK s : s = h[m - 1]
    OBVIOUS
  <2>4. PICK t : t = h[m]
    OBVIOUS
  <2>5. s \in Seq(Range(c)) /\ (t = s \/ t = Append(s, c[m]))
    BY <1>4, <2>2, <2>3, <2>4 DEF Keeps
  <2>6. Len(first) <= Len(s) /\ \A i \in 1 .. Len(first) : s[i] = first[i]
    BY <1>9, <2>2, <2>3
  <2>7. Len(s) <= Len(t) /\ \A i \in 1 .. Len(s) : t[i] = s[i]
    BY <2>5
  <2>8. Len(first) \in Nat /\ Len(s) \in Nat /\ Len(t) \in Nat
    BY <1>7, <2>5
  <2>9. Len(first) <= Len(t) /\ \A i \in 1 .. Len(first) : t[i] = first[i]
    BY <2>6, <2>7, <2>8
  <2> QED
    BY <2>1, <2>2, <2>4, <2>9
<1>10. Len(b) \in longer
  <2>1. Len(b) \in 0 .. Len(b)
    BY <1>2
  <2> HIDE DEF longer
  <2>2. \A j \in 0 .. Len(b) : j \in longer
    BY <1>2, <1>8, <1>9, UpTo
  <2> QED
    BY <2>1, <2>2
<1> QED
  BY <1>2, <1>4, <1>10

\* One of the first claims that is kept is kept whatever follows them.
LEMMA KeptFirst ==
    ASSUME NEW a, NEW b, NEW c, IsList(a), IsList(b), IsList(c),
           NEW x, x \in Range(a), x \in Range(Said!Dedupe(a \o b))
    PROVE  x \in Range(Said!Dedupe(a \o c))
<1>1. PICK first : first = Said!Dedupe(a)
  OBVIOUS
<1>2. PICK all : all = Said!Dedupe(a \o b)
  OBVIOUS
<1>3. PICK other : other = Said!Dedupe(a \o c)
  OBVIOUS
<1>4. IsList(a \o b) /\ IsList(a \o c)
  BY Joining
<1>5. /\ IsList(first) /\ IsList(all) /\ IsList(other)
      /\ \A m, n \in 1 .. Len(all) : m < n => ~Said!Same(all[m], all[n])
      /\ \E y \in Range(first) : Said!Same(y, x)
  BY <1>1, <1>2, <1>3, <1>4, DedupeIs
<1>6. /\ Len(first) \in Nat /\ Len(all) \in Nat /\ Len(other) \in Nat
      /\ Range(first) = {first[i] : i \in 1 .. Len(first)}
      /\ Range(all) = {all[i] : i \in 1 .. Len(all)}
      /\ Range(other) = {other[i] : i \in 1 .. Len(other)}
  BY <1>5, ListIs
<1>7. Len(first) <= Len(all) /\ \A i \in 1 .. Len(first) : all[i] = first[i]
  BY <1>1, <1>2, DedupeStarts
<1>8. Len(first) <= Len(other) /\ \A i \in 1 .. Len(first) : other[i] = first[i]
  BY <1>1, <1>3, DedupeStarts
<1>9. PICK m \in 1 .. Len(first) : Said!Same(first[m], x)
  BY <1>5, <1>6
<1>10. PICK n \in 1 .. Len(all) : x = all[n]
  BY <1>2, <1>6
<1>11. n \in 1 .. Len(first)
  <2>1. m \in 1 .. Len(all) /\ ~(m < n)
    BY <1>5, <1>6, <1>7, <1>9, <1>10
  <2> QED
    BY <1>6, <2>1
<1>12. n \in 1 .. Len(other) /\ other[n] = x
  BY <1>6, <1>7, <1>8, <1>10, <1>11
<1> QED
  BY <1>3, <1>6, <1>12

\* What the model adds is nowhere said yet.
Elsewhere(a, b) == ~(a.kind = b.kind /\ a.locator = b.locator)

LEMMA RefineIs ==
    ASSUME NEW document, NEW lines, NEW existing, IsList(existing), NEW items, IsList(items),
           NEW extra, extra = Said!Refine(document, lines, existing, items)
    PROVE  /\ extra \in Seq(Phrases(document, lines, items))
           /\ \A i \in 1 .. Len(existing), q \in 1 .. Len(extra) : Elsewhere(existing[i], extra[q])
           /\ \A p, q \in 1 .. Len(extra) : p < q => Elsewhere(extra[p], extra[q])
<1> DEFINE S == Phrases(document, lines, items)
<1>1. PICK f : Takes(f, document, lines, existing, items) /\ extra = f[Len(items)]
  BY RefineRuns
<1>2. PICK n \in Nat : n = Len(items)
  BY ListIs
<1>3. /\ f[0] = <<>>
      /\ \A j \in 0 .. n : f[j] \in Seq(S)
  BY <1>1, <1>2 DEF Takes
<1>4. ASSUME NEW j \in 1 .. n
      PROVE  \/ f[j] = f[j - 1]
             \/ \E claim : f[j] = Append(f[j - 1], claim) /\ ~Said!Taken(claim, existing, f[j - 1])
  BY <1>1, <1>2 DEF Takes
<1> DEFINE Apart(s) ==
               /\ \A i \in 1 .. Len(existing), q \in 1 .. Len(s) : Elsewhere(existing[i], s[q])
               /\ \A p, q \in 1 .. Len(s) : p < q => Elsewhere(s[p], s[q])
           good == {j \in 0 .. n : Apart(f[j])}
<1>5. 0 \in good
  <2>1. 1 .. Len(f[0]) = {}
    BY <1>3
  <2> QED
    BY <2>1
<1>6. ASSUME NEW s \in Seq(S), Apart(s), NEW claim, ~Said!Taken(claim, existing, s)
      PROVE  Apart(Append(s, claim))
  <2>1. PICK t : t = Append(s, claim)
    OBVIOUS
  <2>2. /\ Len(t) = Len(s) + 1 /\ t[Len(s) + 1] = claim /\ Len(s) \in Nat
        /\ \A q \in 1 .. Len(s) : t[q] = s[q]
    BY <2>1
  <2>3. IsList(s)
    BY SeqIsList
  <2>4. PICK earlier : earlier = existing \o s
    OBVIOUS
  <2>5. /\ IsList(earlier) /\ Len(earlier) = Len(existing) + Len(s) /\ Len(existing) \in Nat
        /\ \A i \in 1 .. Len(existing) : earlier[i] = existing[i]
        /\ \A q \in 1 .. Len(s) : earlier[Len(existing) + q] = s[q]
        /\ DOMAIN earlier = 1 .. Len(earlier)
    BY <2>3, <2>4, Joining, ListIs
  <2>6. \A i \in 1 .. Len(earlier) : Elsewhere(earlier[i], claim)
    BY <1>6, <2>4, <2>5 DEF Said!Taken, Elsewhere
  <2>7. \A i \in 1 .. Len(existing) : Elsewhere(existing[i], claim)
    <3>1. \A i \in 1 .. Len(existing) : i \in 1 .. Len(earlier)
      BY <2>2, <2>5
    <3> QED
      BY <2>5, <2>6, <3>1
  <2>8. \A q \in 1 .. Len(s) : Elsewhere(s[q], claim)
    <3> SUFFICES ASSUME NEW q \in 1 .. Len(s)
                 PROVE  Elsewhere(s[q], claim)
      OBVIOUS
    <3>1. Len(existing) + q \in 1 .. Len(earlier)
      BY <2>2, <2>5
    <3>2. earlier[Len(existing) + q] = s[q]
      BY <2>5
    <3>3. Elsewhere(earlier[Len(existing) + q], claim)
      BY <2>6, <3>1
    <3> QED
      BY <3>2, <3>3
  <2>9. \A q \in 1 .. Len(t) : (q \in 1 .. Len(s) /\ t[q] = s[q]) \/ (q = Len(s) + 1 /\ t[q] = claim)
    BY <2>2
  <2>10. ASSUME NEW i \in 1 .. Len(existing), NEW q \in 1 .. Len(t)
         PROVE  Elsewhere(existing[i], t[q])
    <3>1. CASE q \in 1 .. Len(s) /\ t[q] = s[q]
      BY <1>6, <3>1
    <3>2. CASE q = Len(s) + 1 /\ t[q] = claim
      BY <2>7, <3>2
    <3> QED
      BY <2>9, <3>1, <3>2
  <2>11. ASSUME NEW p \in 1 .. Len(t), NEW q \in 1 .. Len(t), p < q
         PROVE  Elsewhere(t[p], t[q])
    <3>1. p \in 1 .. Len(s) /\ t[p] = s[p]
      BY <2>2, <2>11
    <3>2. CASE q \in 1 .. Len(s) /\ t[q] = s[q]
      BY <1>6, <2>11, <3>1, <3>2
    <3>3. CASE q = Len(s) + 1 /\ t[q] = claim
      BY <2>8, <3>1, <3>3
    <3> QED
      BY <2>9, <3>2, <3>3
  <2>12. Apart(t)
    BY <2>10, <2>11
  <2> HIDE DEF Apart
  <2> QED
    BY <2>1, <2>12
<1>7. ASSUME NEW j \in 1 .. n, j - 1 \in good
      PROVE  j \in good
  <2>1. PICK s : s = f[j - 1]
    OBVIOUS
  <2>2. j - 1 \in 0 .. n /\ j \in 0 .. n /\ Apart(s)
    BY <1>7, <2>1
  <2> HIDE DEF Apart
  <2>3. s \in Seq(S)
    BY <1>3, <2>1, <2>2
  <2>4. f[j] = s \/ \E claim : f[j] = Append(s, claim) /\ ~Said!Taken(claim, existing, s)
    BY <1>4, <2>1
  <2>5. Apart(f[j])
    BY <1>6, <2>2, <2>3, <2>4
  <2> QED
    BY <2>2, <2>5
<1>8. n \in good
  <2>1. n \in 0 .. n
    OBVIOUS
  <2> HIDE DEF good
  <2>2. \A j \in 0 .. n : j \in good
    BY <1>5, <1>7, UpTo
  <2> QED
    BY <2>1, <2>2
<1>9. Apart(f[n]) /\ f[n] \in Seq(S)
  BY <1>3, <1>8
<1>10. Apart(extra) /\ extra \in Seq(S)
  <2> HIDE DEF Apart, S
  <2> QED
    BY <1>1, <1>2, <1>9
<1> QED
  BY <1>10

-----------------------------------------------------------------------------
(* What is collected.                                                      *)

Opened(resume, how) == resume # None /\ how.resume

Lines(resume, how) == IF Opened(resume, how) THEN Said!RedactDocument(resume.lines) ELSE <<>>

\* What the parser makes of the resume, what the model adds, and what the export says.
Parsed(resume, how) ==
    IF Opened(resume, how) THEN Said!ParseResume(resume.document, Lines(resume, how)) ELSE <<>>

Added(resume, how) ==
    IF Opened(resume, how) /\ how.model # "absent" /\ how.model = "answered"
    THEN Said!Refine(resume.document, Lines(resume, how), Parsed(resume, how), how.items) ELSE <<>>

Entered(linkedin, how) ==
    IF linkedin # None /\ how.linkedin THEN Said!LoadLinkedInExport(linkedin) ELSE <<>>

Cleaned(linkedin, how) ==
    [i \in DOMAIN Entered(linkedin, how) |-> Said!RedactedClaim(Entered(linkedin, how)[i])]

LEMMA CollectIs ==
    ASSUME NEW resume, NEW linkedin, NEW how, NEW got,
           got = Said!CollectClaims(resume, linkedin, how)
    PROVE  /\ got.claims = Said!Dedupe(Parsed(resume, how) \o Added(resume, how) \o Cleaned(linkedin, how))
           /\ got.sent \in {Lines(resume, how), <<>>}
           /\ "resume" \in got.redactions <=>
                  Opened(resume, how) /\ \E n \in DOMAIN Lines(resume, how) : Said!Sensitive(resume.lines[n])
           /\ "linkedin" \in got.redactions <=>
                  \E i \in DOMAIN Entered(linkedin, how) :
                      Said!Sensitive(Entered(linkedin, how)[i].text \o Entered(linkedin, how)[i].excerpt)
<1>1. got.claims = Said!Dedupe(Parsed(resume, how) \o Added(resume, how) \o Cleaned(linkedin, how))
  BY DEF Said!CollectClaims, Parsed, Added, Cleaned, Entered, Lines, Opened
<1>2. got.sent \in {Lines(resume, how), <<>>}
  BY DEF Said!CollectClaims, Lines, Opened
<1>3. got.redactions =
          {d \in {"resume"} : Opened(resume, how) /\ \E n \in DOMAIN Lines(resume, how) :
                                  Said!Sensitive(resume.lines[n])}
          \cup {d \in {"linkedin"} : \E i \in DOMAIN Entered(linkedin, how) :
                    Said!Sensitive(Entered(linkedin, how)[i].text \o Entered(linkedin, how)[i].excerpt)}
  BY DEF Said!CollectClaims, Entered, Lines, Opened
<1> QED
  BY <1>1, <1>2, <1>3

LEMMA NothingIsListed == IsList(<<>>) /\ Range(<<>>) = {}
BY LabelledNothing DEF Labelled, Range

\* The lines the parser and the model see.
LEMMA LinesAre ==
    ASSUME NEW resume, NEW how, resume # None => LabelledResume(resume),
           NEW lines, lines = Lines(resume, how)
    PROVE  /\ IsList(lines)
           /\ \A n \in 1 .. Len(lines) :
                  /\ IsList(lines[n]) /\ Range(lines[n]) \cap Values = {}
                  /\ Redacted \in Range(lines[n]) =>
                         Opened(resume, how) /\ n \in DOMAIN lines /\ Said!Sensitive(resume.lines[n])
<1>1. CASE ~Opened(resume, how)
  <2>1. lines = <<>> /\ Len(lines) = 0
    BY <1>1 DEF Lines
  <2>2. 1 .. 0 = {}
    OBVIOUS
  <2> QED
    BY <2>1, <2>2, NothingIsListed
<1>2. CASE Opened(resume, how)
  <2>1. LabelledResume(resume)
    BY <1>2 DEF Opened
  <2>2. PICK given : given = resume.lines
    OBVIOUS
  <2>3. /\ IsList(given) /\ DOMAIN given = 1 .. Len(given) /\ Len(given) \in Nat
        /\ \A n \in 1 .. Len(given) : given[n] \in Range(given)
    BY <2>1, <2>2, ListIs DEF LabelledResume
  <2>4. lines = [n \in 1 .. Len(given) |-> Said!Redact(given[n], {})]
    BY <1>2, <2>2, <2>3 DEF Lines, Said!RedactDocument, Said!RedactText
  <2>5. PICK S : S = {lines[n] : n \in 1 .. Len(given)}
    OBVIOUS
  <2>6. lines \in Seq(S) /\ Len(lines) = Len(given) /\ DOMAIN lines = 1 .. Len(given)
    BY <2>3, <2>4, <2>5
  <2>7. IsList(lines)
    BY <2>6, SeqIsList
  <2>8. ASSUME NEW n \in 1 .. Len(given)
        PROVE  /\ IsList(lines[n]) /\ Range(lines[n]) \cap Values = {}
               /\ Redacted \in Range(lines[n]) => Said!Sensitive(given[n])
    <3>1. PICK line : line = given[n]
      OBVIOUS
    <3>2. PICK out : out = Said!Redact(line, {})
      OBVIOUS
    <3>3. /\ IsList(line) /\ Redacted \notin Range(line)
          /\ \A i \in 1 .. Len(line) :
                 line[i] \in Values => \E k \in 1 .. (i - 1) : line[k] \in Labels
      BY <2>1, <2>2, <2>3, <3>1 DEF LabelledResume
    <3>4. \A i \in 1 .. Len(line) : line[i] \in Values => IsHidden(line, {}, i)
      BY <3>3 DEF IsHidden
    <3>5. Redacted \notin Values
      BY WordsAssumption
    <3>6. IsList(out) /\ Range(out) \cap Values = {} /\ (Redacted \in Range(out) => Said!Sensitive(line))
      BY <3>2, <3>3, <3>4, <3>5, RedactedIs
    <3>7. lines[n] = out
      BY <2>4, <3>1, <3>2
    <3> QED
      BY <3>1, <3>6, <3>7
  <2> QED
    BY <1>2, <2>2, <2>6, <2>7, <2>8
<1> QED
  BY <1>1, <1>2

\* What is quoted from a line shows no more than the line.
Quotes(claim, resume, how) ==
    \E n \in 1 .. Len(Lines(resume, how)) :
        OfLine(claim, resume.document, Lines(resume, how), n)

LEMMA ParsedAre ==
    ASSUME NEW resume, NEW how, resume # None => LabelledResume(resume)
    PROVE  /\ IsList(Parsed(resume, how))
           /\ \A claim \in Range(Parsed(resume, how)) : Opened(resume, how) /\ Quotes(claim, resume, how)
<1>1. CASE ~Opened(resume, how)
  <2>1. Parsed(resume, how) = <<>>
    BY <1>1 DEF Parsed
  <2> QED
    BY <2>1, NothingIsListed
<1>2. CASE Opened(resume, how)
  <2>1. PICK lines : lines = Lines(resume, how)
    OBVIOUS
  <2>2. IsList(lines) /\ \A n \in 1 .. Len(lines) : IsList(lines[n])
    BY <2>1, LinesAre
  <2>3. Parsed(resume, how) = Said!ParseResume(resume.document, lines)
    BY <1>2, <2>1 DEF Parsed
  <2>4. /\ IsList(Said!ParseResume(resume.document, lines))
        /\ \A claim \in Range(Said!ParseResume(resume.document, lines)) :
               \E n \in 1 .. Len(lines) : OfLine(claim, resume.document, lines, n)
    BY <2>2, ResumeClaimsAre
  <2> QED
    BY <1>2, <2>1, <2>3, <2>4 DEF Quotes
<1> QED
  BY <1>1, <1>2

LEMMA AddedAre ==
    ASSUME NEW resume, NEW how, resume # None => LabelledResume(resume),
           IsList(how.items), \A i \in 1 .. Len(how.items) : how.items[i].leaving \in Nat,
           NEW extra, extra = Added(resume, how), NEW existing, existing = Parsed(resume, how)
    PROVE  /\ IsList(extra)
           /\ \A claim \in Range(extra) : Opened(resume, how) /\ Quotes(claim, resume, how)
           /\ \A i \in 1 .. Len(existing), q \in 1 .. Len(extra) : Elsewhere(existing[i], extra[q])
           /\ \A p, q \in 1 .. Len(extra) : p < q => Elsewhere(extra[p], extra[q])
<1>1. CASE extra = <<>>
  <2>1. Len(extra) = 0 /\ 1 .. 0 = {}
    BY <1>1
  <2> QED
    BY <1>1, <2>1, NothingIsListed
<1>2. CASE extra # <<>>
  <2>1. PICK lines : lines = Lines(resume, how)
    OBVIOUS
  <2>2. Opened(resume, how) /\ extra = Said!Refine(resume.document, lines, existing, how.items)
    BY <1>2, <2>1 DEF Added
  <2>3. IsList(lines) /\ \A n \in 1 .. Len(lines) : IsList(lines[n])
    BY <2>1, LinesAre
  <2>4. IsList(existing)
    BY ParsedAre
  <2>5. PICK S : S = Phrases(resume.document, lines, how.items)
    OBVIOUS
  <2>6. /\ extra \in Seq(S)
        /\ \A i \in 1 .. Len(existing), q \in 1 .. Len(extra) : Elsewhere(existing[i], extra[q])
        /\ \A p, q \in 1 .. Len(extra) : p < q => Elsewhere(extra[p], extra[q])
    BY <2>2, <2>4, <2>5, RefineIs
  <2>7. IsList(extra) /\ Range(extra) \subseteq S
    BY <2>6, SeqIsList
  <2>8. \A claim \in S : Quotes(claim, resume, how)
    <3>1. \A claim \in S : \E n \in 1 .. Len(lines) : OfLine(claim, resume.document, lines, n)
      BY <2>3, <2>5, PhrasesAre
    <3> QED
      BY <2>1, <3>1 DEF Quotes
  <2> QED
    BY <2>2, <2>6, <2>7, <2>8
<1> QED
  BY <1>1, <1>2

\* The entries of the export, cleaned.
LEMMA CleanedAre ==
    ASSUME NEW linkedin, NEW how, linkedin # None => LabelledExport(linkedin),
           NEW cleaned, cleaned = Cleaned(linkedin, how)
    PROVE  /\ IsList(cleaned)
           /\ \A a, b \in Range(cleaned) : a.locator = b.locator => a = b
           /\ \A claim \in Range(cleaned) :
                  /\ linkedin # None /\ claim.document = linkedin.document
                  /\ Range(claim.text) \cap Values = {} /\ Range(claim.excerpt) \cap Values = {}
                  /\ Redacted \in Range(claim.text) \cup Range(claim.excerpt) =>
                         \E i \in DOMAIN Entered(linkedin, how) :
                             Said!Sensitive(Entered(linkedin, how)[i].text \o Entered(linkedin, how)[i].excerpt)
<1>1. PICK entries : entries = Entered(linkedin, how)
  OBVIOUS
<1>2. Entries(entries, linkedin) /\ (entries # <<>> => linkedin # None)
  <2>1. CASE entries = <<>>
    BY <2>1, NothingIsListed DEF Entries
  <2>2. CASE entries # <<>>
    <3>1. linkedin # None /\ entries = Said!LoadLinkedInExport(linkedin)
      BY <1>1, <2>2 DEF Entered
    <3> QED
      BY <3>1, ExportEntries
  <2> QED
    BY <2>1, <2>2
<1>3. PICK n \in Nat : /\ n = Len(entries) /\ DOMAIN entries = 1 .. n
                       /\ \A i \in 1 .. n : entries[i] \in Range(entries)
  <2>1. IsList(entries)
    BY <1>2 DEF Entries
  <2> QED
    BY <2>1, ListIs
<1>4. cleaned = [i \in 1 .. n |-> Said!RedactedClaim(entries[i])]
  BY <1>1, <1>3 DEF Cleaned
<1>5. PICK S : S = {cleaned[i] : i \in 1 .. n}
  OBVIOUS
<1>6. cleaned \in Seq(S)
  BY <1>4, <1>5
<1>7. IsList(cleaned) /\ Range(cleaned) \subseteq S
  BY <1>6, SeqIsList
<1>8. ASSUME NEW i \in 1 .. n
      PROVE  /\ cleaned[i].locator = entries[i].locator
             /\ linkedin # None /\ cleaned[i].document = linkedin.document
             /\ Range(cleaned[i].text) \cap Values = {}
             /\ Range(cleaned[i].excerpt) \cap Values = {}
             /\ Redacted \in Range(cleaned[i].text) \cup Range(cleaned[i].excerpt) =>
                    Said!Sensitive(entries[i].text \o entries[i].excerpt)
  <2>1. PICK entry : entry = entries[i]
    OBVIOUS
  <2>2. OfExport(entry, linkedin)
    BY <1>2, <1>3, <2>1 DEF Entries
  <2>3. linkedin # None
    <3>1. entries # <<>>
      BY <1>3
    <3> QED
      BY <1>2, <3>1
  <2>4. PICK text : text = Said!RedactProse(entry.text)
    OBVIOUS
  <2>5. PICK excerpt : excerpt = Said!RedactProse(entry.excerpt)
    OBVIOUS
  <2>6. PICK kept : kept = Said!RedactedClaim(entry)
    OBVIOUS
  <2>7. /\ kept.text = text /\ kept.excerpt = excerpt
        /\ kept.document = entry.document /\ kept.locator = entry.locator
    BY <2>4, <2>5, <2>6 DEF Said!RedactedClaim
  <2>8. Redacted \notin Values
    BY WordsAssumption
  <2>9. Range(text) \cap Values = {} /\ (Redacted \in Range(text) => Said!Sensitive(entry.text))
    BY <2>2, <2>4, <2>8, ProseIsRedacted DEF OfExport
  <2>10. Range(excerpt) \cap Values = {} /\ (Redacted \in Range(excerpt) => Said!Sensitive(entry.excerpt))
    BY <2>2, <2>5, <2>8, ProseIsRedacted DEF OfExport
  <2>11. Redacted \in Range(text) \cup Range(excerpt) => Said!Sensitive(entry.text \o entry.excerpt)
    <3>1. IsList(entry.text) /\ IsList(entry.excerpt)
      BY <2>2 DEF OfExport, Labelled
    <3> QED
      BY <2>9, <2>10, <3>1, SensitiveTogether
  <2>12. cleaned[i] = kept
    BY <1>4, <2>1, <2>6
  <2> QED
    BY <2>1, <2>2, <2>3, <2>7, <2>9, <2>10, <2>11, <2>12 DEF OfExport
<1>9. ASSUME NEW a \in Range(cleaned), NEW b \in Range(cleaned), a.locator = b.locator
      PROVE  a = b
  <2>1. PICK i \in 1 .. n : a = cleaned[i]
    BY <1>5, <1>7
  <2>2. PICK j \in 1 .. n : b = cleaned[j]
    BY <1>5, <1>7
  <2>3. entries[i].locator = entries[j].locator
    BY <1>8, <1>9, <2>1, <2>2
  <2>4. entries[i] = entries[j]
    BY <1>2, <1>3, <2>3 DEF Entries
  <2>5. cleaned[i] = cleaned[j]
    BY <1>4, <2>4
  <2> QED
    BY <2>1, <2>2, <2>5
<1>10. ASSUME NEW claim \in Range(cleaned)
       PROVE  /\ linkedin # None /\ claim.document = linkedin.document
              /\ Range(claim.text) \cap Values = {} /\ Range(claim.excerpt) \cap Values = {}
              /\ Redacted \in Range(claim.text) \cup Range(claim.excerpt) =>
                     \E i \in DOMAIN Entered(linkedin, how) :
                         Said!Sensitive(Entered(linkedin, how)[i].text \o Entered(linkedin, how)[i].excerpt)
  <2>1. PICK i \in 1 .. n : claim = cleaned[i]
    BY <1>5, <1>7
  <2>2. i \in DOMAIN entries
    BY <1>3
  <2> QED
    BY <1>1, <1>8, <2>1, <2>2
<1> QED
  BY <1>7, <1>9, <1>10

\* All that is collected before duplicates are merged: lists, one after the other.
LEMMA CollectedAre ==
    ASSUME NEW resume, NEW linkedin, NEW how, Presented(resume, linkedin), Readable(how),
           NEW parsed, parsed = Parsed(resume, how), NEW added, added = Added(resume, how),
           NEW cleaned, cleaned = Cleaned(linkedin, how)
    PROVE  /\ IsList(parsed) /\ IsList(added) /\ IsList(cleaned)
           /\ IsList(parsed \o added \o cleaned)
           /\ Range(parsed \o added \o cleaned) = Range(parsed) \cup Range(added) \cup Range(cleaned)
           /\ parsed \o added \o cleaned = parsed \o (added \o cleaned)
<1>1. IsList(parsed) /\ IsList(added) /\ IsList(cleaned)
  BY ParsedAre, AddedAre, CleanedAre DEF Presented, Readable
<1>2. IsList(parsed \o added) /\ Range(parsed \o added) = Range(parsed) \cup Range(added)
  BY <1>1, Joining
<1>3. /\ IsList(parsed \o added \o cleaned)
      /\ Range(parsed \o added \o cleaned) = Range(parsed \o added) \cup Range(cleaned)
  BY <1>1, <1>2, Joining
<1>4. parsed \o added \o cleaned = parsed \o (added \o cleaned)
  <2>1. PICK S : S = Range(parsed) \cup Range(added) \cup Range(cleaned)
    OBVIOUS
  <2>2. parsed \in Seq(S) /\ added \in Seq(S) /\ cleaned \in Seq(S)
    BY <1>1, <2>1 DEF IsList
  <2> QED
    BY <2>2, ConcatAssociative
<1> QED
  BY <1>1, <1>2, <1>3, <1>4

LEMMA CollectedIsClean ==
    ASSUME NEW resume, NEW linkedin, NEW how, Presented(resume, linkedin), Readable(how),
           NEW got, got = Said!CollectClaims(resume, linkedin, how)
    PROVE  /\ IsList(got.claims)
           /\ \A n \in DOMAIN got.sent : Range(got.sent[n]) \cap Values = {}
           /\ \A claim \in Range(got.claims) :
                  /\ (Range(claim.text) \cup Range(claim.excerpt)) \cap Values = {}
                  /\ Redacted \in Range(claim.text) \cup Range(claim.excerpt) =>
                         IF resume # None /\ claim.document = resume.document
                         THEN "resume" \in got.redactions ELSE "linkedin" \in got.redactions
<1>1. PICK parsed : parsed = Parsed(resume, how)
  OBVIOUS
<1>2. PICK added : added = Added(resume, how)
  OBVIOUS
<1>3. PICK cleaned : cleaned = Cleaned(linkedin, how)
  OBVIOUS
<1>4. PICK lines : lines = Lines(resume, how)
  OBVIOUS
<1>5. /\ IsList(lines) /\ DOMAIN lines = 1 .. Len(lines)
      /\ \A n \in 1 .. Len(lines) :
             /\ IsList(lines[n]) /\ Range(lines[n]) \cap Values = {}
             /\ Redacted \in Range(lines[n]) =>
                    Opened(resume, how) /\ n \in DOMAIN lines /\ Said!Sensitive(resume.lines[n])
  BY <1>4, LinesAre, ListIs DEF Presented
<1>6. /\ got.claims = Said!Dedupe(parsed \o added \o cleaned)
      /\ got.sent \in {lines, <<>>}
      /\ "resume" \in got.redactions <=>
             Opened(resume, how) /\ \E n \in DOMAIN lines : Said!Sensitive(resume.lines[n])
      /\ "linkedin" \in got.redactions <=>
             \E i \in DOMAIN Entered(linkedin, how) :
                 Said!Sensitive(Entered(linkedin, how)[i].text \o Entered(linkedin, how)[i].excerpt)
  BY <1>1, <1>2, <1>3, <1>4, CollectIs
<1>7. /\ IsList(parsed \o added \o cleaned)
      /\ Range(parsed \o added \o cleaned) = Range(parsed) \cup Range(added) \cup Range(cleaned)
  BY <1>1, <1>2, <1>3, CollectedAre
<1>8. IsList(got.claims) /\ Range(got.claims) \subseteq Range(parsed) \cup Range(added) \cup Range(cleaned)
  <2>1. PICK all : all = parsed \o added \o cleaned
    OBVIOUS
  <2>2. IsList(got.claims) /\ Range(got.claims) \subseteq Range(all)
    BY <1>6, <1>7, <2>1, DedupeIs
  <2> QED
    BY <1>7, <2>1, <2>2
<1>9. \A n \in DOMAIN got.sent : Range(got.sent[n]) \cap Values = {}
  <2>1. CASE got.sent = lines
    BY <1>5, <2>1
  <2>2. CASE got.sent = <<>>
    <3>1. DOMAIN got.sent = {}
      BY <2>2
    <3> QED
      BY <3>1
  <2> QED
    BY <1>6, <2>1, <2>2
<1>10. ASSUME NEW claim \in Range(parsed) \cup Range(added)
       PROVE  /\ (Range(claim.text) \cup Range(claim.excerpt)) \cap Values = {}
              /\ resume # None /\ claim.document = resume.document
              /\ Redacted \in Range(claim.text) \cup Range(claim.excerpt) =>
                     "resume" \in got.redactions
  <2>1. Opened(resume, how) /\ Quotes(claim, resume, how)
    BY <1>1, <1>2, ParsedAre, AddedAre DEF Presented, Readable
  <2>2. PICK n \in 1 .. Len(lines) : OfLine(claim, resume.document, lines, n)
    BY <1>4, <2>1 DEF Quotes
  <2>3. /\ claim.document = resume.document /\ claim.excerpt = lines[n]
        /\ claim.text \in Seq(Range(lines[n]))
    BY <2>2 DEF OfLine
  <2>4. Range(claim.text) \subseteq Range(lines[n])
    <3>1. PICK S : S = Range(lines[n])
      OBVIOUS
    <3> QED
      BY <2>3, <3>1, SeqIsList
  <2> QED
    BY <1>5, <1>6, <2>1, <2>3, <2>4 DEF Opened
<1>11. ASSUME NEW claim \in Range(cleaned)
       PROVE  /\ (Range(claim.text) \cup Range(claim.excerpt)) \cap Values = {}
              /\ ~(resume # None /\ claim.document = resume.document)
              /\ Redacted \in Range(claim.text) \cup Range(claim.excerpt) =>
                     "linkedin" \in got.redactions
  <2>1. /\ linkedin # None /\ claim.document = linkedin.document
        /\ Range(claim.text) \cap Values = {} /\ Range(claim.excerpt) \cap Values = {}
        /\ Redacted \in Range(claim.text) \cup Range(claim.excerpt) =>
               \E i \in DOMAIN Entered(linkedin, how) :
                   Said!Sensitive(Entered(linkedin, how)[i].text \o Entered(linkedin, how)[i].excerpt)
    BY <1>3, CleanedAre DEF Presented
  <2> QED
    BY <1>6, <2>1 DEF Presented
<1>12. ASSUME NEW claim \in Range(got.claims)
       PROVE  /\ (Range(claim.text) \cup Range(claim.excerpt)) \cap Values = {}
              /\ Redacted \in Range(claim.text) \cup Range(claim.excerpt) =>
                     IF resume # None /\ claim.document = resume.document
                     THEN "resume" \in got.redactions ELSE "linkedin" \in got.redactions
  BY <1>8, <1>10, <1>11
<1> QED
  BY <1>8, <1>9, <1>12

-----------------------------------------------------------------------------
(* The sources are independent.                                            *)

\* What a readable resume says is claimed first, whatever else was read.
LEMMA ResumeComesFirst ==
    ASSUME NEW resume, NEW linkedin, NEW how, Presented(resume, linkedin), Readable(how),
           how.resume, NEW plain, plain.resume, plain.model = "absent", Readable(plain),
           NEW alone, alone = Said!CollectClaims(resume, None, plain).claims,
           NEW claims, claims = Said!CollectClaims(resume, linkedin, how).claims
    PROVE  /\ IsList(alone) /\ Len(alone) <= Len(claims)
           /\ \A n \in 1 .. Len(alone) : claims[n] = alone[n]
<1>1. PICK parsed : parsed = Parsed(resume, how)
  OBVIOUS
<1>2. PICK added : added = Added(resume, how)
  OBVIOUS
<1>3. PICK cleaned : cleaned = Cleaned(linkedin, how)
  OBVIOUS
<1>4. /\ IsList(parsed) /\ IsList(added) /\ IsList(cleaned)
      /\ parsed \o added \o cleaned = parsed \o (added \o cleaned)
  BY <1>1, <1>2, <1>3, CollectedAre
<1>5. claims = Said!Dedupe(parsed \o (added \o cleaned))
  BY <1>1, <1>2, <1>3, <1>4, CollectIs
<1>6. parsed = Parsed(resume, plain) /\ Added(resume, plain) = <<>> /\ Cleaned(None, plain) = <<>>
  <2>1. Entered(None, plain) = <<>>
    BY DEF Entered
  <2>2. Cleaned(None, plain) = <<>>
    BY <2>1 DEF Cleaned
  <2> QED
    BY <1>1, <2>2 DEF Parsed, Added, Lines, Opened
<1>7. alone = Said!Dedupe(parsed)
  <2>1. PICK got : got = Said!CollectClaims(resume, None, plain)
    OBVIOUS
  <2>2. got.claims = Said!Dedupe(parsed \o <<>> \o <<>>)
    BY <1>6, <2>1, CollectIs
  <2>3. PICK S : S = Range(parsed)
    OBVIOUS
  <2>4. parsed \in Seq(S)
    BY <1>4, <2>3 DEF IsList
  <2>5. parsed \o <<>> = parsed
    BY <2>4
  <2> QED
    BY <2>1, <2>2, <2>5
<1>8. IsList(alone)
  BY <1>4, <1>7, DedupeIs
<1>9. IsList(added \o cleaned)
  BY <1>4, Joining
<1> QED
  BY <1>4, <1>5, <1>7, <1>8, <1>9, DedupeStarts

\* Each statement of a readable export is claimed, in its own words or the resume's.
LEMMA ExportIsClaimed ==
    ASSUME NEW resume, NEW linkedin, NEW how, Presented(resume, linkedin), Readable(how),
           how.linkedin, NEW plain, plain.linkedin, Readable(plain),
           NEW alone, alone = Said!CollectClaims(None, linkedin, plain).claims,
           NEW claims, claims = Said!CollectClaims(resume, linkedin, how).claims,
           NEW x, x \in Range(alone)
    PROVE  \E y \in Range(claims) : Said!Key(y) = Said!Key(x)
<1>1. PICK parsed : parsed = Parsed(resume, how)
  OBVIOUS
<1>2. PICK added : added = Added(resume, how)
  OBVIOUS
<1>3. PICK cleaned : cleaned = Cleaned(linkedin, how)
  OBVIOUS
<1>4. PICK all : all = parsed \o added \o cleaned
  OBVIOUS
<1>5. IsList(all) /\ Range(all) = Range(parsed) \cup Range(added) \cup Range(cleaned)
  BY <1>1, <1>2, <1>3, <1>4, CollectedAre
<1>6. claims = Said!Dedupe(all)
  BY <1>1, <1>2, <1>3, <1>4, CollectIs
<1>7. x \in Range(cleaned)
  <2>1. cleaned = Cleaned(linkedin, plain)
    BY <1>3 DEF Cleaned, Entered
  <2>2. Parsed(None, plain) = <<>> /\ Added(None, plain) = <<>>
    BY DEF Parsed, Added, Opened
  <2>3. PICK got : got = Said!CollectClaims(None, linkedin, plain)
    OBVIOUS
  <2>4. got.claims = Said!Dedupe(<<>> \o <<>> \o cleaned)
    BY <2>1, <2>2, <2>3, CollectIs
  <2>5. PICK rest : rest = <<>> \o <<>> \o cleaned
    OBVIOUS
  <2>6. IsList(rest) /\ Range(rest) = Range(cleaned)
    <3>1. PICK none : none = <<>>
      OBVIOUS
    <3>2. IsList(none) /\ Range(none) = {} /\ IsList(cleaned)
      BY <1>3, <3>1, NothingIsListed, CleanedAre DEF Presented
    <3>3. IsList(none \o none) /\ Range(none \o none) = {}
      BY <3>2, Joining
    <3>4. PICK two : two = none \o none
      OBVIOUS
    <3>5. IsList(two \o cleaned) /\ Range(two \o cleaned) = Range(two) \cup Range(cleaned)
      <4>1. IsList(two) /\ IsList(cleaned)
        BY <3>2, <3>3, <3>4
      <4> HIDE <3>4
      <4> QED
        BY <4>1, Joining
    <3>6. rest = two \o cleaned
      BY <2>5, <3>1, <3>4
    <3> QED
      BY <3>3, <3>4, <3>5, <3>6
  <2>7. Range(alone) \subseteq Range(rest)
    BY <2>3, <2>4, <2>5, <2>6, DedupeIs
  <2> QED
    BY <2>6, <2>7
<1>8. PICK y \in Range(claims) : Said!Same(y, x)
  BY <1>5, <1>6, <1>7, DedupeIs
<1>9. y \in Range(parsed) \cup Range(added) \cup Range(cleaned)
  BY <1>5, <1>6, DedupeIs
<1>10. CASE y.document = x.document /\ y.locator = x.locator
  <2>1. linkedin # None /\ x.document = linkedin.document
    BY <1>3, <1>7, CleanedAre DEF Presented
  <2>2. ASSUME y \in Range(parsed) \cup Range(added)
        PROVE  FALSE
    <3>1. Opened(resume, how) /\ Quotes(y, resume, how)
      BY <1>1, <1>2, <2>2, ParsedAre, AddedAre DEF Presented, Readable
    <3>2. resume # None /\ y.document = resume.document
      BY <3>1 DEF Opened, Quotes, OfLine
    <3> QED
      BY <1>10, <2>1, <3>2 DEF Presented
  <2>3. y \in Range(cleaned)
    BY <1>9, <2>2
  <2>4. y = x
    BY <1>3, <1>7, <1>10, <2>3, CleanedAre DEF Presented
  <2> QED
    BY <2>4
<1> QED
  BY <1>8, <1>10 DEF Said!Same

\* Of two claims of one kind about one place, each was made without the model.
LEMMA NothingIsRestated ==
    ASSUME NEW resume, NEW linkedin, NEW how, Presented(resume, linkedin), Readable(how),
           NEW plain, plain.resume, plain.model = "absent", Readable(plain),
           NEW before, before = Said!CollectClaims(resume, linkedin, plain).claims,
           NEW claims, claims = Said!CollectClaims(resume, linkedin, how).claims,
           NEW m \in 1 .. Len(claims), NEW n \in 1 .. Len(claims), m # n,
           claims[m].document = claims[n].document, claims[m].locator = claims[n].locator,
           claims[m].kind = claims[n].kind
    PROVE  claims[n] \in Range(before)
<1>1. PICK parsed : parsed = Parsed(resume, how)
  OBVIOUS
<1>2. PICK added : added = Added(resume, how)
  OBVIOUS
<1>3. PICK cleaned : cleaned = Cleaned(linkedin, how)
  OBVIOUS
<1>4. PICK all : all = parsed \o added \o cleaned
  OBVIOUS
<1>5. /\ IsList(all) /\ Range(all) = Range(parsed) \cup Range(added) \cup Range(cleaned)
      /\ IsList(parsed) /\ IsList(added) /\ IsList(cleaned) /\ all = parsed \o (added \o cleaned)
  BY <1>1, <1>2, <1>3, <1>4, CollectedAre
<1>6. claims = Said!Dedupe(all)
  BY <1>1, <1>2, <1>3, <1>4, CollectIs
<1>7. /\ IsList(claims) /\ Range(claims) \subseteq Range(all)
      /\ \A i, j \in 1 .. Len(claims) : i < j => ~Said!Same(claims[i], claims[j])
  BY <1>5, <1>6, DedupeIs
<1>8. PICK x : x = claims[m]
  OBVIOUS
<1>9. PICK y : y = claims[n]
  OBVIOUS
<1>10. /\ x \in Range(claims) /\ y \in Range(claims)
       /\ x \in Range(parsed) \cup Range(added) \cup Range(cleaned)
       /\ y \in Range(parsed) \cup Range(added) \cup Range(cleaned)
  <2>1. Range(claims) = {claims[i] : i \in 1 .. Len(claims)}
    BY <1>7, ListIs
  <2> QED
    BY <1>5, <1>7, <1>8, <1>9, <2>1
<1>11. x # y
  <2>1. m < n \/ n < m
    BY <1>7, ListIs
  <2>2. ~Said!Same(x, y) \/ ~Said!Same(y, x)
    BY <1>7, <1>8, <1>9, <2>1
  <2> QED
    BY <2>2 DEF Said!Same
<1>12. x.document = y.document /\ x.locator = y.locator /\ x.kind = y.kind
  BY <1>8, <1>9
<1>13. \A z \in Range(parsed) \cup Range(added) :
           Opened(resume, how) /\ resume # None /\ z.document = resume.document
  <2> SUFFICES ASSUME NEW z \in Range(parsed) \cup Range(added)
               PROVE  Opened(resume, how) /\ resume # None /\ z.document = resume.document
    OBVIOUS
  <2>1. Opened(resume, how) /\ Quotes(z, resume, how)
    BY <1>1, <1>2, ParsedAre, AddedAre DEF Presented, Readable
  <2> QED
    BY <2>1 DEF Opened, Quotes, OfLine
<1>14. /\ \A z \in Range(cleaned) : linkedin # None /\ z.document = linkedin.document
       /\ \A a, b \in Range(cleaned) : a.locator = b.locator => a = b
  BY <1>3, CleanedAre DEF Presented
<1>15. x \in Range(parsed) \cup Range(added) /\ y \in Range(parsed) \cup Range(added)
  <2>1. ~(x \in Range(cleaned) /\ y \in Range(cleaned))
    BY <1>11, <1>12, <1>14
  <2>2. CASE x \in Range(cleaned)
    BY <1>10, <1>12, <1>13, <1>14, <2>1, <2>2 DEF Presented
  <2>3. CASE y \in Range(cleaned)
    BY <1>10, <1>12, <1>13, <1>14, <2>1, <2>3 DEF Presented
  <2> QED
    BY <1>10, <2>2, <2>3
<1>16. ASSUME y \notin Range(parsed)
       PROVE  FALSE
  <2>1. /\ \A i \in 1 .. Len(parsed), q \in 1 .. Len(added) : Elsewhere(parsed[i], added[q])
        /\ \A p, q \in 1 .. Len(added) : p < q => Elsewhere(added[p], added[q])
    BY <1>1, <1>2, AddedAre DEF Presented, Readable
  <2>2. /\ Range(parsed) = {parsed[i] : i \in 1 .. Len(parsed)}
        /\ Range(added) = {added[i] : i \in 1 .. Len(added)}
        /\ Len(added) \in Nat
    BY <1>5, ListIs
  <2>3. PICK q \in 1 .. Len(added) : y = added[q]
    BY <1>15, <1>16, <2>2
  <2>4. CASE x \in Range(parsed)
    <3>1. PICK i \in 1 .. Len(parsed) : x = parsed[i]
      BY <2>2, <2>4
    <3>2. Elsewhere(x, y)
      BY <2>1, <2>3, <3>1
    <3> QED
      BY <1>12, <3>2 DEF Elsewhere
  <2>5. CASE x \notin Range(parsed)
    <3>1. PICK p \in 1 .. Len(added) : x = added[p]
      BY <1>15, <2>2, <2>5
    <3>2. p < q \/ q < p
      BY <1>11, <2>2, <2>3, <3>1
    <3>3. Elsewhere(x, y) \/ Elsewhere(y, x)
      BY <2>1, <2>3, <3>1, <3>2
    <3> QED
      BY <1>12, <3>3 DEF Elsewhere
  <2> QED
    BY <2>4, <2>5
<1>17. PICK rest : before = Said!Dedupe(parsed \o rest) /\ IsList(rest)
  <2>1. parsed = Parsed(resume, plain)
    <3>1. Opened(resume, how) /\ Opened(resume, plain)
      BY <1>13, <1>15 DEF Opened
    <3> QED
      BY <1>1, <3>1 DEF Parsed, Lines
  <2>2. PICK more : more = Added(resume, plain)
    OBVIOUS
  <2>3. PICK exported : exported = Cleaned(linkedin, plain)
    OBVIOUS
  <2>4. /\ IsList(more) /\ IsList(exported)
        /\ parsed \o more \o exported = parsed \o (more \o exported)
    BY <2>1, <2>2, <2>3, CollectedAre
  <2>5. before = Said!Dedupe(parsed \o (more \o exported))
    BY <2>1, <2>2, <2>3, <2>4, CollectIs
  <2>6. IsList(more \o exported)
    BY <2>4, Joining
  <2> QED
    BY <2>5, <2>6
<1>18. IsList(added \o cleaned)
  BY <1>5, Joining
<1>19. y \in Range(Said!Dedupe(parsed \o (added \o cleaned)))
  BY <1>5, <1>6, <1>10
<1>20. y \in Range(Said!Dedupe(parsed \o rest))
  BY <1>5, <1>16, <1>17, <1>18, <1>19, KeptFirst
<1> QED
  BY <1>9, <1>17, <1>20

-----------------------------------------------------------------------------
(* What is scored is a dossier of the portfolio, by a rubric that loaded.  *)

\* Every dossier is what build_dossier made of its candidate's repositories and
\* claims, and the latest rubric is one that loaded.
StoredAsAnalysed ==
    /\ portfolio = [c \in Candidates |-> portfolio[c]]
    /\ \A c \in Candidates : portfolio[c] \in Portfolios[c] /\ account[c] \in Accounts
    /\ outcome = [c \in Candidates |-> [r \in Repositories(c) |-> outcome[c][r]]]
    /\ \A c \in Candidates : \A r \in Repositories(c) : outcome[c][r] \in Outcomes
    /\ reading = [c \in Candidates |-> reading[c]]
    /\ stated = [c \in Candidates |-> stated[c]]
    /\ \A c \in Candidates : reading[c] \in Readings \cup {Plain} /\ stated[c] = Collect(c, reading[c])
    /\ dossier = [c \in Candidates |-> Analyse(c, outcome[c], stated[c].claims)]
    /\ \E payload \in Rubrics : Loads(payload) /\ rubric = Loaded(payload)

LEMMA InitIsAnalysed ==
    ASSUME Init
    PROVE  StoredAsAnalysed
<1>1. /\ portfolio = [c \in Candidates |-> portfolio[c]]
      /\ \A c \in Candidates : portfolio[c] \in Portfolios[c] /\ account[c] \in Accounts
  BY DEF Init
<1>2. /\ outcome = [c \in Candidates |-> [r \in Repositories(c) |-> outcome[c][r]]]
      /\ \A c \in Candidates : \A r \in Repositories(c) : outcome[c][r] \in Outcomes
  BY DEF Init, Outcomes
<1>3. /\ reading = [c \in Candidates |-> reading[c]]
      /\ stated = [c \in Candidates |-> stated[c]]
      /\ \A c \in Candidates : reading[c] \in Readings \cup {Plain} /\ stated[c] = Collect(c, reading[c])
  BY DEF Init
<1>4. /\ dossier = [c \in Candidates |-> Analyse(c, outcome[c], stated[c].claims)]
      /\ \E payload \in Rubrics : Loads(payload) /\ rubric = Loaded(payload)
  BY DEF Init
<1> QED
  BY <1>1, <1>2, <1>3, <1>4 DEF StoredAsAnalysed

\* A run stores the dossier of what it read.
LEMMA RerunIsAnalysed ==
    ASSUME StoredAsAnalysed, NEW c \in Candidates, Rerun(c),
           outcome' = [x \in Candidates |-> [r \in Repositories(x) |-> outcome'[x][r]]],
           \A x \in Candidates : \A r \in Repositories(x) : outcome'[x][r] \in Outcomes,
           reading' = [x \in Candidates |-> reading'[x]],
           stated' = [x \in Candidates |-> stated'[x]],
           \A x \in Candidates :
               reading'[x] \in Readings \cup {Plain} /\ stated'[x] = Collect(x, reading'[x]),
           \A x \in Candidates \ {c} : outcome'[x] = outcome[x] /\ stated'[x] = stated[x]
    PROVE  StoredAsAnalysed'
<1>1. portfolio' = portfolio /\ account' = account /\ rubric' = rubric
  BY DEF Rerun
<1>2. \A x \in Candidates : Repositories(x)' = Repositories(x)
  BY <1>1 DEF Repositories
<1>3. \A x, how : Collect(x, how)' = Collect(x, how)
  BY <1>1 DEF Collect
<1>4. dossier' = [x \in Candidates |-> Analyse(x, outcome'[x], stated'[x].claims)]
  BY DEF Rerun, StoredAsAnalysed
<1>5. \A x \in Candidates : Analyse(x, outcome[x], stated[x].claims)'
                                = Analyse(x, outcome'[x], stated'[x].claims)
  BY <1>1 DEF Analyse
<1>6. dossier' = [x \in Candidates |-> Analyse(x, outcome[x], stated[x].claims)']
  BY <1>4, <1>5
<1> QED
  BY <1>1, <1>2, <1>3, <1>6 DEF StoredAsAnalysed

LEMMA StepIsAnalysed ==
    ASSUME StoredAsAnalysed, [Next]_vars
    PROVE  StoredAsAnalysed'
<1>1. ASSUME NEW c \in Candidates, NEW r \in Repositories(c), NEW end \in Outcomes,
             Reanalyse(c, r, end)
      PROVE  StoredAsAnalysed'
  <2>1. outcome' = [outcome EXCEPT ![c] = [outcome[c] EXCEPT ![r] = end]] /\ stated' = stated /\ reading' = reading
    BY <1>1 DEF Reanalyse
  <2>2. /\ outcome' = [x \in Candidates |-> [q \in Repositories(x) |-> outcome'[x][q]]]
        /\ \A x \in Candidates : \A q \in Repositories(x) : outcome'[x][q] \in Outcomes
        /\ \A x \in Candidates \ {c} : outcome'[x] = outcome[x]
    BY <2>1 DEF StoredAsAnalysed
  <2>3. /\ reading' = [x \in Candidates |-> reading'[x]]
        /\ stated' = [x \in Candidates |-> stated'[x]]
        /\ \A x \in Candidates :
               reading'[x] \in Readings \cup {Plain} /\ stated'[x] = Collect(x, reading'[x])
        /\ \A x \in Candidates \ {c} : stated'[x] = stated[x]
    BY <2>1 DEF StoredAsAnalysed
  <2>4. Rerun(c)
    BY <1>1 DEF Reanalyse
  <2> QED
    BY <2>2, <2>3, <2>4, RerunIsAnalysed
<1>2. ASSUME NEW c \in Candidates, NEW how \in Readings, Reread(c, how)
      PROVE  StoredAsAnalysed'
  <2>1. /\ stated' = [stated EXCEPT ![c] = Collect(c, how)] /\ outcome' = outcome
        /\ reading' = [reading EXCEPT ![c] = how]
    BY <1>2 DEF Reread
  <2>2. /\ reading' = [x \in Candidates |-> reading'[x]]
        /\ stated' = [x \in Candidates |-> stated'[x]]
        /\ \A x \in Candidates :
               reading'[x] \in Readings \cup {Plain} /\ stated'[x] = Collect(x, reading'[x])
        /\ \A x \in Candidates \ {c} : stated'[x] = stated[x]
    BY <2>1 DEF StoredAsAnalysed
  <2>3. /\ outcome' = [x \in Candidates |-> [q \in Repositories(x) |-> outcome'[x][q]]]
        /\ \A x \in Candidates : \A q \in Repositories(x) : outcome'[x][q] \in Outcomes
        /\ \A x \in Candidates \ {c} : outcome'[x] = outcome[x]
    BY <2>1 DEF StoredAsAnalysed
  <2>4. Rerun(c)
    BY <1>2 DEF Reread
  <2> QED
    BY <2>2, <2>3, <2>4, RerunIsAnalysed
<1>3. ASSUME UNCHANGED <<portfolio, account, outcome, reading, stated, dossier>>,
             \/ rubric' = rubric
             \/ \E payload \in Rubrics : Loads(payload) /\ rubric' = Loaded(payload)
      PROVE  StoredAsAnalysed'
  <2>1. \A x \in Candidates : Repositories(x)' = Repositories(x)
    BY <1>3 DEF Repositories
  <2>2. \A x, how : Collect(x, how)' = Collect(x, how)
    BY <1>3 DEF Collect
  <2>3. \A x, results, claims : Analyse(x, results, claims)' = Analyse(x, results, claims)
    BY <1>3 DEF Analyse
  <2> QED
    BY <1>3, <2>1, <2>2, <2>3 DEF StoredAsAnalysed
<1>4. ASSUME NEW c \in Candidates, NEW flag, Dismiss(c, flag) \/ Confirm(c, flag)
      PROVE  StoredAsAnalysed'
  BY <1>3, <1>4 DEF Dismiss, Confirm
<1>5. ASSUME NEW payload \in Rubrics, Reweight(payload)
      PROVE  StoredAsAnalysed'
  BY <1>3, <1>5 DEF Reweight
<1>6. CASE UNCHANGED vars
  BY <1>3, <1>6 DEF vars
<1> QED
  BY <1>1, <1>2, <1>4, <1>5, <1>6 DEF Next

\* What is scored was analysed: a dossier belongs to its candidate's portfolio
\* and claims, and the latest rubric is one that from_dict accepted.
THEOREM DossiersAreOfPortfolios == Spec => []StoredAsAnalysed
<1>1. Init => StoredAsAnalysed
  BY InitIsAnalysed
<1>2. StoredAsAnalysed /\ [Next]_vars => StoredAsAnalysed'
  BY StepIsAnalysed
<1> QED
  BY <1>1, <1>2, PTL DEF Spec

\* A payload that loads can be scored with.
LEMMA LoadedIsUsable ==
    ASSUME NEW payload \in Rubrics, Loads(payload)
    PROVE  Usable(Loaded(payload))
<1> DEFINE rules == Loaded(payload)
           custom == DOMAIN payload.custom
<1>1. /\ DOMAIN payload = {"weights", "bars", "custom"}
      /\ IsFiniteSet(custom)
      /\ \A name \in DOMAIN payload.weights : payload.weights[name] \in Int
  BY RubricsAssumption
<1>2. /\ rules.weights = WithDefaults(payload.weights)
      /\ rules.bars = payload.bars /\ rules.custom = payload.custom
  BY <1>1 DEF Loaded
<1>3. \A name \in DIMENSIONS \cup custom : WithDefaults(payload.weights)[name] \in Nat
  <2>1. custom \subseteq DOMAIN payload.weights
    BY DEF Loads
  <2>2. \A name \in DOMAIN payload.weights : payload.weights[name] \in Nat
    BY <1>1 DEF Loads
  <2>3. \A name \in DIMENSIONS : DEFAULT_WEIGHTS[name] \in Nat
    BY DEF DIMENSIONS, DEFAULT_WEIGHTS
  <2> QED
    BY <2>1, <2>2, <2>3 DEF WithDefaults
<1>4. \A name \in DOMAIN payload.bars : payload.bars[name] \in Int
  BY OneIsPositive DEF Loads
<1> HIDE DEF rules
<1> QED
  BY <1>1, <1>2, <1>3, <1>4 DEF Usable, rules

\* Whichever way the documents were read, and the model answered.
LEMMA ReadingsAreReadable ==
    ASSUME NEW how \in Readings \cup {Plain}
    PROVE  Readable(how)
<1>1. IsList(<<>>) /\ Len(<<>>) = 0 /\ 1 .. 0 = {}
  BY NothingIsListed
<1>2. Readable(Plain)
  BY <1>1 DEF Readable, Plain
<1> QED
  BY <1>2, ReadingsAssumption

\* The claims of a candidate are a list of claims.
LEMMA ClaimsAreListed ==
    ASSUME StoredAsAnalysed, NEW c \in Candidates
    PROVE  Listed(stated[c].claims)
<1>1. /\ reading[c] \in Readings \cup {Plain} /\ stated[c] = Collect(c, reading[c])
      /\ portfolio[c] \in Portfolios[c]
  BY DEF StoredAsAnalysed
<1>2. Presented(portfolio[c].resume, portfolio[c].linkedin) /\ Readable(reading[c])
  BY <1>1, DocumentsAssumption, ReadingsAreReadable
<1>3. IsList(stated[c].claims)
  BY <1>1, <1>2, CollectedIsClean DEF Collect
<1>4. None \notin Range(stated[c].claims)
  BY <1>1, ClaimsAssumption DEF Collect
<1> QED
  BY <1>3, <1>4 DEF Listed, IsList

\* Every dossier that is stored can be scored.
LEMMA DossiersAreSane ==
    ASSUME StoredAsAnalysed, NEW c \in Candidates
    PROVE  Sane(dossier[c])
<1>1. Listed(stated[c].claims)
  BY ClaimsAreListed
<1>2. /\ "contradicted_claim" \in DOMAIN Finding
      /\ IsFiniteSet(DOMAIN portfolio[c].works)
      /\ \A r \in DOMAIN portfolio[c].works :
             portfolio[c].works[r].checks \subseteq DOMAIN Finding
  BY PortfoliosAssumption DEF StoredAsAnalysed
<1>3. /\ DOMAIN outcome[c] = DOMAIN portfolio[c].works
      /\ \A r \in DOMAIN outcome[c] : outcome[c][r] \in Outcomes
  BY DEF StoredAsAnalysed, Repositories
<1>4. account[c] \in Nat
  BY AssessmentAssumption DEF StoredAsAnalysed
<1>5. dossier[c] = DossierOf(portfolio[c].works, stated[c].claims, outcome[c], account[c])
  BY DEF StoredAsAnalysed, Analyse
<1> QED
  BY <1>1, <1>2, <1>3, <1>4, <1>5, DossierIsSane

-----------------------------------------------------------------------------
(* Scoring never raises.                                                   *)

\* A share is kept to six decimals here: of more than a million repositories or
\* claims, one that was read would be no share at all. (The code keeps the share of
\* the claims so, and that of the repositories as a quotient.)
AccountsAreCountable ==
    /\ \A n \in Accounts : n <= One
    /\ \A c \in Candidates : \A p \in Portfolios[c] :
           /\ Cardinality(DOMAIN p.works) <= One
           /\ \A how \in Readings \cup {Plain} :
                  Len(Said!CollectClaims(p.resume, p.linkedin, how).claims) <= One

\* No more claims are judged than were collected.
LEMMA ClaimsAreCounted ==
    ASSUME NEW works, NEW claims, Listed(claims), NEW ends, NEW holds
    PROVE  DossierOf(works, claims, ends, holds).claims <= Len(claims)
<1> DEFINE seen == WithEvidence(ends)
           results == Reconciliations(works, claims, seen)
           judged == [n \in 1 .. Len(claims) |->
                         Judge(works, claims[n], MatchClaim(claims[n], seen))]
           all == {judged[n] : n \in 1 .. Len(claims)}
           named == {x \in results : x.claim # None}
<1>1. DOMAIN claims = 1 .. Len(claims) /\ Len(claims) \in Nat
  BY LenProperties DEF Listed
<1>2. IsFiniteSet(1 .. Len(claims)) /\ Cardinality(1 .. Len(claims)) = Len(claims)
  <2>1. /\ IsFiniteSet(1 .. Len(claims))
        /\ Cardinality(1 .. Len(claims)) = IF 1 > Len(claims) THEN 0 ELSE Len(claims) - 1 + 1
    BY <1>1, FS_Interval
  <2> QED
    BY <1>1, <2>1
<1>3. IsFiniteSet(all) /\ Cardinality(all) <= Len(claims)
  BY <1>2, ImageIsFinite
<1>4. named \in SUBSET all
  BY <1>1 DEF Reconciliations
<1>5. DossierOf(works, claims, ends, holds).claims = Cardinality(named)
  BY DEF DossierOf
<1> HIDE DEF all, named
<1>6. Cardinality(named) <= Cardinality(all) /\ IsFiniteSet(named)
  BY <1>3, <1>4, FS_Subset
<1>7. Cardinality(named) \in Nat /\ Cardinality(all) \in Nat
  BY <1>3, <1>6, FS_CardinalityType
<1> QED
  BY <1>1, <1>3, <1>5, <1>6, <1>7

\* Every dossier of an account that can be counted can be counted.
LEMMA DossiersAreCountable ==
    ASSUME AccountsAreCountable, StoredAsAnalysed, NEW c \in Candidates
    PROVE  Countable(dossier[c])
<1> DEFINE works == portfolio[c].works
<1>1. PICK how \in Readings \cup {Plain} : stated[c] = Collect(c, how)
  BY DEF StoredAsAnalysed
<1>2. portfolio[c] \in Portfolios[c] /\ account[c] \in Accounts
  BY DEF StoredAsAnalysed
<1>3. Len(stated[c].claims) <= One /\ Len(stated[c].claims) \in Nat
  <2>1. Len(stated[c].claims) <= One
    BY <1>1, <1>2 DEF AccountsAreCountable, Collect
  <2>2. Len(stated[c].claims) \in Nat
    BY ClaimsAreListed, LenProperties DEF Listed
  <2> QED
    BY <2>1, <2>2
<1>4. DOMAIN outcome[c] = DOMAIN works
  BY DEF StoredAsAnalysed, Repositories
<1>5. account[c] <= One /\ Cardinality(DOMAIN outcome[c]) <= One
  BY <1>2, <1>4 DEF AccountsAreCountable
<1>6. dossier[c] = DossierOf(works, stated[c].claims, outcome[c], account[c])
  BY DEF StoredAsAnalysed, Analyse
<1>7. dossier[c].considered <= One
  BY <1>5, <1>6 DEF DossierOf
<1>8. dossier[c].claims <= Len(stated[c].claims)
  BY <1>6, ClaimsAreListed, ClaimsAreCounted
<1>9. dossier[c].claims \in Nat
  BY DossiersAreSane DEF Sane
<1> QED
  BY <1>3, <1>7, <1>8, <1>9, OneIsPositive DEF Countable

\* Whatever a run could read, whatever stands dismissed and by whichever rubric:
\* every dimension passes the checks DimensionScore makes of itself.
THEOREM EveryScoreIsWellFormed ==
    ASSUME AccountsAreCountable
    PROVE  Spec => []ScoringNeverRaises
<1>1. AssessmentInvariant /\ StoredAsAnalysed => ScoringNeverRaises
  <2> SUFFICES ASSUME AssessmentInvariant, StoredAsAnalysed, NEW c \in Candidates,
                      NEW d \in DOMAIN shown[c].dimensions
               PROVE  WellFormed(shown[c].dimensions[d])
    BY DEF ScoringNeverRaises
  <2>1. Sane(dossier[c]) /\ Countable(dossier[c])
    BY DossiersAreSane, DossiersAreCountable
  <2>2. shown[c] = ScoreCandidate(dossier[c], rubric, dismissed[c])
    BY DEF AssessmentInvariant, ScoresBy
  <2>3. shown[c].dimensions = ScoreDimensions(dossier[c], dismissed[c], rubric)
    BY <2>2, WeightedKeepsDimensions DEF ScoreCandidate
  <2>4. d \in DIMENSIONS \cup DOMAIN rubric.custom
    BY <2>3 DEF ScoreDimensions
  <2> QED
    BY <2>1, <2>3, <2>4, DimensionsAreWellFormed
<1> QED
  BY <1>1, AssessmentIsSound, DossiersAreOfPortfolios, PTL

-----------------------------------------------------------------------------
(* What is not read widens the band, and nothing else.                     *)

\* The same dossier of an account with one repository more.
Grown(d, e) ==
    /\ e.red_flags = d.red_flags /\ e.snapshot = d.snapshot /\ e.cited = d.cited
    /\ e.analysed = d.analysed /\ e.authored = d.authored /\ e.deep = d.deep
    /\ e.claims = d.claims /\ e.resolved = d.resolved
    /\ e.corroborated = d.corroborated /\ e.contradicted = d.contradicted
    /\ e.considered = d.considered + 1

\* Accounts of which a share of one more still rounds to less.
Small(d) == d.considered <= 999 /\ d.claims <= One

LEMMA GrownIsSane ==
    ASSUME NEW d, Sane(d), Small(d), NEW e, Grown(d, e)
    PROVE  Sane(e) /\ Countable(e) /\ Countable(d)
<1>1. d.considered \in Nat /\ 999 <= One /\ 1000 <= One
  BY SMT DEF Sane, One
<1>2. Countable(d) /\ Countable(e)
  BY <1>1, OneIsPositive DEF Small, Countable, Grown
<1>3. e.considered \in Nat /\ e.analysed \in 0 .. e.considered
  BY <1>1 DEF Sane, Grown
<1> QED
  BY <1>2, <1>3 DEF Sane, Grown

\* A dividend that is more by the divisor makes a quotient that is more by one.
LEMMA QuotientOfMore ==
    ASSUME NEW m \in Int, NEW n \in Int, NEW d \in Int, d > 0, m + d <= n
    PROVE  Quotient(m, d) + 1 <= Quotient(n, d)
<1> DEFINE q == Quotient(m, d)
<1>1. q \in Int
  BY QuotientBetween
<1>2. (2 * d) * q <= 2 * m + d
  BY DEF Quotient
<1> HIDE DEF q
<1>3. (2 * d) * (q + 1) = (2 * d) * q + 2 * d /\ (2 * d) * q \in Int
  BY <1>1
<1>4. (2 * d) * (q + 1) <= 2 * n + d
  BY <1>2, <1>3
<1> QED
  BY <1>1, <1>4, QuotientBetween DEF q

\* Of one more, the share of what was read is less, by a millionth for each.
LEMMA ShareOfLarger ==
    ASSUME NEW a \in Nat, NEW n \in Nat, n > 0, n <= 999
    PROVE  Quotient(One * a, n + 1) + a <= Quotient(One * a, n)
<1> DEFINE p == One * a
           q == Quotient(p, n + 1)
           s == n * (n + 1)
<1>1. p \in Nat /\ s \in Nat /\ n + 1 \in Nat
  BY OneIsPositive, Product
<1>2. s * a <= p /\ s * a \in Nat
  <2>1. n * (999 - n) \in Nat /\ n * n \in Nat
    BY Product
  <2>2. s <= One
    <3>1. s = n * n + n /\ n * n <= 999 * n
      BY <2>1
    <3> HIDE DEF s
    <3> QED
      BY <2>1, <3>1, SMT DEF One
  <2> HIDE DEF s
  <2>3. (One - s) * a \in Nat /\ s * a \in Nat
    BY <1>1, <2>2, OneIsPositive, Product
  <2>4. (One - s) * a = p - s * a
    BY <1>1, OneIsPositive
  <2> QED
    BY <1>1, <2>3, <2>4
<1> HIDE DEF p
<1>3. q \in Int
  BY <1>1, QuotientBetween
<1>4. (2 * (n + 1)) * q <= 2 * p + (n + 1)
  BY <1>1 DEF Quotient
<1> HIDE DEF q
<1>5. (2 * n) * (q + a) <= 2 * p + n
  <2> DEFINE low == (2 * n) * (q + a)
             high == 2 * p + n
             left == (2 * (n + 1)) * q
             rest == 2 * p + (n + 1) - left
  <2>1. low \in Int /\ high \in Int /\ left \in Int /\ rest \in Nat
    BY <1>1, <1>3, <1>4
  <2>2. n * rest \in Nat
    BY <2>1, Product
  <2>3. n * rest = 2 * (n * p) + s - n * left
    <3> HIDE DEF left
    <3> QED
      BY <1>1, <2>1
  <2>4. (n + 1) * low = n * left + 2 * (s * a)
    BY <1>1, <1>3
  <2>5. (n + 1) * high = 2 * (n * p) + 2 * p + s
    BY <1>1
  <2>6. (n + 1) * low <= (n + 1) * high
    <3> DEFINE x == (n + 1) * low
               y == (n + 1) * high
               u == n * left
               v == n * p
               w == n * rest
               t == s * a
    <3>1. w \in Nat /\ u \in Int /\ v \in Nat /\ t \in Nat /\ x \in Int /\ y \in Int
      BY <1>1, <1>2, <2>1, <2>2, Product
    <3>2. w = 2 * v + s - u /\ x = u + 2 * t /\ y = 2 * v + 2 * p + s /\ t <= p
      BY <1>2, <2>3, <2>4, <2>5
    <3> HIDE DEF x, y, u, v, w, t, s
    <3>3. x <= y
      BY <1>1, <3>1, <3>2
    <3> QED
      BY <3>3 DEF x, y
  <2> HIDE DEF low, high, left, rest
  <2>7. SUFFICES ASSUME low >= high + 1
                 PROVE  FALSE
    BY <2>1 DEF low, high
  <2>8. (n + 1) * (low - (high + 1)) \in Nat
    BY <1>1, <2>1, <2>7, Product
  <2>9. (n + 1) * (low - (high + 1)) = (n + 1) * low - (n + 1) * high - (n + 1)
    BY <1>1, <2>1
  <2>10. (n + 1) * low \in Int /\ (n + 1) * high \in Int
    BY <1>1, <2>1
  <2> QED
    BY <1>1, <2>6, <2>8, <2>9, <2>10
<1>6. q + a <= Quotient(p, n)
  BY <1>1, <1>3, <1>5, QuotientBetween
<1> QED
  BY <1>6 DEF p, q

\* The share of the account that was read is less by a millionth for each
\* repository that was.
LEMMA ReadOfLarger ==
    ASSUME NEW d, Sane(d), Small(d), d.analysed > 0, NEW e, Grown(d, e)
    PROVE  /\ AccountRead(d) \in 1 .. One /\ AccountRead(e) \in 1 .. One
           /\ AccountRead(e) + d.analysed <= AccountRead(d)
<1> DEFINE a == d.analysed
           n == d.considered
<1>1. a \in Nat /\ n \in Nat /\ n > 0 /\ n <= 999 /\ a <= n
  BY DEF Sane, Small
<1>2. Sane(e) /\ Countable(e) /\ Countable(d) /\ e.considered = n + 1 /\ e.analysed = a
  BY GrownIsSane DEF Grown
<1>3. ASSUME NEW k \in Nat, k > 0, a <= k
      PROVE  Capped(Quotient(One * a, k)) = Quotient(One * a, k)
  <2>1. Quotient(One * a, k) \in 0 .. One
    BY <1>1, <1>3, ShareOfWhole
  <2> HIDE DEF a
  <2> QED
    BY <2>1, OneIsPositive, MinOfTwo DEF Capped
<1>4. AccountRead(d) = Quotient(One * a, n)
  BY <1>1, <1>3 DEF AccountRead
<1>5. AccountRead(e) = Quotient(One * a, n + 1)
  <2>1. AccountRead(e) = Capped(Quotient(One * a, n + 1))
    BY <1>1, <1>2 DEF AccountRead
  <2> QED
    BY <1>1, <1>3, <2>1
<1>6. /\ AccountRead(d) \in 0 .. One /\ AccountRead(d) >= a
      /\ AccountRead(e) \in 0 .. One /\ AccountRead(e) >= a
  BY <1>1, <1>2, AccountReadShare DEF Countable
<1>7. Quotient(One * a, n + 1) + a <= Quotient(One * a, n)
  BY <1>1, ShareOfLarger
<1> QED
  BY <1>1, <1>4, <1>5, <1>6, <1>7, OneIsPositive

\* What is seen in depth is a smaller share of it, too.
LEMMA DeepOfLarger ==
    ASSUME NEW d, Sane(d), Small(d), d.deep # 0, NEW e, Grown(d, e)
    PROVE  Quotient(AccountRead(e) * DeepSeen(e), Max({1, e.authored}))
               < Quotient(AccountRead(d) * DeepSeen(d), Max({1, d.authored}))
<1> DEFINE read == AccountRead(d)
           less == AccountRead(e)
           seen == DeepSeen(d)
           authored == Max({1, d.authored})
<1>1. d.deep \in Nat /\ d.deep > 0 /\ d.analysed \in Nat /\ d.analysed > 0
  BY DEF Sane
<1>2. authored \in Nat /\ authored > 0 /\ authored <= d.analysed
  BY <1>1, MaxOfTwo DEF Sane
<1>3. seen \in Nat /\ seen > 0
  <2>1. DeepSeen(d) = IF d.deep <= authored THEN d.deep ELSE authored
    BY <1>1, <1>2, MinOfTwo DEF DeepSeen
  <2> QED
    BY <1>1, <1>2, <2>1
<1>4. read \in Nat /\ less \in Nat /\ less + d.analysed <= read
  BY <1>1, ReadOfLarger, OneIsPositive
<1>5. DeepSeen(e) = seen /\ Max({1, e.authored}) = authored
  BY DEF DeepSeen, Grown
<1> HIDE DEF read, less, seen, authored
<1>6. less * seen + authored <= read * seen /\ less * seen \in Nat /\ read * seen \in Nat
  <2>1. (read - less - d.analysed) * seen \in Nat
    BY <1>1, <1>3, <1>4, Product
  <2>2. d.analysed * (seen - 1) \in Nat /\ d.analysed * seen \in Nat
    BY <1>1, <1>3, Product
  <2>3. less * seen \in Nat /\ read * seen \in Nat
    BY <1>3, <1>4, Product
  <2>4. (read - less - d.analysed) * seen = read * seen - less * seen - d.analysed * seen
    BY <1>1, <1>3, <1>4
  <2>5. d.analysed * (seen - 1) = d.analysed * seen - d.analysed
    BY <1>1, <1>3
  <2> QED
    BY <1>1, <1>2, <2>1, <2>2, <2>3, <2>4, <2>5
<1>7. ASSUME NEW m \in Nat, NEW n \in Nat, m + authored <= n
      PROVE  Quotient(m, authored) < Quotient(n, authored)
  BY <1>2, <1>7, QuotientOfMore, QuotientBetween
<1>8. Quotient(less * seen, authored) < Quotient(read * seen, authored)
  BY <1>6, <1>7
<1> QED
  BY <1>5, <1>8 DEF read, less, seen, authored

\* What becomes of a dimension: it cannot be measured, before or after, or it
\* keeps its score and owns up to a smaller share.
Thinner(before, after) ==
    \/ before = Unmeasured /\ after = Unmeasured
    \/ after.score = before.score /\ after.coverage < before.coverage

LEMMA OverRepositoriesThinner ==
    ASSUME NEW d, Sane(d), Small(d), NEW e, Grown(d, e), NEW without, NEW checks
    PROVE  Thinner(OverRepositories(d, without, checks), OverRepositories(e, without, checks))
<1>1. CASE d.analysed = 0
  BY <1>1 DEF OverRepositories, Grown, Thinner
<1>2. CASE d.analysed # 0
  <2> DEFINE flags == LiveFlags(d, without, checks)
             ShareOf(x) == Capped(Quotient(One * x.analysed, Max({1, x.considered})))
  <2>1. d.analysed \in Nat /\ d.analysed > 0 /\ d.snapshot # {}
    BY <1>2 DEF Sane
  <2>2. LiveFlags(e, without, checks) = flags /\ e.analysed = d.analysed /\ e.snapshot = d.snapshot
    BY DEF LiveFlags, Grown
  <2>3. ShareOf(d) = AccountRead(d) /\ ShareOf(e) = AccountRead(e)
    BY <2>1, <2>2, GrownIsSane, AccountReadShare
  <2>4. ShareOf(e) < ShareOf(d)
    <3> DEFINE more == AccountRead(d)
               less == AccountRead(e)
    <3>1. more \in 1 .. One /\ less \in 1 .. One /\ less + d.analysed <= more
      BY <2>1, ReadOfLarger
    <3> HIDE DEF more, less
    <3>2. less < more
      BY <2>1, <3>1, OneIsPositive
    <3> QED
      BY <2>3, <3>2 DEF more, less
  <2>5. /\ OverRepositories(d, without, checks) =
               [score |-> Remaining(flags, d.analysed), coverage |-> ShareOf(d), evidence |-> TRUE]
        /\ OverRepositories(e, without, checks) =
               [score |-> Remaining(flags, d.analysed), coverage |-> ShareOf(e), evidence |-> TRUE]
    BY <1>2, <2>1, <2>2 DEF OverRepositories, FromPenalty, Remaining
  <2> HIDE DEF flags, ShareOf
  <2> QED
    BY <2>4, <2>5 DEF Thinner
<1> QED
  BY <1>1, <1>2

LEMMA OverCodeThinner ==
    ASSUME NEW d, Sane(d), Small(d), NEW e, Grown(d, e), NEW without, NEW family
    PROVE  Thinner(OverCode(d, without, family), OverCode(e, without, family))
<1>1. CASE d.deep = 0
  BY <1>1 DEF OverCode, Grown, Thinner
<1>2. CASE d.deep # 0
  <2> DEFINE flags == LiveFlags(d, without, ChecksOf({family}))
             ShareOf(x) == Quotient(AccountRead(x) * DeepSeen(x), Max({1, x.authored}))
  <2>1. d.analysed \in Nat /\ d.analysed > 0 /\ d.snapshot # {}
    BY <1>2 DEF Sane
  <2>2. /\ LiveFlags(e, without, ChecksOf({family})) = flags
        /\ e.deep = d.deep /\ e.snapshot = d.snapshot
    BY DEF LiveFlags, Grown
  <2>3. ~(AccountRead(d) <= 0) /\ ~(AccountRead(e) <= 0)
    <3>1. AccountRead(d) \in 1 .. One /\ AccountRead(e) \in 1 .. One
      BY <2>1, ReadOfLarger
    <3> QED
      BY <3>1, OneIsPositive
  <2>4. ShareOf(e) < ShareOf(d)
    BY <1>2, DeepOfLarger
  <2>5. /\ OverCode(d, without, family) =
               [score |-> Remaining(flags, d.deep), coverage |-> ShareOf(d), evidence |-> TRUE]
        /\ OverCode(e, without, family) =
               [score |-> Remaining(flags, d.deep), coverage |-> ShareOf(e), evidence |-> TRUE]
    BY <1>2, <2>1, <2>2, <2>3 DEF OverCode, FromPenalty, Remaining
  <2> HIDE DEF flags, ShareOf
  <2> QED
    BY <2>4, <2>5 DEF Thinner
<1> QED
  BY <1>1, <1>2

LEMMA BreadthThinner ==
    ASSUME NEW d, Sane(d), Small(d), NEW e, Grown(d, e)
    PROVE  Thinner(Breadth(d), Breadth(e))
<1>1. CASE d.analysed = 0
  BY <1>1 DEF Breadth, Grown, Thinner
<1>2. CASE d.analysed # 0
  <2>1. d.analysed \in Nat /\ d.analysed > 0 /\ d.snapshot # {}
    BY <1>2 DEF Sane
  <2>2. AccountRead(e) < AccountRead(d)
    <3> DEFINE more == AccountRead(d)
               less == AccountRead(e)
    <3>1. more \in 1 .. One /\ less \in 1 .. One /\ less + d.analysed <= more
      BY <2>1, ReadOfLarger
    <3> HIDE DEF more, less
    <3>2. less < more
      BY <2>1, <3>1, OneIsPositive
    <3> QED
      BY <3>2 DEF more, less
  <2>3. Breadth(e).score = Breadth(d).score
    BY <1>2, <2>1 DEF Breadth, Grown
  <2>4. Breadth(d).coverage = AccountRead(d) /\ Breadth(e).coverage = AccountRead(e)
    BY <1>2, <2>1 DEF Breadth, Grown
  <2> QED
    BY <2>2, <2>3, <2>4 DEF Thinner
<1> QED
  BY <1>1, <1>2

\* Every dimension but the one that judges claims is thinner, and that one stays.
LEMMA DimensionsThinner ==
    ASSUME NEW d, Sane(d), Small(d), NEW e, Grown(d, e), NEW without, NEW rules,
           NEW name \in DIMENSIONS \cup DOMAIN rules.custom
    PROVE  IF name = "claim_corroboration"
           THEN ScoreDimensions(e, without, rules)[name] = ScoreDimensions(d, without, rules)[name]
           ELSE Thinner(ScoreDimensions(d, without, rules)[name],
                        ScoreDimensions(e, without, rules)[name])
<1>1. ClaimCorroboration(e) = ClaimCorroboration(d)
  BY DEF ClaimCorroboration, Grown
<1>2. Thinner(Breadth(d), Breadth(e))
  BY BreadthThinner
<1>3. \A checks :
          Thinner(OverRepositories(d, without, checks), OverRepositories(e, without, checks))
  BY OverRepositoriesThinner
<1>4. \A family : Thinner(OverCode(d, without, family), OverCode(e, without, family))
  BY OverCodeThinner
<1> QED
  BY <1>1, <1>2, <1>3, <1>4 DEF ScoreDimensions

\* The same scores over smaller shares give the same score in a band as wide.
LEMMA WeightedWidens ==
    ASSUME NEW rules, Usable(rules),
           NEW a, DOMAIN a = DIMENSIONS \cup DOMAIN rules.custom,
           NEW b, DOMAIN b = DOMAIN a,
           \A name \in DOMAIN a :
               /\ WellFormed(a[name]) /\ WellFormed(b[name])
               /\ b[name].score = a[name].score
               /\ b[name].coverage <= a[name].coverage
    PROVE  /\ Weighted(b, rules).score = Weighted(a, rules).score
           /\ Weighted(b, rules).width >= Weighted(a, rules).width
<1> DEFINE measured == MeasuredBy(a, rules)
           coverageOf(x) == [name \in measured |-> x[name].coverage]
           scoreOf(x) == [name \in measured |-> x[name].score]
<1>1. MeasuredBy(b, rules) = measured
  BY OneIsPositive DEF MeasuredBy, Measured, WellFormed
<1>2. scoreOf(a) = scoreOf(b)
  BY DEF MeasuredBy
<1>3. IsFiniteSet(measured)
  <2>1. IsFiniteSet(DIMENSIONS)
    BY DimensionsAreFinite
  <2>2. IsFiniteSet(DOMAIN a)
    BY <2>1, FS_Union DEF Usable
  <2> QED
    BY <2>2, FS_Subset DEF MeasuredBy
<1>4. \A name \in measured : rules.weights[name] \in Nat /\ rules.weights[name] > 0
  BY DEF MeasuredBy, Usable
<1>5. \A name \in measured : /\ a[name].coverage \in Nat /\ b[name].coverage \in Nat
                             /\ b[name].coverage <= a[name].coverage
  BY OneIsPositive DEF MeasuredBy, WellFormed
<1>6. CASE measured = {}
  <2>1. /\ Weighted(b, rules).score = Weighted(a, rules).score
        /\ Weighted(b, rules).width = One \div 2 /\ Weighted(a, rules).width = One \div 2
    BY <1>1, <1>6, WeightedIsMean
  <2>2. One \div 2 \in Int
    BY OneIsPositive
  <2> QED
    BY <2>1, <2>2
<1>7. CASE measured # {}
  <2> DEFINE more == MeanOf(measured, rules, coverageOf(a))
             less == MeanOf(measured, rules, coverageOf(b))
  <2>1. more \in Int /\ less \in Int /\ less <= more
    <3>1. \A name \in measured : /\ coverageOf(b)[name] \in Nat /\ coverageOf(a)[name] \in Nat
                                 /\ coverageOf(b)[name] <= coverageOf(a)[name]
      BY <1>5
    <3> HIDE DEF measured, coverageOf
    <3> QED
      BY <1>3, <1>4, <1>7, <3>1, MeanOfMore
  <2>2. /\ Weighted(a, rules).score = MeanOf(measured, rules, scoreOf(a))
        /\ Weighted(a, rules).width = BAND_FLOOR + Quotient(One - more, BAND_SPAN)
    BY <1>7, WeightedIsMean
  <2>3. /\ Weighted(b, rules).score = MeanOf(measured, rules, scoreOf(b))
        /\ Weighted(b, rules).width = BAND_FLOOR + Quotient(One - less, BAND_SPAN)
    BY <1>1, <1>7, WeightedIsMean
  <2> HIDE DEF more, less
  <2>4. /\ Quotient(One - more, 4) \in Int /\ Quotient(One - less, 4) \in Int
        /\ Quotient(One - more, 4) <= Quotient(One - less, 4)
    <3> DEFINE m == One - more
               n == One - less
    <3>1. m \in Int /\ n \in Int /\ m <= n
      BY <2>1, OneIsPositive
    <3> HIDE DEF m, n
    <3>2. Quotient(m, 4) \in Int /\ Quotient(n, 4) \in Int /\ Quotient(m, 4) <= Quotient(n, 4)
      BY <3>1, QuotientBetween, QuotientMonotone
    <3> QED
      BY <3>2 DEF m, n
  <2>5. Weighted(b, rules).width >= Weighted(a, rules).width
    <3> DEFINE m == Quotient(One - more, 4)
               n == Quotient(One - less, 4)
    <3>1. Weighted(a, rules).width = 50000 + m /\ Weighted(b, rules).width = 50000 + n
      BY <2>2, <2>3 DEF BAND_FLOOR, BAND_SPAN
    <3> HIDE DEF m, n
    <3> QED
      BY <2>4, <3>1 DEF m, n
  <2> QED
    BY <1>2, <2>2, <2>3, <2>5
<1> QED
  BY <1>6, <1>7

\* One repository more than were considered, and nothing else about the dossier.
LEMMA OneMoreIsGrown ==
    ASSUME NEW works, NEW claims, NEW ends, NEW holds
    PROVE  LET d == DossierOf(works, claims, ends, holds)
           IN  Grown(d, [d EXCEPT !.considered = @ + 1])
BY DEF DossierOf, Grown

\* A candidate scores the same in a larger account, in a band as wide or wider.
LEMMA LargerWidens ==
    ASSUME NEW d, Sane(d), Small(d), NEW e, Grown(d, e), NEW rules, Usable(rules), NEW without
    PROVE  LET small == ScoreCandidate(d, rules, without)
               large == ScoreCandidate(e, rules, without)
           IN  /\ large.score = small.score
               /\ large.width >= small.width
               /\ \A name \in OfRepositories(small) :
                      Measured(small.dimensions[name]) =>
                          large.dimensions[name].coverage < small.dimensions[name].coverage
<1> DEFINE a == ScoreDimensions(d, without, rules)
           b == ScoreDimensions(e, without, rules)
<1>1. DOMAIN a = DIMENSIONS \cup DOMAIN rules.custom /\ DOMAIN b = DOMAIN a
  BY DEF ScoreDimensions
<1>2. \A name \in DOMAIN a : WellFormed(a[name]) /\ WellFormed(b[name])
  BY <1>1, GrownIsSane, DimensionsAreWellFormed
<1>3. \A name \in DOMAIN a : IF name = "claim_corroboration" THEN b[name] = a[name]
                                                              ELSE Thinner(a[name], b[name])
  BY <1>1, DimensionsThinner
<1>4. /\ ScoreCandidate(d, rules, without) = Weighted(a, rules)
      /\ ScoreCandidate(e, rules, without) = Weighted(b, rules)
  BY DEF ScoreCandidate
<1>5. Weighted(a, rules).dimensions = a /\ Weighted(b, rules).dimensions = b
  BY WeightedKeepsDimensions
<1> HIDE DEF a, b
<1>6. \A name \in DOMAIN a : /\ WellFormed(a[name]) /\ WellFormed(b[name])
                             /\ b[name].score = a[name].score
                             /\ b[name].coverage <= a[name].coverage
  <2> SUFFICES ASSUME NEW name \in DOMAIN a
               PROVE  /\ b[name].score = a[name].score
                      /\ b[name].coverage <= a[name].coverage
    BY <1>2
  <2>1. a[name].coverage \in Int /\ b[name].coverage \in Int
    BY <1>2, OneIsPositive DEF WellFormed
  <2>2. CASE b[name] = a[name]
    BY <2>1, <2>2
  <2>3. CASE Thinner(a[name], b[name])
    BY <2>1, <2>3 DEF Thinner
  <2> QED
    BY <1>3, <2>2, <2>3
<1>7. /\ Weighted(b, rules).score = Weighted(a, rules).score
      /\ Weighted(b, rules).width >= Weighted(a, rules).width
  BY <1>1, <1>6, WeightedWidens
<1>8. ASSUME NEW name \in DOMAIN a \ {"claim_corroboration"}, Measured(a[name])
      PROVE  b[name].coverage < a[name].coverage
  <2>1. Thinner(a[name], b[name])
    BY <1>3
  <2>2. a[name] # Unmeasured
    BY <1>8 DEF Measured, Unmeasured
  <2> QED
    BY <2>1, <2>2 DEF Thinner
<1> QED
  BY <1>4, <1>5, <1>7, <1>8 DEF OfRepositories

\* Up to 999 repositories to an account, selected ones and others.
AccountsAreSmall ==
    /\ AccountsAreCountable
    /\ \A n \in Accounts : n <= 999
    /\ \A c \in Candidates : \A p \in Portfolios[c] : Cardinality(DOMAIN p.works) <= 999

LEMMA DossiersAreSmall ==
    ASSUME AccountsAreSmall, StoredAsAnalysed, NEW c \in Candidates
    PROVE  Small(dossier[c])
<1>1. Countable(dossier[c])
  BY DossiersAreCountable DEF AccountsAreSmall
<1>2. portfolio[c] \in Portfolios[c] /\ account[c] \in Accounts
  BY DEF StoredAsAnalysed
<1>3. DOMAIN outcome[c] = DOMAIN portfolio[c].works
  BY DEF StoredAsAnalysed, Repositories
<1>4. account[c] <= 999 /\ Cardinality(DOMAIN outcome[c]) <= 999
  BY <1>2, <1>3 DEF AccountsAreSmall
<1>5. dossier[c] = DossierOf(portfolio[c].works, stated[c].claims, outcome[c], account[c])
  BY DEF StoredAsAnalysed, Analyse
<1>6. dossier[c].considered <= 999
  BY <1>4, <1>5 DEF DossierOf
<1> QED
  BY <1>1, <1>6 DEF Small, Countable

\* "Thin evidence widens a confidence band, it never lowers a score": whatever a
\* run could read of it and whatever stands dismissed, a candidate whose account
\* is larger by one repository nobody read has the same score, a band as wide or
\* wider, and a smaller share in every dimension that judges repositories. Of
\* some thousands, one more need not change six decimals of a share, which is as
\* fine as shares are here; the code keeps these as quotients.
THEOREM UnreadWidensOnly ==
    ASSUME AccountsAreSmall
    PROVE  Spec => []UnreadOnlyWidens
<1>1. AssessmentInvariant /\ StoredAsAnalysed => UnreadOnlyWidens
  <2> SUFFICES ASSUME AssessmentInvariant, StoredAsAnalysed, NEW c \in Candidates
               PROVE  LET small == shown[c]
                          large == ScoreCandidate([dossier[c] EXCEPT !.considered = @ + 1],
                                                  rubric, dismissed[c])
                      IN  /\ large.score = small.score
                          /\ large.width >= small.width
                          /\ \A d \in OfRepositories(small) :
                                 Measured(small.dimensions[d]) =>
                                     large.dimensions[d].coverage < small.dimensions[d].coverage
    BY DEF UnreadOnlyWidens
  <2> DEFINE larger == [dossier[c] EXCEPT !.considered = @ + 1]
  <2>1. Sane(dossier[c]) /\ Small(dossier[c])
    BY DossiersAreSane, DossiersAreSmall
  <2>2. Grown(dossier[c], larger)
    <3>1. dossier[c] = DossierOf(portfolio[c].works, stated[c].claims, outcome[c], account[c])
      BY DEF StoredAsAnalysed, Analyse
    <3> QED
      BY <3>1, OneMoreIsGrown
  <2>3. Usable(rubric)
    BY LoadedIsUsable DEF StoredAsAnalysed
  <2>4. shown[c] = ScoreCandidate(dossier[c], rubric, dismissed[c])
    BY DEF AssessmentInvariant, ScoresBy
  <2> HIDE DEF larger
  <2>5. /\ ScoreCandidate(larger, rubric, dismissed[c]).score = shown[c].score
        /\ ScoreCandidate(larger, rubric, dismissed[c]).width >= shown[c].width
        /\ \A d \in OfRepositories(shown[c]) :
               Measured(shown[c].dimensions[d]) =>
                   ScoreCandidate(larger, rubric, dismissed[c]).dimensions[d].coverage
                       < shown[c].dimensions[d].coverage
    BY <2>1, <2>2, <2>3, <2>4, LargerWidens
  <2> QED
    BY <2>5 DEF larger
<1> QED
  BY <1>1, AssessmentIsSound, DossiersAreOfPortfolios, PTL

-----------------------------------------------------------------------------
(* A dismissal never hurts.                                                *)

\* Only dismissing takes more flags of a candidate off the table, and it touches
\* nobody else.
LEMMA OnlyDismissingDismisses ==
    ASSUME AssessmentInvariant, [Next]_vars, NEW c \in Candidates,
           dismissed[c] # dismissed'[c], dismissed[c] \subseteq dismissed'[c]
    PROVE  /\ dossier' = dossier /\ rubric' = rubric
           /\ \A b \in Candidates \ {c} : dismissed'[b] = dismissed[b]
<1>1. dismissed = [x \in Candidates |-> dismissed[x]]
  BY DEF AssessmentInvariant
<1>2. ASSUME NEW x \in Candidates, Rerun(x)
      PROVE  FALSE
  BY <1>2 DEF Rerun
<1>3. ASSUME NEW x \in Candidates, NEW flag, Dismiss(x, flag)
      PROVE  /\ dossier' = dossier /\ rubric' = rubric
             /\ \A b \in Candidates \ {c} : dismissed'[b] = dismissed[b]
  <2>1. dismissed' = [dismissed EXCEPT ![x] = dismissed[x] \cup {flag}]
    BY <1>3 DEF Dismiss
  <2>2. x = c
    BY <1>1, <2>1
  <2> QED
    BY <1>1, <1>3, <2>1, <2>2 DEF Dismiss
<1>4. ASSUME NEW x \in Candidates, NEW flag, Confirm(x, flag)
      PROVE  FALSE
  <2>1. dismissed' = [dismissed EXCEPT ![x] = dismissed[x] \ {flag}]
    BY <1>4 DEF Confirm
  <2>2. dismissed'[c] \subseteq dismissed[c]
    BY <1>1, <2>1
  <2> QED
    BY <2>2
<1>5. ASSUME NEW payload \in Rubrics, Reweight(payload)
      PROVE  FALSE
  BY <1>5 DEF Reweight
<1>6. CASE UNCHANGED vars
  BY <1>6 DEF vars
<1> QED
  BY <1>2, <1>3, <1>4, <1>5, <1>6 DEF Next, Reanalyse, Reread

\* Nobody is worse off for what a human dismissed, in the list they are ranked in.
LEMMA DismissalStep ==
    ASSUME AssessmentInvariant, StoredAsAnalysed, [Next]_vars, NEW c \in Candidates,
           dismissed[c] # dismissed'[c], dismissed[c] \subseteq dismissed'[c]
    PROVE  /\ shown'[c].width = shown[c].width
           /\ shown'[c].breaches \subseteq shown[c].breaches
           /\ \A d \in DOMAIN shown[c].dimensions :
                  Measured(shown[c].dimensions[d]) => Measured(shown'[c].dimensions[d])
           /\ shown[c].score # None =>
                  /\ shown'[c].score >= shown[c].score
                  /\ RankOf(shown', c) <= RankOf(shown, c)
<1>1. /\ dossier' = dossier /\ rubric' = rubric
      /\ \A b \in Candidates \ {c} : dismissed'[b] = dismissed[b]
  BY OnlyDismissingDismisses
<1>2. shown = ScoresBy(dossier, rubric, dismissed)
  BY DEF AssessmentInvariant
<1>3. shown' = ScoresBy(dossier, rubric, dismissed')
  <2>1. AssessmentInvariant'
    BY StepIsSound
  <2> QED
    BY <1>1, <2>1 DEF AssessmentInvariant, ScoresBy
<1>4. DOMAIN shown = Candidates /\ DOMAIN shown' = Candidates
  BY <1>2, <1>3 DEF ScoresBy
<1>5. \A b \in Candidates : shown[b] = ScoreCandidate(dossier[b], rubric, dismissed[b])
  BY <1>2 DEF ScoresBy
<1>6. \A b \in Candidates : shown'[b] = ScoreCandidate(dossier[b], rubric, dismissed'[b])
  BY <1>3 DEF ScoresBy
<1>7. \A b \in Candidates \ {c} : shown'[b] = shown[b]
  BY <1>1, <1>5, <1>6
<1>8. Usable(rubric) /\ \A b \in Candidates : Sane(dossier[b])
  BY LoadedIsUsable, DossiersAreSane DEF StoredAsAnalysed
<1>9. \A b \in Candidates : shown[b].score = None \/ shown[b].score \in Int
  BY <1>5, <1>8, MoreDismissedNoWorse
<1>10. /\ shown'[c].width = shown[c].width
       /\ shown'[c].breaches \subseteq shown[c].breaches
       /\ \A d \in DOMAIN shown[c].dimensions :
              Measured(shown[c].dimensions[d]) => Measured(shown'[c].dimensions[d])
       /\ \/ shown[c].score = None /\ shown'[c].score = None
          \/ /\ shown[c].score \in Int /\ shown'[c].score \in Int
             /\ shown[c].score <= shown'[c].score
  BY <1>5, <1>6, <1>8, MoreDismissedNoWorse
<1>11. Candidates \in SUBSET Nat /\ IsFiniteSet(Candidates)
  BY AssessmentAssumption DEF Candidates
<1>12. ASSUME shown[c].score # None
       PROVE  RankOf(shown', c) <= RankOf(shown, c)
  BY <1>4, <1>7, <1>9, <1>10, <1>11, <1>12, NobodyOvertakes
<1> QED
  BY <1>10, <1>12

\* Taking a flag off the table never lowers a score, costs a place, breaches a
\* bar, widens a band or leaves a dimension unmeasured, for any portfolio, any
\* findings and any rubric that loads.
THEOREM DismissalsOnlyHelp == Spec => DismissalNeverHurts
<1>1. AssessmentInvariant /\ StoredAsAnalysed /\ [Next]_vars =>
          [\A c \in Candidates :
               dismissed[c] # dismissed'[c] /\ dismissed[c] \subseteq dismissed'[c] =>
                   /\ shown'[c].width = shown[c].width
                   /\ shown'[c].breaches \subseteq shown[c].breaches
                   /\ \A d \in DOMAIN shown[c].dimensions :
                          Measured(shown[c].dimensions[d]) => Measured(shown'[c].dimensions[d])
                   /\ shown[c].score # None =>
                          /\ shown'[c].score >= shown[c].score
                          /\ RankOf(shown', c) <= RankOf(shown, c)]_vars
  BY DismissalStep
<1>2. Spec => [][Next]_vars
  BY DEF Spec
<1> QED
  BY <1>1, <1>2, AssessmentIsSound, DossiersAreOfPortfolios, PTL DEF DismissalNeverHurts

-----------------------------------------------------------------------------
(* What a candidate's documents say, and what is made of it.               *)

\* No protected value that stands behind its label reaches a claim or the model,
\* however the documents were read, and where the mark is shown there is a record.
THEOREM ValuesStayOut == Spec => []LabelledValuesStayOut
<1>1. ASSUME StoredAsAnalysed, NEW c \in Candidates
      PROVE  /\ \A n \in DOMAIN stated[c].sent : Range(stated[c].sent[n]) \cap Values = {}
             /\ \A n \in DOMAIN stated[c].claims :
                    LET claim == stated[c].claims[n]
                        words == Range(claim.text) \cup Range(claim.excerpt)
                    IN  /\ words \cap Values = {}
                        /\ Redacted \in words =>
                               IF portfolio[c].resume # None
                                  /\ claim.document = portfolio[c].resume.document
                               THEN "resume" \in stated[c].redactions
                               ELSE "linkedin" \in stated[c].redactions
  <2>1. /\ reading[c] \in Readings \cup {Plain} /\ stated[c] = Collect(c, reading[c])
        /\ portfolio[c] \in Portfolios[c]
    BY <1>1 DEF StoredAsAnalysed
  <2>2. Presented(portfolio[c].resume, portfolio[c].linkedin) /\ Readable(reading[c])
    BY <2>1, DocumentsAssumption, ReadingsAreReadable
  <2>3. PICK got : got = stated[c]
    OBVIOUS
  <2>4. PICK resume : resume = portfolio[c].resume
    OBVIOUS
  <2>5. /\ \A n \in DOMAIN got.sent : Range(got.sent[n]) \cap Values = {}
        /\ \A claim \in Range(got.claims) :
               /\ (Range(claim.text) \cup Range(claim.excerpt)) \cap Values = {}
               /\ Redacted \in Range(claim.text) \cup Range(claim.excerpt) =>
                      IF resume # None /\ claim.document = resume.document
                      THEN "resume" \in got.redactions ELSE "linkedin" \in got.redactions
    BY <2>1, <2>2, <2>3, <2>4, CollectedIsClean DEF Collect
  <2>6. \A n \in DOMAIN got.claims : got.claims[n] \in Range(got.claims)
    BY DEF Range
  <2> QED
    BY <2>3, <2>4, <2>5, <2>6
<1>2. StoredAsAnalysed => LabelledValuesStayOut
  BY <1>1 DEF LabelledValuesStayOut
<1> QED
  BY <1>2, DossiersAreOfPortfolios, PTL

\* What changes the reading of a candidate's documents leaves the documents.
LEMMA RereadingStep ==
    ASSUME StoredAsAnalysed, [Next]_vars, NEW c \in Candidates, reading[c] # reading'[c]
    PROVE  /\ portfolio' = portfolio /\ portfolio[c] \in Portfolios[c]
           /\ Presented(portfolio[c].resume, portfolio[c].linkedin)
           /\ reading[c] \in Readings \cup {Plain} /\ stated[c] = Collect(c, reading[c])
           /\ reading'[c] \in Readings \cup {Plain} /\ stated'[c] = Collect(c, reading'[c])
<1>1. portfolio' = portfolio
  BY DEF Next, Reanalyse, Reread, Rerun, Dismiss, Confirm, Reweight, vars
<1>2. StoredAsAnalysed'
  BY StepIsAnalysed
<1>3. /\ portfolio[c] \in Portfolios[c]
      /\ reading[c] \in Readings \cup {Plain} /\ stated[c] = Collect(c, reading[c])
  BY DEF StoredAsAnalysed
<1>4. reading'[c] \in Readings \cup {Plain} /\ stated'[c] = Collect(c, reading'[c])
  <2>1. \A x, how : Collect(x, how)' = Collect(x, how)
    BY <1>1 DEF Collect
  <2> QED
    BY <1>2, <2>1 DEF StoredAsAnalysed
<1> QED
  BY <1>1, <1>3, <1>4, DocumentsAssumption

\* What is read plainly.
LEMMA PlainIs ==
    /\ Plain.resume /\ Plain.linkedin /\ Plain.model = "absent"
    /\ Plain \in Readings \cup {Plain} /\ Readable(Plain)
<1>1. Plain.resume /\ Plain.linkedin /\ Plain.model = "absent" /\ Plain \in Readings \cup {Plain}
  BY DEF Plain
<1> QED
  BY <1>1, ReadingsAreReadable

\* A resume that can be read is claimed as it would be on its own, first and in
\* the same words, and every statement of an export that can be read is claimed,
\* whatever became of the other documents and of the model.
THEOREM SourcesStayIndependent == Spec => SourcesAreIndependent
<1>1. ASSUME StoredAsAnalysed, [Next]_vars, NEW c \in Candidates, reading[c] # reading'[c]
      PROVE  LET resume == Said!CollectClaims(portfolio[c].resume, None, Plain).claims
                 export == Said!CollectClaims(None, portfolio[c].linkedin, Plain).claims
                 claims == stated'[c].claims
             IN  /\ reading'[c].resume =>
                        /\ Len(resume) <= Len(claims)
                        /\ \A n \in DOMAIN resume : claims[n] = resume[n]
                 /\ reading'[c].linkedin =>
                        \A n \in DOMAIN export :
                            \E m \in DOMAIN claims : Said!Key(claims[m]) = Said!Key(export[n])
  <2>1. PICK how \in Readings \cup {Plain} :
            how = reading'[c] /\ stated'[c] = Collect(c, how)
    BY <1>1, RereadingStep
  <2>2. PICK linkedin : linkedin = portfolio[c].linkedin
    OBVIOUS
  <2>3. PICK document : document = portfolio[c].resume
    OBVIOUS
  <2>4. Presented(document, linkedin) /\ Readable(how)
    BY <1>1, <2>2, <2>3, RereadingStep, ReadingsAreReadable
  <2>5. PICK resume : resume = Said!CollectClaims(document, None, Plain).claims
    OBVIOUS
  <2>6. PICK export : export = Said!CollectClaims(None, linkedin, Plain).claims
    OBVIOUS
  <2>7. PICK claims : claims = Said!CollectClaims(document, linkedin, how).claims
    OBVIOUS
  <2>8. claims = stated'[c].claims
    BY <2>1, <2>2, <2>3, <2>7 DEF Collect
  <2>9. ASSUME how.resume
        PROVE  Len(resume) <= Len(claims) /\ \A n \in DOMAIN resume : claims[n] = resume[n]
    <3>1. /\ IsList(resume) /\ Len(resume) <= Len(claims)
          /\ \A n \in 1 .. Len(resume) : claims[n] = resume[n]
      BY <2>4, <2>5, <2>7, <2>9, PlainIs, ResumeComesFirst
    <3> QED
      BY <3>1, ListIs
  <2>10. ASSUME how.linkedin, NEW n \in DOMAIN export
         PROVE  \E m \in DOMAIN claims : Said!Key(claims[m]) = Said!Key(export[n])
    <3>1. PICK x \in Range(export) : x = export[n]
      BY DEF Range
    <3>2. \E y \in Range(claims) : Said!Key(y) = Said!Key(x)
      BY <2>4, <2>6, <2>7, <2>10, PlainIs, ExportIsClaimed
    <3> QED
      BY <3>1, <3>2 DEF Range
  <2> QED
    BY <2>1, <2>2, <2>3, <2>5, <2>6, <2>8, <2>9, <2>10
<1>2. StoredAsAnalysed /\ [Next]_vars =>
          [\A c \in Candidates : reading[c] # reading'[c] =>
               LET resume == Said!CollectClaims(portfolio[c].resume, None, Plain).claims
                   export == Said!CollectClaims(None, portfolio[c].linkedin, Plain).claims
                   claims == stated'[c].claims
               IN  /\ reading'[c].resume =>
                          /\ Len(resume) <= Len(claims)
                          /\ \A n \in DOMAIN resume : claims[n] = resume[n]
                   /\ reading'[c].linkedin =>
                          \A n \in DOMAIN export :
                              \E m \in DOMAIN claims : Said!Key(claims[m]) = Said!Key(export[n])]_vars
  BY <1>1
<1>3. Spec => [][Next]_vars
  BY DEF Spec
<1> QED
  BY <1>2, <1>3, DossiersAreOfPortfolios, PTL DEF SourcesAreIndependent

\* Where two claims of one kind point to one place, neither is the model's: it
\* was there before the model was asked.
THEOREM ModelRestatesNothing == Spec => ModelNeverRestates
<1>1. ASSUME StoredAsAnalysed, [Next]_vars, NEW c \in Candidates,
             reading[c] = Plain, reading'[c] # Plain
      PROVE  LET claims == stated'[c].claims
             IN  \A m, n \in DOMAIN claims :
                     /\ m # n
                     /\ claims[m].document = claims[n].document
                     /\ claims[m].locator = claims[n].locator
                     /\ claims[m].kind = claims[n].kind
                     => \E k \in DOMAIN stated[c].claims : stated[c].claims[k] = claims[n]
  <2>1. /\ reading[c] # reading'[c]
        /\ stated[c] = Collect(c, Plain)
    BY <1>1, RereadingStep
  <2>2. PICK how \in Readings \cup {Plain} :
            how = reading'[c] /\ stated'[c] = Collect(c, how)
    BY <1>1, <2>1, RereadingStep
  <2>3. PICK resume : resume = portfolio[c].resume
    OBVIOUS
  <2>4. PICK linkedin : linkedin = portfolio[c].linkedin
    OBVIOUS
  <2>5. Presented(resume, linkedin) /\ Readable(how)
    BY <1>1, <2>1, <2>3, <2>4, RereadingStep, ReadingsAreReadable
  <2>6. PICK before : before = Said!CollectClaims(resume, linkedin, Plain).claims
    OBVIOUS
  <2>7. PICK claims : claims = Said!CollectClaims(resume, linkedin, how).claims
    OBVIOUS
  <2>8. claims = stated'[c].claims /\ before = stated[c].claims
    BY <2>1, <2>2, <2>3, <2>4, <2>6, <2>7 DEF Collect
  <2>9. DOMAIN claims = 1 .. Len(claims)
    BY <2>5, <2>7, CollectedIsClean, ListIs
  <2>10. ASSUME NEW m \in DOMAIN claims, NEW n \in DOMAIN claims, m # n,
                claims[m].document = claims[n].document, claims[m].locator = claims[n].locator,
                claims[m].kind = claims[n].kind
         PROVE  \E k \in DOMAIN before : before[k] = claims[n]
    <3>1. claims[n] \in Range(before)
      BY <2>5, <2>6, <2>7, <2>9, <2>10, PlainIs, NothingIsRestated
    <3> QED
      BY <3>1 DEF Range
  <2> QED
    BY <2>8, <2>10
<1>2. StoredAsAnalysed /\ [Next]_vars =>
          [\A c \in Candidates : reading[c] = Plain /\ reading'[c] # Plain =>
               LET claims == stated'[c].claims
               IN  \A m, n \in DOMAIN claims :
                       /\ m # n
                       /\ claims[m].document = claims[n].document
                       /\ claims[m].locator = claims[n].locator
                       /\ claims[m].kind = claims[n].kind
                       => \E k \in DOMAIN stated[c].claims : stated[c].claims[k] = claims[n]]_vars
  BY <1>1
<1>3. Spec => [][Next]_vars
  BY DEF Spec
<1> QED
  BY <1>2, <1>3, DossiersAreOfPortfolios, PTL DEF ModelNeverRestates

=============================================================================
