------------------------------ MODULE Reconcile ------------------------------
(***************************************************************************)
(* Claim against evidence (reconcile/engine.py): what the tool says of each *)
(* claim in a resume once some of the candidate's repositories were read.  *)
(*                                                                         *)
(* A repository is what its history shows: `share` the candidate's part of *)
(* its commits (per cent, rounded up), `lines` the lines they wrote, `deep` *)
(* whether a language in it is analysed in depth, `checks` the findings it *)
(* raises. Which words of a claim match which words of a repository is a   *)
(* constant.                                                               *)
(***************************************************************************)
EXTENDS Integers, FiniteSets, Sequences

CONSTANTS
    None,           \* no claim: the result is about a repository nobody named
    Disputes,       \* AUTHORSHIP_DISPUTES: findings that doubt who wrote it
    Bears(_)        \* Bears(claim): the repositories whose name, languages or words
                    \* match its subject (without one, its text), best match first

UNMATCHABLE_KINDS == {"education", "endorsement"}
AUTHORSHIP_CLAIMS == {"project", "role", "achievement"}

WeakAuthorship == 10
MinSubstantialLines == 200

DisputesAuthorship(work) == work.checks \cap Disputes # {}

IsSubstantial(work) == work.share > 0 /\ work.lines >= MinSubstantialLines

\* match_claim, over the repositories there is evidence from.
MatchClaim(claim, seen) ==
    IF claim.kind \in UNMATCHABLE_KINDS
    THEN <<>>
    ELSE SelectSeq(Bears(claim), LAMBDA r : r \in seen)

Supporting(works, matches) ==
    {r \in {matches[i] : i \in DOMAIN matches} :
        ~DisputesAuthorship(works[r]) /\ works[r].share > WeakAuthorship}

\* _judge: the verdict on a claim, and the repositories it cites.
Judge(works, claim, matches) ==
    LET verdict == IF Supporting(works, matches) # {} THEN "corroborated"
                   ELSE IF matches # <<>> /\ claim.kind \in AUTHORSHIP_CLAIMS
                        THEN "contradicted"
                        ELSE "unverifiable"
    IN  [claim |-> claim,
         verdict |-> verdict,
         repositories |-> IF verdict = "corroborated"
                          THEN Supporting(works, matches)
                          ELSE {matches[i] : i \in DOMAIN matches}]

\* reconcile: every claim judged, then the other way round, substantial work
\* that no claim matched.
Reconciliations(works, claims, seen) ==
    LET matched(n) == MatchClaim(claims[n], seen)
        claimed == {r \in seen : \E n \in DOMAIN claims :
                                     \E i \in DOMAIN matched(n) : matched(n)[i] = r}
    IN  {Judge(works, claims[n], matched(n)) : n \in DOMAIN claims}
        \cup {[claim |-> None, verdict |-> "undisclosed", repositories |-> {r}] :
                  r \in {x \in seen \ claimed :
                            IsSubstantial(works[x]) /\ ~DisputesAuthorship(works[x])}}

=============================================================================
