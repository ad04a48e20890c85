-------------------------- MODULE MCReviewSessions --------------------------
(* Every candidate's dossier carries every flag; threads serving the same   *)
(* endpoints are interchangeable.                                           *)
EXTENDS ReviewSessions, TLC

MCFlagsOf == [c \in Candidates |-> Flags]

Symmetry == Permutations(Reviewers) \cup Permutations(Readers)

=============================================================================
