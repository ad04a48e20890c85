---------------------------- MODULE MCReviewGate ----------------------------
(* Two candidates whose dossiers carry the same flag id: ids are unique     *)
(* only within a dossier, so a dismissal is about the pair. The candidates  *)
(* are interchangeable.                                                     *)
EXTENDS ReviewGate, TLC

MCFlagsOf == [c \in Candidates |-> Flags]

Symmetry == Permutations(Candidates)

=============================================================================
