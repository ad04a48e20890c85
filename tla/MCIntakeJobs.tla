---------------------------- MODULE MCIntakeJobs ----------------------------
(* Jobs are interchangeable, and so are workers; used by the runs that      *)
(* check safety only.                                                       *)
EXTENDS IntakeJobs, TLC

Symmetry == Permutations(Jobs) \cup Permutations(Workers)

=============================================================================
