---------------------------- MODULE MCProvenance ----------------------------
(* Histories of up to three commits of one line, three lines or a vendored   *)
(* file, written at once or long apart.                                      *)
EXTENDS Provenance

MCShapes == {[lines |-> 1, vendored |-> 0], [lines |-> 3, vendored |-> 0],
             [lines |-> 0, vendored |-> 4]}

\* The claim names the repository.
MCBears(claim) == <<"it">>

MCDisputes == {"low_contribution", "fork_presented_as_original"}

=============================================================================
