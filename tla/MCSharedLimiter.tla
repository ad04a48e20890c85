--------------------------- MODULE MCSharedLimiter ---------------------------
(* Processes are interchangeable, and so are clients.                       *)
EXTENDS SharedLimiter, TLC

Symmetry == Permutations(Workers) \cup Permutations(Clients)

=============================================================================
