SPECIFICATION Spec

CONSTANTS
    Workers = {w1, w2}
    Jobs = {j1, j2}
    None = None
    CacheLimit = 2
    MaxCrashes = 1
    MaxFaults = 1

SYMMETRY Symmetry

INVARIANTS
    DoneHasDossier
    FailureHasReason

PROPERTY
    DossierStays

CHECK_DEADLOCK FALSE
