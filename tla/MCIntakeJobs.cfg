SPECIFICATION Spec

CONSTANTS
    Workers = {w1}
    Jobs = {j1, j2}
    None = None
    CacheLimit = 1
    MaxCrashes = 2
    MaxFaults = 0

INVARIANTS
    TypeOK
    CopyNeverStale
    UploadsAreTemporary

PROPERTIES
    PollsNeverRegress
    EveryJobSettles

CHECK_DEADLOCK FALSE
