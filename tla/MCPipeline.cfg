SPECIFICATION Spec

CONSTANTS
    Repositories = {r1, r2}
    Active = {r1}
    MaxRuns = 2
    None = None
    Documents = Documents
    Empty = Empty
    max_clone_concurrency = 1
    clone_timeout = 1
    AnalysisTime = 0
    StaleAfter = 3
    MaxEvents = 1

INVARIANTS
    TypeOK

PROPERTIES
    LiveNeverSwept
    OnlyTheInterruptedOrEmptyStay
    ReusedIsNoOlder
    EveryRunEnds
