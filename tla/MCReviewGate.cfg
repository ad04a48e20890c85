SPECIFICATION Spec

CONSTANTS
    Candidates = {alice, bob}
    Flags = {f1}
    FlagsOf <- MCFlagsOf
    Bands = {strong}
    None = None
    MaxActions = 4
    MaxResponses = 2
    MaxRubrics = 2

SYMMETRY Symmetry

INVARIANTS
    ReplayReconstructs
    RevisionLedger
    ExportIsSigned

PROPERTY
    ImplementsPromise

CHECK_DEADLOCK FALSE
