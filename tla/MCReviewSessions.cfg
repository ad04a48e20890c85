SPECIFICATION Spec

CONSTANTS
    Reviewers = {r1, r2}
    Readers = {e1}
    Candidates = {alice}
    Flags = {f1}
    FlagsOf <- MCFlagsOf
    Bands = {strong}
    None = None
    MaxActions = 3
    MaxResponses = 2

SYMMETRY Symmetry

INVARIANTS
    RevisionsAreSigned
    ReviewedNamesItsApproval
    ExportIsExplained

CHECK_DEADLOCK FALSE
