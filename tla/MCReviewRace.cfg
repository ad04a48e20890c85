SPECIFICATION Spec

CONSTANTS
    Reviewers = {r1, r2}
    Readers = {}
    Candidates = {alice}
    Flags = {f1}
    FlagsOf <- MCFlagsOf
    Bands = {strong}
    None = None
    MaxActions = 3
    MaxResponses = 1

INVARIANT
    ReviewedIsCurrent

CHECK_DEADLOCK FALSE
