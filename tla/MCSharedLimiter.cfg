SPECIFICATION Spec

CONSTANTS
    Workers = {w1, w2, w3}
    Clients = {alice, bob}
    None = None
    Limit = 1
    MaxWindow = 2
    MaxCount = 4

SYMMETRY Symmetry

INVARIANTS
    OverrunIsBounded

PROPERTY
    RefusedOnlyOverBudget

CHECK_DEADLOCK FALSE
