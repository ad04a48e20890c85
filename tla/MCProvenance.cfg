SPECIFICATION Spec

CONSTANTS
    None = None
    Disputes <- MCDisputes
    Bears <- MCBears
    Shapes <- MCShapes
    Dates = {0, 9}
    Late = 20
    MaxCommits = 3
    burst_window_seconds = 1
    burst_min_commits = 2
    bulk_dump_loc_share = 80
    bulk_dump_min_loc = 4
    fork_min_total_loc = 3
    inflation_authored_share = 25
    inflation_min_total_loc = 4
    contribution_low_share = 50

PROPERTIES
    AutomationChangesNothing
    TidyingChangesNothing
    OwnWorkNeverAccuses
