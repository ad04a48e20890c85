SPECIFICATION Spec

CONSTANTS
    MaxClients = 2
    None = None
    MaxRepositories = 2
    PageSize = 1
    Quota = 4
    rate_limit_floor = 3
    max_retry_attempts = 2
    relevance_threshold = 2
    relevance_limit = 1
    MaxEvents = 2

INVARIANTS
    QuotaIsNeverSpent

PROPERTIES
    ListingIsAccount
    EveryClientEnds
