CONSTANTS
    Chunk = 2
    Tag = 1
    BatchSize = 2
    Concurrency = 2
    MaxAttempts = 2
    MaxCas = 2
    Receivers = {r1, r2}
    Ttl = 2
    UrlTtl = 1
    Rounding = 1
    MaxNow = 2
    MaxFaults = 1
    Selections <- MCSelections
SPECIFICATION MCLifeSpec
CHECK_DEADLOCK FALSE
INVARIANT
    CeilingIsExact
PROPERTY
    FollowsService
