CONSTANTS
    Sessions = {1, 2}
    Ttl <- QrTtl
    SessionTtl = 1
    Lease = 2
    Retention = 1
    Limit = 2
    Shared = FALSE
    Stuck = {1}
    Condemned = {1}
    Left = {1}
    Cleaners = {w, t}
    Workers = {w}
    Phones = {p1}
    Readers = {c1, c2}
    Cipher = Cipher
    None = None
    Rounding = 1
    MaxClock = 0
    MaxFaults = 1
SPECIFICATION LiveSpec
CHECK_DEADLOCK FALSE
INVARIANT
    SessionKept
PROPERTIES
    RowsFollowLifecycle
    SweepReaches
