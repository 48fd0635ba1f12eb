CONSTANTS
    Sessions = {1, 2}
    Ttl <- VisitorTtl
    SessionTtl = 1
    Lease = 2
    Retention = 1
    Limit = 2
    Shared = TRUE
    Stuck = {}
    Condemned = {1}
    Left = {1}
    Cleaners = {w, t}
    Workers = {}
    Phones = {p1}
    Readers = {c1}
    Cipher = Cipher
    None = None
    Rounding = 1
    MaxClock = 0
    MaxFaults = 1
SPECIFICATION Spec
CHECK_DEADLOCK FALSE
INVARIANT
    SessionKept
