CONSTANTS
    Requests = {r1, r2}
    Sweepers = {w}
    Admins = {w}
    Phones = {p1, p2}
    Readers = {c1, c2}
    Etags = {e1}
    None = None
    QrTtl = 1
    SessionTtl = 1
    UrlTtl = 3
    Second = 2
    ConsumeLease = 1
    ProcessingLease = 1
    Retention = 1
    MinRetention = 1
    ReceiptTtl = 1
    PutTime = 1
    MaxAttempts = 2
    Lag = 1
    MaxClock = 2
    MaxFailures = 0
SYMMETRY Symmetry
SPECIFICATION Spec
INVARIANTS
    LedgerMatchesRecord
    CommittedBlobPresent
    CapabilitiesBelong
PROPERTIES
    LifecycleSpec
