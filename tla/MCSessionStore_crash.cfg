CONSTANTS
    Requests = {r1}
    Sweepers = {w}
    Admins = {}
    Phones = {p1}
    Readers = {c1}
    Etags = {e1}
    None = None
    QrTtl = 1
    SessionTtl = 1
    UrlTtl = 1
    Second = 0
    ConsumeLease = 2
    ProcessingLease = 2
    Retention = 1
    MinRetention = 1
    ReceiptTtl = 1
    PutTime = 1
    MaxAttempts = 2
    Lag = 1
    MaxClock = 5
    MaxFailures = 1
SPECIFICATION FairSpec
INVARIANTS
    LedgerCoversCiphertext
    ReceiptAgrees
PROPERTIES
    NoEarlySeal
    LedgerCleared
    CiphertextDeleted
