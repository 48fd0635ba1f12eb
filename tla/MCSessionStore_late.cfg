CONSTANTS
    Requests = {r1}
    Sweepers = {w}
    Admins = {}
    Phones = {p1}
    Readers = {c1}
    Etags = {e1, e2}
    None = None
    QrTtl = 1
    SessionTtl = 1
    UrlTtl = 1
    Second = 0
    ConsumeLease = 1
    ProcessingLease = 1
    Retention = 1
    MinRetention = 1
    ReceiptTtl = 1
    PutTime = 1
    MaxAttempts = 2
    Lag = 1
    MaxClock = 5
    MaxFailures = 2
SYMMETRY Symmetry
SPECIFICATION Spec
INVARIANT
    NoUntrackedCiphertext
