CONSTANTS
    MaxTransfers = 2
    MaxAttempts = 1
    MaxSendFaults = 0
    MaxReceiveFaults = 0
    FileCounts <- MCFileCounts
    Saves = {k1, k2}
SPECIFICATION PagesSpec
CHECK_DEADLOCK FALSE
INVARIANTS
    DeliveredIsThere
