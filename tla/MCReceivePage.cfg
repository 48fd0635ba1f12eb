CONSTANTS
    MaxTransfers = 2
    FileCounts <- MCFileCounts
    Saves = {k1, k2}
    MaxReceiveFaults = 1
SPECIFICATION ReceiveLiveSpec
CHECK_DEADLOCK FALSE
INVARIANTS
    DeliveredIsWhole
    ShownFilesArrived
PROPERTIES
    PendingEnds
