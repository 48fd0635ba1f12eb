CONSTANTS
    MaxTransfers = 2
    MaxAttempts = 2
    MaxSendFaults = 2
SPECIFICATION SendLiveSpec
CHECK_DEADLOCK FALSE
INVARIANTS
    ReceiverNotAhead
PROPERTY
    SendEnds
