CONSTANTS
    MaxTransfers = 2
    MaxAttempts = 2
    MaxSendFaults = 0
SPECIFICATION SendSpec
CHECK_DEADLOCK FALSE
INVARIANTS
    RevokesOwn
    ErasedIsGone
