CONSTANTS
    Apps = {a1, a2}
    Documents = {d1, d2}
    Jobs = {j1, j2}
    None = None
    MaxCrashes = 2
    MaxRestarts = 1
    MaxFaults = 2
SPECIFICATION Spec
INVARIANTS
    AtMostOnce
    NoSilentJob
PROPERTIES
    RecoveryBlocksAll
    DoubtAcknowledged
CHECK_DEADLOCK FALSE
