CONSTANTS
    Apps = {a1, a2}
    Documents = {d1}
    Jobs = {j1}
    None = None
    MaxCrashes = 1
    MaxRestarts = 1
    MaxFaults = 0
SPECIFICATION LiveSpec
PROPERTY
    StartupCompletes
CHECK_DEADLOCK FALSE
