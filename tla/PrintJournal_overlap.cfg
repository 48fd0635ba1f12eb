CONSTANTS
    Apps = {a1, a2}
    Documents = {d1, d2}
    Jobs = {j1, j2}
    None = None
    MaxCrashes = 0
    MaxRestarts = 1
    MaxFaults = 0
SPECIFICATION Spec
PROPERTY
    StartupSurvives
CHECK_DEADLOCK FALSE
