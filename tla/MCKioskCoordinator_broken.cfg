SPECIFICATION LiveSpec
CONSTANTS
    Runs = {r1, r2}
    r1 = r1
    r2 = r2
    None = None
    Faults = {"broken"}
    MaxFaults = 1
    MaxClicks = 0
PROPERTY
    BackInService
CHECK_DEADLOCK FALSE
