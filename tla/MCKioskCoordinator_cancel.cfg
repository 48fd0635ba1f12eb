SPECIFICATION Spec
CONSTANTS
    Runs = {r1, r2}
    r1 = r1
    r2 = r2
    None = None
    Faults = {}
    MaxFaults = 0
    MaxClicks = 0
INVARIANT
    EndKeepsService
SYMMETRY Symmetry
CHECK_DEADLOCK FALSE
