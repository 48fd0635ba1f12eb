SPECIFICATION Spec
CONSTANTS
    Runs = {r1, r2}
    r1 = r1
    r2 = r2
    None = None
    Faults = {}
    MaxFaults = 1
    MaxClicks = 1
INVARIANT
    ResultBelongs
SYMMETRY Symmetry
CHECK_DEADLOCK FALSE
