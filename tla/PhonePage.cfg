CONSTANTS
    Me = Me
    Other = Other
    Picks = {p1, p2}
    Bundles = {p2}
    Locked = {p1}
    Prints = {r1, r2}
    Kiosk = Kiosk
    None = None
    MaxMounts = 2
    MaxFaults = 1
SPECIFICATION LiveSpec
CHECK_DEADLOCK FALSE
INVARIANTS
    VerdictStands
    SealedIsPreviewed
    NothingForgotten
PROPERTIES
    PrintEnds
