CONSTANTS
    Me = Me
    Other = Other
    Picks = {p1, p2}
    Bundles = {p2}
    Locked = {p1}
    Prints = {r1, r2}
    Kiosk = Kiosk
    None = None
    MaxMounts = 2
    MaxFaults = 1
SPECIFICATION Spec
CHECK_DEADLOCK FALSE
PROPERTIES
    KioskOwnsCommitted
