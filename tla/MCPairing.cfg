CONSTANTS
    k1 = k1
    k2 = k2
    None = None
    Callers = {k1, k2}
    Home <- MCHome
    Codes = {c1, c2}
    Pairs = {q1, q2}
    MaxWindows = 2
    Drawn = 1
    Life = 2
    Tries = 2
    MissLimit = 1
    JoinLimit = 2
    WrongLimit = 1
    WrongSpan = 2
    MaxClock = 2
    MaxJoins = 3
    MaxFaults = 1
SYMMETRY MCSymmetry
SPECIFICATION Spec
CHECK_DEADLOCK FALSE
INVARIANTS
    OneReceiver
    GuessesBounded
PROPERTIES
    BlockedWaits
