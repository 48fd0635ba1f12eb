SPECIFICATION Spec
CONSTANTS
    Runs = {r1, r2}
    r1 = r1
    r2 = r2
    None = None
    Faults = {"broken", "lost"}
    MaxFaults = 1
    MaxClicks = 1
INVARIANTS
    OneLiveRun
    PrinterChangeSpares
    PaperKnown
    CancelsUnreadOnly
    ScreenTellsPaper
SYMMETRY Symmetry
CHECK_DEADLOCK FALSE
