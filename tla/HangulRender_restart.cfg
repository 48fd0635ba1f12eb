SPECIFICATION Spec
CONSTANTS
    Renders = {r1}
    Guests = {}
    Elsewhere = {}
    None = None
    MaxStarts = 1
PROPERTY StartClears
CHECK_DEADLOCK FALSE
