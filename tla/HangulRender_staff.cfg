SPECIFICATION Spec
CONSTANTS
    Renders = {r1}
    Guests = {g}
    Elsewhere = {}
    None = None
    MaxStarts = 0
PROPERTY StopsItsOwn
CHECK_DEADLOCK FALSE
