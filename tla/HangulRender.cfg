SPECIFICATION Spec
CONSTANTS
    Renders = {r1, r2}
    Guests = {g, h}
    Elsewhere = {h}
    None = None
    MaxStarts = 1
SYMMETRY Symmetry
INVARIANT
    DocumentGone
PROPERTY
    StaffSpared
CHECK_DEADLOCK FALSE
