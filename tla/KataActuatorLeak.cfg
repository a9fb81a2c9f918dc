\* ContainerRuntimes come and go while others are still being worked on.
SPECIFICATION Spec
CONSTANTS
    Kata = {p1, p2}
    Foreign = {}
    Serialised = FALSE
    MaxChanges = 4
    MaxFaults = 0
SYMMETRY Symmetry
INVARIANTS
    NoResourceLeft
CHECK_DEADLOCK FALSE
