\* An upgrade, without any fault.
SPECIFICATION NodeSpec
CONSTANTS
    Versions = {v1, v2}
    NoVersion = NoVersion
    Rollback = FALSE
    MaxFaults = 0
    Pods = {}
SYMMETRY Symmetry
PROPERTIES
    HandlerStays
CHECK_DEADLOCK FALSE
