\* One command fails.
SPECIFICATION Spec
CONSTANTS
    Versions = {v1, v2}
    MayClean = FALSE
    MaxFailures = 1
    MaxInterrupts = 0
SYMMETRY Symmetry
INVARIANTS
    PushedIsPayload
