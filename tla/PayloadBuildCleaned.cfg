\* The tree is cleaned.
SPECIFICATION Spec
CONSTANTS
    Versions = {v1, v2}
    MayClean = TRUE
    MaxFailures = 0
    MaxInterrupts = 0
SYMMETRY Symmetry
INVARIANTS
    PushedIsPayload
