\* Runs are interrupted, a command or the registry fails, the tree is cleaned.
SPECIFICATION FairSpec
CONSTANTS
    Versions = {v1, v2}
    MayClean = TRUE
    MaxFailures = 1
    MaxInterrupts = 2
INVARIANTS
    UndisturbedIsPayload
    PackedIsVerified
PROPERTIES
    ImageIsPushed
