\* The version may return to an earlier one.
SPECIFICATION Spec
CONSTANTS
    PullRequests = {a, b}
    Patches = {e, f}
    MaxVersion = 2
    MaxRelease = 0
    MaxMerges = 2
    Backwards = TRUE
    Nil = Nil
SYMMETRY Symmetry
INVARIANTS
    TagHasPayload
