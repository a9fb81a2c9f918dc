\* Pull requests cross, checked before or after the merge; versions only grow.
SPECIFICATION Spec
CONSTANTS
    PullRequests = {a, b}
    Patches = {e}
    MaxVersion = 2
    MaxRelease = 1
    MaxMerges = 3
    Backwards = FALSE
    Nil = Nil
SYMMETRY Symmetry
INVARIANTS
    TagHasPayload
    TagInSync
PROPERTIES
    PublishedStays
