\* Checked on the branch alone.
SPECIFICATION Spec
CONSTANTS
    PullRequests = {a, b}
    Patches = {e, f}
    MaxVersion = 1
    MaxRelease = 1
    MaxMerges = 2
    Backwards = FALSE
    Nil = Nil
SYMMETRY Symmetry
INVARIANTS
    MainImagesSuffice
