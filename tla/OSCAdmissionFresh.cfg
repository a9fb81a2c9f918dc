\* The webhook's cache has the Cluster before gardenlet writes the OSCs.
SPECIFICATION Spec
CONSTANTS
    Versions = {v1, v2}
    Pools = {a, b}
    Replicas = {r1, r2}
    Down = Down
    NoCluster = NoCluster
    NoOSC = NoOSC
    FreshCluster = TRUE
    MaxChanges = 2
SYMMETRY Symmetry
INVARIANTS
    TypeOK
    KataPoolsInstall
    NoDuplicates
    ForeignKept
    OthersUntouched
CHECK_DEADLOCK FALSE
