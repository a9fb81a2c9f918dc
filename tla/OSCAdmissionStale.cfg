\* The cache may lag behind the Cluster that gardenlet wrote.
SPECIFICATION Spec
CONSTANTS
    Versions = {v1, v2}
    Pools = {a, b}
    Replicas = {r1, r2}
    Down = Down
    NoCluster = NoCluster
    NoOSC = NoOSC
    FreshCluster = FALSE
    MaxChanges = 3
SYMMETRY Symmetry
INVARIANTS
    KataPoolsInstall
CHECK_DEADLOCK FALSE
