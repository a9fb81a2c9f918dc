\* Upgrades only: every version is released at most once.
SPECIFICATION NodeFairSpec
CONSTANTS
    Versions = {v1, v2, v3}
    NoVersion = NoVersion
    Rollback = FALSE
    MaxFaults = 1
    Pods = {}
INVARIANTS
    RunInstallsPayload
    OnlyShimsRemain
PROPERTIES
    NeverWithout
    SettledServes
    PodsCanStart
CHECK_DEADLOCK FALSE
