\* The OSC may return to any version, while a pod comes and goes.
SPECIFICATION NodeSpec
CONSTANTS
    Versions = {v1, v2}
    NoVersion = NoVersion
    Rollback = TRUE
    MaxFaults = 2
    Pods = {p}
SYMMETRY Symmetry
INVARIANTS
    NodeTypeOK
    PublishedIntact
    ActiveIsComplete
    PodsKeepShim
PROPERTIES
    PodsKeepConfig
    ImplementsAtomicInstall
