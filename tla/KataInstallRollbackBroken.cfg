\* The OSC may return to a version it carried before.
SPECIFICATION Spec
CONSTANTS
    Versions = {v1, v2}
    NoVersion = NoVersion
    Rollback = TRUE
    MaxFaults = 0
INVARIANTS
    RunInstallsPayload
