\* Two pools, two machine types, a CloudProfile that changes.
SPECIFICATION FairSpec
CONSTANTS
    Pools = {a, b}
    Machines = {m1, m2}
    Capabilities <- MCCapabilities
    Required <- MCRequired
    Rests = {old, new}
    NoMachine = NoMachine
    NoProfile = NoProfile
    NoWorker = NoWorker
    NoShoot = NoShoot
    MaxChanges = 3
PROPERTIES
    NewSpecSupported
    OperationsEnd
    DeletionsEnd
CHECK_DEADLOCK FALSE
