\* gardenlet changes worker pools one batch after the other.
SPECIFICATION FairSpec
CONSTANTS
    Kata = {p1, p2}
    Foreign = {g}
    Serialised = TRUE
    MaxChanges = 5
    MaxFaults = 1
INVARIANTS
    TypeOK
    ReconciledHasResource
    NoResourceLeft
PROPERTIES
    MigrationKeepsClasses
    DeletionFinishes
    ClassesSettle
CHECK_DEADLOCK FALSE
