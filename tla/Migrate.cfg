\* Overlapping runs with two failed statements or crashes.
CONSTANTS
    init = init  timezone = timezone  seed = seed
    Runner = {r1, r2}
    Database <- MCDatabase
    Files <- MCFiles
    Repeatable = {seed}
    MaxFaults = 2
SPECIFICATION FairSpec
INVARIANTS
    TypeOK
    AppliedOnceInOrder
    SuccessMeansMigrated
PROPERTIES
    EventuallyMigrated
CHECK_DEADLOCK FALSE
