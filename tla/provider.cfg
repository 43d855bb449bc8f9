SPECIFICATION FairSpec
CONSTANTS
    Jobs = {j1, j2, j3}
    LockTimeout = 1
    InferenceTimeout = 1
    StaleThreshold = 3
    Overhead = 1
    MaxStartFailures = 1
INVARIANTS OneGeneration LockIsBacked StaleIsDead
PROPERTIES EveryRunEnds
CHECK_DEADLOCK FALSE
