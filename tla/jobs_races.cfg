SPECIFICATION Spec
CONSTANTS
    Jobs = {j1, j2, j3}
    Users = {}
    Anonymous = Anonymous
    Keys = {k1}
    NoKey = NoKey
    NoJob = NoJob
    PromptRuns = FALSE
    TidyCleanup = TRUE
    MaxCrashes = 1
    MaxFaults = 0
SYMMETRY Symmetry
INVARIANT OneActivePerKey
INVARIANT CancelledNeverRuns
