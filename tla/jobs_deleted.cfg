SPECIFICATION Spec
CONSTANTS
    Jobs = {j1}
    Users = {u1}
    Anonymous = Anonymous
    Keys = {k1}
    NoKey = NoKey
    NoJob = NoJob
    PromptRuns = TRUE
    TidyCleanup = TRUE
    MaxCrashes = 0
    MaxFaults = 0
SYMMETRY Symmetry
INVARIANT ResultGoneWithAccount
