SPECIFICATION TimedSpec
CONSTANTS
    Jobs = {j1, j2}
    Users = {}
    Anonymous = Anonymous
    Keys = {}
    NoKey = NoKey
    NoJob = NoJob
    PromptRuns = TRUE
    TidyCleanup = TRUE
    MaxCrashes = 1
    MaxFaults = 1
    LockTimeout = 1
    InferenceTimeout = 1
    StaleThreshold = 3
    Overhead = 1
    MaxStartFailures = 1
PROPERTY ImplementsTryOnJobs
