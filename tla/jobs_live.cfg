SPECIFICATION FairSpec
CONSTANTS
    Jobs = {j1, j2}
    Users = {}
    Anonymous = Anonymous
    Keys = {}
    NoKey = NoKey
    NoJob = NoJob
    PromptRuns = TRUE
    TidyCleanup = FALSE
    MaxCrashes = 1
    MaxFaults = 1
PROPERTY ProcessingEnds
PROPERTY ExpiredResultDeleted
PROPERTY PendingEnds
