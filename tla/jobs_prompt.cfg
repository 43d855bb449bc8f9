SPECIFICATION Spec
CONSTANTS
    Jobs = {j1, j2}
    Users = {u1}
    Anonymous = Anonymous
    Keys = {k1}
    NoKey = NoKey
    NoJob = NoJob
    PromptRuns = TRUE
    TidyCleanup = TRUE
    MaxCrashes = 1
    MaxFaults = 1
SYMMETRY Symmetry
PROPERTY TerminalIsFinal
PROPERTY ImplementsLifecycle
INVARIANT PromptInv
INVARIANT FreshResultAvailable
INVARIANT NoStrayResult
INVARIANT UploadsGoneWhenOver
