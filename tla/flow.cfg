SPECIFICATION FairSpec
CONSTANTS
    MaxJobs = 2
    MaxCalls = 2
    MaxKeys = 2
    MaxTaps = 2
    MaxCancels = 1
INVARIANTS InProgressIsWatched ShownIsTrue
PROPERTY ProcessingScreenEnds
CHECK_DEADLOCK FALSE
