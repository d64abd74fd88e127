SPECIFICATION FairSpec
CONSTANTS
    Stream = {"non_timeline", "timeline"}
    N = 2
    MaxBuffer = 3
    Burst = 2
    MaxPumpErrors = 1
    SaverMayFail = FALSE
INVARIANT FailureIsRolledBack
