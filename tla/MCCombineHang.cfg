SPECIFICATION FairSpec
CONSTANTS
    Stream = {"non_timeline", "timeline"}
    N = 3
    MaxBuffer = 3
    Burst = 2
    MaxPumpErrors = 0
    SaverMayFail = TRUE
PROPERTY Ends
CHECK_DEADLOCK FALSE
