SPECIFICATION FairSpec
CONSTANTS
    Stream = {"non_timeline", "timeline"}
    N = 3
    MaxBuffer = 3
    Burst = 2
    MaxPumpErrors = 2
    SaverMayFail = TRUE
INVARIANTS
    TypeOK
    InOrderOnce
    SettledMeansComplete
PROPERTIES
    FailureSurfaces
    EndsUnlessSaveRaised
CHECK_DEADLOCK FALSE
