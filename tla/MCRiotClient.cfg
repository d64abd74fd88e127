SPECIFICATION FairSpec
CONSTANTS
    Task <- MCTask
    Calls = 2
    Interval = 2
    Attempts = 2
    MinWait = 1
    MaxWait = 10
    Timeout = 1
    MaxStall = 1
    LastStart = 1
    Incidents = 1
INVARIANTS
    TypeOK
    WithinBudget
    OwnSlot
    GivesUpAfterBackoff
    MetricsAgree
PROPERTIES
    FetchEnds
    SteadyButForStalls
