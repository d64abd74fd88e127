SPECIFICATION FairSpec
CONSTANTS
    Regions <- MCRegions
    Continent <- MCContinent
    EliteTiers <- MCEliteTiers
    Ranks <- MCRanks
    EliteBounds <- MCEliteBounds
    BasicBounds <- MCBasicBounds
    None = "none"
    Entry <- MCEntry
    Book <- MCBook
    Invalid <- MCInvalid
    Upper = 3
    InFlight = 2
    BatchSize = 2
    Attempts = 2
    Runs = 2
    MaxIncidents = 2
INVARIANTS
    TypeOK
    BoundIsLastPage
    AllOrNothing
PROPERTIES
    SnapshotSurvives
    RunEnds
