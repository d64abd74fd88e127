SPECIFICATION FairSpec
CONSTANTS
    Match <- MCMatch
    Stream <- MCStream
    Table <- MCTable
    StreamOf <- MCStreamOf
    Content <- SmallContent
    StringKeyed <- MCStringKeyed
    Continent <- MCContinent
    ContinentRank <- MCContinentRank
    ShuffleKey <- MCShuffleKey
    GameId <- SharedIds
    BatchSize = 2
    FlushAt = 2
    MaxAttempts = 2
    Missing <- NoTimelineOfNA2
    Malformed <- NoItem
    Ambiguous = {"insert", "delete", "mark"}
    MaxIncidents = 2
    MaxCrawls = 1
INVARIANTS
    TypeOK
    FinishedIsPersisted
    RolledBackIsClean
    StoredOnce
    FairClaim
    IInv
PROPERTIES
    KeptWithFinish
    ImplementsLedger
    HealthyDrained
