SPECIFICATION FairSpec
CONSTANTS
    Match <- MCMatch
    Stream <- MCStream
    Table <- MCTable
    StreamOf <- MCStreamOf
    Content <- SmallContent
    StringKeyed <- MCStringKeyed
    Continent <- MCContinent
    ContinentRank <- MCContinentRank
    ShuffleKey <- MCShuffleKey
    GameId <- SharedIds
    BatchSize = 2
    FlushAt = 2
    MaxAttempts = 2
    Missing <- NoItem
    Malformed <- PayloadOfNA2
    Ambiguous = {}
    MaxIncidents = 0
    MaxCrawls = 1
PROPERTY FailuresAreIsolated
