SPECIFICATION Spec
CONSTANTS
    Match <- MCMatch
    Stream <- MCStream
    Table <- MCTable
    StreamOf <- MCStreamOf
    Content <- MCContent
    StringKeyed <- MCStringKeyed
    Continent <- MCContinent
    ContinentRank <- MCContinentRank
    ShuffleKey <- MCShuffleKey
    GameId <- SharedIds
    BatchSize = 2
    FlushAt = 2
    MaxAttempts = 2
    Missing <- NoItem
    Malformed <- NoItem
    Ambiguous = {}
    MaxIncidents = 2
    MaxCrawls = 1
INVARIANT FinishedIsStored
