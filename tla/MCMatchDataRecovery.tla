-------------------------- MODULE MCMatchDataRecovery --------------------------
(* Small instances of MatchDataRecovery: three matches of two continents, three *)
(* tables of two streams. NA1_2 is an aborted game: its payloads have no rows.  *)
EXTENDS MatchDataRecovery

MCMatch == {"NA1_1", "NA1_2", "EUW1_3"}
MCStream == {"non_timeline", "timeline"}
MCTable == {"metadata", "info", "tl_stats"}
MCStreamOf == [t \in MCTable |-> IF t = "tl_stats" THEN "timeline" ELSE "non_timeline"]
MCContent == [m \in MCMatch |-> IF m = "NA1_2" THEN {} ELSE MCTable]
SmallContent ==
    [m \in MCMatch |-> CASE m = "NA1_1" -> MCTable
                         [] m = "NA1_2" -> {}
                         [] OTHER -> {"metadata", "tl_stats"}]
MCStringKeyed == {"metadata"}
MCContinent == [m \in MCMatch |-> IF m = "EUW1_3" THEN "europe" ELSE "americas"]
MCContinentRank == [americas |-> 1, europe |-> 2]
MCShuffleKey == [NA1_1 |-> 1, NA1_2 |-> 2, EUW1_3 |-> 3]

\* Riot numbers the games of each platform: nothing keeps two platforms from using
\* the same number.
SharedIds == [NA1_1 |-> 1, NA1_2 |-> 2, EUW1_3 |-> 1]

NoItem == {}
NoTimelineOfNA2 == {<<"timeline", "NA1_2">>}
PayloadOfNA2 == {<<"non_timeline", "NA1_2">>}
==============================================================================
