----------------------------- MODULE MCRiotClient -----------------------------
(* Three fetches from one location.  A tick is a second; with one slot every *)
(* two ticks and two calls a period, a third fetch and every retry has to    *)
(* wait for its place.                                                       *)
EXTENDS RiotClient
MCTask == {"f1", "f2", "f3"}
==============================================================================
