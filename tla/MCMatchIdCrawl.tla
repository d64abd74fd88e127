---------------------------- MODULE MCMatchIdCrawl ----------------------------
(* Three keys: one fills every page the crawl may ask for, one ends with a short *)
(* page, and one plays exactly one full page and has nothing after it.           *)
EXTENDS MatchIdCrawl

MCFullPages == [long |-> 3, short |-> 1, exact |-> 1]
MCRest == {"short"}
===============================================================================
