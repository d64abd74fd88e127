---------------------------- MODULE MCPlayerCrawl ----------------------------
(* Two regions of two continents, an elite list of each, and the lists of one *)
(* rank in either queue: empty, of one page, within the limit and beyond it.  *)
EXTENDS PlayerCrawl
MCRegions == <<"euw1", "na1">>
MCContinent == "euw1" :> "europe" @@ "na1" :> "americas"
MCEliteTiers == <<"CHALLENGER", "GRANDMASTER">>
MCRanks == <<"DIAMOND I", "DIAMOND II", "DIAMOND III">>
MCEliteBounds ==
    <<[queue |-> "SOLO", collect |-> TRUE, upper |-> "none", lower |-> "CHALLENGER"],
      [queue |-> "FLEX", collect |-> FALSE, upper |-> "none", lower |-> "none"]>>
MCBasicBounds ==
    <<[queue |-> "SOLO", collect |-> TRUE, upper |-> "DIAMOND II", lower |-> "DIAMOND II"],
      [queue |-> "FLEX", collect |-> TRUE, upper |-> "DIAMOND III", lower |-> "none"]>>
MCBook ==
    <<"euw1", "SOLO", "CHALLENGER">> :> <<<<"ann", "bob">>>> @@
    <<"na1", "SOLO", "CHALLENGER">> :> <<<<"cid", "bad">>>> @@
    <<"euw1", "SOLO", "DIAMOND II">> :> <<<<"dan">>, <<"bad", "eve">>>> @@
    <<"na1", "SOLO", "DIAMOND II">> :> <<<<"fay">>, <<"gus">>, <<"hal">>, <<"ian">>>> @@
    <<"euw1", "FLEX", "DIAMOND III">> :> <<>> @@
    <<"na1", "FLEX", "DIAMOND III">> :> <<<<"jon">>>>
MCEntry == {"ann", "bob", "cid", "dan", "eve", "fay", "gus", "hal", "ian", "jon", "bad"}
MCInvalid == {"bad"}
\* Evaluated here, the jobs of all bounds are tabulated once.
ASSUME PageJobsAreTyped ==
    PageJobs \in [[BasicKeys -> 0 .. Upper] -> Seq(BasicKeys \X (1 .. Upper))]
==============================================================================
