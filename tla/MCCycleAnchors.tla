---------------------------- MODULE MCCycleAnchors ----------------------------
(* Players who are ranked in one queue each, and one who is ranked in two. *)
EXTENDS CycleAnchors

OneKeyEach == {<<"p1", "solo">>, <<"p2", "solo">>}
TwoQueues == {<<"p1", "solo">>, <<"p1", "flex">>}
===============================================================================
