--------------------------- MODULE MCFeedCollect ----------------------------
(* Two sources, one with two articles; one callback label.                 *)
EXTENDS FeedCollect

MCSources == <<"s1", "s2">>
MCArticles == [s \in {"s1", "s2"} |-> IF s = "s1" THEN {1, 2} ELSE {1}]
=============================================================================
