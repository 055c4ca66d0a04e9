-------------------------- MODULE MCControlCenter ---------------------------
(* A site, a sitemap and a text that is no URL; two delays, one unreadable.  *)
EXTENDS ControlCenter

MCTarget == {"site", "map", "junk"}
MCDelays == {"250ms", "soon"}
MCOldJobs == <<[seeds |-> <<"site">>, sitemaps |-> <<>>, delay |-> "250ms"]>>
NoTarget == [seeds |-> <<>>, sitemaps |-> <<>>, delay |-> "250ms", save |-> TRUE]
OneSite == [seeds |-> <<"site">>, sitemaps |-> <<"map">>, delay |-> "250ms", save |-> TRUE]

MCCommandLines == {NoTarget, OneSite}
WithoutTarget == {NoTarget}
=============================================================================
