------------------------------ MODULE MCEngine ------------------------------
(* Engine over small webs.  Host "a" has pages a1 to a4, host "b" has page  *)
(* b1; each configuration picks the pages, links and answers it needs.      *)
EXTENDS Engine

CONSTANTS a, b, a1, a2, a3, a4, b1

MCHostOf == [u \in Url |-> IF u = b1 THEN b ELSE a]
MCCanon == [u \in Url |-> u]
\* a4 is another spelling of a2: a fragment, an empty query, a default port.
Spelled == [u \in Url |-> IF u = a4 THEN a2 ELSE u]
MCDepth == 0..4
MCDelay == {0, 2}

\* The seed a1 leads to the fresh host while the seed a2 has to wait for its
\* own; a3 is out of scope.
FanLinks == [u \in Url |-> IF u = a1 THEN <<a3, a4, b1>> ELSE <<a1>>]

\* Two pages of one host, all linked.
LoopLinks == [u \in Url |-> IF u = a1 THEN <<a2>> ELSE <<a1>>]

\* a4 is one link from the seed a1, and two links from the seed a2.
ChainLinks == [u \in Url |-> CASE u = a1 -> <<a4>> [] u = a2 -> <<a3, a1>>
                               [] u = a3 -> <<a4, a2>> [] OTHER -> <<a1, a3>>]

SeedA1 == <<a1>>
SeedTwice == <<a1, a2, a1>>
SeedSpelled == <<a1, a2, a4>>
NoSitemap == <<>>
SitemapA1 == <<a3, a1>>

Allow == [u \in Url |-> {TRUE}]
\* Only b1 is under a robots.txt that may refuse it or ask for a delay.
MCVerdicts == [u \in Url |-> IF u = b1 THEN BOOLEAN ELSE {TRUE}]
MCCrawlDelay == [u \in Url |-> IF u = a1 THEN {None, 2} ELSE IF u = b1 THEN {0} ELSE {None}]
NoCrawlDelay == [u \in Url |-> {None}]
AllHtml == [u \in Url |-> {"html"}]
MCReplies == [u \in Url |-> IF u = a2 THEN {"html", "error"} ELSE {"html"}]
AnyReply == [u \in Url |-> {"html", "other", "error"}]
=============================================================================
