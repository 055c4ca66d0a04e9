------------------------------ MODULE MCRobots ------------------------------
(* Two workers and two origins of one host.  Port 80 is spelled out in one  *)
(* URL and left out in another; it has a readable file, and port 8080 one   *)
(* without rules, with a delay that is no duration.                         *)
EXTENDS Robots, TLC

Page(port, path) == [scheme |-> "http", host |-> "a", port |-> port, path |-> path]
MCUrl == {Page(None, "p"), Page(80, "q"), Page(8080, "p")}
MCDefaultPort == [s \in {"http"} |-> 80]
MCDelay == {2}

Rules(paths, secs) == [kind |-> "rules", disallow |-> paths, secs |-> secs]
NoRules(kind) == [kind |-> kind, disallow |-> {}, secs |-> None]

MCAnswers ==
    (<<"http", "a", 80>> :> {Rules({"p"}, 2)}) @@
    (<<"http", "a", 8080>> :> {NoRules("status"), Rules({}, -1)})

\* The origin answers one of two requests in a short time with an error.
MCFlakyAnswers ==
    (<<"http", "a", 80>> :> {Rules({"p"}, 2), NoRules("down"), NoRules("garbage")}) @@
    (<<"http", "a", 8080>> :> {NoRules("cut")})
=============================================================================
