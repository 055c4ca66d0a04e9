------------------------------ MODULE Sessions ------------------------------
(***************************************************************************)
(* Two uses of the program after each other: a quiet run (Batch), and the   *)
(* control center opened later, in which the recorded job can be edited and *)
(* run again (Form).  The job history is all that connects them.            *)
(***************************************************************************)
EXTENDS Batch, Form

vars == <<batchVars, formVars>>

Init == BatchInit /\ FormInit

\* The memory of the first process is gone; the rest is
\* kept to compare with.
Forget ==
    /\ sitemaps' = <<>> /\ children' = None /\ pages' = <<>> /\ read' = {}
    /\ waiting' = {} /\ busy' = {} /\ seen' = {}
    /\ stopping' = FALSE /\ failed' = FALSE
    /\ handler' = "none" /\ presses' = 0
    /\ out' = [out EXCEPT !.buffer = <<>>, !.rest = <<>>]
    /\ UNCHANGED <<cli, place, code, config, stats, history>>

OpenControlCenter ==
    /\ place = "exited"
    /\ dashboard = "closed"
    /\ dashboard' = "idle"
    /\ Forget
    /\ UNCHANGED <<edited, form, active, error, touched, edits, asked, started>>

Over == dashboard \in {"running", "failed"} /\ UNCHANGED vars

Next ==
    \/ BatchNext /\ UNCHANGED formVars
    \/ OpenControlCenter
    \/ FormNext(history) /\ UNCHANGED batchVars
    \/ Over

Spec == Init /\ [][Next]_vars

(***************************************************************************)
(* The runtime schedules the tasks and the signal handler, and requests end *)
(* (request_timeout).  A crawl need not end by itself, since links may lead *)
(* to ever new pages: no fairness for the begin of a page, nor for any key. *)
(***************************************************************************)
FairSpec ==
    /\ Spec
    /\ WF_vars(Working /\ UNCHANGED formVars)
    /\ WF_vars(Handle /\ UNCHANGED <<settingVars, sitemapVars, crawlVars, out, history, formVars>>)

-----------------------------------------------------------------------------
(* The limits a user may rely on, by the field that shows them. *)
Setting == [max_pages |-> "max_pages", depth |-> "max_depth", concurrency |-> "concurrency",
            scope |-> "scope", delay |-> "per_host_delay", robots_delay |-> "respect_crawl_delay"]

(* A recorded job that is edited runs again as it was recorded: with        *)
(* nothing touched it starts (neither the form nor main refuses it), each   *)
(* limit that was not touched is the one the recorded crawl ran under,      *)
(* though it went through the history as a text, and robots.txt is obeyed.  *)
EditRunsTheSame ==
    /\ edited # None /\ touched = {} => ~error /\ dashboard # "failed"
    /\ started # None =>
         /\ started.respect_robots
         /\ edited # None =>
              /\ \A f \in DOMAIN Setting \ touched : started[Setting[f]] = config[Setting[f]]
              /\ "target" \notin touched =>
                     started.seeds = <<ParseUrl[Trim[Head(cli.seeds \o cli.sitemap)]]>>
=============================================================================
