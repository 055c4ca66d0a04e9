-------------------------------- MODULE Batch --------------------------------
(***************************************************************************)
(* One quiet run of the rustcrawl program, from its command line to its     *)
(* exit: the settings are checked, the output file is created, the sitemaps *)
(* are read, the engine crawls, the output is flushed and the run is put on *)
(* record.  A task beside it hears Ctrl-C.                                  *)
(*                                                                         *)
(* The engine appears here by what Engine shows of it: at most concurrency  *)
(* pages in progress, taken in any order, links added and the page counted  *)
(* before it is written, and an end when nothing is left, the budget is     *)
(* spent or a stop was asked for.                                           *)
(***************************************************************************)
EXTENDS Settings, Output, FiniteSets

CONSTANTS
    CommandLines, \* the command lines the program may be started with
    BadAgent,     \* the user agents that make no header value
    OutputOpens,  \* whether the output file can be created: a set of BOOLEANs
    SaveWorks,    \* whether the history can be written: a set of BOOLEANs
    SitemapAt,    \* SitemapAt[u]: the XML events that may be read at u, None for none
    MaxSitemaps,
    Hrefs,        \* Hrefs[u]: the URLs the page at u refers to
    Unreachable,  \* the URLs whose fetch may fail
    MaxPresses    \* bound: how often Ctrl-C is pressed

\* The events of the XML reader, as in Sitemaps.
Event ==
    [kind : {"start", "end"}, name : STRING, url : {None}]
        \cup [kind : {"text"}, name : {None}, url : Url \cup {None}]
        \cup [kind : {"other", "error"}, name : {None}, url : {None}]

ASSUME BatchAssumption ==
    /\ CommandLines \subseteq CommandLine
    /\ \A c \in CommandLines : c.seeds \o c.sitemap # <<>>
    /\ MaxPresses \in Nat
    /\ MaxSitemaps \in Nat
    /\ \A u \in Url : SitemapAt[u] \subseteq Seq(Event) \cup {None}
    /\ None \notin Seq(Url)
    /\ None \notin {"ok", "error", "killed", "forced"}

VARIABLES
    cli, place, code,
    config,           \* the CrawlConfig, None before it is built
    sitemaps,         \* the --sitemap URLs still to be read
    children,         \* the children of the current index still to be read; None
                      \* while no sitemap is being read
    pages,            \* what the current sitemap has advertised so far
    waiting, busy,    \* the tasks of the frontier, and those of the workers with
                      \* the step each is at: "fetch", "count", "sink", "write", "fail"
    seen,             \* the URLs the frontier has accepted
    stats,
    stopping, failed, \* shutdown and error_slot
    handler, presses, \* the signal handler, and the presses so far
    out,              \* the output, as in Output
    history,          \* the records of the job history
    read              \* auxiliary: the sitemaps read, [url, events]

settingVars == <<cli, config>>
sitemapVars == <<sitemaps, children, pages, read>>
crawlVars == <<waiting, busy, seen, stats, failed>>
signalVars == <<handler, presses>>
batchVars == <<cli, place, code, config, sitemaps, children, pages, waiting, busy, seen, stats,
               stopping, failed, handler, presses, out, history, read>>

S == INSTANCE Sitemaps

\* An output file from before.
Before == [buffer |-> <<>>, file |-> <<[page |-> None, part |-> 0]>>, rest |-> <<>>, sound |-> TRUE]

filter == FromConfig(config)
Task(url, depth) == [url |-> url, depth |-> depth]
AtStep(task, step) == [url |-> task.url, depth |-> task.depth, step |-> step]

BatchInit ==
    /\ cli \in CommandLines
    /\ place = "start"
    /\ code = None
    /\ config = None
    /\ sitemaps = <<>>
    /\ children = None
    /\ pages = <<>>
    /\ waiting = {}
    /\ busy = {}
    /\ seen = {}
    /\ stats = [fetched |-> 0, failed |-> 0, discovered |-> 0]
    /\ stopping = FALSE
    /\ failed = FALSE
    /\ handler = "none"
    /\ presses = 0
    /\ out = Before
    /\ history = <<>>
    /\ read = {}

Exit(with) == place' = "exited" /\ code' = with

-----------------------------------------------------------------------------
(* from_cli, Engine::new and install_signal_handler. *)

Refuse(c) ==
    /\ Exit("error")
    /\ config' = c
    /\ UNCHANGED <<cli, sitemapVars, crawlVars, stopping, signalVars, history>>

RefuseSettings ==
    /\ ToConfig(cli) = None \/ ~Parses(cli.sitemap)
    /\ Refuse(None)
    /\ UNCHANGED out

RefuseOutput ==
    /\ ToConfig(cli) # None /\ Parses(cli.sitemap)
    /\ cli.output # None
    /\ FALSE \in OutputOpens
    /\ Refuse(None)
    /\ UNCHANGED out

\* The client cannot be built: too late for what the file held.
RefuseClient ==
    /\ ToConfig(cli) # None /\ Parses(cli.sitemap)
    /\ cli.output = None \/ TRUE \in OutputOpens
    /\ cli.user_agent \in BadAgent
    /\ Refuse(ToConfig(cli))
    /\ out' = Created

Launch ==
    /\ ToConfig(cli) # None /\ Parses(cli.sitemap)
    /\ cli.output = None \/ TRUE \in OutputOpens
    /\ cli.user_agent \notin BadAgent
    /\ config' = ToConfig(cli)
    /\ sitemaps' = SitemapUrls(cli)
    /\ out' = Created
    /\ place' = "sitemaps"
    /\ handler' = "spawned"
    /\ UNCHANGED <<cli, code, children, pages, read, crawlVars, stopping, presses, history>>

Prepare == place = "start" /\ (RefuseSettings \/ RefuseOutput \/ RefuseClient \/ Launch)

-----------------------------------------------------------------------------
(* seed_sitemaps: fetch_urls and seed_from_sitemap for each sitemap in turn. *)

\* Frontier::add for each URL, and the count of those it accepts.
Fresh(urls, depth) ==
    IF config.max_depth # None /\ depth > config.max_depth THEN {}
    ELSE {u \in {Normalize(v) : v \in urls} : HostKey(u) # None /\ u \notin seen}

Admit(urls, depth) ==
    /\ seen' = seen \cup Fresh(urls, depth)
    /\ waiting' = waiting \cup {Task(u, depth) : u \in Fresh(urls, depth)}

Allowed(urls) == {u \in urls : Allows(filter, u)}

\* A sitemap that cannot be fetched yields nothing (fetch_and_parse).
Note(u, events) == read' = IF events = None THEN read ELSE read \cup {[url |-> u, events |-> events]}

ReadRoot ==
    /\ children = None
    /\ sitemaps # <<>>
    /\ \E events \in SitemapAt[Head(sitemaps)] :
         /\ Note(Head(sitemaps), events)
         /\ pages' = IF events = None THEN <<>> ELSE S!Sitemap(events).pages
         /\ children' = IF events = None THEN <<>> ELSE S!Children(S!Sitemap(events))
    /\ UNCHANGED <<place, sitemaps, crawlVars>>

ReadChild ==
    /\ children # None /\ children # <<>>
    /\ \E events \in SitemapAt[Head(children)] :
         /\ Note(Head(children), events)
         /\ pages' = pages \o (IF events = None THEN <<>> ELSE S!Sitemap(events).pages)
    /\ children' = Tail(children)
    /\ UNCHANGED <<place, sitemaps, crawlVars>>

SeedFromSitemap ==
    /\ children = <<>>
    /\ LET urls == Allowed(Elements(pages)) IN
         /\ Admit(urls, 0)
         /\ stats' = [stats EXCEPT !.discovered = @ + Cardinality(Fresh(urls, 0))]
    /\ children' = None
    /\ sitemaps' = Tail(sitemaps)
    /\ UNCHANGED <<place, pages, read, busy, failed>>

\* Engine::seed, the start of run(): the seeds go past the filter.
Seed ==
    /\ children = None
    /\ sitemaps = <<>>
    /\ Admit(Elements(config.seeds), 0)
    /\ stats' = [stats EXCEPT !.discovered = @ + Cardinality(Fresh(Elements(config.seeds), 0))]
    /\ place' = "crawl"
    /\ UNCHANGED <<sitemapVars, busy, failed>>

Seeding ==
    /\ place = "sitemaps"
    /\ ReadRoot \/ ReadChild \/ SeedFromSitemap \/ Seed
    /\ UNCHANGED <<settingVars, code, stopping, signalVars, out, history>>

-----------------------------------------------------------------------------
(* The workers. *)

\* Every task that was accepted and waits no longer.
Dispatched == Cardinality(seen) - Cardinality(waiting)
BudgetSpent == config.max_pages # None /\ Dispatched >= config.max_pages

Begin(task) ==
    /\ ~stopping /\ ~BudgetSpent
    /\ Cardinality(busy) < config.concurrency
    /\ waiting' = waiting \ {task}
    /\ busy' = busy \cup {AtStep(task, "fetch")}
    /\ UNCHANGED <<seen, stats, failed, stopping, out>>

MoveOn(task, step) == busy' = (busy \ {task}) \cup {AtStep(task, step)}

\* The links of a page that enqueue_links adds.
Found(url) == Allowed(LinksOf(Hrefs[url]))

Enqueue(task) ==
    /\ task.step = "fetch"
    /\ Admit(Found(task.url), task.depth + 1)
    /\ stats' = [stats EXCEPT !.discovered = @ + Cardinality(Fresh(Found(task.url), task.depth + 1))]
    /\ MoveOn(task, "count")
    /\ UNCHANGED <<failed, stopping, out>>

Miss(task) ==
    /\ task.step = "fetch"
    /\ task.url \in Unreachable
    /\ busy' = busy \ {task}
    /\ stats' = [stats EXCEPT !.failed = @ + 1]
    /\ UNCHANGED <<waiting, seen, failed, stopping, out>>

\* inc_fetched
Count(task) ==
    /\ task.step = "count"
    /\ stats' = [stats EXCEPT !.fetched = @ + 1]
    /\ MoveOn(task, "sink")
    /\ UNCHANGED <<waiting, seen, failed, stopping, out>>

\* Mutant of CallSink: the mutex is not held from the record to its newline.
CallSinkMutant(task) ==
    /\ task.step = "sink"
    /\ Len(out.rest) <= 1
    /\ out' = [out EXCEPT !.rest = Line(task.url) \o @]
    /\ MoveOn(task, "write")
    /\ UNCHANGED <<waiting, seen, stats, failed, stopping>>

\* Sink::page takes its mutex when no other call is in it.
CallSink(task) ==
    /\ task.step = "sink"
    /\ out.rest = <<>>
    /\ out' = [out EXCEPT !.rest = Line(task.url)]
    /\ MoveOn(task, "write")
    /\ UNCHANGED <<waiting, seen, stats, failed, stopping>>

\* Mutant of Write: the result of the second write_all is dropped.
WriteMutant(task) ==
    /\ task.step = "write"
    /\ \/ /\ out' \in Page(out)
          /\ busy' = IF out'.rest = <<>> THEN busy \ {task} ELSE busy
       \/ /\ MayFail(out)
          /\ out' = Failed(out)
          /\ IF Len(out.rest) = 1 THEN busy' = busy \ {task} ELSE MoveOn(task, "fail")
    /\ UNCHANGED <<waiting, seen, stats, failed, stopping>>

\* A step of Sink::page: with the last one, or an error, the mutex is free.
Write(task) ==
    /\ task.step = "write"
    /\ \/ /\ out' \in Page(out)
          /\ busy' = IF out'.rest = <<>> THEN busy \ {task} ELSE busy
       \/ /\ MayFail(out)
          /\ out' = Failed(out)
          /\ MoveOn(task, "fail")
    /\ UNCHANGED <<waiting, seen, stats, failed, stopping>>

\* fail_crawl
Fail(task) ==
    /\ task.step = "fail"
    /\ failed' = TRUE
    /\ stopping' = TRUE
    /\ busy' = busy \ {task}
    /\ UNCHANGED <<waiting, seen, stats, out>>

Crawl(step) ==
    /\ place = "crawl"
    /\ step
    /\ UNCHANGED <<settingVars, place, code, sitemapVars, signalVars, history>>
Leasing == Crawl(\E task \in waiting : Begin(task))
Process(task) ==
    Enqueue(task) \/ Miss(task) \/ Count(task) \/ CallSink(task) \/ Write(task) \/ Fail(task)
Fetching == Crawl(\E task \in busy : Process(task))

Drained == busy = {} /\ (waiting = {} \/ stopping \/ BudgetSpent)

-----------------------------------------------------------------------------
(* The end: Sink::finish, save_if_needed, report. *)

Record == [job |-> TemplateFromCli(cli), stats |-> stats]

\* run() flushes before it looks at the error slot.
Finish ==
    /\ \/ out' \in Drain(out) /\ UNCHANGED <<place, code>>
       \/ out.buffer = <<>> /\ ~failed /\ place' = "save" /\ UNCHANGED <<code, out>>
       \/ out.buffer = <<>> /\ failed /\ Exit("error") /\ UNCHANGED out
       \/ out.buffer # <<>> /\ MayFail(out) /\ out' = Failed(out) /\ place' = "drop" /\ UNCHANGED code
    /\ UNCHANGED history

\* A BufWriter that is dropped tries to flush what is left and reports nothing.
Drop ==
    /\ \/ out' \in Drain(out) /\ UNCHANGED <<place, code>>
       \/ out.buffer = <<>> /\ Exit("error") /\ UNCHANGED out
       \/ out.buffer # <<>> /\ MayFail(out) /\ out' = Failed(out) /\ Exit("error")
    /\ UNCHANGED history

Save ==
    /\ \/ /\ cli.no_save \/ TRUE \in SaveWorks
          /\ history' = IF cli.no_save THEN history ELSE Append(history, Record)
          /\ place' = "report"
          /\ UNCHANGED code
       \/ ~cli.no_save /\ FALSE \in SaveWorks /\ Exit("error") /\ UNCHANGED history
    /\ UNCHANGED out

Report == Exit("ok") /\ UNCHANGED <<out, history>>

Ending ==
    /\ \/ place = "crawl" /\ Drained /\ Finish
       \/ place = "drop" /\ Drop
       \/ place = "save" /\ Save
       \/ place = "report" /\ Report
    /\ UNCHANGED <<settingVars, sitemapVars, crawlVars, stopping, signalVars>>

-----------------------------------------------------------------------------
(* Ctrl-C.  Until the handler waits for the first time the signal kills the *)
(* process; later a press that finds no one waiting is lost.                *)

Press ==
    /\ place # "exited"
    /\ presses < MaxPresses
    /\ presses' = presses + 1
    /\ \/ handler \in {"none", "spawned"} /\ Exit("killed") /\ UNCHANGED handler
       \/ handler = "first" /\ handler' = "heard" /\ UNCHANGED <<place, code>>
       \/ handler = "second" /\ handler' = "heard again" /\ UNCHANGED <<place, code>>
       \/ handler \in {"heard", "triggered", "heard again"} /\ UNCHANGED <<handler, place, code>>
    /\ UNCHANGED stopping

\* Mutant of Handle: the handler waits again before it triggers the stop.
HandleMutant ==
    /\ place # "exited"
    /\ \/ handler = "spawned" /\ handler' = "first" /\ UNCHANGED <<place, code, stopping>>
       \/ handler = "heard" /\ handler' = "second" /\ UNCHANGED <<place, code, stopping>>
       \/ handler = "heard again" /\ Exit("forced") /\ UNCHANGED <<handler, stopping>>
    /\ UNCHANGED presses

Handle ==
    /\ place # "exited"
    /\ \/ handler = "spawned" /\ handler' = "first" /\ UNCHANGED <<place, code, stopping>>
       \/ handler = "heard" /\ handler' = "triggered" /\ stopping' = TRUE /\ UNCHANGED <<place, code>>
       \/ handler = "triggered" /\ handler' = "second" /\ UNCHANGED <<place, code, stopping>>
       \/ handler = "heard again" /\ Exit("forced") /\ UNCHANGED <<handler, stopping>>
    /\ UNCHANGED presses

Signals ==
    /\ Press \/ Handle
    /\ UNCHANGED <<settingVars, sitemapVars, crawlVars, out, history>>

Working == Prepare \/ Seeding \/ Fetching \/ Ending
BatchNext == Working \/ Leasing \/ Signals

-----------------------------------------------------------------------------
(* Properties. *)

\* The lines of different pages one after the other; the last may be cut.
InLines(file) ==
    \A i \in DOMAIN file :
        /\ file[i].part = 1 + ((i - 1) % 3)
        /\ file[i].part > 1 => file[i].page = file[i - 1].page
        /\ \A j \in DOMAIN file : file[j] = file[i] => j = i

(* A record in the history, and exit code 0, are given only for a crawl     *)
(* whose pages are all in the file: as many lines as the record counts, all *)
(* whole and ended, none twice; however flushes, write errors and signals   *)
(* fell.                                                                    *)
SavedMeansWritten ==
    (history # <<>> \/ code = "ok") =>
        /\ InLines(out.file)
        /\ Len(out.file) = 3 * stats.fetched
        /\ history # <<>> => history[Len(history)].stats = stats

(* "A second Ctrl-C forces an exit", at any point of a write or a flush, as *)
(* a kill or an error does: what it leaves are the whole lines of different *)
(* pages and, at the very end only, at most one that is cut, unless a write *)
(* itself has failed.                                                       *)
KilledOutputIsUsable == out.sound /\ out.file # Before.file => InLines(out.file)

\* The URLs whose links have not been taken, and every URL that another
\* page, or a sitemap read, names.
Unread == {t.url : t \in waiting} \cup {t.url : t \in {b \in busy : b.step = "fetch"}}
Offered ==
    (UNION {LinksOf(Hrefs[u]) : u \in seen \ Unread})
        \cup (UNION {S!Advertised(r.events) : r \in read})

(* Nothing but the seeds is crawled outside the scope or by another scheme, *)
(* and nothing excluded: the filter looks at a URL before normalize does,   *)
(* so the patterns bind it in a spelling that it was offered in.            *)
BoundsHold ==
    config # None =>
        \A u \in seen \ {Normalize(s) : s \in Elements(config.seeds)} :
            /\ u.scheme \in Http
            /\ InScope(filter, u)
            /\ \E v \in Offered : Normalize(v) = u /\ ~Excluded(filter, v) /\ Included(filter, v)

(* Whatever pages a sitemap advertises, or the sitemaps of an index do, the *)
(* frontier has got before the crawl begins, if it may be crawled: by the   *)
(* elements of the XML, and not by the flags parse keeps of them.           *)
SitemapIsSeeded ==
    place = "crawl" =>
        \A r \in read : S!Whole(r.events) =>
            \A u \in S!AdvertisedPages(r.events) : Allows(filter, u) => Normalize(u) \in seen

(* A Ctrl-C that is heard ends the run, also while sitemaps are read or the *)
(* output fails; and so does one that is heard after it.                    *)
CtrlCEnds == handler \in {"heard", "heard again"} ~> place = "exited"
=============================================================================
