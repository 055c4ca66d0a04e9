------------------------------- MODULE Engine -------------------------------
(***************************************************************************)
(* The crawl engine of rustcrawl-core (engine.rs): a pool of workers that   *)
(* lease tasks from one Frontier behind a mutex, fetch them, hand pages to  *)
(* a sink and feed the links they find back to the frontier, while a user   *)
(* pauses, resumes or stops the crawl.                                      *)
(*                                                                         *)
(* A step of a worker is what it does between two points where another     *)
(* thread can be seen: an atomic flag, an await, or the frontier's mutex.   *)
(* The program's surroundings (web sites, robots.txt, the sink) are         *)
(* constants that say which answers may come.                               *)
(***************************************************************************)
EXTENDS Naturals, Sequences, FiniteSets, Functions

CONSTANTS
    Url, Host, Depth, Delay, Canon, HostOf, BaseDelay, MaxDepth, MaxPages,
    None, Horizon,    \* as in Frontier
    Worker,           \* the workers run() spawns, config.concurrency of them
    Seeds,            \* config.seeds
    Sitemap,          \* the pages a sitemap advertises to seed_from_sitemap
    Allowed,          \* the URLs UrlFilter::allows accepts
    Links,            \* Links[u]: the links on the page served for u
    RespectRobots,    \* config.respect_robots
    RespectCrawlDelay,\* config.respect_crawl_delay
    RobotsSays,       \* RobotsSays[u]: verdicts robots.txt may give, TRUE to allow
    CrawlDelay,       \* CrawlDelay[u]: crawl delays it may advertise, None for none
    Replies,          \* Replies[u]: "html", "other" (not HTML) or "error"
    PageHook,         \* outcomes of Sink::page: "ok", "err", "panic"
    ErrorHook,        \* outcomes of Sink::error: "ok" (an Err is ignored), "panic"
    FinishHook,       \* outcomes of Sink::finish: "ok", "err"
    UserMay           \* the controls a user may use: "stop", "pause", "resume", "toggle"

VARIABLES
    \* the frontier, behind its mutex
    queues, next_allowed, host_delay, seen, queued, active, dispatched, now,
    last_lease,
    lock,             \* the worker that holds the mutex across several steps
    \* the other shared state
    paused, shutdown, \* the two flags
    error_slot,       \* whether a fatal error is recorded
    stats,            \* the counters of Stats
    sink,             \* the page records the sink has accepted
    rejected,         \* auxiliary: whether the sink refused a page
    requests, handed, \* auxiliary: per URL, how often it was fetched, and given to Sink::page
    \* each worker
    pc,
    task,             \* the leased task, None when it has none
    start,            \* when it sent its current request, None when there is none
    todo,             \* the links of the current page still to be enqueued
    found,            \* in_scope_links of the current page
    fresh,            \* newly_enqueued of the current page
    alarm,            \* how long to sleep, then until when
    unwinding,        \* the workers a panic is unwinding
    \* run()
    main, list, added, result

F == INSTANCE Frontier

frontierVars == <<queues, next_allowed, host_delay, seen, queued, active, dispatched, now,
                  last_lease>>
controlVars == <<paused, shutdown, error_slot>>
callVars == <<requests, handed>>
outputVars == <<stats, sink, rejected, callVars>>
pageVars == <<task, start, todo, found, fresh, unwinding>>
localVars == <<pageVars, alarm>>
mainVars == <<main, list, added, result>>
vars == <<frontierVars, lock, controlVars, outputVars, pc, localVars, mainVars>>

(***************************************************************************)
(* A child of a task within the depth limit has a depth of Depth, so the    *)
(* frontier's Next has a disjunct for every add the engine makes.  build()  *)
(* refuses a concurrency of 0.                                              *)
(***************************************************************************)
ASSUME EngineAssumption ==
    /\ F!FrontierAssumption
    /\ 0 \in Depth
    /\ \A d \in Depth : (MaxDepth = None \/ d <= MaxDepth) => d + 1 \in Depth
    /\ IsFiniteSet(Worker) /\ Worker # {}
    /\ None \notin Worker
    /\ None \notin F!Task \cup {"ok", "error"}
    /\ Seeds \in Seq(Url)
    /\ Sitemap \in Seq(Url)
    /\ Allowed \subseteq Url
    /\ Links \in [Url -> Seq(Url)]
    /\ RespectRobots \in BOOLEAN
    /\ RespectCrawlDelay \in BOOLEAN
    /\ RobotsSays \in [Url -> SUBSET BOOLEAN]
    /\ CrawlDelay \in [Url -> SUBSET (Delay \cup {None})]
    /\ Replies \in [Url -> SUBSET {"html", "other", "error"}]
    /\ PageHook \subseteq {"ok", "err", "panic"}
    /\ ErrorHook \subseteq {"ok", "panic"}
    /\ FinishHook \subseteq {"ok", "err"}
    /\ UserMay \subseteq {"stop", "pause", "resume", "toggle"}

(***************************************************************************)
(* Where a worker can be.  It holds a lease from "begin" to "complete", and *)
(* until "tally" or "fail" its task is in neither statistic yet.            *)
(***************************************************************************)
Uncounted == {"begin", "robots", "delay", "send", "reply", "lock", "link", "tally", "fail"}
Leasing == Uncounted \cup {"write", "drop", "complete"}
Ended == {"drained", "stopped", "dead"}
Place == {"new", "top", "gate", "ask", "unarmed", "asleep", "ring", "farewell"} \cup Leasing \cup Ended

-----------------------------------------------------------------------------
Init ==
    /\ F!Init
    /\ lock = None
    /\ paused = FALSE
    /\ shutdown = FALSE
    /\ error_slot = FALSE
    /\ stats = [fetched |-> 0, failed |-> 0, discovered |-> 0, in_flight |-> 0]
    /\ sink = {}
    /\ rejected = FALSE
    /\ requests = [u \in Url |-> 0]
    /\ handed = [u \in Url |-> 0]
    /\ pc = [w \in Worker |-> "new"]
    /\ task = [w \in Worker |-> None]
    /\ start = [w \in Worker |-> None]
    /\ todo = [w \in Worker |-> <<>>]
    /\ found = [w \in Worker |-> {}]
    /\ fresh = [w \in Worker |-> 0]
    /\ alarm = [w \in Worker |-> 0]
    /\ unwinding = {}
    /\ main = "sitemap"
    /\ list = Sitemap
    /\ added = 0
    /\ result = None

Goto(w, place) == pc' = [pc EXCEPT ![w] = place]

(***************************************************************************)
(* Notify::notify_waiters wakes every worker that is asleep, and leaves no  *)
(* permit behind: a worker that has not yet gone to sleep misses it.  A     *)
(* woken worker goes back to the top of its loop.                           *)
(***************************************************************************)
NotifyFrom(places) ==
    /\ pc' = [w \in Worker |-> IF places[w] = "asleep" THEN "top" ELSE places[w]]
    /\ alarm' = [w \in Worker |-> IF places[w] = "asleep" THEN 0 ELSE alarm[w]]
Notify == NotifyFrom(pc)
NotifyAndGoto(w, place) == NotifyFrom([pc EXCEPT ![w] = place])

-----------------------------------------------------------------------------
(* run(): sitemap seeds if the caller asked for them, then the seeds, then   *)
(* the workers.  Only the sitemap's URLs go through the filter.              *)

SeedNext ==
    /\ main \in {"sitemap", "seed"}
    /\ list # <<>>
    /\ list' = Tail(list)
    /\ LET u == Head(list) IN
         IF main = "seed" \/ u \in Allowed
           THEN /\ F!Add(u, 0)
                /\ added' = IF F!Accepts(u, 0) THEN added + 1 ELSE added
           ELSE UNCHANGED <<frontierVars, added>>
    /\ UNCHANGED <<lock, controlVars, outputVars, pc, localVars, main, result>>

\* The loop ends: publish the count, then go on to the seeds or spawn.
SeedEnd ==
    /\ main \in {"sitemap", "seed"}
    /\ list = <<>>
    /\ stats' = [stats EXCEPT !.discovered = @ + added]
    /\ added' = 0
    /\ \/ main = "sitemap" /\ main' = "seed" /\ list' = Seeds /\ UNCHANGED pc
       \/ main = "seed" /\ main' = "join" /\ pc' = [w \in Worker |-> "top"] /\ UNCHANGED list
    /\ UNCHANGED <<frontierVars, lock, controlVars, sink, rejected, callVars, localVars, result>>

\* Mutant of Return: the first worker to end ends the crawl.
ReturnMutant ==
    /\ main = "join"
    /\ \E w \in Worker : pc[w] \in Ended
    /\ main' = "returned"
    /\ result' = IF error_slot THEN "error" ELSE "ok"
    /\ UNCHANGED <<frontierVars, lock, controlVars, outputVars, pc, localVars, list, added>>

\* All handles joined (a panic is only logged): finish the sink and report.
Return ==
    /\ main = "join"
    /\ \A w \in Worker : pc[w] \in Ended
    /\ main' = "returned"
    /\ \E outcome \in FinishHook :
         result' = IF outcome = "err" \/ error_slot THEN "error" ELSE "ok"
    /\ UNCHANGED <<frontierVars, lock, controlVars, outputVars, pc, localVars, list, added>>

-----------------------------------------------------------------------------
(* worker(): one turn of the loop. *)

\* Mutant of CheckShutdown: the flag is not looked at.
CheckShutdownMutant(w) ==
    /\ pc[w] = "top"
    /\ Goto(w, "gate")
    /\ UNCHANGED <<frontierVars, lock, controlVars, outputVars, localVars, mainVars>>

CheckShutdown(w) ==
    /\ pc[w] = "top"
    /\ Goto(w, IF shutdown THEN "stopped" ELSE "gate")
    /\ UNCHANGED <<frontierVars, lock, controlVars, outputVars, localVars, mainVars>>

\* Mutant of CheckPaused: the flag is not looked at.
CheckPausedMutant(w) ==
    /\ pc[w] = "gate"
    /\ Goto(w, "ask")
    /\ UNCHANGED <<frontierVars, lock, controlVars, outputVars, localVars, mainVars>>

\* While paused, nap for IDLE_POLL, which is shorter than the clock's unit.
CheckPaused(w) ==
    /\ pc[w] = "gate"
    /\ Goto(w, IF paused THEN "unarmed" ELSE "ask")
    /\ UNCHANGED <<frontierVars, lock, controlVars, outputVars, localVars, mainVars>>

AskReady(w) ==
    /\ \E h \in Host : F!Lease(h) /\ task' = [task EXCEPT ![w] = Head(queues[h])]
    /\ Goto(w, "begin")
    /\ UNCHANGED alarm

AskWait(w) ==
    /\ F!LeaseWaits
    /\ alarm' = [alarm EXCEPT ![w] = F!WaitTime]
    /\ Goto(w, "unarmed")
    /\ UNCHANGED <<frontierVars, task>>

AskOther(w) ==
    /\ \/ F!LeaseIdle /\ Goto(w, "unarmed")
       \/ F!LeaseDone /\ Goto(w, "farewell")
    /\ UNCHANGED <<frontierVars, task, alarm>>

Ask(w) ==
    /\ pc[w] = "ask"
    /\ lock = None
    /\ AskReady(w) \/ AskWait(w) \/ AskOther(w)
    /\ UNCHANGED <<lock, controlVars, outputVars, start, todo, found, fresh, unwinding, mainVars>>

Farewell(w) ==
    /\ pc[w] = "farewell"
    /\ NotifyAndGoto(w, "drained")
    /\ UNCHANGED <<frontierVars, lock, controlVars, outputVars, pageVars, mainVars>>

\* wait_or_notified creates its two futures ...
Arm(w) ==
    /\ pc[w] = "unarmed"
    /\ alarm' = [alarm EXCEPT ![w] = now + alarm[w]]
    /\ Goto(w, "asleep")
    /\ UNCHANGED <<frontierVars, lock, controlVars, outputVars, pageVars, mainVars>>

\* Mutant of WakeUp: only a notification ends the wait.
WakeUpMutant(w) == FALSE

\* ... and the timer is one of the two that can end the wait.
WakeUp(w) ==
    /\ pc[w] = "asleep"
    /\ alarm[w] <= now
    /\ alarm' = [alarm EXCEPT ![w] = 0]
    /\ Goto(w, "top")
    /\ UNCHANGED <<frontierVars, lock, controlVars, outputVars, pageVars, mainVars>>

-----------------------------------------------------------------------------
(* process(): one leased task. *)

Begin(w) ==
    /\ pc[w] = "begin"
    /\ stats' = [stats EXCEPT !.in_flight = @ + 1]
    /\ Goto(w, IF RespectRobots THEN "robots" ELSE "send")
    /\ UNCHANGED <<frontierVars, lock, controlVars, sink, rejected, callVars, localVars, mainVars>>

CheckRobots(w) ==
    /\ pc[w] = "robots"
    /\ \E allow \in RobotsSays[task[w].url] :
         Goto(w, IF ~allow THEN "fail" ELSE IF RespectCrawlDelay THEN "delay" ELSE "send")
    /\ UNCHANGED <<frontierVars, lock, controlVars, outputVars, localVars, mainVars>>

HearDelay(w) ==
    /\ pc[w] = "delay"
    /\ \E d \in CrawlDelay[task[w].url] :
         IF d = None THEN UNCHANGED frontierVars
                     ELSE lock = None /\ F!SetHostDelay(task[w].url, d)
    /\ Goto(w, "send")
    /\ UNCHANGED <<lock, controlVars, outputVars, localVars, mainVars>>

Send(w) ==
    /\ pc[w] = "send"
    /\ start' = [start EXCEPT ![w] = now]
    /\ requests' = [requests EXCEPT ![task[w].url] = @ + 1]
    /\ Goto(w, "reply")
    /\ UNCHANGED <<frontierVars, lock, controlVars, stats, sink, rejected, handed, task, todo,
                   found, fresh, unwinding, alarm, mainVars>>

\* The fetcher's answer, after its retries; only an HTML body has links.
Reply(w) ==
    /\ pc[w] = "reply"
    /\ \E r \in Replies[task[w].url] :
         /\ todo' = [todo EXCEPT ![w] = IF r = "html" THEN Links[task[w].url] ELSE <<>>]
         /\ Goto(w, IF r = "error" THEN "fail" ELSE "lock")
    /\ start' = [start EXCEPT ![w] = None]
    /\ UNCHANGED <<frontierVars, lock, controlVars, outputVars, task, found, fresh, unwinding,
                   alarm, mainVars>>

\* enqueue_links: the mutex is held over the whole loop.
Lock(w) ==
    /\ pc[w] = "lock"
    /\ lock = None
    /\ lock' = w
    /\ Goto(w, "link")
    /\ UNCHANGED <<frontierVars, controlVars, outputVars, localVars, mainVars>>

Link(w) ==
    /\ pc[w] = "link"
    /\ todo[w] # <<>>
    /\ todo' = [todo EXCEPT ![w] = Tail(@)]
    /\ LET u == Head(todo[w])
           d == task[w].depth + 1
       IN IF u \in Allowed
            THEN /\ F!Add(u, d)
                 /\ found' = [found EXCEPT ![w] = @ \cup {u}]
                 /\ fresh' = [fresh EXCEPT ![w] = IF F!Accepts(u, d) THEN @ + 1 ELSE @]
            ELSE UNCHANGED <<frontierVars, found, fresh>>
    /\ UNCHANGED <<lock, controlVars, outputVars, pc, task, start, unwinding, alarm, mainVars>>

Unlock(w) ==
    /\ pc[w] = "link"
    /\ todo[w] = <<>>
    /\ lock' = None
    /\ Goto(w, "tally")
    /\ UNCHANGED <<frontierVars, controlVars, outputVars, localVars, mainVars>>

\* Mutant of Tally: every in-scope link counts as discovered.
TallyMutant(w) ==
    /\ pc[w] = "tally"
    /\ stats' = [stats EXCEPT !.discovered = @ + Cardinality(found[w]), !.fetched = @ + 1]
    /\ NotifyAndGoto(w, "write")
    /\ fresh' = [fresh EXCEPT ![w] = 0]
    /\ UNCHANGED <<frontierVars, lock, controlVars, sink, rejected, callVars, task, start, todo,
                   found, unwinding, mainVars>>

\* add_discovered and the wake-up if links were added, then inc_fetched.
Tally(w) ==
    /\ pc[w] = "tally"
    /\ stats' = [stats EXCEPT !.discovered = @ + fresh[w], !.fetched = @ + 1]
    /\ IF fresh[w] > 0 THEN NotifyAndGoto(w, "write")
                       ELSE Goto(w, "write") /\ UNCHANGED alarm
    /\ fresh' = [fresh EXCEPT ![w] = 0]
    /\ UNCHANGED <<frontierVars, lock, controlVars, sink, rejected, callVars, task, start, todo,
                   found, unwinding, mainVars>>

\* Mutant of FailCrawl: the crawl is stopped but the error is dropped.
FailCrawlMutant(w) ==
    /\ shutdown' = TRUE
    /\ NotifyAndGoto(w, "drop")
    /\ UNCHANGED <<error_slot, paused>>

\* fail_crawl: keep the error, request shutdown, wake everyone.
FailCrawl(w) ==
    /\ error_slot' = TRUE
    /\ shutdown' = TRUE
    /\ NotifyAndGoto(w, "drop")
    /\ UNCHANGED paused

WriteOk(w) ==
    /\ "ok" \in PageHook
    /\ sink' = sink \cup {[url |-> task[w].url, depth |-> task[w].depth, links |-> found[w]]}
    /\ Goto(w, "drop")
    /\ UNCHANGED <<controlVars, rejected, unwinding, alarm>>

WriteErr(w) ==
    /\ "err" \in PageHook
    /\ rejected' = TRUE
    /\ FailCrawl(w)
    /\ UNCHANGED <<sink, unwinding>>

\* Mutant of WritePanic: without LeaseGuard, the lease dies with the worker.
WritePanicMutant(w) ==
    /\ "panic" \in PageHook
    /\ Goto(w, "dead")
    /\ UNCHANGED <<controlVars, sink, rejected, alarm, unwinding>>

WritePanic(w) ==
    /\ "panic" \in PageHook
    /\ unwinding' = unwinding \cup {w}
    /\ Goto(w, "drop")
    /\ UNCHANGED <<controlVars, sink, rejected, alarm>>

Write(w) ==
    /\ pc[w] = "write"
    /\ WriteOk(w) \/ WriteErr(w) \/ WritePanic(w)
    /\ handed' = [handed EXCEPT ![task[w].url] = @ + 1]
    /\ found' = [found EXCEPT ![w] = {}]
    /\ UNCHANGED <<frontierVars, lock, stats, requests, task, start, todo, fresh, mainVars>>

\* Mutant of Fail: the failure is not counted.
FailMutant(w) ==
    /\ pc[w] = "fail"
    /\ Goto(w, "drop")
    /\ UNCHANGED <<frontierVars, lock, controlVars, outputVars, localVars, mainVars>>

\* record_failure: count, then tell the sink, whose refusal is ignored.
Fail(w) ==
    /\ pc[w] = "fail"
    /\ stats' = [stats EXCEPT !.failed = @ + 1]
    /\ \E outcome \in ErrorHook :
         unwinding' = IF outcome = "panic" THEN unwinding \cup {w} ELSE unwinding
    /\ Goto(w, "drop")
    /\ UNCHANGED <<frontierVars, lock, controlVars, sink, rejected, callVars, task, start, todo,
                   found, fresh, alarm, mainVars>>

\* LeaseGuard::drop, also when a panic unwinds: statistic, lease, wake-up.
Drop(w) ==
    /\ pc[w] = "drop"
    /\ stats' = [stats EXCEPT !.in_flight = @ - 1]
    /\ Goto(w, "complete")
    /\ UNCHANGED <<frontierVars, lock, controlVars, sink, rejected, callVars, localVars, mainVars>>

Complete(w) ==
    /\ pc[w] = "complete"
    /\ lock = None
    /\ F!Complete
    /\ task' = [task EXCEPT ![w] = None]
    /\ Goto(w, "ring")
    /\ UNCHANGED <<lock, controlVars, outputVars, start, todo, found, fresh, unwinding, alarm,
                   mainVars>>

Ring(w) ==
    /\ pc[w] = "ring"
    /\ NotifyAndGoto(w, IF w \in unwinding THEN "dead" ELSE "top")
    /\ unwinding' = unwinding \ {w}
    /\ UNCHANGED <<frontierVars, lock, controlVars, outputVars, task, start, todo, found, fresh,
                   mainVars>>

-----------------------------------------------------------------------------
(* Shutdown and CrawlControl: set a flag, then notify_waiters. *)

UserStop ==
    /\ "stop" \in UserMay
    /\ shutdown' = TRUE
    /\ UNCHANGED paused

UserPause ==
    /\ \/ "pause" \in UserMay /\ paused' = TRUE
       \/ "resume" \in UserMay /\ paused' = FALSE
       \/ "toggle" \in UserMay /\ paused' = ~paused
    /\ UNCHANGED shutdown

User ==
    /\ main # "returned"
    /\ UserStop \/ UserPause
    /\ Notify
    /\ UNCHANGED <<frontierVars, lock, error_slot, outputVars, pageVars, mainVars>>

\* Time passes only while a lease or a sleeper waits for it: later changes nothing.
Tick ==
    /\ \/ \E h \in Host : next_allowed[h] # None /\ next_allowed[h] > now
       \/ \E w \in Worker : pc[w] = "asleep" /\ alarm[w] > now
    /\ F!Tick
    /\ UNCHANGED <<lock, controlVars, outputVars, pc, localVars, mainVars>>

Done == main = "returned" /\ UNCHANGED vars

Loop(w) == CheckShutdown(w) \/ CheckPaused(w) \/ Ask(w) \/ Farewell(w) \/ Arm(w) \/ WakeUp(w)
Process(w) ==
    \/ Begin(w) \/ CheckRobots(w) \/ HearDelay(w) \/ Send(w) \/ Reply(w)
    \/ Lock(w) \/ Link(w) \/ Unlock(w) \/ Tally(w) \/ Write(w) \/ Fail(w)
    \/ Drop(w) \/ Complete(w) \/ Ring(w)
Run == SeedNext \/ SeedEnd \/ Return

Next ==
    \/ \E w \in Worker : Loop(w) \/ Process(w)
    \/ Run
    \/ User
    \/ Tick
    \/ Done

Spec == Init /\ [][Next]_vars

(***************************************************************************)
(* The runtime schedules every task that can run; a request ends because of *)
(* request_timeout and bounded retries; timers fire; the sink's methods     *)
(* return.  Nothing is assumed of the user.                                 *)
(***************************************************************************)
FairSpec ==
    /\ Spec
    /\ \A w \in Worker : WF_vars(Loop(w)) /\ WF_vars(Process(w))
    /\ WF_vars(Run)
    /\ WF_vars(Tick)

-----------------------------------------------------------------------------
(* Properties. *)

At(places) == {w \in Worker : pc[w] \in places}
Lost == At({"dead"})
InProgress == {task[w].url : w \in At(Leasing)}

(* Every variable keeps its type; a worker has a task exactly while it      *)
(* holds a lease.                                                           *)
TypeOK ==
    /\ F!TypeOK
    /\ lock \in Worker \cup {None}
    /\ {paused, shutdown, error_slot, rejected} \subseteq BOOLEAN
    /\ stats \in [fetched : Nat, failed : Nat, discovered : Nat, in_flight : Nat]
    /\ sink \subseteq [url : Url, depth : Nat, links : SUBSET Url]
    /\ requests \in [Url -> Nat] /\ handed \in [Url -> Nat]
    /\ pc \in [Worker -> Place]
    /\ \A w \in Worker : IF w \in At(Leasing) THEN task[w] \in F!Task ELSE task[w] = None
    /\ start \in [Worker -> Nat \cup {None}]
    /\ todo \in [Worker -> Seq(Url)]
    /\ found \in [Worker -> SUBSET Url]
    /\ fresh \in [Worker -> Nat]
    /\ alarm \in [Worker -> Nat]
    /\ unwinding \subseteq At({"drop", "complete", "ring"})
    /\ main \in {"sitemap", "seed", "join", "returned"}
    /\ list \in Seq(Url)
    /\ added \in Nat
    /\ result \in {None, "ok", "error"}

(* No page is lost between the counters that different threads update: the  *)
(* frontier's leases are the workers that hold one (also when a panic       *)
(* unwinds them), every dispatched task is fetched, failed or in a worker's *)
(* hands, and every accepted URL is counted as discovered or about to be.   *)
Ledger ==
    /\ active = Cardinality(At(Leasing))
    /\ dispatched = stats.fetched + stats.failed + Cardinality(At(Uncounted))
    /\ stats.in_flight = Cardinality(At(Leasing \ {"begin", "complete"}))
    /\ Cardinality(seen) = stats.discovered + added + FoldFunction(+, 0, fresh)

(* A worker that leaves because lease said Done leaves nothing behind: no   *)
(* queued task, and no page still being processed that could add links.     *)
NoPrematureExit ==
    At({"farewell", "drained"}) # {} /\ ~F!BudgetExhausted
        => F!Pending = {} /\ At(Leasing) = {}

(* Links to a host that was never leased may be followed at once, and they  *)
(* are: the crew is never all asleep for a politeness delay over such a     *)
(* task, though a worker about to sleep misses the wake-up for it.  (A crew *)
(* that lost a worker to a panic can be.)                                   *)
NoIdleCrew ==
    main = "join" /\ Lost = {} /\ ~shutdown /\ ~F!BudgetExhausted
        /\ (\E h \in F!Pending : next_allowed[h] = None)
    => \E w \in Worker : pc[w] \notin Ended /\ (pc[w] = "asleep" => alarm[w] <= now)

(* However many pages, seeds and sitemaps name a URL, in whatever spelling, *)
(* and however many workers race: it is fetched once (with the fetcher's    *)
(* retries), also when that fails, and given to Sink::page once, also when  *)
(* that refuses or panics.  A URL is a task's, not where redirects end.     *)
OnePagePerUrl ==
    /\ \A u \in Url : requests[u] <= 1 /\ handed[u] <= requests[u]
    /\ \A u, v \in Url : requests[u] # 0 /\ requests[v] # 0 /\ Canon[u] = Canon[v] => u = v

(* The summary run() returns is exact although the counters are relaxed     *)
(* atomics and workers may panic: every accepted URL is in it, fetched      *)
(* pages are those the sink accepted, but for at most one page of each lost *)
(* worker, and unless the crawl was cut short or all workers were lost, all *)
(* URLs were tried.                                                         *)
SummaryIsExact ==
    result = "ok" =>
        /\ stats.discovered = Cardinality(seen)
        /\ stats.in_flight = 0
        /\ Cardinality(sink) <= stats.fetched
        /\ stats.fetched <= Cardinality(sink) + Cardinality(Lost)
        /\ Lost # Worker /\ ~shutdown /\ ~F!BudgetExhausted =>
               stats.fetched + stats.failed = stats.discovered

(* error.rs "A sink failed in a way that should abort the crawl": a page    *)
(* the sink refused is never hidden by an Ok result, whatever the other     *)
(* workers do meanwhile.                                                    *)
SinkFailureSurfaces == rejected => result # "ok"

(* Shutdown "stops leasing new work": after the flag is set, only a worker  *)
(* already past its check can lease, and only once.                         *)
StopStopsLeasing ==
    [][shutdown => dispatched' + Cardinality(At({"gate", "ask"})')
                     <= dispatched + Cardinality(At({"gate", "ask"}))]_vars

(* Pause: "Workers stop leasing new URLs", but for those already past the   *)
(* check; it counts over every way to pause, resume and pause again.        *)
PauseStopsLeasing ==
    [][paused /\ paused' => dispatched' + Cardinality(At({"ask"})')
                              <= dispatched + Cardinality(At({"ask"}))]_vars

(* page.rs "Distance from the nearest seed": no page is deeper than one     *)
(* more than a page that links to it.  It needs pages to be fetched in      *)
(* order, so it holds for one worker on one host and fails for two workers. *)
DepthIsShortest ==
    \A p, q \in sink : q.url \in {Canon[u] : u \in p.links} => q.depth <= p.depth + 1

(* config.rs "Minimum delay between two requests to the same host": the     *)
(* requests themselves, not the leases, are BaseDelay apart.                *)
RequestSpacing ==
    \A v, w \in At({"reply"}) :
        v # w /\ HostOf[task[v].url] = HostOf[task[w].url]
          => start[v] >= start[w] + BaseDelay \/ start[w] >= start[v] + BaseDelay

(* The engine implements the crawl a caller expects.                        *)
C == INSTANCE Crawl WITH
        Concurrency <- Cardinality(Worker),
        phase <- CASE main = "join" -> "crawling" [] main = "returned" -> "closed"
                   [] OTHER -> "seeding",
        waiting <- F!QueuedUrls,
        inProgress <- InProgress,
        finished <- seen \ (F!QueuedUrls \cup InProgress),
        crew <- Cardinality(Worker) - Cardinality(Lost),
        stopping <- shutdown
RefinesCrawl == C!Spec

(* A crawl that is not left paused ends, although wake-ups can be missed    *)
(* and workers can panic.                                                   *)
Terminates == <>[](~paused) => <>(main = "returned")

(* A stop ends the crawl even while it is paused.                           *)
StopReturns == shutdown ~> main = "returned"
=============================================================================
