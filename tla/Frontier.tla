------------------------------ MODULE Frontier ------------------------------
(***************************************************************************)
(* The URL frontier of rustcrawl-core (frontier.rs): de-duplication, one    *)
(* queue per host, politeness delays, the depth limit and the page budget.  *)
(*                                                                         *)
(* The structure is sequential: the engine serialises every call with one   *)
(* mutex, so each method of Frontier is one action here.  The clock `now`   *)
(* stands for Instant::now(), which every caller of lease passes in.        *)
(***************************************************************************)
EXTENDS Naturals, Sequences, FiniteSets

CONSTANTS
    Url,          \* absolute URLs, canonical or not
    Host,         \* the keys of the per-host maps
    Depth,        \* depths a caller may give a task
    Delay,        \* delays a caller may give a host
    Canon,        \* Canon[u]: what normalize(u) returns
    HostOf,       \* HostOf[u]: what host_key(u) returns, None if no host
    BaseDelay,    \* config.per_host_delay
    MaxDepth,     \* config.max_depth, None for no limit
    MaxPages,     \* config.max_pages, None for no limit
    None,         \* the Option::None of the above
    Horizon       \* bound on the clock

(***************************************************************************)
(* normalize is idempotent and keeps the host: it drops the fragment, an    *)
(* empty query and a default port, and fills in an empty path.              *)
(***************************************************************************)
ASSUME FrontierAssumption ==
    /\ Depth \subseteq Nat
    /\ Delay \subseteq Nat
    /\ Canon \in [Url -> Url]
    /\ HostOf \in [Url -> Host \cup {None}]
    /\ \A u \in Url : Canon[Canon[u]] = Canon[u] /\ HostOf[Canon[u]] = HostOf[u]
    /\ BaseDelay \in Nat
    /\ MaxDepth \in Nat \cup {None}
    /\ MaxPages \in Nat \cup {None}
    /\ None \notin Host \cup Nat
    /\ Horizon \in Nat

VARIABLES
    queues,        \* per host, the tasks waiting to be leased
    next_allowed,  \* per host, the earliest next lease; None before the first
    host_delay,    \* per host, the delay set from robots.txt; None if never set
    seen,          \* the canonical URLs ever accepted
    queued,        \* the counter behind Frontier::queued
    active,        \* the counter behind Frontier::active
    dispatched,    \* how many tasks were ever leased
    now,           \* the monotonic clock
    last_lease     \* auxiliary: when each host was last leased, None if never

vars == <<queues, next_allowed, host_delay, seen, queued, active, dispatched,
          now, last_lease>>

Task == [url : Url, depth : Depth]

-----------------------------------------------------------------------------
(* Derived state. *)

\* The hosts that have a key in `queues`: lease removes an emptied queue.
Pending == {h \in Host : queues[h] # <<>>}

QueuedUrls == UNION {{queues[h][i].url : i \in DOMAIN queues[h]} : h \in Host}

\* Mutant of BudgetExhausted: the comparison is off by one.
BudgetMutant == MaxPages # None /\ dispatched > MaxPages

BudgetExhausted == MaxPages # None /\ dispatched >= MaxPages

DelayFor(h) == IF host_delay[h] = None THEN BaseDelay ELSE host_delay[h]

AllowedAt(h) == IF next_allowed[h] = None THEN now ELSE next_allowed[h]

\* Mutant of Earliest: the fold keeps the latest host.
EarliestMutant == {h \in Pending : \A g \in Pending : AllowedAt(h) >= AllowedAt(g)}

\* Hash order breaks ties, so any earliest host may be the one returned.
Earliest == {h \in Pending : \A g \in Pending : AllowedAt(h) <= AllowedAt(g)}

-----------------------------------------------------------------------------
Init ==
    /\ queues = [h \in Host |-> <<>>]
    /\ next_allowed = [h \in Host |-> None]
    /\ host_delay = [h \in Host |-> None]
    /\ seen = {}
    /\ queued = 0
    /\ active = 0
    /\ dispatched = 0
    /\ now = 0
    /\ last_lease = [h \in Host |-> None]

\* Mutant of Accepts: the seen set is asked for the URL before normalize.
AcceptsRawMutant(u, d) ==
    /\ MaxDepth # None => d <= MaxDepth
    /\ HostOf[Canon[u]] # None
    /\ u \notin seen

\* Mutant of Accepts: the depth limit is off by one.
AcceptsDeepMutant(u, d) ==
    /\ MaxDepth # None => d <= MaxDepth + 1
    /\ HostOf[Canon[u]] # None
    /\ Canon[u] \notin seen

\* Mutant of Accepts: only the URLs still waiting are de-duplicated.
AcceptsAgainMutant(u, d) ==
    /\ MaxDepth # None => d <= MaxDepth
    /\ HostOf[Canon[u]] # None
    /\ Canon[u] \notin QueuedUrls

\* Whether add(CrawlTask {u, d}) answers true.
Accepts(u, d) ==
    /\ MaxDepth # None => d <= MaxDepth
    /\ HostOf[Canon[u]] # None
    /\ Canon[u] \notin seen

\* add: an accepted task goes to the back of its host's queue.
Add(u, d) ==
    /\ IF Accepts(u, d)
         THEN /\ seen' = seen \cup {Canon[u]}
              /\ queues' = [queues EXCEPT ![HostOf[Canon[u]]] =
                               Append(@, [url |-> Canon[u], depth |-> d])]
              /\ queued' = queued + 1
         ELSE UNCHANGED <<seen, queues, queued>>
    /\ UNCHANGED <<next_allowed, host_delay, active, dispatched, now, last_lease>>

\* Mutant of SetHostDelay: the delay is overwritten, so robots.txt lowers it.
SetHostDelayMutant(u, d) ==
    /\ IF HostOf[u] # None
         THEN host_delay' = [host_delay EXCEPT ![HostOf[u]] = d]
         ELSE UNCHANGED host_delay
    /\ UNCHANGED <<queues, next_allowed, seen, queued, active, dispatched, now, last_lease>>

\* set_host_delay: only ever raises the delay, starting from the base delay.
SetHostDelay(u, d) ==
    /\ IF HostOf[u] # None
         THEN host_delay' = [host_delay EXCEPT ![HostOf[u]] =
                                IF d > DelayFor(HostOf[u]) THEN d ELSE DelayFor(HostOf[u])]
         ELSE UNCHANGED host_delay
    /\ UNCHANGED <<queues, next_allowed, seen, queued, active, dispatched, now, last_lease>>

-----------------------------------------------------------------------------
(* lease: exactly one of its four answers is possible in a state. *)

\* Mutant of LeaseDone: an empty queue is taken for the end of the crawl.
LeaseDoneMutant == BudgetExhausted \/ Pending = {}

LeaseDone == BudgetExhausted \/ (Pending = {} /\ active = 0)

LeaseIdle == ~BudgetExhausted /\ Pending = {} /\ active > 0

\* The answer Wait(WaitTime): all the earliest hosts are due at the same time.
LeaseWaits == ~BudgetExhausted /\ \E h \in Earliest : AllowedAt(h) > now

WaitTime == AllowedAt(CHOOSE h \in Earliest : TRUE) - now

\* The answer Ready(Head(queues[h])).
Lease(h) ==
    /\ ~BudgetExhausted
    /\ h \in Earliest
    /\ AllowedAt(h) <= now
    /\ queues' = [queues EXCEPT ![h] = Tail(@)]
    /\ next_allowed' = [next_allowed EXCEPT ![h] = now + DelayFor(h)]
    /\ last_lease' = [last_lease EXCEPT ![h] = now]
    /\ queued' = queued - 1
    /\ active' = active + 1
    /\ dispatched' = dispatched + 1
    /\ UNCHANGED <<host_delay, seen, now>>

\* complete: the engine pairs each call with a lease (the debug_assert).
Complete ==
    /\ active > 0
    /\ active' = active - 1
    /\ UNCHANGED <<queues, next_allowed, host_delay, seen, queued, dispatched, now, last_lease>>

Tick ==
    /\ now < Horizon
    /\ now' = now + 1
    /\ UNCHANGED <<queues, next_allowed, host_delay, seen, queued, active, dispatched, last_lease>>

Next ==
    \/ \E u \in Url, d \in Depth : Add(u, d)
    \/ \E u \in Url, d \in Delay : SetHostDelay(u, d)
    \/ \E h \in Host : Lease(h)
    \/ Complete
    \/ Tick

Spec == Init /\ [][Next]_vars

-----------------------------------------------------------------------------
(* Properties. *)

(* Every variable keeps the type frontier.rs declares for it. *)
TypeOK ==
    /\ queues \in [Host -> Seq(Task)]
    /\ next_allowed \in [Host -> Nat \cup {None}]
    /\ host_delay \in [Host -> Nat \cup {None}]
    /\ seen \subseteq Url
    /\ queued \in Nat
    /\ active \in Nat
    /\ dispatched \in Nat
    /\ now \in Nat
    /\ last_lease \in [Host -> Nat \cup {None}]

(* No URL waits twice, in one queue or in two. *)
NoDuplicates ==
    \A g, h \in Host : \A i \in DOMAIN queues[g], j \in DOMAIN queues[h] :
        queues[g][i].url = queues[h][j].url => g = h /\ i = j

(* The three counters agree with the collections they summarise: `queued`   *)
(* with the tasks in all the queues, and `dispatched` with the accepted     *)
(* URLs that have left them.  lease trusts both without looking again.      *)
Accounting ==
    /\ NoDuplicates
    /\ QueuedUrls \subseteq seen
    /\ queued = Cardinality(QueuedUrls)
    /\ dispatched + queued = Cardinality(seen)
    /\ active <= dispatched

(* A waiting task sits in the queue of its own host, carries a canonical    *)
(* URL and respects the depth limit, so its later lease delays that host.   *)
WellPlaced ==
    \A h \in Host : \A i \in DOMAIN queues[h] :
        LET t == queues[h][i] IN
        /\ HostOf[t.url] = h
        /\ Canon[t.url] = t.url
        /\ MaxDepth # None => t.depth <= MaxDepth

(* The page budget is never overdrawn, however tasks and leases interleave. *)
BudgetRespected == MaxPages # None => dispatched <= MaxPages

(* Done is final and honest: unless the budget ran out, every accepted URL  *)
(* was leased and every lease was returned.                                 *)
DoneIsDrained ==
    LeaseDone /\ ~BudgetExhausted => dispatched = Cardinality(seen) /\ active = 0

(* Wait(d) is honest: no waiting host could be leased now or before d has   *)
(* passed, so a worker that sleeps for d misses nothing already queued.     *)
WaitIsHonest ==
    LeaseWaits => /\ WaitTime > 0
                  /\ \A h \in Pending : /\ next_allowed[h] # None
                                        /\ next_allowed[h] >= now + WaitTime

\* A step that takes a task out of h's queue, which only a lease does.
Leased(h) == Len(queues'[h]) < Len(queues[h])

(* Politeness: two leases of one host are at least BaseDelay apart, however *)
(* the other hosts, set_host_delay and the clock interleave with them.      *)
LeaseSpacing ==
    [][\A h \in Host : Leased(h) /\ last_lease[h] # None
            => now >= last_lease[h] + BaseDelay]_vars
=============================================================================
