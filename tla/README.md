# A TLA+ model of rustcrawl

rustcrawl is a web crawler: a library (`crates/rustcrawl-core`) whose engine runs a pool of
asynchronous workers over one shared URL frontier, and a command-line program
(`crates/rustcrawl-cli`) with an interactive dashboard and a history of past runs.
This directory holds TLA+ modules translated from that code, TLC configurations that check them
on small instances, and proofs, checked by TLAPS, of what holds for every instance.
Paths below are relative to the repository; line numbers are those of the commit the modules were
written from. `PROJECT.json` maps every definition to its lines.

## 1. Inventory

| Part (source) | State it keeps | Operations | What makes it correct |
|---|---|---|---|
| Frontier (`frontier.rs`) | queue per host, `next_allowed`, `host_delay`, `seen`, counters `queued`, `active`, `dispatched` | `add`, `set_host_delay`, `lease` (Ready, Wait, Idle, Done), `complete` | one lease per URL; counters agree with the queues; budget and depth limit; spacing of leases; an honest Wait and Done |
| Engine (`engine.rs`) | frontier behind a mutex, `paused`, `shutdown`, `error_slot`, `Notify` | `run`, `seed`, `seed_from_sitemap`, worker loop, `process`, `enqueue_links`, `LeaseGuard`, `Shutdown`, `CrawlControl` | nobody leaves early, nothing is lost, the crawl ends, controls work, a sink failure is reported |
| Live metrics (`stats.rs`) | five relaxed atomics | increments, `snapshot` | the final summary is exact |
| Robots cache (`robots.rs`) | entry per origin behind an async mutex | `allowed`, `crawl_delay`, `entry_for`, `fetch_entry` | one request per worker and origin, rules from the right origin, rules kept |
| Fetcher (`fetcher.rs`) | attempt counter and buffer of a call | `fetch`, `try_fetch`, `read_capped`, backoff | bounded retries, whole bodies within the limit |
| Job history (`jobs.rs`) | `.rustcrawl/jobs.jsonl` | `append`, `clear`, `load` | no record lost, doubled or made up, whatever processes and crashes do |
| Control loop (`main.rs`), dashboard (`progress.rs`) | current request; view mode, form, selection, list of jobs; queue of actions | the two loops of `run`, `run_interactive_job`, `ProgressHandle`, `handle_keys`, `handle_form_key` | only requested crawls run; a quit key ends the program; what is shown is what happened |
| Batch run (`main.rs`) | `CrawlConfig`, output, signal handler | `from_cli`, `seed_sitemaps`, `run_until_done`, `save_if_needed`, `install_signal_handler` | a success means everything is written; whatever ends it leaves whole lines; Ctrl-C ends it |
| Settings (`config.rs`, `cli.rs`, `JobTemplate`, `NewJobSpec`) | none after construction | builder, `to_config`, `from_job`, `editable_spec`, `from_dashboard` | what is built is valid; a setting survives record and form |
| New-job form (`progress.rs`) | nine fields, the active one, an error | open empty or with a job, move, type, Esc, Enter | an untouched field keeps its value; what was accepted once is accepted again |
| Sitemaps (`sitemap.rs`) | two flags and two lists per document | `parse`, `fetch_urls`, `fetch_and_parse` | every advertised page, one level of indexes, at most 50 |
| Filter, normaliser, links (`filter.rs`, `normalize.rs`, `parser.rs`) | none after construction | pure functions | scope and patterns; idempotence; same host |
| Sinks (`sink.rs`) | a buffered writer behind a mutex | `page`, `error`, `finish` | whole lines; failures returned |

**How they interact.** The engine's workers call the frontier under a `std::sync::Mutex`, the
robots cache through an async mutex that is *not* held over its request, the fetcher through
awaits, and the sink through an async trait. Workers wait with `tokio::select!` over a timer and
`Notify::notified()`; `notify_waiters` wakes those already waiting and leaves no permit. The
command line's main task owns the engine; the dashboard is a second task that reads the terminal
and talks to it through a queue of actions, one `Finished` message and the engine's control handle.
Processes that share a directory share the history file, with no lock. Settings go from the command
line or the form into a `CrawlConfig`, from there as texts into the history, and from the history back
into a form.

**What is hard.** Interleavings of workers around the lease (who may leave, who still adds);
wake-ups that are missed; panics that unwind a worker holding a lease; flags read before the lease
they guard; delays fixed before the robots.txt that changes them is read; cold-cache races;
appends cut short or cut into each other; keys handled by one task while the crawl ends in another;
a page written in pieces when a write fails or a second Ctrl-C exits between two of them; settings
checked in three places, one of them after the output file was truncated.
`PROJECT.json` lists 39 such hazards at their lines with the properties that would catch them. Five have
no property: `now + delay` at `frontier.rs:142` panics, with the mutex held, for a delay of centuries,
and the model's clock has no end; a line of the history that is not UTF-8 ends its reading
(`jobs.rs:251`), against `jobs.rs:243`, so the runs leave such lines out; and for three no document says
what should happen, so there is nothing to hold the code to (all workers lost to panics, `engine.rs:258`;
a delay or target typed into the form that does not parse, `main.rs:173`; a refusal after the output file
was truncated, `main.rs:83`). The models contain these four, and section 5 describes them.

## 2. The modules

| Module | Models | Uses |
|---|---|---|
| `Frontier` | `frontier.rs`, one action per method | |
| `Engine` | `engine.rs` and the counters of `stats.rs` | `Frontier` as an instance `F` |
| `Crawl` | what a crawl promises, without workers, locks or wake-ups | abstract; `Engine` implements it |
| `Robots` | `robots.rs` | |
| `Fetcher` | one call of `Fetcher::fetch` | |
| `JobStore` | the history file, write by write | |
| `ControlCenter` | `main.rs`'s interactive loops and the keys of `progress.rs` | |
| `Urls` | `normalize.rs`, `filter.rs`, the links of `parser.rs`, on the components of a URL | |
| `Settings` | `config.rs`, `cli.rs`, `JobTemplate`, `NewJobSpec` and the form's checks | `Urls` |
| `Output` | `sink.rs` over a `BufWriter`, one step per write to the file | |
| `Sitemaps` | `sitemap.rs`, as a fold over the events of the XML reader | |
| `Batch` | one quiet run of the program, from its command line to its exit code, and its signal handler | `Settings`, `Output`, `Sitemaps` as `S` |
| `Form` | the new-job form's values, and the run Enter starts | `Settings` |
| `Sessions` | a quiet run, then the control center in which its record is edited and run again | `Batch`, `Form` |
| `FrontierProofs`, `RobotsProofs`, `FetcherProofs`, `JobStoreProofs`, `ControlCenterProofs` | invariants and theorems | the module they are named after |
| `EngineProofs`, `CrawlProofs` | the engine's invariant; its theorems and the refinement of `Crawl` | `Engine`, `FrontierProofs` |
| `SessionsProofs` | theorems about URLs and settings, for all values; the output, what a success and an abort mean, the way of a job through the form, sitemaps and bounds | `Sessions` |
| `MC*` | the instances TLC checks | the module they are named after |

### Frontier

The frontier is sequential: every call is made under the engine's mutex, so each method is one
step. The state is the struct's, field by field. A host's queue that is `<<>>` stands for a key
that is absent from the hash map, which is what `lease` makes of an emptied queue. The order of a
hash map is arbitrary, so `Earliest` is the *set* of hosts the fold may return. `lease` is split by
answer: `Lease(h)` changes the state, while `LeaseWaits`, `LeaseIdle` and `LeaseDone` are
conditions the engine acts on. `now` is the clock each caller passes in and only moves forward;
`Horizon` bounds it for TLC. `last_lease` is auxiliary, for stating the spacing.
URLs are abstract, with `Canon` for `normalize` and `HostOf` for `host_key`; `FrontierAssumption`
says that `Canon` is idempotent and keeps the host.

### Engine and Crawl

A worker's program counter names the point between two moments at which another thread can see or
change something: an atomic, an await, or the mutex. `top`, `gate` and `ask` are the two flag
reads and the lease; `unarmed` and `asleep` are the two sides of `wait_or_notified`, kept apart
because a notification between them is lost; `robots`, `delay`, `send`, `reply` are
`process`'s awaits; `lock`, `link`, `tally` are `enqueue_links`, whose mutex is held over the
whole loop (the variable `lock`); `write` is the sink; `drop`, `complete`, `ring` are
the three steps of `LeaseGuard::drop`, which a panic runs too (`unwinding`). `main` is
`run()`: sitemap, seeds, join, return. The frontier's state is Engine's own, and each call is the
corresponding action of `F == INSTANCE Frontier`. The surroundings are constants that
say what may come: `Replies`, `RobotsSays`, `CrawlDelay`, and the outcomes of the sink's hooks.

`Crawl` has sets of waiting, in-progress and finished URLs, and a crew that shrinks when a worker
panics. `Engine`'s `RefinesCrawl` maps the queues, the workers' tasks and `main` onto them.
It says in one formula that each URL goes through once, that new URLs come only from a page in
progress, and that the crawl closes only when it is drained, out of budget, stopped or without
workers. Two auxiliary counters per URL, `requests` and `handed`, count the calls of `Fetcher::fetch` and
of `Sink::page`, those that fail, are refused or panic included; `OnePagePerUrl` bounds them.

### Robots

A lookup is `Call`, `Check` (first lock), `Fetch` (no lock), `Insert` (second lock), `Reply`.
URLs are records so that the key (scheme, host, known port) can be built as `origin_key` builds it. An origin's answer
is one of no response, not a success, a body that breaks off, garbage, or rules with a
Crawl-delay that may be unreadable.

### Fetcher

`Send` covers `send()` and the tests on the head of the response, in the code's order; `Chunk` and
`BodyEnd` are `read_capped`; `Retry` and `GiveUp` are the match in `fetch`. Durations are in
milliseconds. `heard` keeps the answers, so a property can compare what the fetcher did with what
it was told.

### JobStore

`append` uses an unbuffered `File` opened for appending, to which `serde_json` writes in several
calls and the newline in another. A record is `Pieces` writes; every write is a step, and other processes, a crash or a
full disk (`Crash`) and `clear` come between. `clear` unlinks the name, so a process that
has the file open writes on into a file nobody can load (`handle` is `gone`). `load` is defined by
its stages: lines by the positions at which they end, reading up to the first that is not UTF-8, the lines that
are one whole record in the order of the file, recent ones. `alone` and
`kept` are auxiliary: which records ended on a line of their own.

### ControlCenter

`main` is where the main task is; `app` the open dashboard's state; `actions` the queue between
them; `message` the `Finished` message. One key is one step, with the guards of the
match arms in their order: what an earlier arm takes is not left for a later one.
A form keeps the target, the delay and the save flag, since the other fields change only the configuration.

### Urls, Settings, Output, Sitemaps

These hold no state: they are operators on values that `Batch` and `Form` apply. A URL is what
`Url::parse` returns, component by component, so `Normalize` and `HostKey` are written as the code
has them; the Public Suffix List and the regular expressions are constants. A text is a value, and
constants (`ParseUrl`, `ParseTime`, `Trim`, ...) say what the parsers make of it; `SettingsAssumption`
names what is assumed of them (trimming twice changes nothing, `humantime` reads what it formats).
`Build` is every check of `CrawlConfigBuilder::build`; None is its error.

A line is three pieces: its record in two, so that it can be cut, and the newline. An output is what is
buffered, what is in the file, what the call that holds the mutex has still to write (`rest`), and whether no
write has failed so far. `Page` is one step of a `Sink::page` that is under way: `Buffered` copies the record or
the newline, `Drain` is one `write(2)` of a flush, which takes as much of the buffer as it likes, `Bypass` one
of a record too long for the buffer. `Failed` is a write that fails, with the rest still buffered. So the
program can end between any two writes, and a write can be cut anywhere.

`Sitemap` folds over the XML events with the two flags of `parse`. Its properties compare it with a
reference that does without them: the pages of the `url` elements, found by nesting.

### Batch, Form and Sessions

`Prepare` is `from_cli` up to the engine, in the order of its checks: a refusal before the file is
opened, at the file, and after it. `ReadRoot`, `ReadChild`, `SeedFromSitemap` are one request or one
addition each. A page goes through `Begin`, `Enqueue`, `Count`, `CallSink`, as many `Write` as its line
takes, and `Fail` after a write that failed, or ends with `Miss`; these are what `Engine` shows of a
page, with the filter, the normalisation and the sink that `Engine` takes as constants. `CallSink` waits
for the sink's mutex, which is held until the newline is written. `Finish` (one step per write of its flush),
`Save` and `Report` end the run with an exit code; after a flush that failed, `Drop` is the `BufWriter`'s
own last attempt. `Press` and `Handle` are the two Ctrl-C: before the handler's
task waits for the first time the signal kills the process, and a press that finds nobody waiting is
lost. `handler` is where that task is.

`Form` opens empty or with a record of the history, moves, changes a field (several keys are one step,
but half a word may be left), and Enter hands the spec to `from_dashboard`. `touched` is auxiliary.
In `Sessions` the first process's memory is gone when the second opens the history.

### The definitions named "Mutant"

A definition called `XMutant` before a definition `X` is a slip that is easy to make in that
code. With it in place of `X`, TLC finds one of the properties violated; it shows that the
property can fail and at what kind of mistake. No specification uses these definitions.

## 3. The runs

All passing runs together take a few minutes with two workers. "Deadlock" is checked unless
noted; modules whose program ends have an explicit `Done` step.

| Run | Instance | Shows |
|---|---|---|
| `frontier` | 5 URLs (an alias, one without a host), 2 hosts, depths 0..2 with limit 1, budget 2, base delay 1, clock to 4; deadlock off, the clock stops | `Accounting`, `WellPlaced`, `BudgetRespected`, `DoneIsDrained`, `WaitIsHonest`, `LeaseSpacing` |
| `engine` | 2 workers, 5 URLs on 2 hosts, one of them another spelling of a page that is a seed and is linked to, seeds in both spellings and again by a sitemap, one page out of scope, base delay 1, robots.txt verdicts and crawl delays, replies with and without links, stop, pause and resume at any time | `Ledger`, `NoPrematureExit`, `NoIdleCrew`, `OnePagePerUrl`, `StopStopsLeasing`, `PauseStopsLeasing`; the refinement `RefinesCrawl` |
| `engine_live` | 2 workers, 2 pages of one host with a delay, failures; the sink refuses, panics in either hook, fails to finish; all four controls | `Ledger` and `OnePagePerUrl` through refusals and panics, `SummaryIsExact`, `SinkFailureSurfaces`, `Terminates`, `StopReturns` |
| `robots` | 2 workers, 2 lookups each, 2 ports of a host, the default port spelled out and not; deadlock off, the lookups are used up | `OneRequestEach`, `RuledByOwnOrigin`, `CachedIsSettled` |
| `fetcher` | 8 requests (past the cap of the backoff), any of 13 answers to each | `RetriesAreSpentWell`, `BodyIsWhole`, `PauseIsExponential`, `TemporaryIsRetried` |
| `job_store` | 2 processes, 3 runs, 2 writes to a record, crashes, clears and edits; deadlock off, the runs are used up | `NothingInvented`, `WholeLinesAreLoaded`, `RecentIsNewest` |
| `control_center` | started without a target, or with a seed and a sitemap; 2 runs, 3 targets, 2 delays, a queue of 2 actions | `RunsAreAsked`, `FinishedRunIsShown`, `QuitIsFinal`, `QuitEnds` |
| `sessions` | 7 command lines (3 that run: budget, depth, patterns, a sitemap index with two children, one of which breaks off after a page in the place of a sitemap; 4 that are refused at different places), 9 URLs, a buffer of 5 pieces (a line and two thirds) with one record that goes past it, writes that are cut anywhere or fail, a history that fails, 3 Ctrl-C, one field of the form changed | `SavedMeansWritten`, `KilledOutputIsUsable`, `BoundsHold`, `SitemapIsSeeded`, `EditRunsTheSame`, `CtrlCEnds` |

What the properties say, in the order of the table:

* `Accounting` ties the frontier's counters to its queues and to the set of URLs seen;
  `DoneIsDrained` and `WaitIsHonest` say that the two answers after which a worker leaves or
  sleeps can be relied on.
* `Ledger` is the engine's book-keeping over all threads: leases held are leases counted, every
  dispatched task is fetched, failed or in a worker's hands, every accepted URL is counted or
  about to be. `NoPrematureExit`: who leaves leaves nothing behind. `NoIdleCrew`: a worker can
  miss the wake-up for a host that may be asked at once, but never is the whole crew asleep over it.
  `StopStopsLeasing` and `PauseStopsLeasing` count the workers that had already passed the flag.
* `OnePagePerUrl` counts calls, not results: a URL is requested once though its fetch fails, handed to the
  sink once though the sink refuses it or panics, and another spelling of it does not count as another URL.
* `Terminates` and `StopReturns` are the two ends of a crawl under missed wake-ups and panics.
* `OneRequestEach` and `CachedIsSettled` bound the cost of the cold-cache race, and
  `RuledByOwnOrigin` its effect.
* `RetriesAreSpentWell` and `TemporaryIsRetried` are the two directions of the retry rule; `PauseIsExponential`
  gives the pause before a retry exactly, with the caps of 10 s on the backoff and 30 s on `Retry-After`.
* `NothingInvented` and `WholeLinesAreLoaded` say that torn and mixed lines damage only themselves
  and their neighbour, and that a clear is final for what began before it.
* `RunsAreAsked`, `QuitIsFinal` and `QuitEnds` are about keys pressed at the wrong moment: during a
  run, between its end and its summary, or after another key.
* `SavedMeansWritten` and `KilledOutputIsUsable` are the two promises about the output file: exit
  code 0 or a record in the history means that every counted page is there, and whatever else
  happened, and between any two writes, the file has whole lines and at most a cut one at its end, unless a
  write failed.
* `BoundsHold` compares what is crawled with the bounds of the command line although the filter and
  the normalisation come in an unexpected order; `SitemapIsSeeded` compares `parse` with the
  elements of the document.
* `EditRunsTheSame` is about a setting's way through record, form and builder; `CtrlCEnds` about presses
  at any moment.

Four more runs each check one sentence of the documentation that the code does not keep (section 5).

**Why the bounds are enough.** The engine's hazards are races between a worker that leaves or sleeps and one
that adds, finishes or panics: two workers show them, and two hosts are what it takes for one to wait while
another is free. A third worker adds no new kind of step (all guards speak of *any* other worker). Three pages
in scope and a second spelling of one give a seed, a link found twice, under two spellings, a link back and a
link out of scope. The clock of `Engine` moves only while a lease or a sleeper waits for it, so `Horizon` = 20
is never reached. `Frontier` needs a clock long enough for two leases of a host with a raised delay between
them: 4. Two pieces of a record are enough to cut one record into another. The action queue of 2 holds a key
and one that contradicts it; a longer one is dropped with the display all the same. `Sessions` needs a buffer
that fills in the middle of a page (5 pieces with three pieces to a page), three presses (the one that is
heard, one that is lost and one that forces the exit), and one edit, since each field is checked by itself.
`MaxSitemaps` = 2 stands for the code's 50: the index of the instance names two sitemaps, so it is read to its
end. Bounds are constants with these names: `Horizon`, `MaxCalls`, `MaxJobs`, `MaxRuns`, `MaxActions`,
`MaxPresses`, `MaxEdits`; `Capacity` and `MaxSitemaps` are the code's own limits, made small.

**Fairness.** `Engine`'s `FairSpec` has weak fairness for each worker's loop and for its
processing, for `run()`, and for the clock. tokio polls every task that is ready; a request ends
because the client has a timeout and the fetcher bounded retries; timers fire; the hooks of
a sink are assumed to return. Nothing is assumed of the user: `Terminates` therefore has the
premise that the crawl is not left paused. `ControlCenter`'s `FairSpec` has weak fairness for the
main task and for the delivery of the message; a crawl that is stopped or not paused ends, which is
`Engine`'s `Terminates` and `StopReturns`. No key and no engine error has to come.
`Sessions`' `FairSpec` has weak fairness for the program's own work (requests end, by their timeouts) and for
the signal handler. It has none for `Leasing`, because links may lead to ever new pages, and
none for any key or signal.

## 4. What is proved

The theorems hold for every value of the constants that satisfies the named assumptions: any number
of workers, hosts, URLs, answers, documents and keys, any limits. Eight modules hold them.

**FrontierProofs** (from `FrontierAssumption`): `TypeCorrect`, `AccountingHolds`,
`WellPlacedHolds`, `BudgetHolds`, `DoneHolds`, `WaitHolds` and `SpacingHolds`. The inductive
invariant `IInv` joins type correctness, the finiteness of `seen`, `Accounting`,
`WellPlaced`, `BudgetRespected` and `Spaced`. None of the first three stands
alone: `queued - 1` is a natural number only because `queued` counts the waiting URLs, and it
counts them only because no URL waits twice, which `seen` guarantees only while the queued URLs
are canonical. `Spaced` (a host's next lease is due at least the base delay after the last, and
delays are never below the base delay) is what `LeaseSpacing` needs. Two lemmas say what `push_back`
and `pop_front` do to the URLs of a queue; then there is one lemma per method.
`DoneHolds` and `WaitHolds` follow from the invariant without another induction.

**EngineProofs** (from `EngineAssumption`, which includes `FrontierAssumption`): `TypeCorrect`,
`LeasesHold`, `LedgerHolds`. The invariant is `FP!IInv`, the frontier's own, with six parts
about the threads: where each worker is (`Placed`), the shared variables (`SharedOK`), what a worker has
of its page (`PagesOK`), that it has a task exactly while it holds a lease (`TasksOK`),
that `active`, `dispatched` and `in_flight` are the numbers of workers in the matching
places (`Leases`), and that no worker runs before the seeds or after the return (`Phases`). These need
each other: `complete` may be called, so that the frontier's invariant survives, only
because `active` counts the worker that calls it. The frontier's part is kept because every
step is one of its methods or none (`FrontierRuns`); so nothing about queues is proved twice.
`LedgerHolds` adds `Discoveries`: the URLs seen are those counted, those the sitemap added, and those the
workers have added and not yet counted. The last is a sum over workers by the library's `FoldFunction`;
what one step does to such a sum is proved by induction on finite sets (`SetInduction`).

**CrawlProofs** carries on from there: `SinkFailureSurfacesHolds`, `StopStopsLeasingHolds`,
`PauseStopsLeasingHolds`, `NoPrematureExitHolds`, `OnePagePerUrlHolds`, `SummaryIsExactHolds`,
`NoIdleCrewHolds`, `RefinesCrawlHolds` and `CrawlIsPolite`. `SinkInv` says in which places a worker with a
refused page can be; `PageInv` says that a URL is in one queue, with one worker or on one page; `CallInv` that
a worker before its request has a URL never requested, one before the sink a URL never handed over, and that
what was requested is canonical and was leased (`OnePagePerUrlHolds`); `CrawlInv` puts these together for the
refinement of `Crawl`, whose initial states and steps are shown here (`Crawl` states no fairness).
`SummaryInv` adds that what was added is counted by the time a worker leaves `enqueue_links` and `run()` its
seeding (`CountsPublished`), and that a fetched page is in the sink, on its way, or lost with one of the
workers that panicked (`Delivered`). `SomeoneAlert` is what `NoIdleCrew` needs: as long as a host is waiting
that was never leased, some worker is awake, or will be when its timer or a notification wakes it. A worker
that fell asleep with such a host before it would be a counterexample, and the last one to look at the
frontier cannot be one, since `lease` would have answered Ready. It is why `EngineAssumption` has `Worker #
{}`: `build()` refuses a concurrency of zero (`config.rs:231`). `CrawlIsPolite` applies FrontierProofs'
theorems to the running crawl.

**RobotsProofs** (from `RobotsAssumption`): `TypeCorrect`, `OneRequestHolds`, `CachedIsSettledHolds`,
`OwnOriginHolds`. The invariant adds that a worker which asked an origin finds it in the cache or is
about to insert it, that a worker about to fetch has not asked, and that whatever the
cache and the workers hold came from the origin it is kept under. For `CachedIsSettledHolds` every step either
wants no file of a cached origin that was not wanted before, or moves one worker from those about to ask to those
that asked; the crew is finite, so the sum of the two does not grow.

**FetcherProofs** (from `FetcherAssumption`): `TypeCorrect`, `RetriesAreSpentWellHolds`, `BodyIsWholeHolds`,
`TemporaryIsRetriedHolds`, `PauseIsExponentialHolds`. The invariant ties the attempt counter to the answers heard
(`Answered`), the buffer to the chunks of the last answer read so far (`Reading`: it holds their total, within
the limit), and what the call returned to the last answer (`Returned`). The size of a body is a fold over
its chunks and the pause a power of two; both are unfolded by induction on the naturals.

**JobStoreProofs** (from `JobStoreAssumption`): `NothingInventedHolds`, `WholeLinesAreLoadedHolds`, `RecentIsNewestHolds`,
for any number of processes, records and writes to a record.

* What `load` returns. `OrderExists` shows by induction that a set of positions can be listed in order, so that the
  choice in `InOrder` is one, and `LineIsRecord` that a line is read as a record exactly where the record's writes and
  nothing else are between two newlines. Hence `AllIs`: the history has one entry for each such line, in the order
  of the file.
* The invariant. `PiecesOK` says that a write in the file is of a run begun since the last clear and is not one
  still to come; `OnceEach` that no write is there twice; `OwnersInOrder` that a process's records do not interleave with
  each other; `AloneOK` that a line into which no other process wrote holds the writes made so far and no more;
  `KeptOK` that the saved records whose line stayed whole are still there. `JobsOK` is what makes these inductive: a
  process works on its newest record, and one whose handle is live began it after the last clear, since `clear`
  takes every handle away from the name.
* The first write of each entry then tells the entries apart (`NothingInvented`) and orders them (`RecentIsNewest`). The
  last two theorems assume that no line is other than UTF-8, for which they fail (section 5).

**ControlCenterProofs** (from `ControlCenterAssumption`): `TypeCorrect`, `RunsAreAskedHolds`,
`FinishedRunHolds`, `QuitIsFinalHolds`. The invariant is the types with three parts: which loop may be
running for whom (`Asked`), what is on its way or on the screen is the saved history (`Shown`), and a
quit key that was first in the queue stays first until main takes it (`Heard`).

**SessionsProofs** begins with single values (from `UrlsAssumption` and `SettingsAssumption`): `normalize` is
idempotent and keeps the host, which discharges `FrontierAssumption` for the real functions
(`FrontierAssumptionHolds`); `ScopeIgnoresSpelling`, `ScopesAreNested`, `SeedsAreInScope`; `BuiltIsValid`;
`FormRoundTrip`, `EditSourcesAgree` and `EditsAreAccepted` about the way of a setting through form
and history. `EditsAreAccepted` speaks of any form of which some fields still hold what a job put there: the
untouched ones are accepted, whatever was typed into the others.

Then come the runs (from the assumptions of `Batch` and `Output` as well): `SavedHolds`, `KilledOutputHolds`,
`EditRunsTheSameHolds`, `BoundsHoldHolds`, `SitemapIsSeededHolds`.

* The output. `Written` is the file, the buffer and what the call in progress has left, one after the other. A
  `Sink::page` that begins appends a line to it; a step of it, or of a flush, changes nothing of it, however a
  write is cut. The invariant `IInv` says of it (`Writing`): as long as no write has failed it has whole lines, of
  different pages whose call has begun, as many as pages are counted and not waiting for the sink (`Queued`). Since
  tasks are unique by URL (`TasksOK`) and `seen` keeps out what was done, no line can come twice. The file is a
  prefix of `Written`, so a line can be cut only at its end (`Usable`); after a successful `finish` nothing is
  buffered and the file is `Written` (`Flushed`). `Calls` says that the mutex is held for a worker that is
  writing, and that a write that failed is not forgotten before `run()` looks at the error slot.
* The edited job. `RunKept` says that the history holds the command line's own job, `FormKept` that every field
  of an open form is the one the job filled in or is among `touched`. Then `EditsAreAccepted` applies.
* The sitemaps. `parse` is a fold over the reader's events. `ParsedWell` describes its result on every prefix of a
  document by the *positions* of events (a page is named by a text inside a `loc` that is not inside a `sitemap`), and
  is kept by one more event; then a whole document gives the pages its `url` elements advertise.
* The crawl. `SitemapInv` has five parts: types; `InTurn` (children are being read only while seeding);
  `PagesAreNamed` and `PagesAreReached` (pages still to be seeded are advertised by a document read, and every
  advertised page is seeded or still to be); and `SeenWasOffered` (every URL seen is a seed, or some spelling of
  it was on a page or in a document, and the filter let that spelling pass). `BoundsHoldHolds` follows from
  the last and the budget, `SitemapIsSeededHolds` from the two before.

**Induction.** The library's induction theorems take an operator, which the installed provers cannot instantiate. Where
a proof needs induction it states the set of numbers, or of finite sets, for which the claim holds, and shows
that it is everything: the least counterexample, which `WFMin` gives, would have a predecessor
(`NatSetInduction`). The library's folds are choices of a recursive function; that such a function exists
is proved the same way (`ParseExists`), and from then on the fold obeys its equation.

**Only model-checked.** Liveness (`Terminates`, `StopReturns`, `QuitEnds`, `CtrlCEnds`) is beyond the prover.
Every invariant and every safety property of the passing runs has a theorem. The four disagreements below are
runs, not theorems.

**What the proofs changed.** Two definitions of the model were wrong in a way no run showed, and were
corrected: `Fetcher!HeaderError` was a `CASE` whose guards overlapped where the code has an order, and
`Batch!Offered` left out a `loc` that follows a `url` inside a `sitemap` element: the start of the `url`
clears the flag, so `parse` takes it for a page. `MCSessions` now has a document with such an entry.
`EngineAssumption`, `RobotsAssumption`, `JobStoreAssumption` and `BatchAssumption` name what the models had
taken for granted: at least one write to a record, a crew that is finite and not empty, command lines with a
target, and documents that are sequences of events. `JobStore!All` was restated: the library's `SelectSeq` and
`SetToSortSeq` cannot be unfolded by the prover, the choice of an increasing list can. TLC compared the two in
every state of the instance, with lines that are not UTF-8 among the edits.

## 5. Where code and documentation disagree

Each of these is a run whose property states the sentence quoted; TLC's trace shows how the code
departs from it.

| Run | Documented | What the code does |
|---|---|---|
| `engine_depth` | `page.rs:12`: distance from the nearest seed | with two workers, the distance along the path that was faster; pages within `max_depth` can be missed |
| `engine_request_spacing` | `config.rs:52`: minimum delay between two requests to the same host | the delay spaces leases; the robots.txt lookup in between takes any time, so two requests can start together |
| `robots_flaky` | `robots.rs:70`: a benign race never corrupts the cache | a slower request that fails replaces the rules just read by allow-all |
| `center_ctrl_c` | `progress.rs:1099`, the commands screen: Ctrl-C stops and exits | in the idle control center it clears the history |

With `Worker = {w1}` in `MCEngineDepth.cfg`, `DepthIsShortest` holds: tasks of one host are leased
in the order of their depth.

The models contain further disagreements for which no run is kept:

| Documented | What the code does | Where the model has it |
|---|---|---|
| README, line 18: obeys Crawl-delay | a host's second lease still uses the base delay: `frontier.rs:142` fixed it before robots.txt was read | `Frontier!SetHostDelay` leaves `next_allowed` alone |
| `config.rs:41`: seeds are always crawled first | a host never leased ranks at `now`, behind a host whose time has passed, so the latter's links go first | `Frontier!AllowedAt`, `Earliest` |
| `config.rs:67`: excluded URLs are never crawled | seeds are not filtered (`engine.rs:289`) | `Engine!SeedNext` |
| `engine.rs:80`: exits once in-flight requests settle | a stop that a worker misses before it sleeps is seen after the whole delay | `Engine!Arm`, `NotifyFrom` |
| `config.rs:71`: retries for temporary statuses | not if the error page declares more than the body limit (`fetcher.rs:145`), which `config.rs:74` has skipped; one that only turns out too long is retried | `Fetcher!HeaderError` |
| `config.rs:52`: minimum delay between two requests | the first retry follows after 200 ms, or at once for Retry-After 0; the default delay is 250 ms | `Fetcher!RetryDelay` |
| `jobs.rs:3`: stores completed runs as JSON Lines | after a process was killed in an append, the next record is written onto the torn line and both are skipped | `JobStore!Put` |
| `jobs.rs:243`: malformed lines are skipped | a line that is not UTF-8 ends the reading (`jobs.rs:251`), and hides all lines after it; with `"bytes"` among `Edits`, `WholeLinesAreLoaded` fails | `JobStore!Readable` |
| `config.rs:67`: URLs matching any of these patterns are never crawled | the filter sees a link before `normalize` does (`engine.rs:449`), so a pattern binds the spelling on the page | `Batch!Found`, `BoundsHold` |
| `main.rs:269`: a second Ctrl-C forces an exit | one that comes between the stop (`main.rs:275`) and the next wait is lost | `Batch!Press` |
| README, line 139: `r` reruns the same crawl | in the control center it exits (`main.rs:60`) | `ControlCenter!ActOn` |
| README, line 136: `e` edits the selected job | after a run it edits that run's settings | `ControlCenter!KeyEdit` |
| the form: an http(s) URL or a sitemap URL | a sitemap is crawled as a page (`main.rs:193`) | `ControlCenter!Prepared` |

Four consequences no document mentions, but a user might not expect:

* The prefix of an XML name is dropped, so the URL of an `image:loc` is crawled as a page
  (`sitemap.rs:34`; `Sitemaps!Opened`).
* A user agent that is no header value is refused only after the output file was truncated
  (`main.rs:83`, `main.rs:149`; `Batch!RefuseClient`).
* A delay or a target typed into the form that does not parse passes the form's checks and ends the whole
  program (`main.rs:173`; `Form!Start`).
* An edited job runs with the defaults for all the form has no field for: patterns, user agent, timeout,
  retries, body limit, further seeds, `--ignore-robots` (`progress.rs:374`; `Settings!FromJob`, `FromDashboard`).

Two positive results come with restrictions worth knowing. `NoIdleCrew` holds as long as no worker
was lost to a panic. `SummaryIsExact` makes no claim about pages for a crawl that lost workers: if all of them panic,
`run()` returns `Ok` with URLs still queued.

## 6. What is not modelled

* Rendering, sampling and the event list of the dashboard: nothing reads them back. Events are
  lossy by design (`engine.rs:507`).
* HTTP, TLS, redirects, decompression, and the parsing of HTML, XML, robots.txt, JSON, URLs, durations and regular
  expressions: libraries, present as the answers they can give. A redirect can lead out of
  scope, and `engine.rs:399` takes the URL it ends at as the base of the links.
* A terminal that fails. `ControlCenter` opens the display and keeps it; if entering it fails (`progress.rs:143-149`),
  or drawing (`progress.rs:165-168`, `173-176`), the dashboard's task ends, and main takes the closed queue
  for an exit (`progress.rs:120`).
* A panic inside the frontier, with its mutex held. The only candidate is `now + delay` at
  `frontier.rs:142` for an enormous delay; it would poison the mutex for all workers.
* The byte counter and the elapsed time in `stats.rs`: no decision reads them.
* `error.rs` and `lib.rs` have no behaviour; tests and benchmarks are not part of the program.
* `--clear-jobs` is `JobStore`'s `Clear`; `--verbose` only logs.

## 7. What is left

* *Composition.* `Engine` with `Robots` and `Fetcher` as instances would give the true order of
  requests on a host; each worker has a dozen places in `Engine` already, and the product is past what
  TLC explores in minutes. `RequestSpacing` shows the one effect that matters. `ControlCenter` with
  `JobStore` under it, for two dashboards on one history, adds no hazard beyond those of `JobStore`:
  a dashboard reads the history once per run.
