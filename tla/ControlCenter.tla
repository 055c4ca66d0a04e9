---------------------------- MODULE ControlCenter ----------------------------
(***************************************************************************)
(* The interactive side of rustcrawl-cli: the loop of main.rs that runs one *)
(* crawl after another, and the dashboard task of progress.rs that reads    *)
(* the keys.  They run concurrently and talk through a queue of actions     *)
(* (dashboard to main), one message (main to dashboard) and the engine's    *)
(* control handle.  One step is one key, one answer of the engine, or what  *)
(* main does between two waits.                                             *)
(*                                                                         *)
(* A form keeps the fields that decide what happens next: its target, its   *)
(* delay (text humantime may refuse) and whether to save the job.           *)
(***************************************************************************)
EXTENDS Naturals, SequencesExt

CONSTANTS
    CommandLines, \* command lines: [seeds, sitemaps, delay, save], both lists
                  \* empty when rustcrawl is started without a target
    Target,       \* what a user may type as a target
    SitemapUrl,   \* those of them that are sitemaps, not pages
    ParsesAsUrl,  \* those CrawlConfigBuilder::add_seed accepts
    Delays,       \* what a user may type as a delay
    ParsesAsTime, \* those humantime::parse_duration accepts
    DefaultDelay,
    OldJobs,      \* the history before the program starts
    RECENT_LIMIT,
    MayFail,      \* whether the engine, the output file or the history may fail
    MaxRuns,      \* bound: runs a user asks for
    MaxActions,   \* bound: actions the queue holds at once
    None

\* NewJobSpec; JobRecord, of which there is one for a seed or a sitemap at least;
\* Dashboard; and the flags of a CrawlControl.
NewJobSpec == [target : Target \cup {""}, delay : Delays, save : BOOLEAN]
Job ==
    {j \in [seeds : Seq(Target \cup {""}), sitemaps : Seq(Target \cup {""}), delay : Delays] :
         j.seeds \o j.sitemaps # <<>>}
DashboardState ==
    [idle : BOOLEAN, summary : BOOLEAN, jobs : Seq(Job), last_run_spec : NewJobSpec \cup {None},
     mode : {"Dashboard", "NewJob", "Commands"}, form : NewJobSpec, selected : Nat]
Flags == [paused : BOOLEAN, stopping : BOOLEAN]

ASSUME ControlCenterAssumption ==
    /\ CommandLines \subseteq
         [seeds : Seq(Target), sitemaps : Seq(Target), delay : Delays, save : BOOLEAN]
    /\ OldJobs \in Seq(Job)
    /\ DefaultDelay \in Delays
    /\ RECENT_LIMIT \in Nat \ {0}
    /\ None \notin NewJobSpec \cup DashboardState \cup Flags \cup Seq(Job) \cup {"heard", "misheard"}

VARIABLES
    cli,          \* the command line the program was started with
    main,         \* where main is
    request,      \* the request of the run under way
    prepared,     \* its PreparedRun: [seeds, sitemaps, save]
    store,        \* the records of the history file
    engine,       \* the flags of the running engine, None when there is none
    app,          \* the state of the open dashboard, None when there is none
    actions,      \* the queue of DashboardActions
    message,      \* the jobs of a Finished message on its way, None without
    runs,         \* the crawls started so far
    quitting      \* auxiliary: how a quit key was taken while no action waited

vars == <<cli, main, request, prepared, store, engine, app, actions, message, runs, quitting>>

Over == {"exited", "failed"}
Interactive == cli.seeds \o cli.sitemaps = <<>>

CliRequest == [kind |-> "cli"]
DashboardRequest(spec) == [kind |-> "dashboard", spec |-> spec]
Action(kind) == [kind |-> kind]
Start(spec) == [kind |-> "Start", spec |-> spec]
DashboardAction ==
    [kind : {"ClearJobs", "Rerun", "Exit"}] \cup [kind : {"Start"}, spec : NewJobSpec]

\* The first seed, or else the first sitemap: editable_spec and target_label.
FirstOf(seeds, sitemaps) == Head(seeds \o sitemaps)

EditableSpec(r) ==
    IF r.kind = "dashboard" THEN r.spec
    ELSE [target |-> FirstOf(cli.seeds, cli.sitemaps), delay |-> cli.delay, save |-> cli.save]

\* JobTemplate: what is recorded of a run.
RecordOf(r) ==
    IF r.kind = "cli"
      THEN [seeds |-> cli.seeds, sitemaps |-> cli.sitemaps, delay |-> cli.delay]
      ELSE [seeds |-> <<r.spec.target>>, sitemaps |-> <<>>, delay |-> r.spec.delay]

FromJob(job) == [target |-> FirstOf(job.seeds, job.sitemaps), delay |-> job.delay, save |-> TRUE]

NewForm == [target |-> "", delay |-> DefaultDelay, save |-> TRUE]

Recent(jobs) ==
    SubSeq(jobs, IF Len(jobs) > RECENT_LIMIT THEN Len(jobs) - RECENT_LIMIT + 1 ELSE 1, Len(jobs))

\* Dashboard::running and Dashboard::idle.
Dashboard(jobs, spec, idle) ==
    [idle |-> idle, summary |-> FALSE, jobs |-> jobs, last_run_spec |-> spec,
     mode |-> "Dashboard", form |-> NewForm, selected |-> 0]

HasSelected == app.selected < Len(app.jobs)
SelectedJob == app.jobs[Len(app.jobs) - app.selected]

Init ==
    /\ cli \in CommandLines
    /\ main = IF Interactive THEN "open" ELSE "prepare"
    /\ request = IF Interactive THEN None ELSE CliRequest
    /\ prepared = None
    /\ store = OldJobs
    /\ engine = None
    /\ app = None
    /\ actions = <<>>
    /\ message = None
    /\ runs = 0
    /\ quitting = None

-----------------------------------------------------------------------------
(* main.rs *)

\* open_control_center, or its failure to take over the terminal.
OpenCenter ==
    /\ main = "open"
    /\ \/ /\ main' = "idle"
          /\ app' = Dashboard(Recent(store), None, TRUE)
       \/ MayFail /\ main' = "exited" /\ UNCHANGED app
    /\ UNCHANGED <<request, prepared, store, engine, actions, message, runs, quitting>>

\* PreparedRun::from_cli and from_dashboard, up to the output file.
Preparable(r) ==
    r.kind = "dashboard" => r.spec.target \in ParsesAsUrl /\ r.spec.delay \in ParsesAsTime

Prepared(r) ==
    IF r.kind = "cli"
      THEN [seeds |-> cli.seeds, sitemaps |-> cli.sitemaps, save |-> cli.save]
      ELSE [seeds |-> <<r.spec.target>>, sitemaps |-> <<>>, save |-> r.spec.save]

\* run_interactive_job until the engine runs, beside a fresh display.
StartRun ==
    /\ main = "prepare"
    /\ Preparable(request)
    /\ prepared' = Prepared(request)
    /\ engine' = [paused |-> FALSE, stopping |-> FALSE]
    /\ app' = Dashboard(Recent(store), EditableSpec(request), FALSE)
    /\ runs' = runs + 1
    /\ main' = "crawl"
    /\ UNCHANGED <<request, store, actions, message, quitting>>

FailToStart ==
    /\ main = "prepare"
    /\ MayFail \/ ~Preparable(request)
    /\ main' = "failed"
    /\ UNCHANGED <<request, prepared, store, engine, app, actions, message, runs, quitting>>

\* Engine::run returns: a paused crawl does not end unless it is stopped.
CrawlEnds ==
    /\ main = "crawl"
    /\ engine.stopping \/ ~engine.paused
    /\ main' = "save"
    /\ UNCHANGED <<request, prepared, store, engine, app, actions, message, runs, quitting>>

\* The display ends, and the queue and the message with it.
CloseDisplay ==
    /\ app' = None
    /\ engine' = None
    /\ actions' = <<>>
    /\ message' = None

\* The engine's error closes the display and ends the program.
CrawlFails ==
    /\ main = "crawl"
    /\ MayFail
    /\ main' = "failed"
    /\ CloseDisplay
    /\ UNCHANGED <<request, prepared, store, runs, quitting>>

\* Mutant of SaveRun: the jobs are loaded before the record is appended.
SaveRunMutant ==
    /\ main = "save"
    /\ store' = IF prepared.save THEN Append(store, RecordOf(request)) ELSE store
    /\ message' = Recent(store)
    /\ main' = "wait"
    /\ UNCHANGED <<request, prepared, engine, app, actions, runs, quitting>>

\* save_if_needed, then wait_for_action sends the summary and the jobs.
SaveRun ==
    /\ main = "save"
    /\ store' = IF prepared.save THEN Append(store, RecordOf(request)) ELSE store
    /\ message' = Recent(store')
    /\ main' = "wait"
    /\ UNCHANGED <<request, prepared, engine, app, actions, runs, quitting>>

\* An append that fails ends the program; the runtime drops the display.
SaveFails ==
    /\ main = "save"
    /\ MayFail /\ prepared.save
    /\ main' = "failed"
    /\ CloseDisplay
    /\ UNCHANGED <<request, prepared, store, runs, quitting>>

\* The arms of run()'s two loops.
ActOn(a) ==
    \/ a.kind = "Start" /\ request' = DashboardRequest(a.spec) /\ main' = "prepare" /\ UNCHANGED store
    \/ /\ a.kind = "ClearJobs"
       /\ store' = <<>>
       /\ main' = IF Interactive THEN "open" ELSE "prepare"
       /\ UNCHANGED request
    \/ /\ a.kind = "Rerun"
       /\ main' = IF Interactive THEN "exited" ELSE "prepare"
       /\ UNCHANGED <<request, store>>
    \/ a.kind = "Exit" /\ main' = "exited" /\ UNCHANGED <<request, store>>

\* Mutant of Act: the queue is drained and its last action counts.
ActMutant ==
    /\ main \in {"idle", "wait"}
    /\ actions # <<>>
    /\ ActOn(Last(actions))
    /\ CloseDisplay
    /\ UNCHANGED <<prepared, runs, quitting>>

\* The first action in the queue counts, when main waits for one.
Act ==
    /\ main \in {"idle", "wait"}
    /\ actions # <<>>
    /\ ActOn(Head(actions))
    /\ CloseDisplay
    /\ UNCHANGED <<prepared, runs, quitting>>

-----------------------------------------------------------------------------
(* progress.rs: the dashboard task. *)

\* Dashboard::finish: the message may come after keys that were pressed later.
Finish ==
    /\ app # None
    /\ message # None
    /\ app' = [app EXCEPT !.summary = TRUE, !.jobs = message,
                          !.selected = IF message = <<>> THEN 0 ELSE Min({@, Len(message) - 1})]
    /\ message' = None
    /\ UNCHANGED <<main, request, prepared, store, engine, actions, runs, quitting>>

InMode(mode) == app # None /\ app.mode = mode
Rests == app.summary \/ app.idle
Push(a) == Len(actions) < MaxActions /\ actions' = Append(actions, a)
MayAsk == runs < MaxRuns
Show == UNCHANGED <<main, request, prepared, store, message, runs>>

\* h: the commands, and back with h, Esc or q, which then does not quit.
KeyCommands ==
    /\ InMode("Dashboard") \/ InMode("Commands")
    /\ app' = [app EXCEPT !.mode = IF @ = "Commands" THEN "Dashboard" ELSE "Commands"]
    /\ UNCHANGED <<engine, actions, quitting>>
    /\ Show

KeyNew ==
    /\ InMode("Dashboard")
    /\ Rests
    /\ app' = [app EXCEPT !.mode = "NewJob", !.form = NewForm]
    /\ UNCHANGED <<engine, actions, quitting>>
    /\ Show

\* After a run, its own settings; in the idle control center, the selected job.
KeyEdit ==
    /\ InMode("Dashboard")
    /\ Rests
    /\ app.last_run_spec # None \/ HasSelected
    /\ app' = [app EXCEPT !.mode = "NewJob",
                          !.form = IF app.summary /\ app.last_run_spec # None
                                     THEN app.last_run_spec ELSE FromJob(SelectedJob)]
    /\ UNCHANGED <<engine, actions, quitting>>
    /\ Show

KeyDown ==
    /\ InMode("Dashboard")
    /\ Rests
    /\ app.jobs # <<>>
    /\ app' = [app EXCEPT !.selected = Min({@ + 1, Len(app.jobs) - 1})]
    /\ UNCHANGED <<engine, actions, quitting>>
    /\ Show

KeyUp ==
    /\ InMode("Dashboard")
    /\ Rests
    /\ app.selected > 0
    /\ app' = [app EXCEPT !.selected = @ - 1]
    /\ UNCHANGED <<engine, actions, quitting>>
    /\ Show

\* Mutant of KeyClear: the guard on Status::Idle is left out.
KeyClearMutant ==
    /\ InMode("Dashboard")
    /\ Push(Action("ClearJobs"))
    /\ UNCHANGED <<app, engine, quitting>>
    /\ Show

\* c in the idle control center; this arm comes first, so Ctrl-C is taken by it.
KeyClear ==
    /\ InMode("Dashboard")
    /\ app.idle
    /\ Push(Action("ClearJobs"))
    /\ \E ctrl \in BOOLEAN :
         quitting' = IF ctrl /\ actions = <<>> THEN "misheard" ELSE quitting
    /\ UNCHANGED <<app, engine>>
    /\ Show

KeyRerun ==
    /\ InMode("Dashboard")
    /\ app.summary
    /\ MayAsk
    /\ Push(Action("Rerun"))
    /\ UNCHANGED <<app, engine, quitting>>
    /\ Show

\* p or space, while a crawl runs.
KeyPause ==
    /\ InMode("Dashboard")
    /\ ~app.summary /\ engine # None
    /\ engine' = [engine EXCEPT !.paused = ~@]
    /\ UNCHANGED <<app, actions, quitting>>
    /\ Show

KeyStop ==
    /\ InMode("Dashboard")
    /\ ~app.summary /\ engine # None
    /\ engine' = [engine EXCEPT !.stopping = TRUE]
    /\ UNCHANGED <<app, actions, quitting>>
    /\ Show

\* Mutant of KeyQuit: the crawl is left to end by itself.
KeyQuitMutant ==
    /\ InMode("Dashboard")
    /\ Push(Action("Exit"))
    /\ quitting' = IF actions = <<>> THEN "heard" ELSE quitting
    /\ UNCHANGED <<app, engine>>
    /\ Show

\* q and Esc, and Ctrl-C beside a run.
KeyQuit ==
    /\ InMode("Dashboard")
    /\ engine' = IF engine = None THEN None ELSE [engine EXCEPT !.stopping = TRUE]
    /\ Push(Action("Exit"))
    /\ quitting' = IF actions = <<>> THEN "heard" ELSE quitting
    /\ UNCHANGED app
    /\ Show

\* The form: typing into a field, leaving it, and Enter with to_spec's checks.
FormType ==
    /\ InMode("NewJob")
    /\ \/ \E t \in Target \cup {""} : app' = [app EXCEPT !.form.target = t]
       \/ \E d \in Delays : app' = [app EXCEPT !.form.delay = d]
       \/ \E s \in BOOLEAN : app' = [app EXCEPT !.form.save = s]
    /\ UNCHANGED <<engine, actions, quitting>>
    /\ Show

FormEsc ==
    /\ InMode("NewJob")
    /\ app' = [app EXCEPT !.mode = "Dashboard"]
    /\ UNCHANGED <<engine, actions, quitting>>
    /\ Show

FormEnter ==
    /\ InMode("NewJob")
    /\ app.form.target # ""
    /\ MayAsk
    /\ Push(Start(app.form))
    /\ UNCHANGED <<app, engine, quitting>>
    /\ Show

Key ==
    \/ KeyCommands \/ KeyNew \/ KeyEdit \/ KeyDown \/ KeyUp \/ KeyClear \/ KeyRerun
    \/ KeyPause \/ KeyStop \/ KeyQuit \/ FormType \/ FormEsc \/ FormEnter
Main == OpenCenter \/ StartRun \/ FailToStart \/ CrawlEnds \/ SaveRun \/ SaveFails \/ Act

Done == main \in Over /\ UNCHANGED vars

Next == (Main \/ CrawlFails \/ Finish \/ Key \/ Done) /\ UNCHANGED cli

Spec == Init /\ [][Next]_vars

\* The runtime runs both tasks; a crawl that is stopped or not paused ends
\* (Engine's Terminates and StopReturns).  No failure and no key has to come.
FairSpec == Spec /\ WF_vars(Main /\ UNCHANGED cli) /\ WF_vars(Finish /\ UNCHANGED cli)

-----------------------------------------------------------------------------
(* Properties. *)

(* Every variable keeps its type; a dashboard is open exactly while main    *)
(* waits beside one, and a job is selected whenever there is one.           *)
TypeOK ==
    /\ cli \in CommandLines
    /\ main \in {"open", "idle", "prepare", "crawl", "save", "wait"} \cup Over
    /\ main \in {"prepare", "crawl", "save", "wait"} =>
         request.kind = "cli" \/ (request.kind = "dashboard" /\ request.spec \in NewJobSpec)
    /\ store \in Seq(Job)
    /\ engine \in Flags \cup {None} /\ (engine # None) = (main \in {"crawl", "save", "wait"})
    /\ app \in DashboardState \cup {None}
    /\ (app # None) = (main \in {"idle", "crawl", "save", "wait"})
    /\ app # None /\ app.jobs # <<>> => HasSelected
    /\ actions \in Seq(DashboardAction) /\ (actions # <<>> => app # None)
    /\ message \in Seq(Job) \cup {None} /\ (message # None => main = "wait")
    /\ runs \in Nat
    /\ quitting \in {None, "heard", "misheard"}

(* A crawl is started only because the command line or the user asked for   *)
(* it, and it is the one that was asked for: no key pressed beside a run,   *)
(* in whatever order with its end, repeats the command line's crawl, as     *)
(* the second loop would do after a ClearJobs.                              *)
RunsAreAsked ==
    [][main' = "prepare" =>
         \/ main = "prepare"
         \/ Head(actions).kind = "Rerun" /\ request' = request
         \/ Head(actions).kind = "Start" /\ request' = DashboardRequest(Head(actions).spec)]_vars

(* What the finished dashboard lists is the history with the run that just  *)
(* ended as its newest job, if the run is saved.                            *)
FinishedRunIsShown ==
    app # None /\ app.summary =>
        /\ app.jobs = Recent(store)
        /\ prepared.save => Last(app.jobs) = RecordOf(request)

(* A quit key that no other action precedes is the last word: though it may *)
(* be pressed in the middle of a crawl, or between its end and its summary, *)
(* no further crawl starts and no history is lost.                          *)
QuitIsFinal ==
    [][quitting = "heard" => runs' = runs /\ IsPrefix(store, store')]_vars

(* And the program ends, also when the crawl is paused.                     *)
QuitEnds == quitting = "heard" ~> main \in Over

(* The commands screen's "Ctrl-C: stop and exit".  In the idle control      *)
(* center it clears the history, and the control center opens again.        *)
CtrlCExits == [][quitting = "misheard" /\ main' # main => main' = "exited"]_vars
=============================================================================
