------------------------ MODULE ControlCenterProofs ------------------------
(***************************************************************************)
(* Proofs about ControlCenter, for any command lines, histories and texts,  *)
(* any number of runs and any length of the queue of actions.               *)
(***************************************************************************)
EXTENDS ControlCenter, SequenceTheorems, TLAPS

-----------------------------------------------------------------------------
(* The inductive invariant: TypeOK and these three. *)

\* Who may clear the history, and which loop runs a command line.
Asked ==
    /\ main \in {"open", "idle"} => Interactive
    /\ app # None /\ app.idle => main = "idle"
    /\ app # None /\ app.idle => app.last_run_spec = None
    /\ \A i \in DOMAIN actions : actions[i].kind = "ClearJobs" => Interactive
    /\ main \in {"prepare", "crawl", "save", "wait"} /\ request.kind = "cli" => ~Interactive

\* What the display was sent, or shows, is the history with the run in it.
Shown ==
    /\ message # None => message = Recent(store)
    /\ app # None /\ app.summary => main = "wait" /\ app.jobs = Recent(store)
    /\ main = "wait" /\ prepared.save => store # <<>> /\ Last(store) = RecordOf(request)

\* A quit key that was first in the queue stays first until main takes it.
Heard ==
    quitting = "heard" =>
        main \in Over \/ (actions # <<>> /\ Head(actions).kind = "Exit" /\ app # None)

IInv == TypeOK /\ Asked /\ Shown /\ Heard

-----------------------------------------------------------------------------
(* Histories, and the specs and records made of each other. *)

LEMMA WiderSeq ==
    ASSUME NEW S, NEW T, NEW s \in Seq(S)
    PROVE  s \in Seq(S \cup T)
<1>1. Len(s) \in Nat /\ \A i \in 1..Len(s) : s[i] \in S \cup T
  BY ElementOfSeq
<1>2. SubSeq(s, 1, Len(s)) \in Seq(S \cup T)
  BY <1>1, SubSeqProperties
<1> QED BY <1>2, SubSeqFull

LEMMA OneElement ==
    ASSUME NEW S, NEW e \in S
    PROVE  <<e>> \in Seq(S) /\ <<>> \in Seq(S) /\ <<e>> \o <<>> = <<e>> /\ <<e>> # <<>>
<1>1. <<e>> \in Seq(S) /\ <<>> \in Seq(S) /\ <<e>> # <<>>
  OBVIOUS
<1> QED BY <1>1, ConcatEmptySeq

LEMMA RecentJobs ==
    ASSUME NEW jobs \in Seq(Job)
    PROVE  /\ Recent(jobs) \in Seq(Job)
           /\ jobs # <<>> => Recent(jobs) # <<>> /\ Last(Recent(jobs)) = Last(jobs)
<1> DEFINE from == IF Len(jobs) > RECENT_LIMIT THEN Len(jobs) - RECENT_LIMIT + 1 ELSE 1
<1>1. RECENT_LIMIT \in Nat /\ RECENT_LIMIT > 0 /\ Len(jobs) \in Nat
  BY ControlCenterAssumption
<1>2. from \in Int /\ Len(jobs) \in Int /\ from >= 1 /\ (Len(jobs) > 0 => from <= Len(jobs))
  BY <1>1
<1>3. \A i \in from..Len(jobs) : jobs[i] \in Job
  BY <1>1, <1>2
<1>4. Recent(jobs) = SubSeq(jobs, from, Len(jobs))
  BY DEF Recent
<1> HIDE DEF from
<1>5. /\ SubSeq(jobs, from, Len(jobs)) \in Seq(Job)
      /\ Len(SubSeq(jobs, from, Len(jobs))) = IF from <= Len(jobs) THEN Len(jobs) - from + 1 ELSE 0
      /\ \A i \in 1..(Len(jobs) - from + 1) : SubSeq(jobs, from, Len(jobs))[i] = jobs[from + i - 1]
  BY <1>2, <1>3, SubSeqProperties, SMTT(30)
<1>6. ASSUME jobs # <<>>
      PROVE  Recent(jobs) # <<>> /\ Last(Recent(jobs)) = Last(jobs)
  <2>1. Len(jobs) > 0
    BY <1>6, <1>1
  <2>2. Len(Recent(jobs)) = Len(jobs) - from + 1 /\ Len(Recent(jobs)) >= 1
    BY <2>1, <1>1, <1>2, <1>4, <1>5
  <2>3. Recent(jobs)[Len(jobs) - from + 1] = jobs[Len(jobs)]
    BY <2>1, <2>2, <1>1, <1>2, <1>4, <1>5
  <2>4. Recent(jobs) # <<>>
    BY <2>2
  <2> QED BY <2>2, <2>3, <2>4 DEF Last
<1> QED BY <1>4, <1>5, <1>6

LEMMA JobRecord ==
    ASSUME NEW T, NEW D, NEW seeds \in Seq(T), NEW sitemaps \in Seq(T), NEW delay \in D
    PROVE  [seeds |-> seeds, sitemaps |-> sitemaps, delay |-> delay]
               \in [seeds : Seq(T), sitemaps : Seq(T), delay : D]
OBVIOUS

LEMMA FirstIsText ==
    ASSUME NEW T, NEW seeds \in Seq(T), NEW sitemaps \in Seq(T), seeds \o sitemaps # <<>>
    PROVE  FirstOf(seeds, sitemaps) \in T
BY ConcatProperties, HeadTailProperties DEF FirstOf

LEMMA FromJobIsSpec ==
    ASSUME NEW job \in Job
    PROVE  FromJob(job) \in NewJobSpec
<1>1. /\ job.seeds \in Seq(Target \cup {""}) /\ job.sitemaps \in Seq(Target \cup {""})
      /\ job.delay \in Delays /\ job.seeds \o job.sitemaps # <<>>
  BY DEF Job
<1>2. FirstOf(job.seeds, job.sitemaps) \in Target \cup {""}
  BY <1>1, FirstIsText
<1> HIDE DEF Job
<1> QED BY <1>1, <1>2, Zenon DEF FromJob, NewJobSpec

LEMMA CommandLineType ==
    TypeOK => /\ cli.seeds \in Seq(Target) /\ cli.sitemaps \in Seq(Target)
              /\ cli.seeds \in Seq(Target \cup {""}) /\ cli.sitemaps \in Seq(Target \cup {""})
              /\ cli.delay \in Delays /\ cli.save \in BOOLEAN
<1> SUFFICES ASSUME TypeOK
             PROVE  /\ cli.seeds \in Seq(Target) /\ cli.sitemaps \in Seq(Target)
                    /\ cli.seeds \in Seq(Target \cup {""}) /\ cli.sitemaps \in Seq(Target \cup {""})
                    /\ cli.delay \in Delays /\ cli.save \in BOOLEAN
  OBVIOUS
<1>1. cli \in [seeds : Seq(Target), sitemaps : Seq(Target), delay : Delays, save : BOOLEAN]
  BY ControlCenterAssumption, Zenon DEF TypeOK
<1>2. cli.seeds \in Seq(Target) /\ cli.sitemaps \in Seq(Target) /\ cli.delay \in Delays
  BY <1>1
<1>3. cli.save \in BOOLEAN
  BY <1>1, Zenon
<1>4. \A s \in Seq(Target) : s \in Seq(Target \cup {""})
  BY WiderSeq
<1> QED BY <1>2, <1>3, <1>4

LEMMA RequestType ==
    ASSUME TypeOK, Asked, main \in {"prepare", "crawl", "save", "wait"}
    PROVE  EditableSpec(request) \in NewJobSpec /\ RecordOf(request) \in Job
<1>1. CASE request.kind = "cli"
  <2>1. cli.seeds \o cli.sitemaps # <<>>
    BY <1>1 DEF Asked, Interactive
  <2>2. FirstOf(cli.seeds, cli.sitemaps) \in Target
    BY <2>1, CommandLineType, FirstIsText
  <2>3. EditableSpec(request) = [target |-> FirstOf(cli.seeds, cli.sitemaps), delay |-> cli.delay, save |-> cli.save]
    BY <1>1, Zenon DEF EditableSpec
  <2>4. EditableSpec(request) \in NewJobSpec
    <3>1. FirstOf(cli.seeds, cli.sitemaps) \in Target \cup {""}
      BY <2>2
    <3>2. [target |-> FirstOf(cli.seeds, cli.sitemaps), delay |-> cli.delay, save |-> cli.save]
              \in NewJobSpec
      <4>1. cli.delay \in Delays /\ cli.save \in BOOLEAN
        BY CommandLineType
      <4> QED BY <3>1, <4>1, Zenon DEF NewJobSpec
    <3> QED BY <2>3, <3>2
  <2>5. RecordOf(request) \in Job
    BY <1>1, <2>1, CommandLineType DEF RecordOf, Job
  <2> QED BY <2>4, <2>5
<1>2. CASE request.kind = "dashboard" /\ request.spec \in NewJobSpec
  <2>1. EditableSpec(request) \in NewJobSpec
    BY <1>2 DEF EditableSpec
  <2>2. request.spec.target \in Target \cup {""} /\ request.spec.delay \in Delays
    BY <1>2 DEF NewJobSpec
  <2>3. /\ <<request.spec.target>> \in Seq(Target \cup {""}) /\ <<>> \in Seq(Target \cup {""})
        /\ <<request.spec.target>> \o <<>> # <<>>
    BY <2>2, OneElement
  <2>4. RecordOf(request) \in Job
    <3>1. RecordOf(request) = [seeds |-> <<request.spec.target>>, sitemaps |-> <<>>, delay |-> request.spec.delay]
      BY <1>2 DEF RecordOf
    <3>2. /\ RecordOf(request).seeds = <<request.spec.target>>
          /\ RecordOf(request).sitemaps = <<>>
      BY <3>1
    <3>3. RecordOf(request) \in [seeds : Seq(Target \cup {""}), sitemaps : Seq(Target \cup {""}), delay : Delays]
      <4>1. PICK seeds \in Seq(Target \cup {""}), sitemaps \in Seq(Target \cup {""}) :
                seeds = <<request.spec.target>> /\ sitemaps = <<>>
        BY <2>3
      <4>2. RecordOf(request) = [seeds |-> seeds, sitemaps |-> sitemaps, delay |-> request.spec.delay]
        BY <3>1, <4>1
      <4>3. request.spec.delay \in Delays
        BY <2>2
      <4>4. [seeds |-> seeds, sitemaps |-> sitemaps, delay |-> request.spec.delay]
                \in [seeds : Seq(Target \cup {""}), sitemaps : Seq(Target \cup {""}), delay : Delays]
        BY <4>3, JobRecord
      <4> QED BY <4>2, <4>4, Zenon
    <3> QED BY <2>3, <3>2, <3>3 DEF Job
  <2> QED BY <2>1, <2>4
<1> QED BY <1>1, <1>2 DEF TypeOK

-----------------------------------------------------------------------------
(* The dashboard's state under the keys. *)

Same(d, e) ==
    /\ e.idle = d.idle
    /\ e.summary = d.summary
    /\ e.jobs = d.jobs
    /\ e.last_run_spec = d.last_run_spec

LEMMA WithMode ==
    ASSUME NEW d \in DashboardState, NEW mode \in {"Dashboard", "NewJob", "Commands"}
    PROVE  LET e == [d EXCEPT !.mode = mode]
           IN  e \in DashboardState /\ Same(d, e) /\ e.selected = d.selected
<1>1. [d EXCEPT !.mode = mode] \in DashboardState
  BY Zenon DEF DashboardState
<1> QED BY <1>1, Zenon DEF DashboardState, Same

LEMMA WithForm ==
    ASSUME NEW d \in DashboardState, NEW mode \in {"Dashboard", "NewJob", "Commands"},
           NEW form \in NewJobSpec
    PROVE  LET e == [d EXCEPT !.mode = mode, !.form = form]
           IN  e \in DashboardState /\ Same(d, e) /\ e.selected = d.selected
<1>1. [d EXCEPT !.mode = mode, !.form = form] \in DashboardState
  BY Zenon DEF DashboardState
<1> QED BY <1>1, Zenon DEF DashboardState, Same

LEMMA WithField ==
    ASSUME NEW d \in DashboardState, NEW form \in NewJobSpec
    PROVE  LET e == [d EXCEPT !.form = form]
           IN  e \in DashboardState /\ Same(d, e) /\ e.selected = d.selected
<1>1. [d EXCEPT !.form = form] \in DashboardState
  BY Zenon DEF DashboardState
<1> QED BY <1>1, Zenon DEF DashboardState, Same

LEMMA WithSelected ==
    ASSUME NEW d \in DashboardState, NEW n \in Nat
    PROVE  LET e == [d EXCEPT !.selected = n]
           IN  e \in DashboardState /\ Same(d, e) /\ e.selected = n
<1>1. [d EXCEPT !.selected = n] \in DashboardState
  BY Zenon DEF DashboardState
<1> QED BY <1>1, Zenon DEF DashboardState, Same

LEMMA LesserIs ==
    ASSUME NEW m \in Int, NEW n \in Int
    PROVE  Min({m, n}) = IF m <= n THEN m ELSE n
BY DEF Min

\* What every key leaves as it is ...
Kept ==
    /\ app # None
    /\ app' \in DashboardState /\ Same(app, app')
    /\ app.jobs # <<>> => app'.selected < Len(app'.jobs)
    /\ engine' \in Flags \cup {None} /\ (engine' = None <=> engine = None)
    /\ Show

\* ... and the actions it may leave for main.
Asks ==
    \/ actions' = actions /\ quitting' = quitting
    \/ \E a \in DashboardAction :
         /\ actions' = Append(actions, a)
         /\ a.kind = "ClearJobs" => app.idle
         /\ quitting' \in {None, "heard", "misheard"}
         /\ quitting' = "heard" => quitting = "heard" \/ (actions = <<>> /\ a.kind = "Exit")

LEMMA AppType ==
    TypeOK /\ app # None =>
        /\ app \in DashboardState
        /\ app.jobs \in Seq(Job)
        /\ app.selected \in Nat
        /\ app.last_run_spec \in NewJobSpec \cup {None}
        /\ app.form \in NewJobSpec
        /\ app.jobs # <<>> => app.selected < Len(app.jobs)
<1> SUFFICES ASSUME TypeOK, app # None
             PROVE  /\ app \in DashboardState
                    /\ app.jobs \in Seq(Job)
                    /\ app.selected \in Nat
                    /\ app.last_run_spec \in NewJobSpec \cup {None}
                    /\ app.form \in NewJobSpec
                    /\ app.jobs # <<>> => app.selected < Len(app.jobs)
  OBVIOUS
<1>1. app \in DashboardState /\ (app.jobs # <<>> => app.selected < Len(app.jobs))
  BY Zenon DEF TypeOK, HasSelected
<1> QED BY <1>1, Zenon DEF DashboardState

LEMMA ActionsTyped ==
    /\ Action("ClearJobs") \in DashboardAction
    /\ Action("Rerun") \in DashboardAction
    /\ Action("Exit") \in DashboardAction
    /\ \A spec \in NewJobSpec : Start(spec) \in DashboardAction
<1>1. \A k \in {"ClearJobs", "Rerun", "Exit"} : Action(k) \in [kind : {"ClearJobs", "Rerun", "Exit"}]
  BY DEF Action
<1>2. \A spec \in NewJobSpec : Start(spec) \in [kind : {"Start"}, spec : NewJobSpec]
  BY DEF Start
<1> QED BY <1>1, <1>2 DEF DashboardAction

LEMMA KeysKeep ==
    ASSUME TypeOK, Asked, Key
    PROVE  Kept /\ Asks
<1>1. app # None
  BY DEF Key, KeyCommands, KeyNew, KeyEdit, KeyDown, KeyUp, KeyClear, KeyRerun, KeyPause, KeyStop,
         KeyQuit, FormType, FormEsc, FormEnter, InMode
<1>2. /\ app \in DashboardState
      /\ app.jobs \in Seq(Job)
      /\ app.selected \in Nat
      /\ app.last_run_spec \in NewJobSpec \cup {None}
      /\ app.form \in NewJobSpec
      /\ app.jobs # <<>> => app.selected < Len(app.jobs)
  BY <1>1, AppType
<1>3. Same(app, app)
  BY Zenon DEF Same
<1>4. engine \in Flags \cup {None} /\ None \notin Flags
  BY ControlCenterAssumption DEF TypeOK
<1>5. quitting \in {None, "heard", "misheard"}
  BY DEF TypeOK
<1>6. Kept
  <2>1. ASSUME UNCHANGED <<app, engine>>, Show
        PROVE  Kept
    BY <2>1, <1>1, <1>2, <1>3, <1>4, Zenon DEF Kept
  <2>2. ASSUME app' \in DashboardState, Same(app, app'), app'.selected = app.selected, UNCHANGED engine, Show
        PROVE  Kept
    BY <2>2, <1>1, <1>2, <1>4, Zenon DEF Kept, Same
  <2>3. CASE KeyCommands
    <3>1. PICK mode \in {"Dashboard", "NewJob", "Commands"} : app' = [app EXCEPT !.mode = mode]
      BY <2>3 DEF KeyCommands
    <3> QED BY <2>2, <2>3, <3>1, <1>2, WithMode, Zenon DEF KeyCommands
  <2>4. CASE KeyNew
    <3>1. NewForm \in NewJobSpec
      BY ControlCenterAssumption, Zenon DEF NewForm, NewJobSpec
    <3> QED BY <2>2, <2>4, <3>1, <1>2, WithForm, Zenon DEF KeyNew
  <2>5. CASE KeyEdit
    <3>1. app.last_run_spec # None \/ app.selected < Len(app.jobs)
      BY <2>5 DEF KeyEdit, HasSelected
    <3>2. ASSUME ~(app.summary /\ app.last_run_spec # None)
          PROVE  FromJob(SelectedJob) \in NewJobSpec
      <4>1. app.selected < Len(app.jobs)
        <5>1. app.summary \/ app.idle
          BY <2>5, Zenon DEF KeyEdit, Rests
        <5>2. CASE app.last_run_spec = None
          BY <5>2, <3>1
        <5>3. CASE app.last_run_spec # None
          BY <5>1, <5>3, <3>2, <1>1, Zenon DEF Asked
        <5> QED BY <5>2, <5>3
      <4>2. Len(app.jobs) - app.selected \in 1..Len(app.jobs)
        BY <4>1, <1>2
      <4> QED BY <4>2, <1>2, ElementOfSeq, FromJobIsSpec DEF SelectedJob
    <3>3. PICK form \in NewJobSpec : app' = [app EXCEPT !.mode = "NewJob", !.form = form]
      BY <2>5, <3>2, <1>2, Zenon DEF KeyEdit
    <3>4. app' \in DashboardState /\ Same(app, app') /\ app'.selected = app.selected
      <4>1. "NewJob" \in {"Dashboard", "NewJob", "Commands"}
        OBVIOUS
      <4> QED BY <3>3, <4>1, <1>2, WithForm
    <3>5. Show /\ engine' = engine
      BY <2>5, Zenon DEF KeyEdit
    <3> QED BY <2>2, <3>4, <3>5, Zenon
  <2>6. CASE KeyDown \/ KeyUp
    <3>1. PICK n \in Nat : app' = [app EXCEPT !.selected = n] /\ (app.jobs # <<>> => n < Len(app.jobs))
      <4>1. CASE KeyDown
        <5>1. Len(app.jobs) \in Nat /\ Len(app.jobs) > 0
          BY <4>1, <1>2, EmptySeq DEF KeyDown
        <5>2. Min({app.selected + 1, Len(app.jobs) - 1}) \in Nat
          BY <5>1, <1>2, LesserIs
        <5>3. Min({app.selected + 1, Len(app.jobs) - 1}) < Len(app.jobs)
          BY <5>1, <1>2, LesserIs
        <5> QED BY <4>1, <5>2, <5>3 DEF KeyDown
      <4>2. CASE KeyUp
        <5>1. app.selected - 1 \in Nat /\ app' = [app EXCEPT !.selected = app.selected - 1]
          BY <4>2, <1>2 DEF KeyUp
        <5>2. app.jobs # <<>> => app.selected - 1 < Len(app.jobs)
          BY <1>2
        <5> QED BY <5>1, <5>2
      <4> QED BY <2>6, <4>1, <4>2
    <3>2. app' \in DashboardState /\ Same(app, app') /\ app'.selected = n
      BY <3>1, <1>2, WithSelected, Zenon
    <3>3. Show /\ engine' = engine
      BY <2>6, Zenon DEF KeyDown, KeyUp
    <3>4. app'.jobs = app.jobs
      BY <3>2, Zenon DEF Same
    <3> QED BY <1>1, <1>4, <3>1, <3>2, <3>3, <3>4, Zenon DEF Kept
  <2>7. CASE KeyClear \/ KeyRerun \/ FormEnter
    BY <2>1, <2>7, Zenon DEF KeyClear, KeyRerun, FormEnter
  <2>8. CASE KeyPause \/ KeyStop \/ KeyQuit
    <3>1. engine' \in Flags \cup {None} /\ (engine' = None <=> engine = None)
      <4>1. \A e \in Flags : /\ [e EXCEPT !.paused = ~e.paused] \in Flags
                             /\ [e EXCEPT !.stopping = TRUE] \in Flags
        BY Zenon DEF Flags
      <4>2. CASE KeyPause
        <5>1. engine \in Flags /\ engine' = [engine EXCEPT !.paused = ~engine.paused]
          BY <4>2, <1>4, Zenon DEF KeyPause
        <5> QED BY <4>1, <5>1, <1>4
      <4>3. CASE KeyStop
        <5>1. engine \in Flags /\ engine' = [engine EXCEPT !.stopping = TRUE]
          BY <4>3, <1>4 DEF KeyStop
        <5> QED BY <4>1, <5>1, <1>4
      <4>4. CASE KeyQuit
        <5>1. (engine' = None /\ engine = None) \/ (engine \in Flags /\ engine' = [engine EXCEPT !.stopping = TRUE])
          BY <4>4, <1>4 DEF KeyQuit
        <5> QED BY <4>1, <5>1, <1>4
      <4> QED BY <2>8, <4>2, <4>3, <4>4
    <3>2. Show /\ app' = app
      BY <2>8, Zenon DEF KeyPause, KeyStop, KeyQuit
    <3> QED BY <3>1, <3>2, <1>1, <1>2, <1>3, Zenon DEF Kept
  <2>9. CASE FormType
    <3>1. PICK t \in Target \cup {""}, l \in Delays, s \in BOOLEAN :
             app' \in {[app EXCEPT !.form.target = t], [app EXCEPT !.form.delay = l],
                       [app EXCEPT !.form.save = s]}
      <4>1. DefaultDelay \in Delays /\ "" \in Target \cup {""} /\ TRUE \in BOOLEAN
        BY ControlCenterAssumption
      <4> QED BY <2>9, <4>1, Zenon DEF FormType
    <3>2. app' \in DashboardState /\ Same(app, app') /\ app'.selected = app.selected
      <4>1. PICK d, e : d = app /\ e = app'
        OBVIOUS
      <4>2. /\ d \in DashboardState /\ d.form \in NewJobSpec
            /\ e \in {[d EXCEPT !.form.target = t], [d EXCEPT !.form.delay = l],
                      [d EXCEPT !.form.save = s]}
        BY <3>1, <4>1, <1>2
      <4>3. /\ [d.form EXCEPT !.target = t] \in NewJobSpec
            /\ [d.form EXCEPT !.delay = l] \in NewJobSpec
            /\ [d.form EXCEPT !.save = s] \in NewJobSpec
        BY <4>2, Zenon DEF NewJobSpec
      <4>4. PICK form \in NewJobSpec : e = [d EXCEPT !.form = form]
        BY <4>2, <4>3
      <4>5. e \in DashboardState /\ Same(d, e) /\ e.selected = d.selected
        BY <4>2, <4>4, WithField, Zenon
      <4> QED BY <4>1, <4>5
    <3> QED BY <2>2, <2>9, <3>2, Zenon DEF FormType
  <2>10. CASE FormEsc
    BY <2>2, <2>10, <1>2, WithMode, Zenon DEF FormEsc
  <2> QED BY <2>3, <2>4, <2>5, <2>6, <2>7, <2>8, <2>9, <2>10 DEF Key
<1>7. Asks
  <2>1. CASE UNCHANGED <<actions, quitting>>
    BY <2>1 DEF Asks
  <2>2. CASE KeyClear
    <3>1. /\ actions' = Append(actions, Action("ClearJobs"))
          /\ app.idle
          /\ quitting' = "misheard" \/ quitting' = quitting
      BY <2>2, Zenon DEF KeyClear, Push
    <3> QED BY <3>1, <1>5, ActionsTyped, Zenon DEF Asks
  <2>3. CASE KeyRerun
    <3>1. actions' = Append(actions, Action("Rerun")) /\ quitting' = quitting
      BY <2>3 DEF KeyRerun, Push
    <3>2. Action("Rerun").kind # "ClearJobs"
      BY DEF Action
    <3> QED BY <3>1, <3>2, <1>5, ActionsTyped, Zenon DEF Asks
  <2>4. CASE KeyQuit
    <3>1. /\ actions' = Append(actions, Action("Exit"))
          /\ quitting' = quitting \/ (actions = <<>> /\ quitting' = "heard")
      BY <2>4 DEF KeyQuit, Push
    <3>2. Action("Exit").kind = "Exit" /\ Action("Exit").kind # "ClearJobs"
      BY DEF Action
    <3> QED BY <3>1, <3>2, <1>5, ActionsTyped, Zenon DEF Asks
  <2>5. CASE FormEnter
    <3>1. actions' = Append(actions, Start(app.form)) /\ quitting' = quitting
      BY <2>5 DEF FormEnter, Push
    <3>2. Start(app.form).kind # "ClearJobs"
      BY DEF Start
    <3> QED BY <3>1, <3>2, <1>2, <1>5, ActionsTyped, Zenon DEF Asks
  <2> QED BY <2>1, <2>2, <2>3, <2>4, <2>5 DEF Key, KeyCommands, KeyNew, KeyEdit, KeyDown, KeyUp,
             KeyPause, KeyStop, FormType, FormEsc
<1> QED BY <1>6, <1>7

-----------------------------------------------------------------------------
(* The invariant is inductive. *)

LEMMA DashboardTyped ==
    ASSUME NEW jobs \in Seq(Job), NEW spec \in NewJobSpec \cup {None}, NEW idle \in BOOLEAN
    PROVE  LET d == Dashboard(Recent(jobs), spec, idle)
           IN  /\ d \in DashboardState
               /\ d.idle = idle /\ d.summary = FALSE /\ d.last_run_spec = spec
               /\ d.jobs # <<>> => d.selected < Len(d.jobs)
<1> DEFINE d == Dashboard(Recent(jobs), spec, idle)
<1>1. NewForm \in NewJobSpec
  BY ControlCenterAssumption, Zenon DEF NewForm, NewJobSpec
<1>2. PICK recent \in Seq(Job) : recent = Recent(jobs)
  BY RecentJobs
<1>3. d \in DashboardState
  BY <1>1, <1>2, Zenon DEF Dashboard, DashboardState
<1>4. d.idle = idle /\ d.summary = FALSE /\ d.last_run_spec = spec
  BY Zenon DEF Dashboard
<1>5. d.jobs = recent /\ d.selected = 0
  BY <1>2 DEF Dashboard
<1>6. recent # <<>> => 0 < Len(recent)
  BY EmptySeq
<1> QED BY <1>3, <1>4, <1>5, <1>6

LEMMA InitIInv == Init => IInv
<1> SUFFICES ASSUME Init PROVE IInv
  OBVIOUS
<1>1. TypeOK
  BY ControlCenterAssumption DEF Init, TypeOK, Over, CliRequest, DashboardAction
<1>2. Asked /\ Shown /\ Heard
  BY ControlCenterAssumption DEF Init, Asked, Shown, Heard, CliRequest
<1> QED BY <1>1, <1>2 DEF IInv

LEMMA NoneIsNone ==
    /\ None \notin DashboardState /\ None \notin Flags /\ None \notin Seq(Job)
    /\ None # "heard"
BY ControlCenterAssumption

LEMMA HeadIs ==
    ASSUME NEW S, NEW s \in Seq(S), s # <<>>
    PROVE  Head(s) \in S /\ 1 \in DOMAIN s /\ Head(s) = s[1]
BY LenProperties, EmptySeq, HeadTailProperties

LEMMA MainKeepsTypes ==
    ASSUME IInv, Main \/ CrawlFails, UNCHANGED cli
    PROVE  TypeOK'
<1> USE DEF IInv
<1>1. CASE OpenCenter
  <2>1. CASE main' = "exited" /\ app' = app
    BY <1>1, <2>1 DEF OpenCenter, TypeOK, Over, HasSelected
  <2>2. CASE main' = "idle" /\ app' = Dashboard(Recent(store), None, TRUE)
    <3>1. /\ app' \in DashboardState
          /\ app'.jobs # <<>> => app'.selected < Len(app'.jobs)
      BY <2>2, DashboardTyped DEF TypeOK
    <3>2. main' = "idle" /\ UNCHANGED <<request, prepared, store, engine, actions, message, runs, quitting>>
      BY <1>1, <2>2, Zenon DEF OpenCenter
    <3>3. main = "open"
      BY <1>1, Zenon DEF OpenCenter
    <3> QED BY <3>1, <3>2, <3>3, NoneIsNone DEF TypeOK, Over, HasSelected
  <2> QED BY <1>1, <2>1, <2>2 DEF OpenCenter
<1>2. CASE StartRun
  <2>1. EditableSpec(request) \in NewJobSpec
    BY <1>2, RequestType DEF StartRun
  <2>2. /\ app' \in DashboardState
        /\ app'.jobs # <<>> => app'.selected < Len(app'.jobs)
    BY <1>2, <2>1, DashboardTyped DEF StartRun, TypeOK
  <2>3. engine' \in Flags
    BY <1>2, Zenon DEF StartRun, Flags
  <2>4. /\ main = "prepare" /\ main' = "crawl" /\ runs' = runs + 1
        /\ UNCHANGED <<request, store, actions, message, quitting>>
    BY <1>2, Zenon DEF StartRun
  <2> QED BY <2>2, <2>3, <2>4, NoneIsNone DEF TypeOK, Over, HasSelected
<1>3. CASE FailToStart \/ CrawlEnds
  BY <1>3 DEF FailToStart, CrawlEnds, TypeOK, Over, HasSelected
<1>4. CASE CrawlFails \/ SaveFails
  <2>1. /\ main' = "failed" /\ app' = None /\ engine' = None /\ actions' = <<>> /\ message' = None
        /\ UNCHANGED <<request, store, runs, quitting>>
    BY <1>4, Zenon DEF CrawlFails, SaveFails, CloseDisplay
  <2> QED BY <2>1, EmptySeq, NoneIsNone DEF TypeOK, Over, HasSelected
<1>5. CASE SaveRun
  <2>1. store' \in Seq(Job)
    <3>1. RecordOf(request) \in Job
      BY <1>5, RequestType DEF SaveRun
    <3>2. Append(store, RecordOf(request)) \in Seq(Job)
      BY <3>1, AppendProperties DEF TypeOK
    <3> QED BY <1>5, <3>2, Zenon DEF SaveRun, TypeOK
  <2>2. message' \in Seq(Job)
    BY <1>5, <2>1, RecentJobs DEF SaveRun
  <2> QED BY <1>5, <2>1, <2>2 DEF SaveRun, TypeOK, Over, HasSelected
<1>6. CASE Act
  <2>1. Head(actions) \in DashboardAction
    BY <1>6, HeadIs DEF Act, TypeOK
  <2>2. Head(actions).kind = "Start" => Head(actions).spec \in NewJobSpec
    BY <2>1 DEF DashboardAction
  <2>3. store' \in Seq(Job)
    BY <1>6, EmptySeq DEF Act, ActOn, TypeOK
  <2>4. main' = "prepare" =>
          request'.kind = "cli" \/ (request'.kind = "dashboard" /\ request'.spec \in NewJobSpec)
    BY <1>6, <2>1, <2>2 DEF Act, ActOn, TypeOK, Asked, Interactive, DashboardRequest
  <2>5. main' \in {"prepare", "open", "exited"}
    BY <1>6 DEF Act, ActOn
  <2> QED BY <1>6, <2>3, <2>4, <2>5, NoneIsNone, EmptySeq
          DEF Act, CloseDisplay, TypeOK, Over, HasSelected
<1> QED BY <1>1, <1>2, <1>3, <1>4, <1>5, <1>6 DEF Main

LEMMA AppendTyped ==
    ASSUME TypeOK, NEW a \in DashboardAction
    PROVE  /\ Append(actions, a) \in Seq(DashboardAction)
           /\ Append(actions, a) # <<>>
           /\ Head(Append(actions, a)) = IF actions = <<>> THEN a ELSE Head(actions)
           /\ \A i \in DOMAIN Append(actions, a) :
                  Append(actions, a)[i] = a \/ (i \in DOMAIN actions /\ Append(actions, a)[i] = actions[i])
<1>1. actions \in Seq(DashboardAction)
  BY DEF TypeOK
<1>2. Head(Append(actions, a)) = IF actions = <<>> THEN a ELSE Head(actions)
  BY <1>1, HeadTailAppend
<1>3. DOMAIN Append(actions, a) = 1..(Len(actions) + 1) /\ DOMAIN actions = 1..Len(actions)
      /\ Len(actions) \in Nat
  BY <1>1, AppendProperties, LenProperties
<1>4. \A i \in DOMAIN Append(actions, a) :
        Append(actions, a)[i] = a \/ (i \in DOMAIN actions /\ Append(actions, a)[i] = actions[i])
  BY <1>1, <1>3, AppendProperties
<1> QED BY <1>1, <1>2, <1>4, AppendProperties

LEMMA KeysKeepTypes ==
    ASSUME IInv, Key, UNCHANGED cli
    PROVE  TypeOK'
<1>1. Kept /\ Asks
  BY KeysKeep DEF IInv
<1>2. TypeOK
  BY DEF IInv
<1>3. /\ app # None /\ app' \in DashboardState
      /\ app'.jobs # <<>> => app'.selected < Len(app'.jobs)
      /\ engine' \in Flags \cup {None} /\ (engine' = None <=> engine = None)
      /\ UNCHANGED <<main, request, prepared, store, message, runs>>
  BY <1>1, Zenon DEF Kept, Same, Show
<1>4. actions' \in Seq(DashboardAction) /\ quitting' \in {None, "heard", "misheard"}
  BY <1>1, <1>2, AppendTyped DEF Asks, TypeOK
<1> QED BY <1>2, <1>3, <1>4, NoneIsNone DEF TypeOK, Over, HasSelected

LEMMA FinishShows ==
    ASSUME TypeOK, Finish
    PROVE  /\ app' \in DashboardState
           /\ app'.idle = app.idle /\ app'.last_run_spec = app.last_run_spec
           /\ app'.jobs = message
           /\ app'.jobs # <<>> => app'.selected < Len(app'.jobs)
           /\ message \in Seq(Job)
           /\ app # None /\ message # None /\ message' = None
           /\ UNCHANGED <<main, request, prepared, store, engine, actions, runs, quitting>>
<1>1. /\ app # None /\ message # None /\ message' = None
      /\ UNCHANGED <<main, request, prepared, store, engine, actions, runs, quitting>>
  BY Zenon DEF Finish
<1>2. message \in Seq(Job) /\ app \in DashboardState /\ app.selected \in Nat
  BY <1>1, AppType DEF TypeOK
<1> DEFINE n == IF message = <<>> THEN 0 ELSE Min({app.selected, Len(message) - 1})
<1>3. n \in Nat /\ (message # <<>> => n < Len(message))
  <2>1. CASE message = <<>>
    BY <2>1
  <2>2. CASE message # <<>>
    <3>1. Len(message) \in Nat /\ Len(message) > 0
      BY <2>2, <1>2, EmptySeq
    <3>2. n = IF app.selected <= Len(message) - 1 THEN app.selected ELSE Len(message) - 1
      BY <2>2, <3>1, <1>2, LesserIs
    <3> QED BY <3>1, <3>2, <1>2
  <2> QED BY <2>1, <2>2
<1>4. app' = [app EXCEPT !.summary = TRUE, !.jobs = message, !.selected = n]
  BY Zenon DEF Finish
<1> HIDE DEF n
<1>5. app' \in DashboardState
  <2>1. \A d \in DashboardState, s \in Seq(Job), k \in Nat :
          [d EXCEPT !.summary = TRUE, !.jobs = s, !.selected = k] \in DashboardState
    BY Zenon DEF DashboardState
  <2> QED BY <2>1, <1>2, <1>3, <1>4, Zenon
<1>6. /\ app'.idle = app.idle /\ app'.last_run_spec = app.last_run_spec
      /\ app'.jobs = message /\ app'.selected = n
  BY <1>2, <1>4, Zenon DEF DashboardState
<1> QED BY <1>1, <1>2, <1>3, <1>5, <1>6

LEMMA FinishKeepsTypes ==
    ASSUME IInv, Finish, UNCHANGED cli
    PROVE  TypeOK'
<1>1. TypeOK
  BY DEF IInv
<1> QED BY <1>1, FinishShows, NoneIsNone DEF TypeOK, Over, HasSelected

LEMMA TypeStep == IInv /\ [Next]_vars => TypeOK'
<1> SUFFICES ASSUME IInv, [Next]_vars PROVE TypeOK'
  OBVIOUS
<1>1. CASE (Main \/ CrawlFails) /\ UNCHANGED cli
  BY <1>1, MainKeepsTypes
<1>2. CASE Key /\ UNCHANGED cli
  BY <1>2, KeysKeepTypes
<1>3. CASE Finish /\ UNCHANGED cli
  BY <1>3, FinishKeepsTypes
<1>4. CASE UNCHANGED vars
  BY <1>4 DEF vars, IInv, TypeOK, Over, HasSelected
<1> QED BY <1>1, <1>2, <1>3, <1>4 DEF Next, Done

LEMMA AskedStep == IInv /\ [Next]_vars => Asked'
<1> SUFFICES ASSUME IInv, [Next]_vars PROVE Asked'
  OBVIOUS
<1>0. Interactive' <=> Interactive
  BY DEF Next, vars, Interactive
<1>1. TypeOK /\ Asked
  BY DEF IInv
<1>2. CASE OpenCenter
  <2>1. main = "open" /\ UNCHANGED <<request, actions>>
    BY <1>2, Zenon DEF OpenCenter
  <2>2. CASE main' = "exited" /\ app' = app
    BY <1>0, <1>1, <2>1, <2>2 DEF Asked, TypeOK
  <2>3. CASE main' = "idle" /\ app' = Dashboard(Recent(store), None, TRUE)
    <3>1. app'.last_run_spec = None
      BY <1>1, <2>3, DashboardTyped DEF TypeOK
    <3> QED BY <1>0, <1>1, <2>1, <2>3, <3>1, Zenon DEF Asked
  <2> QED BY <1>2, <2>2, <2>3, Zenon DEF OpenCenter
<1>3. CASE StartRun
  <2>1. EditableSpec(request) \in NewJobSpec
    BY <1>1, <1>3, RequestType DEF StartRun
  <2>2. app'.idle = FALSE
    BY <1>1, <1>3, <2>1, DashboardTyped, Zenon DEF StartRun, TypeOK
  <2>3. main = "prepare" /\ main' = "crawl" /\ UNCHANGED <<request, actions>>
    BY <1>3, Zenon DEF StartRun
  <2>4. main' # "open" /\ main' # "idle" /\ main \in {"prepare", "crawl", "save", "wait"}
    BY <2>3
  <2> QED BY <1>0, <1>1, <2>2, <2>3, <2>4, Zenon DEF Asked
<1>4. CASE FailToStart
  <2>1. main = "prepare" /\ main' = "failed" /\ UNCHANGED <<request, app, actions>>
    BY <1>4, Zenon DEF FailToStart
  <2>2. app = None
    BY <1>1, <2>1 DEF TypeOK
  <2> QED BY <1>0, <1>1, <2>1, <2>2 DEF Asked
<1>5. CASE CrawlEnds \/ SaveRun
  <2>1. /\ main \in {"crawl", "save"} /\ main' \in {"save", "wait"}
        /\ UNCHANGED <<request, app, actions>>
    BY <1>5 DEF CrawlEnds, SaveRun
  <2> QED BY <1>0, <1>1, <2>1 DEF Asked
<1>6. CASE CrawlFails \/ SaveFails
  <2>1. main' = "failed" /\ app' = None /\ actions' = <<>>
    BY <1>6, Zenon DEF CrawlFails, SaveFails, CloseDisplay
  <2> QED BY <1>0, <2>1 DEF Asked
<1>7. CASE Act
  <2>1. app' = None /\ actions' = <<>>
    BY <1>7, Zenon DEF Act, CloseDisplay
  <2>2. actions # <<>> /\ 1 \in DOMAIN actions /\ Head(actions) = actions[1]
    BY <1>1, <1>7, HeadIs DEF Act, TypeOK
  <2>3. Head(actions).kind = "ClearJobs" => Interactive
    BY <1>1, <2>2, Zenon DEF Asked
  <2>4. main \in {"idle", "wait"} /\ (main = "idle" => Interactive)
    BY <1>1, <1>7 DEF Act, Asked
  <2>5. /\ main' \in {"open", "idle"} => Interactive
        /\ main' \in {"prepare", "crawl", "save", "wait"} /\ request'.kind = "cli" => ~Interactive
    BY <1>1, <1>7, <2>3, <2>4 DEF Act, ActOn, DashboardRequest, Asked
  <2> QED BY <1>0, <2>1, <2>5 DEF Asked
<1>8. CASE Finish
  <2>1. /\ app # None /\ app'.idle = app.idle /\ app'.last_run_spec = app.last_run_spec
        /\ UNCHANGED <<main, request, actions>>
    BY <1>1, <1>8, FinishShows
  <2> QED BY <1>0, <1>1, <2>1, Zenon DEF Asked
<1>9. CASE Key
  <2>1. Kept /\ Asks
    BY <1>1, <1>9, KeysKeep
  <2>2. /\ app # None /\ app'.idle = app.idle /\ app'.last_run_spec = app.last_run_spec
        /\ UNCHANGED <<main, request>>
    BY <2>1, Zenon DEF Kept, Same, Show
  <2>3. \A i \in DOMAIN actions' : actions'[i].kind = "ClearJobs" => Interactive
    <3>1. CASE actions' = actions
      BY <1>1, <3>1, Zenon DEF Asked
    <3>2. ASSUME NEW a \in DashboardAction, actions' = Append(actions, a),
                 a.kind = "ClearJobs" => app.idle
          PROVE  \A i \in DOMAIN actions' : actions'[i].kind = "ClearJobs" => Interactive
      <4>1. a.kind = "ClearJobs" => Interactive
        <5>1. app.idle => main = "idle"
          BY <1>1, <2>2, Zenon DEF Asked
        <5>2. main = "idle" => Interactive
          BY <1>1 DEF Asked
        <5> QED BY <3>2, <5>1, <5>2, Zenon
      <4>2. \A i \in DOMAIN actions' :
              actions'[i] = a \/ (i \in DOMAIN actions /\ actions'[i] = actions[i])
        BY <1>1, <3>2, AppendTyped
      <4> QED BY <1>1, <4>1, <4>2, Zenon DEF Asked
    <3> QED BY <2>1, <3>1, <3>2, Zenon DEF Asks
  <2> QED BY <1>0, <1>1, <2>2, <2>3, Zenon DEF Asked
<1>10. CASE UNCHANGED vars
  BY <1>0, <1>1, <1>10, Zenon DEF vars, Asked
<1> QED BY <1>2, <1>3, <1>4, <1>5, <1>6, <1>7, <1>8, <1>9, <1>10 DEF Next, Main, Done

LEMMA ShownStep == IInv /\ [Next]_vars => Shown'
<1> SUFFICES ASSUME IInv, [Next]_vars PROVE Shown'
  OBVIOUS
<1>0. cli' = cli
  BY DEF Next, vars
<1>1. TypeOK /\ Shown
  BY DEF IInv
<1>2. CASE OpenCenter
  <2>1. main = "open" /\ UNCHANGED <<store, message>>
    BY <1>2, Zenon DEF OpenCenter
  <2>2. message = None
    BY <1>1, <2>1 DEF TypeOK
  <2>3. CASE main' = "exited" /\ app' = app
    <3>1. app = None
      BY <1>1, <2>1 DEF TypeOK
    <3> QED BY <2>1, <2>2, <2>3, <3>1 DEF Shown
  <2>4. CASE main' = "idle" /\ app' = Dashboard(Recent(store), None, TRUE)
    <3>1. app'.summary = FALSE
      BY <1>1, <2>4, DashboardTyped, Zenon DEF TypeOK
    <3>2. main' # "wait"
      BY <2>4
    <3> QED BY <2>1, <2>2, <3>1, <3>2, Zenon DEF Shown
  <2> QED BY <1>2, <2>3, <2>4, Zenon DEF OpenCenter
<1>3. CASE StartRun
  <2>1. EditableSpec(request) \in NewJobSpec
    BY <1>3, RequestType DEF StartRun, IInv
  <2>2. app'.summary = FALSE
    BY <1>1, <1>3, <2>1, DashboardTyped, Zenon DEF StartRun, TypeOK
  <2>3. main = "prepare" /\ main' = "crawl" /\ UNCHANGED <<store, message>>
    BY <1>3, Zenon DEF StartRun
  <2>4. message = None /\ main' # "wait"
    BY <1>1, <2>3 DEF TypeOK
  <2> QED BY <2>2, <2>3, <2>4, Zenon DEF Shown
<1>4. CASE FailToStart \/ CrawlEnds
  <2>1. /\ main \in {"prepare", "crawl"} /\ main' \in {"failed", "save"}
        /\ UNCHANGED <<store, message, app>>
    BY <1>4, Zenon DEF FailToStart, CrawlEnds
  <2>2. message = None /\ main # "wait" /\ main' # "wait"
    BY <1>1, <2>1 DEF TypeOK
  <2> QED BY <1>1, <2>1, <2>2, Zenon DEF Shown
<1>5. CASE SaveRun
  <2>1. /\ main = "save" /\ main' = "wait" /\ message' = Recent(store')
        /\ UNCHANGED <<request, prepared, app>>
        /\ store' = IF prepared.save THEN Append(store, RecordOf(request)) ELSE store
    BY <1>5, Zenon DEF SaveRun
  <2>2. ~(app # None /\ app.summary)
    BY <1>1, <2>1 DEF Shown
  <2>3. RecordOf(request)' = RecordOf(request)
    BY <1>0, <2>1 DEF RecordOf
  <2>4. prepared.save => store' # <<>> /\ Last(store') = RecordOf(request)
    <3>1. RecordOf(request) \in Job
      BY <2>1, RequestType DEF IInv
    <3>2. PICK r \in Job : r = RecordOf(request)
      BY <3>1
    <3>3. Append(store, r) # <<>> /\ Append(store, r)[Len(Append(store, r))] = r
      BY <1>1, AppendProperties DEF TypeOK
    <3> QED BY <2>1, <3>2, <3>3, Zenon DEF Last
  <2> QED BY <2>1, <2>2, <2>3, <2>4, Zenon DEF Shown
<1>6. CASE CrawlFails \/ SaveFails \/ Act
  <2>1. message' = None /\ app' = None
    BY <1>6, Zenon DEF CrawlFails, SaveFails, Act, CloseDisplay
  <2>2. main' # "wait"
    BY <1>6 DEF CrawlFails, SaveFails, Act, ActOn
  <2> QED BY <2>1, <2>2, Zenon DEF Shown
<1>7. CASE Finish
  <2>1. /\ app'.jobs = message /\ message # None /\ message' = None
        /\ UNCHANGED <<main, request, prepared, store>>
    BY <1>1, <1>7, FinishShows
  <2>2. main = "wait" /\ message = Recent(store)
    BY <1>1, <2>1 DEF TypeOK, Shown
  <2>3. RecordOf(request)' = RecordOf(request)
    BY <1>0, <2>1 DEF RecordOf
  <2> QED BY <1>1, <2>1, <2>2, <2>3, Zenon DEF Shown
<1>8. CASE Key
  <2>1. Kept
    BY <1>8, KeysKeep DEF IInv
  <2>2. /\ app # None /\ app'.summary = app.summary /\ app'.jobs = app.jobs
        /\ UNCHANGED <<main, request, prepared, store, message>>
    BY <2>1, Zenon DEF Kept, Same, Show
  <2>3. RecordOf(request)' = RecordOf(request)
    BY <1>0, <2>2 DEF RecordOf
  <2> QED BY <1>1, <2>2, <2>3, Zenon DEF Shown
<1>9. CASE UNCHANGED vars
  BY <1>1, <1>9, Zenon DEF vars, Shown, RecordOf
<1> QED BY <1>2, <1>3, <1>4, <1>5, <1>6, <1>7, <1>8, <1>9 DEF Next, Main, Done

LEMMA HeardStep == IInv /\ [Next]_vars => Heard'
<1> SUFFICES ASSUME IInv, [Next]_vars, quitting' = "heard"
             PROVE  main' \in Over \/ (actions' # <<>> /\ Head(actions').kind = "Exit" /\ app' # None)
  BY DEF Heard
<1>1. TypeOK /\ Heard
  BY DEF IInv
<1>2. CASE OpenCenter
  <2>1. main = "open" /\ UNCHANGED <<quitting>>
    BY <1>2, Zenon DEF OpenCenter
  <2>2. app = None /\ main \notin Over
    BY <1>1, <2>1 DEF TypeOK, Over
  <2> QED BY <1>1, <2>1, <2>2 DEF Heard
<1>3. CASE StartRun \/ FailToStart
  <2>1. main = "prepare" /\ UNCHANGED <<quitting>>
    BY <1>3, Zenon DEF StartRun, FailToStart
  <2>2. app = None /\ main \notin Over
    BY <1>1, <2>1 DEF TypeOK, Over
  <2> QED BY <1>1, <2>1, <2>2 DEF Heard
<1>4. CASE CrawlEnds \/ SaveRun
  <2>1. main \in {"crawl", "save"} /\ UNCHANGED <<app, actions, quitting>>
    BY <1>4, Zenon DEF CrawlEnds, SaveRun
  <2> QED BY <1>1, <2>1 DEF Heard, Over
<1>5. CASE CrawlFails \/ SaveFails
  BY <1>5, Zenon DEF CrawlFails, SaveFails, Over
<1>6. CASE Act
  <2>1. main \in {"idle", "wait"} /\ UNCHANGED quitting
    BY <1>6, Zenon DEF Act
  <2>2. Head(actions).kind = "Exit"
    BY <1>1, <2>1 DEF Heard, Over
  <2> QED BY <1>6, <2>2 DEF Act, ActOn, Over
<1>7. CASE Finish
  <2>1. /\ app' \in DashboardState /\ UNCHANGED <<main, actions, quitting>>
    BY <1>1, <1>7, FinishShows
  <2> QED BY <1>1, <2>1, NoneIsNone DEF Heard
<1>8. CASE Key
  <2>1. Kept /\ Asks
    BY <1>8, KeysKeep DEF IInv
  <2>2. app' # None /\ UNCHANGED main
    BY <2>1, NoneIsNone, Zenon DEF Kept, Show
  <2>3. CASE UNCHANGED <<actions, quitting>>
    BY <1>1, <2>2, <2>3 DEF Heard
  <2>4. ASSUME NEW a \in DashboardAction, actions' = Append(actions, a),
               quitting = "heard" \/ (actions = <<>> /\ a.kind = "Exit")
        PROVE  main' \in Over \/ (actions' # <<>> /\ Head(actions').kind = "Exit" /\ app' # None)
    <3>1. /\ actions' # <<>>
          /\ Head(actions') = IF actions = <<>> THEN a ELSE Head(actions)
      BY <1>1, <2>4, AppendTyped
    <3> QED BY <1>1, <2>2, <2>4, <3>1 DEF Heard
  <2> QED BY <2>1, <2>3, <2>4, Zenon DEF Asks
<1>9. CASE UNCHANGED vars
  BY <1>1, <1>9 DEF vars, Heard
<1> QED BY <1>2, <1>3, <1>4, <1>5, <1>6, <1>7, <1>8, <1>9 DEF Next, Main, Done

LEMMA Inductive == Spec => []IInv
<1>1. IInv /\ [Next]_vars => IInv'
  BY TypeStep, AskedStep, ShownStep, HeardStep DEF IInv
<1> QED BY InitIInv, <1>1, PTL DEF Spec

-----------------------------------------------------------------------------
(* The theorems. *)

(* Every variable keeps its type, for any instance: a dashboard is open     *)
(* exactly while main waits beside one, and has a job selected whenever it  *)
(* lists any.                                                               *)
THEOREM TypeCorrect == Spec => []TypeOK
<1>1. IInv => TypeOK
  BY DEF IInv
<1> QED BY Inductive, <1>1, PTL

(* No crawl starts but the one the command line or the user asked for,      *)
(* whatever keys are pressed and when.                                      *)
THEOREM RunsAreAskedHolds == Spec => RunsAreAsked
<1>1. IInv /\ [Next]_vars =>
        (main' = "prepare" =>
           \/ main = "prepare"
           \/ Head(actions).kind = "Rerun" /\ request' = request
           \/ Head(actions).kind = "Start" /\ request' = DashboardRequest(Head(actions).spec))
  <2> SUFFICES ASSUME IInv, [Next]_vars, main' = "prepare", main # "prepare"
               PROVE  \/ Head(actions).kind = "Rerun" /\ request' = request
                      \/ Head(actions).kind = "Start" /\ request' = DashboardRequest(Head(actions).spec)
    OBVIOUS
  <2>1. TypeOK /\ Asked
    BY DEF IInv
  <2>2. Act
    <3>1. CASE Key \/ Finish
      BY <3>1, <2>1, KeysKeep, FinishShows, Zenon DEF Kept, Show
    <3> QED BY <3>1 DEF Next, Main, OpenCenter, StartRun, FailToStart, CrawlEnds, CrawlFails, SaveRun, SaveFails,
               Done, vars
  <2>3. Head(actions).kind = "ClearJobs" => Interactive
    <3>1. 1 \in DOMAIN actions /\ Head(actions) = actions[1]
      BY <2>1, <2>2, HeadIs DEF Act, TypeOK
    <3> QED BY <2>1, <3>1, Zenon DEF Asked
  <2> QED BY <2>2, <2>3 DEF Act, ActOn
<1> QED BY Inductive, <1>1, PTL DEF Spec, RunsAreAsked

(* The finished dashboard lists the history with the run that just ended.   *)
THEOREM FinishedRunHolds == Spec => []FinishedRunIsShown
<1>1. IInv => FinishedRunIsShown
  <2> SUFFICES ASSUME IInv, app # None, app.summary
               PROVE  /\ app.jobs = Recent(store)
                      /\ prepared.save => Last(app.jobs) = RecordOf(request)
    BY Zenon DEF FinishedRunIsShown
  <2>1. main = "wait" /\ app.jobs = Recent(store)
    BY Zenon DEF IInv, Shown
  <2>2. prepared.save => store # <<>> /\ Last(store) = RecordOf(request)
    BY <2>1, Zenon DEF IInv, Shown
  <2>3. store # <<>> => Last(Recent(store)) = Last(store)
    BY RecentJobs DEF IInv, TypeOK
  <2> QED BY <2>1, <2>2, <2>3, Zenon
<1> QED BY Inductive, <1>1, PTL

(* After a quit key that no action precedes no crawl starts and no job is   *)
(* lost from the history, whatever is pressed later.                        *)
THEOREM QuitIsFinalHolds == Spec => QuitIsFinal
<1>1. IInv /\ [Next]_vars =>
        (quitting = "heard" => runs' = runs /\ IsPrefix(store, store'))
  <2> SUFFICES ASSUME IInv, [Next]_vars, quitting = "heard"
               PROVE  runs' = runs /\ IsPrefix(store, store')
    OBVIOUS
  <2>1. TypeOK /\ Asked /\ Heard
    BY DEF IInv
  <2>2. IsPrefix(store, store)
    BY <2>1 DEF IsPrefix, TypeOK
  <2>3. CASE UNCHANGED <<store, runs>>
    BY <2>2, <2>3
  <2>4. CASE SaveRun
    <3>1. RecordOf(request) \in Job
      BY <2>1, <2>4, RequestType DEF SaveRun
    <3>2. \A s \in Seq(Job), r \in Job : IsPrefix(s, Append(s, r))
      <4> SUFFICES ASSUME NEW s \in Seq(Job), NEW r \in Job PROVE IsPrefix(s, Append(s, r))
        OBVIOUS
      <4>1. Append(s, r) \in Seq(Job) /\ Len(Append(s, r)) = Len(s) + 1 /\ Len(s) \in Nat
            /\ \A i \in 1..Len(s) : Append(s, r)[i] = s[i]
        BY AppendProperties, LenProperties
      <4>2. Append(s, r) = s \o <<r>> /\ <<r>> \in Seq(Job)
        BY AppendIsConcat
      <4>3. SubSeq(Append(s, r), 1, Len(s)) = SubSeq(s, 1, Len(s))
        <5>1. CASE s = <<>>
          BY <5>1, <4>1, SubSeqEmpty
        <5>2. CASE s # <<>>
          <6>1. 1 \in 1..Len(s) /\ Len(s) \in 1..Len(s)
            BY <5>2, EmptySeq, <4>1
          <6> QED BY <6>1, <4>2, SubSeqOfConcat1
        <5> QED BY <5>1, <5>2
      <4> QED BY <4>1, <4>3 DEF IsPrefix
    <3>3. store' = store \/ store' = Append(store, RecordOf(request))
      BY <2>4, Zenon DEF SaveRun
    <3>4. runs' = runs
      BY <2>4, Zenon DEF SaveRun
    <3> QED BY <2>1, <2>2, <3>1, <3>2, <3>3, <3>4, Zenon DEF TypeOK
  <2>5. CASE StartRun
    <3>1. main = "prepare"
      BY <2>5, Zenon DEF StartRun
    <3> QED BY <2>1, <3>1 DEF TypeOK, Heard, Over
  <2>6. CASE Act
    <3>1. Head(actions).kind = "Exit"
      BY <2>1, <2>6 DEF Act, Heard, Over
    <3>2. UNCHANGED <<store, runs>>
      BY <2>6, <3>1 DEF Act, ActOn
    <3> QED BY <2>3, <3>2
  <2>7. CASE Key \/ Finish
    BY <2>3, <2>1, <2>7, KeysKeep, FinishShows, Zenon DEF Kept, Show
  <2>8. CASE OpenCenter \/ FailToStart \/ CrawlEnds \/ CrawlFails \/ SaveFails \/ UNCHANGED vars
    BY <2>3, <2>8, Zenon DEF OpenCenter, FailToStart, CrawlEnds, CrawlFails, SaveFails, vars
  <2> QED BY <2>4, <2>5, <2>6, <2>7, <2>8 DEF Next, Main, Done
<1> QED BY Inductive, <1>1, PTL DEF Spec, QuitIsFinal
=============================================================================
