-------------------------------- MODULE Form --------------------------------
(***************************************************************************)
(* The form of the dashboard (NewJobForm of progress.rs): it is opened      *)
(* empty or with the settings of a recorded job, edited field by field, and *)
(* Enter turns it into a run, which main prepares (from_dashboard).         *)
(* ControlCenter has the keys around it; here are the values.               *)
(***************************************************************************)
EXTENDS Settings

CONSTANTS
    Typed,        \* Typed[f]: what a user may leave in the field f, half a word too
    MaxEdits      \* bound: the fields changed

VARIABLES
    dashboard,    \* "closed", "idle", "form", "asked", "running" or "failed"
    edited,       \* auxiliary: the job the form was opened with, None for a new form
    form, active, error,
    touched,      \* auxiliary: the fields changed since the form was opened
    edits,
    asked,        \* the spec of the Start action, None before
    started       \* the CrawlConfig of the run it started, None before

formVars == <<dashboard, edited, form, active, error, touched, edits, asked, started>>

\* In the order of the form.
Field == <<"target", "max_pages", "depth", "concurrency", "scope", "delay", "robots_delay",
           "output", "save">>

FormInit ==
    /\ dashboard = "closed"
    /\ edited = None
    /\ form = NewForm
    /\ active = 1
    /\ error = FALSE
    /\ touched = {}
    /\ edits = 0
    /\ asked = None
    /\ started = None

Open(values, job) ==
    /\ dashboard = "idle"
    /\ dashboard' = "form"
    /\ edited' = job
    /\ form' = values
    /\ active' = 1
    /\ error' = FALSE
    /\ touched' = {}
    /\ UNCHANGED <<edits, asked, started>>

\* The keys n and e of the idle control center.
KeyNew == Open(NewForm, None)
KeyEdit(job) == Open(FromSpec(FromJob(Deserialize(job))), job)

\* next and prev
Move ==
    /\ dashboard = "form"
    /\ \/ active' = (active % Len(Field)) + 1
       \/ active' = IF active = 1 THEN Len(Field) ELSE active - 1
    /\ UNCHANGED <<dashboard, edited, form, error, touched, edits, asked, started>>

\* Some characters and Backspaces in the active field.
Type ==
    /\ dashboard = "form"
    /\ edits < MaxEdits
    /\ \E value \in Typed[Field[active]] : form' = [form EXCEPT ![Field[active]] = value]
    /\ touched' = touched \cup {Field[active]}
    /\ edits' = edits + 1
    /\ error' = FALSE
    /\ UNCHANGED <<dashboard, edited, active, asked, started>>

Esc ==
    /\ dashboard = "form"
    /\ dashboard' = "idle"
    /\ UNCHANGED <<edited, form, active, error, touched, edits, asked, started>>

Enter ==
    /\ dashboard = "form"
    /\ error' = (ToSpec(form) = None)
    /\ asked' = ToSpec(form)
    /\ dashboard' = IF ToSpec(form) = None THEN "form" ELSE "asked"
    /\ UNCHANGED <<edited, form, active, touched, edits, started>>

\* run_interactive_job: settings that are refused here end the program.
Start ==
    /\ dashboard = "asked"
    /\ started' = FromDashboard(asked)
    /\ dashboard' = IF FromDashboard(asked) = None THEN "failed" ELSE "running"
    /\ UNCHANGED <<edited, form, active, error, touched, edits, asked>>

FormNext(history) ==
    \/ KeyNew
    \/ \E i \in DOMAIN history : KeyEdit(history[i].job)
    \/ Move \/ Type \/ Esc \/ Enter \/ Start
=============================================================================
