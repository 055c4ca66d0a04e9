-------------------------------- MODULE Crawl --------------------------------
(***************************************************************************)
(* What a crawl promises, whatever its workers, locks and wake-ups do: each *)
(* URL goes once from waiting through in progress to finished, at most one  *)
(* page per live worker is in progress, only a page in progress brings new  *)
(* URLs, and the crawl closes only when it is drained, out of budget, asked *)
(* to stop, or without workers.  Engine is shown to implement it.           *)
(***************************************************************************)
EXTENDS Naturals, FiniteSets

CONSTANTS
    Url,
    Concurrency,   \* config.concurrency
    MaxPages,      \* config.max_pages, None for no limit
    None

VARIABLES
    phase,         \* "seeding", "crawling", "closed"
    waiting, inProgress, finished,
    crew,          \* the workers no panic has ended
    stopping       \* whether a stop was requested

vars == <<phase, waiting, inProgress, finished, crew, stopping>>

Known == waiting \cup inProgress \cup finished

OutOfBudget == MaxPages # None /\ Cardinality(inProgress \cup finished) >= MaxPages

Init ==
    /\ phase = "seeding"
    /\ waiting = {}
    /\ inProgress = {}
    /\ finished = {}
    /\ crew = Concurrency
    /\ stopping = FALSE

\* A seed, or a link found on a page that is in progress.
Discover(u) ==
    /\ phase = "seeding" \/ (phase = "crawling" /\ inProgress # {})
    /\ u \notin Known
    /\ waiting' = waiting \cup {u}
    /\ UNCHANGED <<phase, inProgress, finished, crew, stopping>>

Open ==
    /\ phase = "seeding"
    /\ phase' = "crawling"
    /\ UNCHANGED <<waiting, inProgress, finished, crew, stopping>>

Begin(u) ==
    /\ phase = "crawling"
    /\ u \in waiting
    /\ Cardinality(inProgress) < crew
    /\ ~OutOfBudget
    /\ waiting' = waiting \ {u}
    /\ inProgress' = inProgress \cup {u}
    /\ UNCHANGED <<phase, finished, crew, stopping>>

Finish(u) ==
    /\ u \in inProgress
    /\ inProgress' = inProgress \ {u}
    /\ finished' = finished \cup {u}
    /\ UNCHANGED <<phase, waiting, crew, stopping>>

\* A worker that is not on a page is lost.
Lose ==
    /\ Cardinality(inProgress) < crew
    /\ crew' = crew - 1
    /\ UNCHANGED <<phase, waiting, inProgress, finished, stopping>>

Stop ==
    /\ phase # "closed"
    /\ stopping' = TRUE
    /\ UNCHANGED <<phase, waiting, inProgress, finished, crew>>

Close ==
    /\ phase = "crawling"
    /\ inProgress = {}
    /\ waiting = {} \/ OutOfBudget \/ stopping \/ crew = 0
    /\ phase' = "closed"
    /\ UNCHANGED <<waiting, inProgress, finished, crew, stopping>>

Next ==
    \/ \E u \in Url : Discover(u) \/ Begin(u) \/ Finish(u)
    \/ Open
    \/ Lose
    \/ Stop
    \/ Close

Spec == Init /\ [][Next]_vars
=============================================================================
