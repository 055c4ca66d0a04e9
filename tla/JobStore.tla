------------------------------ MODULE JobStore ------------------------------
(***************************************************************************)
(* The job history of rustcrawl-cli (jobs.rs): a JSON Lines file that every  *)
(* rustcrawl process of the directory appends to, clears and loads.         *)
(*                                                                         *)
(* append writes through an unbuffered File opened O_APPEND: the record     *)
(* reaches the file in several writes and the newline in one more, without  *)
(* a lock, so writes of other processes, a crash, a full disk or a clear    *)
(* may come between any two of them.                                        *)
(***************************************************************************)
EXTENDS Naturals, SequencesExt

CONSTANTS
    Proc,         \* the rustcrawl processes of a directory
    MaxJobs,      \* bound: completed runs with a record to append
    Pieces,       \* the writes serde_json makes for a record
    RECENT_LIMIT,
    Fetched,      \* Fetched[r]: pages_fetched of record r
    MayCrash,     \* whether an append may stop short
    MayClear,     \* whether a user may clear the history
    Edits,        \* lines a manual edit may add: "blank", "junk", "bytes" (not UTF-8)
    None

VARIABLES
    file,         \* the writes in the file at the path, None when there is none
    job,          \* the record each process is appending, None when it is not
    done,         \* how many of its writes are made
    handle,       \* whether its file is still "live" at the path, or "gone"
    jobs,         \* the records created so far
    owner,        \* owner[r]: the process that created r
    cleared,      \* auxiliary: the value of jobs at the last clear
    saved,        \* auxiliary: appends that returned Ok, since the last clear
    alone,        \* auxiliary: the processes whose line has no foreign write yet
    kept          \* auxiliary: the saved records that ended on a line of their own

vars == <<file, job, done, handle, jobs, owner, cleared, saved, alone, kept>>

Record == 1..MaxJobs
\* What a write leaves in the file: a piece of a record, or something else.
Piece(r, i) == <<"piece", r, i>>
Mark(what) == <<what, 0, 0>>
Newline == Mark("newline")
Item == {Newline} \cup {Mark(e) : e \in Edits} \cup {Piece(r, i) : r \in Record, i \in 1..Pieces}

\* A record has at least one write; None is no value.
ASSUME JobStoreAssumption ==
    /\ MaxJobs \in Nat /\ RECENT_LIMIT \in Nat
    /\ Pieces \in Nat \ {0}
    /\ Edits \subseteq {"blank", "junk", "bytes"}
    /\ None \notin Seq(Item) \cup Record \cup Proc

-----------------------------------------------------------------------------
(* load(): the lines, the records among them, the history made of these.     *)

\* The newlines end the lines; what follows the last one is a line too.
Ends(f) == {i \in DOMAIN f : f[i] = Newline} \cup {Len(f) + 1}
LineAt(f, e) ==
    LET last == {j \in Ends(f) \cup {0} : j < e}
    IN SubSeq(f, Max(last) + 1, e - 1)

\* map_while(Result::ok): reading stops at the first line that is not UTF-8.
Readable(f, e) == \A i \in 1..(e - 1) : f[i] # Mark("bytes")

\* serde_json::from_str accepts a line that is one record and no more.
Whole(r) == [i \in 1..Pieces |-> Piece(r, i)]
IsRecord(line) == \E r \in Record : line = Whole(r)
ParseLine(line) == CHOOSE r \in Record : line = Whole(r)

\* The lines that hold a record, by their ends, from the first to the last.
InOrder(S) == CHOOSE s \in SetToSeqs(S) : \A i, j \in DOMAIN s : i < j => s[i] < s[j]
RecordLines(f) == InOrder({e \in Ends(f) : Readable(f, e) /\ IsRecord(LineAt(f, e))})

All(f) ==
    IF f = None THEN <<>>
    ELSE [n \in DOMAIN RecordLines(f) |-> ParseLine(LineAt(f, RecordLines(f)[n]))]

FromRecords(all) ==
    [total_jobs |-> Len(all),
     total_pages_fetched |-> FoldLeft(LAMBDA sum, r : sum + Fetched[r], 0, all)]

\* Mutant of Load: the first jobs, not the last.
LoadMutant(f) ==
    LET all == All(f)
    IN [recent |-> SubSeq(all, 1, Min({Len(all), RECENT_LIMIT})), stats |-> FromRecords(all)]

Load(f) ==
    LET all == All(f)
        start == IF Len(all) > RECENT_LIMIT THEN Len(all) - RECENT_LIMIT ELSE 0
    IN [recent |-> SubSeq(all, start + 1, Len(all)), stats |-> FromRecords(all)]

-----------------------------------------------------------------------------
Init ==
    /\ file = None
    /\ job = [p \in Proc |-> None]
    /\ done = [p \in Proc |-> 0]
    /\ handle = [p \in Proc |-> "gone"]
    /\ jobs = 0
    /\ owner = [r \in Record |-> None]
    /\ cleared = 0
    /\ saved = {}
    /\ alone = {}
    /\ kept = {}

\* A run completes: into_record, then append opens the file, creating it.
Open(p) ==
    /\ job[p] = None
    /\ jobs < MaxJobs
    /\ jobs' = jobs + 1
    /\ owner' = [owner EXCEPT ![jobs'] = p]
    /\ job' = [job EXCEPT ![p] = jobs']
    /\ done' = [done EXCEPT ![p] = 0]
    /\ handle' = [handle EXCEPT ![p] = "live"]
    /\ file' = IF file = None THEN <<>> ELSE file
    /\ UNCHANGED <<cleared, saved, alone, kept>>

AtLineStart == file # <<>> => Last(file) = Newline

\* O_APPEND: each write goes to the end of the file, if that is still there.
Put(p, write) ==
    /\ file' = IF handle[p] = "live" THEN Append(file, write) ELSE file
    /\ alone' = IF handle[p] # "live" THEN alone
                ELSE {q \in {p} : IF done[p] = 0 THEN AtLineStart ELSE p \in alone}

\* Mutant of WritePiece: the newline comes before the record's last piece.
WritePieceMutant(p) ==
    /\ job[p] # None
    /\ done[p] < Pieces
    /\ Put(p, IF done[p] + 1 = Pieces THEN Newline ELSE Piece(job[p], done[p] + 1))
    /\ done' = [done EXCEPT ![p] = @ + 1]
    /\ UNCHANGED <<job, handle, jobs, owner, cleared, saved, kept>>

WritePiece(p) ==
    /\ job[p] # None
    /\ done[p] < Pieces
    /\ Put(p, Piece(job[p], done[p] + 1))
    /\ done' = [done EXCEPT ![p] = @ + 1]
    /\ UNCHANGED <<job, handle, jobs, owner, cleared, saved, kept>>

\* The newline, and append returns Ok.
WriteNewline(p) ==
    /\ job[p] # None
    /\ done[p] = Pieces
    /\ Put(p, Newline)
    /\ saved' = IF handle[p] = "live" THEN saved \cup {job[p]} ELSE saved
    /\ kept' = IF handle[p] = "live" /\ p \in alone THEN kept \cup {job[p]} ELSE kept
    /\ job' = [job EXCEPT ![p] = None]
    /\ UNCHANGED <<done, handle, jobs, owner, cleared>>

\* The process is killed, or a write fails and append returns its error.
Crash(p) ==
    /\ MayCrash
    /\ job[p] # None
    /\ job' = [job EXCEPT ![p] = None]
    /\ UNCHANGED <<file, done, handle, jobs, owner, cleared, saved, alone, kept>>

\* Mutant of Clear: the file is emptied in place, and appends go on in it.
ClearMutant ==
    /\ MayClear
    /\ file # None
    /\ file' = <<>>
    /\ cleared' = jobs
    /\ saved' = {}
    /\ kept' = {}
    /\ UNCHANGED <<job, done, handle, jobs, owner, alone>>

\* clear(): the name is removed; an append under way goes on into the old file.
Clear ==
    /\ MayClear
    /\ file # None
    /\ file' = None
    /\ handle' = [p \in Proc |-> "gone"]
    /\ alone' = {}
    /\ cleared' = jobs
    /\ saved' = {}
    /\ kept' = {}
    /\ UNCHANGED <<job, done, jobs, owner>>

\* A manual edit adds a line between two appends.
Edit ==
    /\ file # None
    /\ \A p \in Proc : job[p] = None
    /\ AtLineStart
    /\ \E line \in Edits :
         /\ Mark(line) \notin ToSet(file)
         /\ file' = file \o <<Mark(line), Newline>>
    /\ UNCHANGED <<job, done, handle, jobs, owner, cleared, saved, alone, kept>>

Next ==
    \/ \E p \in Proc : Open(p) \/ WritePiece(p) \/ WriteNewline(p) \/ Crash(p)
    \/ Clear
    \/ Edit

Spec == Init /\ [][Next]_vars

-----------------------------------------------------------------------------
(* Properties. *)

Loaded == ToSet(All(file))

(* Every variable keeps its type; a handle is live only on an existing file.*)
TypeOK ==
    /\ file \in Seq(Item) \cup {None}
    /\ job \in [Proc -> Record \cup {None}]
    /\ done \in [Proc -> 0..Pieces]
    /\ handle \in [Proc -> {"live", "gone"}]
    /\ \A p \in Proc : handle[p] = "live" => file # None
    /\ jobs \in 0..MaxJobs
    /\ owner \in [Record -> Proc \cup {None}]
    /\ cleared \in 0..jobs
    /\ saved \subseteq 1..jobs
    /\ alone \subseteq Proc
    /\ kept \subseteq saved

(* However the writes of several processes are cut and mixed, the history   *)
(* shows no run twice, and none whose append began before the last clear.   *)
NothingInvented ==
    /\ IsInjective(All(file))
    /\ \A r \in Loaded : cleared < r /\ r <= jobs

(* "Malformed lines are skipped": torn lines, foreign lines and blank ones  *)
(* cost no run whose own line is whole its place in the history and in the  *)
(* totals.  It fails for a line that is not UTF-8, which ends the reading.  *)
WholeLinesAreLoaded ==
    /\ kept \subseteq Loaded
    /\ Load(file).stats.total_jobs >= Cardinality(kept)

(* The dashboard's recent jobs are the newest: a run it leaves out is older *)
(* than each run of the same process that it shows.                         *)
RecentIsNewest ==
    LET recent == Load(file).recent IN
    \A r \in kept \ ToSet(recent) :
        /\ Len(recent) = RECENT_LIMIT
        /\ \A s \in ToSet(recent) : owner[s] = owner[r] => s > r
=============================================================================
