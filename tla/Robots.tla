------------------------------- MODULE Robots -------------------------------
(***************************************************************************)
(* The robots.txt cache of rustcrawl-core (robots.rs), used by all workers  *)
(* at once.  entry_for looks the origin up under the mutex, lets go of it   *)
(* to fetch the file, and takes it again to insert what it got; a step here *)
(* is what happens between two of these points.                             *)
(***************************************************************************)
EXTENDS Integers, FiniteSets

CONSTANTS
    Worker,
    Url,          \* records [scheme, host, port, path]; port None when not written
    DefaultPort,  \* DefaultPort[s]: the known default port of scheme s
    Delay,        \* the numbers of seconds Duration::try_from_secs_f32 accepts
    Answers,      \* Answers[o]: what origin o may answer to GET /robots.txt
    MaxCalls,     \* bound: lookups per worker
    None

VARIABLES
    cache,        \* RobotsCache.cache: an entry for each origin, None if absent
    pc, call,     \* where each worker is in entry_for, for which method and URL
    entry,        \* the entry its call ends with
    calls,        \* lookups it began
    asked,        \* auxiliary: asked[w][o], its requests for o's robots.txt
    replies       \* auxiliary: what the calls returned

vars == <<cache, pc, call, entry, calls, asked, replies>>

Method == {"allowed", "crawl_delay"}

PortOf(u) == IF u.port = None THEN DefaultPort[u.scheme] ELSE u.port

\* The server a request for u reaches.
ServerOf(u) == <<u.scheme, u.host, PortOf(u)>>
Origin == {ServerOf(u) : u \in Url}

\* Mutant of OriginKey: a key without the port, like the frontier's host key.
OriginKeyMutant(u) == <<u.scheme, u.host, DefaultPort[u.scheme]>>

\* The key of the cache.
OriginKey(u) == <<u.scheme, u.host, PortOf(u)>>

(***************************************************************************)
(* An answer of an origin: "down" (no response), "status" (not a success),  *)
(* "cut" (the body fails), "garbage" (the parser refuses it), or "rules"    *)
(* with the paths it disallows and the Crawl-delay in seconds, None if none.*)
(***************************************************************************)
AllowAll == [robot |-> None, delay |-> None]

FetchEntry(a) ==
    IF a.kind = "rules"
      THEN [robot |-> a.disallow, delay |-> IF a.secs \in Delay THEN a.secs ELSE None]
      ELSE AllowAll

Path == {u.path : u \in Url}
Answer ==
    [kind : {"down", "status", "cut", "garbage", "rules"}, disallow : SUBSET Path,
     secs : Int \cup {None}]
Entry == [robot : (SUBSET Path) \cup {None}, delay : Delay \cup {None}]

ASSUME RobotsAssumption ==
    /\ IsFiniteSet(Worker)
    /\ MaxCalls \in Nat
    /\ Answers \in [Origin -> SUBSET Answer]
    /\ None \notin Entry
    /\ \A paths \in SUBSET Path : paths # None

\* What the method makes of an entry.
Verdict(c, e) ==
    IF c.method = "crawl_delay" THEN e.delay
    ELSE e.robot = None \/ c.url.path \notin e.robot

Init ==
    /\ cache = [o \in Origin |-> None]
    /\ pc = [w \in Worker |-> "idle"]
    /\ call = [w \in Worker |-> None]
    /\ entry = [w \in Worker |-> None]
    /\ calls = [w \in Worker |-> 0]
    /\ asked = [w \in Worker |-> [o \in Origin |-> 0]]
    /\ replies = {}

Goto(w, place) == pc' = [pc EXCEPT ![w] = place]

Call(w) ==
    /\ pc[w] = "idle"
    /\ calls[w] < MaxCalls
    /\ \E m \in Method, u \in Url : call' = [call EXCEPT ![w] = [method |-> m, url |-> u]]
    /\ calls' = [calls EXCEPT ![w] = @ + 1]
    /\ Goto(w, "check")
    /\ UNCHANGED <<cache, entry, asked, replies>>

\* Mutant of Check: the cache is never consulted.
CheckMutant(w) ==
    /\ pc[w] = "check"
    /\ Goto(w, "fetch")
    /\ UNCHANGED <<cache, call, entry, calls, asked, replies>>

\* The first lock of entry_for.
Check(w) ==
    /\ pc[w] = "check"
    /\ entry' = [entry EXCEPT ![w] = cache[OriginKey(call[w].url)]]
    /\ Goto(w, IF entry'[w] = None THEN "fetch" ELSE "reply")
    /\ UNCHANGED <<cache, call, calls, asked, replies>>

\* fetch_entry, outside the lock: the request goes to the URL's own origin.
Fetch(w) ==
    /\ pc[w] = "fetch"
    /\ LET o == ServerOf(call[w].url) IN
         /\ asked' = [asked EXCEPT ![w][o] = @ + 1]
         /\ \E a \in Answers[o] : entry' = [entry EXCEPT ![w] = FetchEntry(a)]
    /\ Goto(w, "insert")
    /\ UNCHANGED <<cache, call, calls, replies>>

\* Mutant of Insert: only a file with rules is remembered.
InsertMutant(w) ==
    /\ pc[w] = "insert"
    /\ cache' = IF entry[w].robot = None THEN cache
                ELSE [cache EXCEPT ![OriginKey(call[w].url)] = entry[w]]
    /\ Goto(w, "reply")
    /\ UNCHANGED <<call, entry, calls, asked, replies>>

\* The second lock: whoever inserts last wins.
Insert(w) ==
    /\ pc[w] = "insert"
    /\ cache' = [cache EXCEPT ![OriginKey(call[w].url)] = entry[w]]
    /\ Goto(w, "reply")
    /\ UNCHANGED <<call, entry, calls, asked, replies>>

Reply(w) ==
    /\ pc[w] = "reply"
    /\ replies' = replies \cup
         {[url |-> call[w].url, method |-> call[w].method, value |-> Verdict(call[w], entry[w])]}
    /\ call' = [call EXCEPT ![w] = None]
    /\ entry' = [entry EXCEPT ![w] = None]
    /\ Goto(w, "idle")
    /\ UNCHANGED <<cache, calls, asked>>

Next == \E w \in Worker : Call(w) \/ Check(w) \/ Fetch(w) \/ Insert(w) \/ Reply(w)

Spec == Init /\ [][Next]_vars

-----------------------------------------------------------------------------
(* Properties. *)

(* Every variable keeps its type, and a worker has an entry from the moment *)
(* it found or fetched one.                                                 *)
TypeOK ==
    /\ cache \in [Origin -> Entry \cup {None}]
    /\ pc \in [Worker -> {"idle", "check", "fetch", "insert", "reply"}]
    /\ call \in [Worker -> [method : Method, url : Url] \cup {None}]
    /\ entry \in [Worker -> Entry \cup {None}]
    /\ \A w \in Worker :
         /\ IF pc[w] = "idle" THEN call[w] = None ELSE call[w] \in [method : Method, url : Url]
         /\ IF pc[w] \in {"insert", "reply"} THEN entry[w] \in Entry ELSE entry[w] = None
    /\ calls \in [Worker -> 0..MaxCalls]
    /\ asked \in [Worker -> [Origin -> Nat]]

(* The race on a cold origin is benign in its cost: a worker asks an origin *)
(* for its robots.txt once in a crawl, whatever the origin answers, so a    *)
(* file that is missing is not asked for again with every page.             *)
OneRequestEach == \A w \in Worker, o \in Origin : asked[w][o] <= 1

Fetching(o) == {w \in Worker : pc[w] = "fetch" /\ OriginKey(call[w].url) = o}
Requests(o) == Cardinality({w \in Worker : asked[w][o] > 0})

(* Once an origin is in the cache, only workers that missed it before still *)
(* ask for its file.                                                        *)
CachedIsSettled ==
    [][\A o \in Origin : cache[o] # None =>
         /\ cache'[o] # None
         /\ Requests(o)' + Cardinality(Fetching(o)') <= Requests(o) + Cardinality(Fetching(o))]_vars

(* "Exactly the granularity at which robots.txt applies": an answer is one  *)
(* the file of the URL's own origin gave, with or without the port spelled  *)
(* out, never the file of another port or scheme of the host; what is no    *)
(* file of rules refuses nothing, and a delay is one the file states.       *)
RuledByOwnOrigin ==
    \A r \in replies : \E a \in Answers[ServerOf(r.url)] :
        LET rules == a.kind = "rules" IN
        IF r.method = "allowed" THEN r.value = ~(rules /\ r.url.path \in a.disallow)
        ELSE r.value = IF rules /\ a.secs \in Delay THEN a.secs ELSE None

(* robots.rs "a benign race may fetch twice but never corrupts the cache":  *)
(* rules once read are not lost to a second fetch that failed.  They are:   *)
(* the second insert replaces the entry, whatever it holds, for the rest    *)
(* of the crawl.                                                            *)
RulesAreKept ==
    [][\A o \in Origin : cache[o] # None /\ cache[o].robot # None => cache'[o].robot # None]_vars
=============================================================================
