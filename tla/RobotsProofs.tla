---------------------------- MODULE RobotsProofs ----------------------------
(***************************************************************************)
(* The race of robots.rs is benign, for any number of workers, origins and  *)
(* lookups and whatever the origins answer: each worker asks an origin once *)
(* (OneRequestEach), no worker starts asking for one that is in the cache   *)
(* (CachedIsSettled), and every verdict comes from the file of the URL's    *)
(* own origin (RuledByOwnOrigin).                                           *)
(*                                                                         *)
(* Neither is inductive.  A worker that asked must be known to find the     *)
(* entry in the cache, or to be about to insert it; and what the cache and  *)
(* the workers hold must be known to be what the origin answered.           *)
(***************************************************************************)
EXTENDS Robots, FiniteSetTheorems, TLAPS

\* Who asked an origin finds it in the cache, or is about to insert it.
AskedIsKept ==
    \A w \in Worker, o \in Origin :
        /\ asked[w][o] \in {0, 1}
        /\ asked[w][o] = 1 =>
             cache[o] # None \/ (pc[w] = "insert" /\ ServerOf(call[w].url) = o)

FetchIsFirst == \A w \in Worker : pc[w] = "fetch" => asked[w][ServerOf(call[w].url)] = 0

\* An entry that origin o may have given.
From(o, e) == \E a \in Answers[o] : e = FetchEntry(a)

EntriesAreHonest ==
    /\ \A o \in Origin : cache[o] # None => From(o, cache[o])
    /\ \A w \in Worker : pc[w] \in {"insert", "reply"} => From(ServerOf(call[w].url), entry[w])

IInv == TypeOK /\ AskedIsKept /\ FetchIsFirst /\ EntriesAreHonest /\ RuledByOwnOrigin

(* The cache's key is the server the request goes to, one of the origins.   *)
LEMMA KeyIsServer ==
    ASSUME NEW u \in Url
    PROVE  OriginKey(u) = ServerOf(u) /\ ServerOf(u) \in Origin
BY DEF OriginKey, ServerOf, Origin, PortOf

(* What fetch_entry makes of any answer is an entry, never an absent one.   *)
LEMMA FetchedIsEntry ==
    ASSUME NEW o \in Origin, NEW a \in Answers[o]
    PROVE  FetchEntry(a) \in Entry /\ FetchEntry(a) # None
<1>1. a \in Answer
  BY RobotsAssumption
<1>2. AllowAll \in Entry
  BY DEF AllowAll, Entry
<1>3. FetchEntry(a) \in Entry
  BY <1>1, <1>2 DEF FetchEntry, Answer, Entry
<1> QED
  BY <1>3, RobotsAssumption

(* A verdict made from an honest entry is one RuledByOwnOrigin allows.      *)
LEMMA HonestVerdict ==
    ASSUME NEW a \in Answer, NEW c \in [method : Method, url : Url]
    PROVE  LET rules == a.kind = "rules"
               v == Verdict(c, FetchEntry(a))
           IN IF c.method = "allowed" THEN v = ~(rules /\ c.url.path \in a.disallow)
              ELSE v = IF rules /\ a.secs \in Delay THEN a.secs ELSE None
<1>1. a.disallow # None
  BY RobotsAssumption DEF Answer
<1>2. CASE c.method = "allowed"
  BY <1>1, <1>2 DEF Verdict, FetchEntry, AllowAll
<1>3. CASE c.method = "crawl_delay"
  BY <1>3 DEF Verdict, FetchEntry, AllowAll
<1> QED
  BY <1>2, <1>3 DEF Method

(* The cache starts empty and no worker has begun.                          *)
LEMMA InitIInv == Init => IInv
<1> SUFFICES ASSUME Init PROVE IInv
  OBVIOUS
<1>1. TypeOK
  BY RobotsAssumption DEF Init, TypeOK
<1> QED
  BY <1>1 DEF Init, IInv, AskedIsKept, FetchIsFirst, EntriesAreHonest, RuledByOwnOrigin

(* A lookup begins.                                                         *)
LEMMA CallIInv ==
    ASSUME IInv, NEW w \in Worker, Call(w) PROVE IInv'
<1>1. PICK c \in [method : Method, url : Url] : call' = [call EXCEPT ![w] = c]
  BY DEF Call
<1>2. TypeOK'
  BY <1>1, RobotsAssumption DEF IInv, TypeOK, Call, Goto
<1> QED
  BY <1>1, <1>2 DEF IInv, TypeOK, AskedIsKept, FetchIsFirst, EntriesAreHonest, RuledByOwnOrigin,
                    Call, Goto

(* A miss means that this worker never asked the origin before.             *)
LEMMA CheckIInv ==
    ASSUME IInv, NEW w \in Worker, Check(w) PROVE IInv'
<1> DEFINE o == ServerOf(call[w].url)
<1>1. OriginKey(call[w].url) = o /\ o \in Origin
  BY KeyIsServer DEF IInv, TypeOK, Check
<1>2. /\ entry' = [entry EXCEPT ![w] = cache[o]]
      /\ pc' = [pc EXCEPT ![w] = IF cache[o] = None THEN "fetch" ELSE "reply"]
      /\ UNCHANGED <<cache, call, calls, asked, replies>>
  BY <1>1 DEF IInv, TypeOK, Check, Goto
<1>3. TypeOK'
  BY <1>1, <1>2 DEF IInv, TypeOK, Check
<1>4. AskedIsKept' /\ FetchIsFirst'
  BY <1>1, <1>2 DEF IInv, TypeOK, AskedIsKept, FetchIsFirst, Check
<1>5. EntriesAreHonest' /\ RuledByOwnOrigin'
  BY <1>1, <1>2 DEF IInv, TypeOK, EntriesAreHonest, RuledByOwnOrigin, Check
<1> QED
  BY <1>3, <1>4, <1>5 DEF IInv

(* The first and only request of this worker to the origin.                 *)
LEMMA FetchIInv ==
    ASSUME IInv, NEW w \in Worker, Fetch(w) PROVE IInv'
<1> DEFINE o == ServerOf(call[w].url)
<1>1. o \in Origin
  BY KeyIsServer DEF IInv, TypeOK, Fetch
<1>2. PICK a \in Answers[o] : entry' = [entry EXCEPT ![w] = FetchEntry(a)]
  BY DEF Fetch
<1>3. FetchEntry(a) \in Entry
  BY <1>1, FetchedIsEntry
<1>4. /\ asked' = [asked EXCEPT ![w][o] = @ + 1]
      /\ pc' = [pc EXCEPT ![w] = "insert"]
      /\ UNCHANGED <<cache, call, calls, replies>>
      /\ pc[w] = "fetch"
  BY DEF Fetch, Goto
<1>5. TypeOK'
  BY <1>1, <1>2, <1>3, <1>4 DEF IInv, TypeOK
<1>6. AskedIsKept' /\ FetchIsFirst'
  BY <1>1, <1>4 DEF IInv, TypeOK, AskedIsKept, FetchIsFirst
<1>7. EntriesAreHonest' /\ RuledByOwnOrigin'
  BY <1>1, <1>2, <1>4 DEF IInv, TypeOK, EntriesAreHonest, RuledByOwnOrigin, From
<1> QED
  BY <1>5, <1>6, <1>7 DEF IInv

(* The insert overwrites, but never removes, and only with an honest entry. *)
LEMMA InsertIInv ==
    ASSUME IInv, NEW w \in Worker, Insert(w) PROVE IInv'
<1> DEFINE o == ServerOf(call[w].url)
<1>1. OriginKey(call[w].url) = o /\ o \in Origin
  BY KeyIsServer DEF IInv, TypeOK, Insert
<1>2. /\ cache' = [cache EXCEPT ![o] = entry[w]]
      /\ pc' = [pc EXCEPT ![w] = "reply"]
      /\ UNCHANGED <<call, entry, calls, asked, replies>>
      /\ pc[w] = "insert"
  BY <1>1 DEF Insert, Goto
<1>3. entry[w] \in Entry /\ entry[w] # None
  BY <1>2, RobotsAssumption DEF IInv, TypeOK
<1>4. TypeOK'
  BY <1>1, <1>2, <1>3 DEF IInv, TypeOK
<1>5. AskedIsKept' /\ FetchIsFirst'
  BY <1>1, <1>2, <1>3 DEF IInv, TypeOK, AskedIsKept, FetchIsFirst
<1>6. EntriesAreHonest' /\ RuledByOwnOrigin'
  BY <1>1, <1>2 DEF IInv, TypeOK, EntriesAreHonest, RuledByOwnOrigin
<1> QED
  BY <1>4, <1>5, <1>6 DEF IInv

(* The verdict comes from an honest entry of the call's own origin.         *)
LEMMA ReplyIInv ==
    ASSUME IInv, NEW w \in Worker, Reply(w) PROVE IInv'
<1> DEFINE c == call[w]
<1>1. c \in [method : Method, url : Url] /\ ServerOf(c.url) \in Origin
  BY KeyIsServer DEF IInv, TypeOK, Reply
<1>2. PICK a \in Answers[ServerOf(c.url)] : entry[w] = FetchEntry(a)
  BY DEF IInv, EntriesAreHonest, From, Reply
<1>3. a \in Answer
  BY <1>1, RobotsAssumption
<1> DEFINE r == [url |-> c.url, method |-> c.method, value |-> Verdict(c, FetchEntry(a))]
<1>4. replies' = replies \cup {r}
  BY <1>2 DEF Reply
<1>5. TypeOK'
  BY DEF IInv, TypeOK, Reply, Goto
<1>6. AskedIsKept' /\ FetchIsFirst' /\ EntriesAreHonest'
  BY DEF IInv, TypeOK, AskedIsKept, FetchIsFirst, EntriesAreHonest, Reply, Goto
<1>7. RuledByOwnOrigin'
  BY <1>1, <1>3, <1>4, HonestVerdict DEF IInv, RuledByOwnOrigin
<1> QED
  BY <1>5, <1>6, <1>7 DEF IInv

(* Every step keeps the invariant.                                          *)
LEMMA NextIInv == IInv /\ [Next]_vars => IInv'
<1>1. IInv /\ UNCHANGED vars => IInv'
  BY DEF IInv, vars, TypeOK, AskedIsKept, FetchIsFirst, EntriesAreHonest, RuledByOwnOrigin
<1> QED
  BY <1>1, CallIInv, CheckIInv, FetchIInv, InsertIInv, ReplyIInv DEF Next

(* The invariant holds in every state of every behaviour.                   *)
LEMMA SpecIInv == Spec => []IInv
  BY InitIInv, NextIInv, PTL DEF Spec

(* Every variable keeps its type, for any number of workers and lookups.    *)
THEOREM TypeCorrect == Spec => []TypeOK
<1>1. IInv => TypeOK
  BY DEF IInv
<1> QED
  BY <1>1, SpecIInv, PTL

(* No worker asks an origin twice for its robots.txt, even when it has none.*)
THEOREM OneRequestHolds == Spec => []OneRequestEach
<1>1. IInv => OneRequestEach
  BY DEF IInv, AskedIsKept, OneRequestEach
<1> QED
  BY <1>1, SpecIInv, PTL

(* Every verdict is what the file of the URL's own origin says.             *)
THEOREM OwnOriginHolds == Spec => []RuledByOwnOrigin
<1>1. IInv => RuledByOwnOrigin
  BY DEF IInv
<1> QED
  BY <1>1, SpecIInv, PTL

Requested(o) == {w \in Worker : asked[w][o] > 0}

(* Sets of workers are finite, and a worker that moves from one to another  *)
(* does not raise the sum of their sizes; nor does one that leaves.         *)
LEMMA MoveCost ==
    ASSUME NEW A \in SUBSET Worker, NEW B \in SUBSET Worker,
           NEW A2 \in SUBSET Worker, NEW B2 \in SUBSET Worker,
           \/ A2 = A /\ B2 \subseteq B
           \/ \E w \in B : A2 = A \cup {w} /\ B2 = B \ {w}
    PROVE  Cardinality(A2) + Cardinality(B2) <= Cardinality(A) + Cardinality(B)
<1>1. IsFiniteSet(A) /\ IsFiniteSet(B)
  BY RobotsAssumption, FS_Subset
<1>2. Cardinality(A) \in Nat /\ Cardinality(B) \in Nat
  BY <1>1, FS_CardinalityType
<1>3. CASE A2 = A /\ B2 \subseteq B
  <2>1. Cardinality(B2) <= Cardinality(B) /\ Cardinality(B2) \in Nat
    BY <1>1, <1>3, FS_Subset, FS_CardinalityType
  <2> QED
    BY <1>2, <1>3, <2>1
<1>4. ASSUME NEW w \in B, A2 = A \cup {w}, B2 = B \ {w}
      PROVE  Cardinality(A2) + Cardinality(B2) <= Cardinality(A) + Cardinality(B)
  <2>1. Cardinality(A2) = IF w \in A THEN Cardinality(A) ELSE Cardinality(A) + 1
    BY <1>1, <1>4, FS_AddElement
  <2>2. Cardinality(B2) = Cardinality(B) - 1
    BY <1>1, <1>4, FS_RemoveElement
  <2> QED
    BY <1>2, <2>1, <2>2
<1> QED
  BY <1>3, <1>4

(* What one step may do with a cached origin: nobody new wants its file,    *)
(* and who wanted it may ask, or have it.                                   *)
Settled(o) ==
    \/ Requested(o)' = Requested(o) /\ Fetching(o)' \subseteq Fetching(o)
    \/ \E w \in Fetching(o) :
         Requested(o)' = Requested(o) \cup {w} /\ Fetching(o)' = Fetching(o) \ {w}

(* A lookup is sent to fetch only by a miss; a fetch is the worker's first; *)
(* every other step leaves the requests alone and wants no file.            *)
LEMMA StepSettles ==
    ASSUME IInv, [Next]_vars, NEW o \in Origin, cache[o] # None
    PROVE  Settled(o) /\ cache'[o] # None
<1>1. ASSUME UNCHANGED vars PROVE Settled(o) /\ cache'[o] # None
  BY <1>1 DEF vars, Settled, Requested, Fetching
<1>2. ASSUME NEW w \in Worker, Call(w) PROVE Settled(o) /\ cache'[o] # None
  BY <1>2 DEF Call, Goto, IInv, TypeOK, Settled, Requested, Fetching
<1>3. ASSUME NEW w \in Worker, Check(w) PROVE Settled(o) /\ cache'[o] # None
  <2>1. OriginKey(call[w].url) \in Origin
    BY <1>3, KeyIsServer DEF IInv, TypeOK, Check
  <2>2. OriginKey(call[w].url) = o => pc'[w] = "reply"
    BY <1>3, <2>1 DEF Check, Goto, IInv, TypeOK
  <2> QED
    BY <1>3, <2>2 DEF Check, Goto, IInv, TypeOK, Settled, Requested, Fetching
<1>4. ASSUME NEW w \in Worker, Fetch(w) PROVE Settled(o) /\ cache'[o] # None
  <2> DEFINE p == ServerOf(call[w].url)
  <2>1. OriginKey(call[w].url) = p /\ p \in Origin /\ asked[w][p] = 0 /\ pc[w] = "fetch"
    BY <1>4, KeyIsServer DEF IInv, TypeOK, FetchIsFirst, Fetch
  <2>2. /\ asked' = [asked EXCEPT ![w][p] = @ + 1]
        /\ pc' = [pc EXCEPT ![w] = "insert"]
        /\ cache' = cache /\ call' = call
    BY <1>4 DEF Fetch, Goto
  <2>3. CASE p = o
    <3>1. Requested(o)' = Requested(o) \cup {w}
      BY <2>1, <2>2, <2>3 DEF IInv, TypeOK, Requested
    <3>2. Fetching(o)' = Fetching(o) \ {w} /\ w \in Fetching(o)
      BY <2>1, <2>2, <2>3 DEF IInv, TypeOK, Fetching
    <3> QED
      BY <2>2, <3>1, <3>2 DEF Settled
  <2>4. CASE p # o
    <3>1. Requested(o)' = Requested(o)
      BY <2>1, <2>2, <2>4 DEF IInv, TypeOK, Requested
    <3>2. Fetching(o)' \subseteq Fetching(o)
      BY <2>1, <2>2, <2>4 DEF IInv, TypeOK, Fetching
    <3> QED
      BY <2>2, <3>1, <3>2 DEF Settled
  <2> QED
    BY <2>3, <2>4
<1>5. ASSUME NEW w \in Worker, Insert(w) PROVE Settled(o) /\ cache'[o] # None
  <2>1. OriginKey(call[w].url) \in Origin /\ entry[w] # None
    BY <1>5, KeyIsServer, RobotsAssumption DEF IInv, TypeOK, Insert
  <2> QED
    BY <1>5, <2>1 DEF Insert, Goto, IInv, TypeOK, Settled, Requested, Fetching
<1>6. ASSUME NEW w \in Worker, Reply(w) PROVE Settled(o) /\ cache'[o] # None
  <2>1. pc' = [pc EXCEPT ![w] = "idle"] /\ call' = [call EXCEPT ![w] = None]
        /\ asked' = asked /\ cache' = cache
    BY <1>6 DEF Reply, Goto
  <2>2. Fetching(o)' \subseteq Fetching(o)
    BY <2>1 DEF IInv, TypeOK, Fetching
  <2> QED
    BY <2>1, <2>2 DEF Settled, Requested
<1> QED
  BY <1>1, <1>2, <1>3, <1>4, <1>5, <1>6 DEF Next

(* Once an origin is in the cache it stays there, and the workers that have *)
(* asked it or are about to are only those that missed it before.           *)
THEOREM CachedIsSettledHolds == Spec => CachedIsSettled
<1>1. ASSUME IInv, [Next]_vars, NEW o \in Origin, cache[o] # None
      PROVE  /\ cache'[o] # None
             /\ Requests(o)' + Cardinality(Fetching(o)') <= Requests(o) + Cardinality(Fetching(o))
  <2>1. Settled(o) /\ cache'[o] # None
    BY <1>1, StepSettles
  <2>2. /\ Requested(o) \in SUBSET Worker /\ Fetching(o) \in SUBSET Worker
        /\ Requested(o)' \in SUBSET Worker /\ Fetching(o)' \in SUBSET Worker
    BY DEF Requested, Fetching
  <2>3. Cardinality(Requested(o)') + Cardinality(Fetching(o)')
          <= Cardinality(Requested(o)) + Cardinality(Fetching(o))
    BY <2>1, <2>2, MoveCost DEF Settled
  <2>4. Requests(o) = Cardinality(Requested(o)) /\ Requests(o)' = Cardinality(Requested(o)')
    BY DEF Requests, Requested
  <2> QED
    BY <2>1, <2>3, <2>4
<1>2. IInv /\ [Next]_vars =>
        [\A o \in Origin : cache[o] # None =>
           /\ cache'[o] # None
           /\ Requests(o)' + Cardinality(Fetching(o)') <= Requests(o) + Cardinality(Fetching(o))]_vars
  BY <1>1
<1> QED
  BY <1>2, SpecIInv, PTL DEF Spec, CachedIsSettled
=============================================================================
