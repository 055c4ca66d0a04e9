--------------------------- MODULE FrontierProofs ---------------------------
(* Proofs about Frontier, for all URLs, hosts, delays and limits.           *)
EXTENDS Frontier, FiniteSetTheorems, TLAPS

(***************************************************************************)
(* The inductive invariant.  Type correctness is not inductive alone: lease *)
(* subtracts one from `queued`, which stays a natural number only because   *)
(* it counts the waiting tasks.  Spaced is what makes LeaseSpacing hold.    *)
(***************************************************************************)

(* A host's next lease is due at least BaseDelay after its last one.        *)
Spaced ==
    \A h \in Host :
        /\ host_delay[h] # None => host_delay[h] >= BaseDelay
        /\ last_lease[h] # None => /\ next_allowed[h] # None
                                   /\ next_allowed[h] >= last_lease[h] + BaseDelay

IInv == TypeOK /\ IsFiniteSet(seen) /\ Accounting /\ WellPlaced /\ BudgetRespected /\ Spaced

UrlsIn(q) == {q[i].url : i \in DOMAIN q}

-----------------------------------------------------------------------------
(* Lemmas about queues. *)

(* push_back adds exactly one URL to a queue. *)
LEMMA AppendUrls ==
    ASSUME NEW q \in Seq(Task), NEW t \in Task
    PROVE  /\ DOMAIN Append(q, t) = 1..(Len(q) + 1)
           /\ \A i \in DOMAIN q : Append(q, t)[i] = q[i]
           /\ Append(q, t)[Len(q) + 1] = t
           /\ UrlsIn(Append(q, t)) = UrlsIn(q) \cup {t.url}
<1>1. /\ DOMAIN q = 1..Len(q)
      /\ DOMAIN Append(q, t) = 1..(Len(q) + 1)
      /\ \A i \in DOMAIN q : Append(q, t)[i] = q[i]
      /\ Append(q, t)[Len(q) + 1] = t
  OBVIOUS
<1>2. 1..(Len(q) + 1) = (1..Len(q)) \cup {Len(q) + 1}
  OBVIOUS
<1>3. QED
  BY <1>1, <1>2 DEF UrlsIn

(* pop_front removes exactly the URL at the front, if no URL is twice in.   *)
LEMMA TailUrls ==
    ASSUME NEW q \in Seq(Task), q # <<>>,
           \A i, j \in DOMAIN q : q[i].url = q[j].url => i = j
    PROVE  /\ Head(q) \in Task
           /\ DOMAIN q = 1..Len(q)
           /\ Len(q) \in Nat \ {0}
           /\ Head(q) = q[1]
           /\ Tail(q) \in Seq(Task)
           /\ Len(Tail(q)) = Len(q) - 1
           /\ DOMAIN Tail(q) = 1..(Len(q) - 1)
           /\ \A i \in DOMAIN Tail(q) : i + 1 \in DOMAIN q /\ Tail(q)[i] = q[i + 1]
           /\ Head(q).url \in UrlsIn(q)
           /\ UrlsIn(Tail(q)) = UrlsIn(q) \ {Head(q).url}
<1>1. /\ Head(q) \in Task
      /\ DOMAIN q = 1..Len(q)
      /\ Len(q) \in Nat \ {0}
      /\ Head(q) = q[1]
      /\ Tail(q) \in Seq(Task)
      /\ Len(Tail(q)) = Len(q) - 1
      /\ DOMAIN Tail(q) = 1..(Len(q) - 1)
  OBVIOUS
<1>2. \A i \in DOMAIN Tail(q) : i + 1 \in DOMAIN q /\ Tail(q)[i] = q[i + 1]
  BY <1>1
<1>3. Head(q).url \in UrlsIn(q)
  BY <1>1 DEF UrlsIn
<1>4. UrlsIn(Tail(q)) \subseteq UrlsIn(q) \ {Head(q).url}
  <2>1. SUFFICES ASSUME NEW i \in DOMAIN Tail(q)
                 PROVE  Tail(q)[i].url \in UrlsIn(q) \ {Head(q).url}
    BY DEF UrlsIn
  <2>2. /\ i + 1 \in DOMAIN q
        /\ Tail(q)[i] = q[i + 1]
        /\ 1 \in DOMAIN q
        /\ i + 1 # 1
    BY <1>1, <1>2
  <2>3. QED
    BY <1>1, <2>2 DEF UrlsIn
<1>5. UrlsIn(q) \ {Head(q).url} \subseteq UrlsIn(Tail(q))
  <2>1. SUFFICES ASSUME NEW i \in DOMAIN q, q[i].url # Head(q).url
                 PROVE  q[i].url \in UrlsIn(Tail(q))
    BY DEF UrlsIn
  <2>2. i - 1 \in DOMAIN Tail(q) /\ Tail(q)[i - 1] = q[i]
    <3>1. i \in 1..Len(q) /\ i # 1
      BY <1>1, <2>1
    <3>2. i - 1 \in DOMAIN Tail(q) /\ (i - 1) + 1 = i
      BY <1>1, <3>1
    <3>3. QED
      BY <1>2, <3>2
  <2>3. QED
    BY <2>2 DEF UrlsIn
<1>6. QED
  BY <1>1, <1>2, <1>3, <1>4, <1>5

(* The waiting URLs, host by host. *)
LEMMA QueuedUrlsByHost ==
    \A u : u \in QueuedUrls <=> \E h \in Host : u \in UrlsIn(queues[h])
BY DEF QueuedUrls, UrlsIn

-----------------------------------------------------------------------------
(* The invariant holds initially and every action preserves it. *)

LEMMA InitIInv == Init => IInv
<1> SUFFICES ASSUME Init
             PROVE  IInv
  OBVIOUS
<1>2. TypeOK
  BY FrontierAssumption DEF Init, TypeOK
<1>3. QueuedUrls = {}
  BY DEF Init, QueuedUrls
<1>4. IsFiniteSet(seen) /\ Cardinality(seen) = 0
  BY FS_EmptySet DEF Init
<1>5. Accounting
  BY <1>3, <1>4, FS_EmptySet DEF Init, Accounting, NoDuplicates
<1>6. WellPlaced /\ Spaced
  BY DEF Init, WellPlaced, Spaced
<1>7. BudgetRespected
  BY FrontierAssumption DEF Init, BudgetRespected
<1>8. QED
  BY <1>2, <1>4, <1>5, <1>6, <1>7 DEF IInv

(* add makes one more URL wait, one that was never seen, or none.           *)
LEMMA AddUrls ==
    ASSUME IInv, NEW u \in Url, NEW d \in Depth, Add(u, d)
    PROVE  IF Accepts(u, d)
             THEN /\ Canon[u] \notin seen
                  /\ seen' = seen \cup {Canon[u]}
                  /\ QueuedUrls' = QueuedUrls \cup {Canon[u]}
             ELSE seen' = seen /\ QueuedUrls' = QueuedUrls
<1> USE FrontierAssumption
<1>1. CASE ~Accepts(u, d)
  BY <1>1 DEF Add, QueuedUrls
<1>2. CASE Accepts(u, d)
  <2> DEFINE c == Canon[u]
             k == HostOf[c]
             t == [url |-> c, depth |-> d]
  <2>1. /\ k \in Host /\ t \in Task /\ t.url = c /\ c \notin seen
        /\ queues \in [Host -> Seq(Task)]
        /\ queues' = [queues EXCEPT ![k] = Append(queues[k], t)]
    BY <1>2 DEF Accepts, Add, Task, IInv, TypeOK
  <2> HIDE DEF c, k, t
  <2>2. /\ queues[k] \in Seq(Task)
        /\ queues'[k] = Append(queues[k], t)
        /\ \A h \in Host \ {k} : queues'[h] = queues[h]
    BY <2>1
  <2>3. UrlsIn(queues'[k]) = UrlsIn(queues[k]) \cup {c}
    BY <2>1, <2>2, AppendUrls
  <2>4. \A v : v \in QueuedUrls' <=> \E h \in Host : v \in UrlsIn(queues'[h])
    BY DEF QueuedUrls, UrlsIn
  <2>5. QueuedUrls' = QueuedUrls \cup {c}
    BY <2>1, <2>2, <2>3, <2>4, QueuedUrlsByHost
  <2>6. QED
    BY <1>2, <2>1, <2>5 DEF Add, c
<1>3. QED
  BY <1>1, <1>2

(* add keeps the counters and the collections in step. *)
LEMMA AddIInv ==
    ASSUME IInv, NEW u \in Url, NEW d \in Depth, Add(u, d)
    PROVE  IInv'
<1> USE FrontierAssumption
<1>1. CASE ~Accepts(u, d)
  <2>1. UNCHANGED vars
    BY <1>1 DEF Add, vars
  <2>2. QED
    BY <2>1 DEF IInv, vars, TypeOK, Accounting, NoDuplicates, QueuedUrls,
                WellPlaced, BudgetRespected, Spaced
<1>2. CASE Accepts(u, d)
  <2> DEFINE c == Canon[u]
             k == HostOf[c]
             t == [url |-> c, depth |-> d]
  <2>1. /\ c \in Url /\ Canon[c] = c /\ k \in Host /\ d \in Nat
        /\ c \notin seen
        /\ MaxDepth # None => d <= MaxDepth
    BY <1>2 DEF Accepts
  <2>2. /\ seen' = seen \cup {c}
        /\ queues' = [queues EXCEPT ![k] = Append(queues[k], t)]
        /\ queued' = queued + 1
        /\ UNCHANGED <<next_allowed, host_delay, active, dispatched, now, last_lease>>
    BY <1>2 DEF Add
  <2>3. t \in Task /\ queues \in [Host -> Seq(Task)]
    BY <2>1 DEF Task, IInv, TypeOK
  <2> HIDE DEF c, k
  <2>4. TypeOK'
    <3>1. Append(queues[k], t) \in Seq(Task)
      BY <2>1, <2>3
    <3>2. QED
      BY <2>1, <2>2, <2>3, <3>1 DEF IInv, TypeOK
  <2>5. /\ queues[k] \in Seq(Task)
        /\ queues'[k] = Append(queues[k], t)
        /\ \A h \in Host \ {k} : queues'[h] = queues[h]
    BY <2>1, <2>2, <2>3
  <2>6. /\ DOMAIN queues[k] = 1..Len(queues[k])
        /\ Len(queues[k]) \in Nat
        /\ DOMAIN queues'[k] = 1..(Len(queues[k]) + 1)
        /\ \A i \in DOMAIN queues[k] : queues'[k][i] = queues[k][i]
        /\ queues'[k][Len(queues[k]) + 1] = t
        /\ UrlsIn(queues'[k]) = UrlsIn(queues[k]) \cup {c}
    BY <2>3, <2>5, AppendUrls
  <2>7. QueuedUrls' = QueuedUrls \cup {c}
    BY <1>2, AddUrls DEF c
  <2>8. \A h \in Host : \A i \in DOMAIN queues'[h] :
            \/ i \in DOMAIN queues[h] /\ queues'[h][i] = queues[h][i]
            \/ h = k /\ i = Len(queues[k]) + 1 /\ queues'[h][i] = t
    <3>1. \A i \in 1..(Len(queues[k]) + 1) : i \in 1..Len(queues[k]) \/ i = Len(queues[k]) + 1
      BY <2>6
    <3>2. QED
      BY <2>5, <2>6, <3>1
  <2>9. Accounting'
    <3>1. QueuedUrls \subseteq seen /\ c \notin QueuedUrls
      BY <2>1 DEF IInv, Accounting
    <3>2. IsFiniteSet(QueuedUrls) /\ IsFiniteSet(seen)
      BY <3>1, FS_Subset DEF IInv
    <3>3. /\ Cardinality(QueuedUrls \cup {c}) = Cardinality(QueuedUrls) + 1
          /\ Cardinality(seen \cup {c}) = Cardinality(seen) + 1
      BY <2>1, <3>1, <3>2, FS_AddElement
    <3>4. NoDuplicates'
      <4>1. SUFFICES ASSUME NEW g \in Host, NEW h \in Host,
                            NEW i \in DOMAIN queues'[g], NEW j \in DOMAIN queues'[h],
                            queues'[g][i].url = queues'[h][j].url
                     PROVE  g = h /\ i = j
        BY DEF NoDuplicates
      <4>2. \A x \in Host : \A y \in DOMAIN queues[x] : queues[x][y].url # c
        BY <3>1 DEF QueuedUrls
      <4>3. t.url = c
        OBVIOUS
      <4>4. \A x, y \in Host : \A m \in DOMAIN queues[x], n \in DOMAIN queues[y] :
                queues[x][m].url = queues[y][n].url => x = y /\ m = n
        BY DEF IInv, Accounting, NoDuplicates
      <4>5. QED
        BY <2>8, <4>1, <4>2, <4>3, <4>4
    <3>5. IsFiniteSet(seen) /\ Cardinality(seen) \in Nat
      BY <3>2, FS_CardinalityType
    <3>6. QueuedUrls' \subseteq seen'
      BY <2>2, <2>7, <3>1
    <3>7. queued' = Cardinality(QueuedUrls')
      BY <2>2, <2>7, <3>3 DEF IInv, Accounting
    <3>8. dispatched' + queued' = Cardinality(seen') /\ active' <= dispatched'
      BY <2>2, <3>3, <3>5 DEF IInv, TypeOK, Accounting
    <3>9. QED
      BY <3>4, <3>6, <3>7, <3>8 DEF Accounting
  <2>10. WellPlaced'
    <3>1. SUFFICES ASSUME NEW h \in Host, NEW i \in DOMAIN queues'[h]
                   PROVE  /\ HostOf[queues'[h][i].url] = h
                          /\ Canon[queues'[h][i].url] = queues'[h][i].url
                          /\ MaxDepth # None => queues'[h][i].depth <= MaxDepth
      BY DEF WellPlaced
    <3>2. CASE i \in DOMAIN queues[h] /\ queues'[h][i] = queues[h][i]
      BY <3>2 DEF IInv, WellPlaced
    <3>3. CASE h = k /\ queues'[h][i] = t
      BY <2>1, <3>3 DEF k
    <3>4. QED
      BY <2>8, <3>2, <3>3
  <2>11. IsFiniteSet(seen')
    BY <2>2, FS_AddElement DEF IInv
  <2>12. BudgetRespected' /\ Spaced'
    BY <2>2 DEF IInv, BudgetRespected, Spaced
  <2>13. QED
    BY <2>4, <2>9, <2>10, <2>11, <2>12 DEF IInv
<1>3. QED
  BY <1>1, <1>2

(* lease hands out a URL that was waiting, and it waits no longer.          *)
LEMMA LeaseUrls ==
    ASSUME IInv, NEW k \in Host, Lease(k)
    PROVE  /\ Head(queues[k]) \in Task
           /\ Head(queues[k]).url \in QueuedUrls
           /\ QueuedUrls' = QueuedUrls \ {Head(queues[k]).url}
<1> DEFINE q == queues[k]
           c == Head(q).url
<1>1. /\ queues \in [Host -> Seq(Task)]
      /\ q \in Seq(Task) /\ q # <<>>
      /\ \A i, j \in DOMAIN q : q[i].url = q[j].url => i = j
  BY DEF IInv, TypeOK, Accounting, NoDuplicates, Lease, Earliest, Pending
<1>2. queues'[k] = Tail(q) /\ \A h \in Host \ {k} : queues'[h] = queues[h]
  BY <1>1 DEF Lease
<1>3. /\ Head(q) \in Task
      /\ c \in UrlsIn(q)
      /\ UrlsIn(Tail(q)) = UrlsIn(q) \ {c}
  BY <1>1, TailUrls
<1>4. QueuedUrls' = QueuedUrls \ {c}
  <2>1. \A v : v \in QueuedUrls' <=> \E h \in Host : v \in UrlsIn(queues'[h])
    BY DEF QueuedUrls, UrlsIn
  <2>2. \A h \in Host \ {k} : c \notin UrlsIn(queues[h])
    BY <1>3 DEF UrlsIn, IInv, Accounting, NoDuplicates
  <2>3. QED
    BY <1>2, <1>3, <2>1, <2>2, QueuedUrlsByHost
<1>5. QED
  BY <1>3, <1>4, QueuedUrlsByHost

(* lease takes the head of one queue, counts it and delays its host. *)
LEMMA LeaseIInv ==
    ASSUME IInv, NEW k \in Host, Lease(k)
    PROVE  IInv'
<1> USE FrontierAssumption
<1> DEFINE q == queues[k]
           c == Head(q).url
<1>1. /\ queues \in [Host -> Seq(Task)]
      /\ q \in Seq(Task) /\ q # <<>>
      /\ \A i, j \in DOMAIN q : q[i].url = q[j].url => i = j
  BY DEF IInv, TypeOK, Accounting, NoDuplicates, Lease, Earliest, Pending
<1>2. /\ queues'[k] = Tail(q)
      /\ \A h \in Host \ {k} : queues'[h] = queues[h]
      /\ next_allowed' = [next_allowed EXCEPT ![k] = now + DelayFor(k)]
      /\ last_lease' = [last_lease EXCEPT ![k] = now]
      /\ queued' = queued - 1
      /\ active' = active + 1
      /\ dispatched' = dispatched + 1
      /\ UNCHANGED <<host_delay, seen, now>>
      /\ ~BudgetExhausted
  BY <1>1 DEF Lease
<1>3. /\ Head(q) \in Task
      /\ DOMAIN q = 1..Len(q)
      /\ Len(q) \in Nat \ {0}
      /\ Head(q) = q[1]
      /\ Tail(q) \in Seq(Task)
      /\ DOMAIN Tail(q) = 1..(Len(q) - 1)
      /\ \A i \in DOMAIN Tail(q) : i + 1 \in DOMAIN q /\ Tail(q)[i] = q[i + 1]
      /\ c \in UrlsIn(q)
      /\ UrlsIn(Tail(q)) = UrlsIn(q) \ {c}
  BY <1>1, TailUrls
<1>4. DelayFor(k) \in Nat /\ DelayFor(k) >= BaseDelay
  BY DEF IInv, TypeOK, Spaced, DelayFor
<1>5. c \in QueuedUrls
  BY LeaseUrls
<1>6. QueuedUrls' = QueuedUrls \ {c}
  BY LeaseUrls
<1>7. \A h \in Host : \A i \in DOMAIN queues'[h] :
          \E j \in DOMAIN queues[h] :
              /\ queues'[h][i] = queues[h][j]
              /\ j = IF h = k THEN i + 1 ELSE i
  BY <1>2, <1>3
<1>8. queued > 0
  <2>1. IsFiniteSet(QueuedUrls)
    BY FS_Subset DEF IInv, Accounting
  <2>2. Cardinality(QueuedUrls) # 0
    BY <1>5, <2>1, FS_EmptySet
  <2>3. QED
    BY <2>2 DEF IInv, TypeOK, Accounting
<1>9. TypeOK'
  <2>1. queues' \in [Host -> Seq(Task)]
    BY <1>1, <1>3 DEF Lease
  <2>2. next_allowed' \in [Host -> Nat \cup {None}] /\ last_lease' \in [Host -> Nat \cup {None}]
    <3>1. now \in Nat /\ now + DelayFor(k) \in Nat
      BY <1>4 DEF IInv, TypeOK
    <3>2. QED
      BY <1>2, <3>1 DEF IInv, TypeOK
  <2>3. queued' \in Nat /\ active' \in Nat /\ dispatched' \in Nat
    BY <1>2, <1>8 DEF IInv, TypeOK
  <2>4. QED
    BY <1>2, <2>1, <2>2, <2>3 DEF IInv, TypeOK
<1>10. Accounting'
  <2>1. NoDuplicates'
    <3>1. SUFFICES ASSUME NEW g \in Host, NEW h \in Host,
                          NEW i \in DOMAIN queues'[g], NEW j \in DOMAIN queues'[h],
                          queues'[g][i].url = queues'[h][j].url
                   PROVE  g = h /\ i = j
      BY DEF NoDuplicates
    <3>2. PICK m \in DOMAIN queues[g], n \in DOMAIN queues[h] :
              /\ queues'[g][i] = queues[g][m] /\ m = IF g = k THEN i + 1 ELSE i
              /\ queues'[h][j] = queues[h][n] /\ n = IF h = k THEN j + 1 ELSE j
      BY <1>7
    <3>3. g = h /\ m = n
      BY <3>1, <3>2 DEF IInv, Accounting, NoDuplicates
    <3>4. g = k => i \in 1..(Len(q) - 1) /\ j \in 1..(Len(q) - 1)
      BY <1>2, <1>3, <3>3
    <3>5. QED
      BY <1>3, <3>2, <3>3, <3>4
  <2>2. IsFiniteSet(QueuedUrls) /\ Cardinality(QueuedUrls \ {c}) = Cardinality(QueuedUrls) - 1
    BY <1>5, FS_Subset, FS_RemoveElement DEF IInv, Accounting
  <2>3. QueuedUrls' \subseteq seen'
    BY <1>2, <1>6 DEF IInv, Accounting
  <2>4. queued' = Cardinality(QueuedUrls')
    BY <1>2, <1>6, <2>2 DEF IInv, Accounting
  <2>5. dispatched' + queued' = Cardinality(seen') /\ active' <= dispatched'
    BY <1>2, <1>8 DEF IInv, TypeOK, Accounting
  <2>6. QED
    BY <2>1, <2>3, <2>4, <2>5 DEF Accounting
<1>11. WellPlaced'
  BY <1>7 DEF IInv, WellPlaced
<1>12. BudgetRespected'
  BY <1>2 DEF IInv, TypeOK, BudgetRespected, BudgetExhausted
<1>13. Spaced'
  BY <1>2, <1>4 DEF IInv, TypeOK, Spaced
<1>14. QED
  BY <1>2, <1>9, <1>10, <1>11, <1>12, <1>13 DEF IInv

(* The calls that touch no queue. *)
LEMMA OtherIInv ==
    ASSUME IInv,
           \/ \E u \in Url, d \in Delay : SetHostDelay(u, d)
           \/ Complete
           \/ Tick
           \/ UNCHANGED vars
    PROVE  IInv'
<1> USE FrontierAssumption
<1>1. CASE \E u \in Url, d \in Delay : SetHostDelay(u, d)
  <2>1. PICK u \in Url, d \in Delay : SetHostDelay(u, d)
    BY <1>1
  <2>2. UNCHANGED <<queues, next_allowed, seen, queued, active, dispatched, now, last_lease>>
    BY <2>1 DEF SetHostDelay
  <2>3. /\ host_delay' \in [Host -> Nat \cup {None}]
        /\ \A h \in Host : host_delay'[h] # None => host_delay'[h] >= BaseDelay
    <3>1. host_delay \in [Host -> Nat \cup {None}] /\ d \in Nat
      BY DEF IInv, TypeOK
    <3>2. \A h \in Host : DelayFor(h) \in Nat /\ DelayFor(h) >= BaseDelay
      BY <3>1 DEF IInv, Spaced, DelayFor
    <3>3. CASE HostOf[u] = None
      BY <2>1, <3>1, <3>3 DEF SetHostDelay, IInv, Spaced
    <3>4. CASE HostOf[u] # None
      <4> DEFINE k == HostOf[u]
                 e == IF d > DelayFor(k) THEN d ELSE DelayFor(k)
      <4>1. k \in Host /\ host_delay' = [host_delay EXCEPT ![k] = e]
        BY <2>1, <3>4 DEF SetHostDelay
      <4>2. e \in Nat /\ e >= BaseDelay
        BY <3>1, <3>2, <4>1
      <4> HIDE DEF k, e
      <4>3. QED
        BY <3>1, <4>1, <4>2 DEF IInv, Spaced
    <3>5. QED
      BY <3>3, <3>4
  <2>4. TypeOK'
    BY <2>2, <2>3 DEF IInv, TypeOK
  <2>5. QED
    BY <2>2, <2>3, <2>4 DEF IInv, Accounting, NoDuplicates, QueuedUrls, WellPlaced,
                            BudgetRespected, Spaced
<1>2. CASE Complete \/ Tick \/ UNCHANGED vars
  <2>1. UNCHANGED <<queues, next_allowed, host_delay, seen, queued, dispatched, last_lease>>
    BY <1>2 DEF Complete, Tick, vars
  <2>2. active' \in Nat /\ active' <= active /\ now' \in Nat
    BY <1>2 DEF Complete, Tick, vars, IInv, TypeOK
  <2>3. TypeOK'
    BY <2>1, <2>2 DEF IInv, TypeOK
  <2>4. Accounting'
    BY <2>1, <2>2 DEF IInv, TypeOK, Accounting, NoDuplicates, QueuedUrls
  <2>5. QED
    BY <2>1, <2>3, <2>4 DEF IInv, WellPlaced, BudgetRespected, Spaced
<1>3. QED
  BY <1>1, <1>2

-----------------------------------------------------------------------------
(* The theorems. *)

LEMMA NextIInv == IInv /\ [Next]_vars => IInv'
BY AddIInv, LeaseIInv, OtherIInv DEF Next

LEMMA SpecIInv == Spec => []IInv
BY InitIInv, NextIInv, PTL DEF Spec

(* The frontier's maps and counters keep their types; in particular queued, *)
(* which lease decrements without looking, never underflows.                *)
THEOREM TypeCorrect == Spec => []TypeOK
BY SpecIInv, PTL DEF IInv

(* The counters agree with the collections and no URL ever waits twice, for *)
(* any number of hosts and any normalisation that is idempotent.            *)
THEOREM AccountingHolds == Spec => []Accounting
BY SpecIInv, PTL DEF IInv

(* Waiting tasks are canonical, within depth, and in their own host's queue. *)
THEOREM WellPlacedHolds == Spec => []WellPlaced
BY SpecIInv, PTL DEF IInv

(* The page budget is never overdrawn. *)
THEOREM BudgetHolds == Spec => []BudgetRespected
BY SpecIInv, PTL DEF IInv

(* When lease answers Done with budget left, the accepted URLs have all     *)
(* been leased and all leases returned.                                     *)
THEOREM DoneHolds == Spec => []DoneIsDrained
<1>1. IInv => DoneIsDrained
  <2> SUFFICES ASSUME IInv, LeaseDone, ~BudgetExhausted
               PROVE  dispatched = Cardinality(seen) /\ active = 0
    BY DEF DoneIsDrained
  <2>1. Pending = {} /\ active = 0
    BY DEF LeaseDone
  <2>2. QueuedUrls = {}
    BY <2>1 DEF QueuedUrls, Pending
  <2>3. queued = 0
    BY <2>2, FS_EmptySet DEF IInv, Accounting
  <2>4. QED
    BY <2>1, <2>3 DEF IInv, TypeOK, Accounting
<1>2. QED
  BY <1>1, SpecIInv, PTL

(* The time that lease tells a worker to wait.                              *)
LEMMA WaitIsPositive == IInv => WaitIsHonest /\ (LeaseWaits => WaitTime \in Nat)
<1> SUFFICES ASSUME IInv, LeaseWaits
             PROVE  /\ WaitTime \in Nat /\ WaitTime > 0
                    /\ \A h \in Pending : /\ next_allowed[h] # None
                                          /\ next_allowed[h] >= now + WaitTime
  BY DEF WaitIsHonest
<1> DEFINE g == CHOOSE h \in Earliest : TRUE
<1>1. PICK e \in Earliest : AllowedAt(e) > now
  BY DEF LeaseWaits
<1>2. g \in Earliest /\ WaitTime = AllowedAt(g) - now
  BY <1>1 DEF WaitTime
<1> HIDE DEF g
<1>3. /\ now \in Nat
      /\ \A h \in Host : next_allowed[h] \in Nat \cup {None} /\ AllowedAt(h) \in Nat
  BY DEF IInv, TypeOK, AllowedAt
<1>4. \A h \in Pending : h \in Host /\ AllowedAt(g) <= AllowedAt(h)
  BY <1>2 DEF Earliest, Pending
<1>5. AllowedAt(g) > now
  BY <1>1, <1>2, <1>3 DEF Earliest, Pending
<1>6. g \in Host
  BY <1>2 DEF Earliest, Pending
<1>7. \A h \in Pending : next_allowed[h] # None /\ next_allowed[h] = AllowedAt(h)
  <2> SUFFICES ASSUME NEW h \in Pending
               PROVE  next_allowed[h] # None /\ next_allowed[h] = AllowedAt(h)
    OBVIOUS
  <2>1. AllowedAt(h) \in Nat /\ AllowedAt(g) \in Nat /\ AllowedAt(h) > now
    BY <1>3, <1>4, <1>5, <1>6
  <2>2. QED
    BY <1>3, <2>1 DEF AllowedAt
<1>8. QED
  BY <1>2, <1>3, <1>4, <1>5, <1>6, <1>7

(* Wait(d) never makes a worker sleep past the moment a queued task is due. *)
THEOREM WaitHolds == Spec => []WaitIsHonest
<1>1. IInv => WaitIsHonest
  BY WaitIsPositive
<1>2. QED
  BY <1>1, SpecIInv, PTL

(* Politeness: two leases of the same host are at least BaseDelay apart.    *)
THEOREM SpacingHolds == Spec => LeaseSpacing
<1>1. IInv /\ [Next]_vars =>
        [\A h \in Host : Leased(h) /\ last_lease[h] # None
             => now >= last_lease[h] + BaseDelay]_vars
  <2> SUFFICES ASSUME IInv, Next, NEW h \in Host, Leased(h), last_lease[h] # None
               PROVE  now >= last_lease[h] + BaseDelay
    BY DEF vars
  <2>1. Lease(h)
    <3>1. \A u \in Url, d \in Depth : ~Add(u, d)
      <4> SUFFICES ASSUME NEW u \in Url, NEW d \in Depth, Add(u, d)
                   PROVE  FALSE
        OBVIOUS
      <4>1. queues[h] \in Seq(Task)
        BY DEF IInv, TypeOK
      <4> DEFINE t == [url |-> Canon[u], depth |-> d]
      <4>2. t \in Task
        BY FrontierAssumption DEF Task
      <4> HIDE DEF t
      <4>3. Len(Append(queues[h], t)) = Len(queues[h]) + 1 /\ Len(queues[h]) \in Nat
        BY <4>1, <4>2
      <4>4. queues'[h] = queues[h] \/ queues'[h] = Append(queues[h], t)
        BY DEF Add, IInv, TypeOK, t
      <4>5. QED
        BY <4>3, <4>4 DEF Leased
    <3>2. queues' # queues
      <4>1. Len(queues[h]) \in Nat
        BY DEF IInv, TypeOK
      <4>2. QED
        BY <4>1 DEF Leased
    <3>3. PICK k \in Host : Lease(k)
      BY <3>1, <3>2 DEF Next, SetHostDelay, Complete, Tick
    <3>4. CASE k # h
      <4>1. queues'[h] = queues[h] /\ Len(queues[h]) \in Nat
        BY <3>3, <3>4 DEF Lease, IInv, TypeOK
      <4>2. QED
        BY <4>1 DEF Leased
    <3>5. QED
      BY <3>3, <3>4
  <2>2. next_allowed[h] # None /\ next_allowed[h] >= last_lease[h] + BaseDelay
    BY DEF IInv, Spaced
  <2>3. next_allowed[h] <= now
    BY <2>1, <2>2 DEF Lease, AllowedAt
  <2>4. next_allowed[h] \in Nat /\ last_lease[h] \in Nat /\ now \in Nat
    BY <2>2 DEF IInv, TypeOK
  <2>5. QED
    BY <2>2, <2>3, <2>4, FrontierAssumption
<1>2. QED
  BY <1>1, SpecIInv, PTL DEF Spec, LeaseSpacing
=============================================================================
