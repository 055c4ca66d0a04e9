---------------------------- MODULE EngineProofs ----------------------------
(***************************************************************************)
(* Proofs about Engine, for any number of workers, hosts and URLs, any      *)
(* links, answers and limits.                                               *)
(***************************************************************************)
EXTENDS Engine, FiniteSetTheorems, WellFoundedInduction, TLAPS

FP == INSTANCE FrontierProofs

-----------------------------------------------------------------------------
(* Frontier's definitions, by the two names they have here. *)

LEMMA SameFrontier ==
    /\ F!Init <=> FP!Init
    /\ F!vars = FP!vars
    /\ F!TypeOK <=> FP!TypeOK
    /\ F!Task = FP!Task
    /\ F!QueuedUrls = FP!QueuedUrls
    /\ \A u, d : F!Accepts(u, d) <=> FP!Accepts(u, d)
    /\ \A u, d : F!Add(u, d) <=> FP!Add(u, d)
    /\ \A u, d : F!SetHostDelay(u, d) <=> FP!SetHostDelay(u, d)
    /\ \A h : F!Lease(h) <=> FP!Lease(h)
    /\ F!Complete <=> FP!Complete
    /\ F!Tick <=> FP!Tick
    /\ F!Next <=> FP!Next
    /\ FP!FrontierAssumption
<1>1. /\ F!Init <=> FP!Init
      /\ F!vars = FP!vars
      /\ F!Task = FP!Task
      /\ F!QueuedUrls = FP!QueuedUrls
  BY DEF F!Init, FP!Init, F!vars, FP!vars, F!Task, FP!Task, F!QueuedUrls, FP!QueuedUrls
<1>2. F!TypeOK <=> FP!TypeOK
  BY DEF F!TypeOK, FP!TypeOK, F!Task, FP!Task
<1>3. \A u, d : F!Accepts(u, d) <=> FP!Accepts(u, d)
  BY Zenon DEF F!Accepts, FP!Accepts
<1>4. \A u, d : F!Add(u, d) <=> FP!Add(u, d)
  BY Zenon DEF F!Add, FP!Add, F!Accepts, FP!Accepts
<1>5. \A u, d : F!SetHostDelay(u, d) <=> FP!SetHostDelay(u, d)
  BY Zenon DEF F!SetHostDelay, FP!SetHostDelay, F!DelayFor, FP!DelayFor
<1>6. \A h : F!Lease(h) <=> FP!Lease(h)
  BY Zenon DEF F!Lease, FP!Lease, F!BudgetExhausted, FP!BudgetExhausted, F!Earliest, FP!Earliest,
         F!Pending, FP!Pending, F!AllowedAt, FP!AllowedAt, F!DelayFor, FP!DelayFor
<1>7. (F!Complete <=> FP!Complete) /\ (F!Tick <=> FP!Tick)
  BY DEF F!Complete, FP!Complete, F!Tick, FP!Tick
<1>8. F!Next <=> FP!Next
  BY <1>4, <1>5, <1>6, <1>7, Zenon DEF F!Next, FP!Next
<1>9. FP!FrontierAssumption
  BY EngineAssumption DEF F!FrontierAssumption, FP!FrontierAssumption
<1> QED
  BY <1>1, <1>2, <1>3, <1>4, <1>5, <1>6, <1>7, <1>8, <1>9

LEMMA SameCardinality ==
    \A S : (FP!IsFiniteSet(S) <=> IsFiniteSet(S)) /\ FP!Cardinality(S) = Cardinality(S)
BY Zenon DEF FP!IsFiniteSet, IsFiniteSet, FP!Cardinality, Cardinality

LEMMA WaitIsNat == FP!IInv /\ F!LeaseWaits => F!WaitTime \in Nat
<1>1. (F!LeaseWaits <=> FP!LeaseWaits) /\ F!WaitTime = FP!WaitTime
  BY Zenon DEF F!LeaseWaits, FP!LeaseWaits, F!WaitTime, FP!WaitTime, F!BudgetExhausted,
         FP!BudgetExhausted, F!Earliest, FP!Earliest, F!Pending, FP!Pending, F!AllowedAt,
         FP!AllowedAt
<1>2. FP!IInv => (FP!LeaseWaits => FP!WaitTime \in Nat)
  BY SameFrontier, FP!WaitIsPositive, Zenon
<1> QED BY <1>1, <1>2, Zenon

-----------------------------------------------------------------------------
(***************************************************************************)
(* Sums.  The library's induction theorems take an operator; the same       *)
(* arguments hold for a set, as the least element that is not in it.        *)
(***************************************************************************)

(* Induction on the natural numbers. *)
LEMMA NatSetInduction ==
    ASSUME NEW S \in SUBSET Nat, 0 \in S, \A n \in S : n + 1 \in S
    PROVE  S = Nat
<1> SUFFICES ASSUME Nat \ S # {} PROVE FALSE
  OBVIOUS
<1>1. PICK m \in Nat \ S : \A n \in Nat \ S : ~(<<n, m>> \in OpToRel(<, Nat))
  BY NatLessThanWellFounded, WFMin
<1>2. \A n \in Nat \ S : ~(n < m)
  BY <1>1 DEF OpToRel
<1>3. m - 1 \in Nat /\ m - 1 < m
  OBVIOUS
<1> QED BY <1>2, <1>3

\* The element of a set a fold takes first.
Pick(s) == CHOOSE x \in s : TRUE

(* All the subsets of a finite set are in G if G has the empty one and any  *)
(* from which one element leaves a member of G.                             *)
LEMMA SetInduction ==
    ASSUME NEW D, IsFiniteSet(D), NEW G \in SUBSET SUBSET D, {} \in G,
           \A s \in SUBSET D : s # {} /\ s \ {Pick(s)} \in G => s \in G
    PROVE  G = SUBSET D
<1> DEFINE S == {n \in Nat : \A s \in SUBSET D : Cardinality(s) = n => s \in G}
<1>1. \A s \in SUBSET D : IsFiniteSet(s) /\ Cardinality(s) \in Nat /\ (Cardinality(s) = 0 <=> s = {})
  BY FS_Subset, FS_CardinalityType, FS_EmptySet
<1>2. 0 \in S
  BY <1>1
<1>3. ASSUME NEW n \in S PROVE n + 1 \in S
  <2> SUFFICES ASSUME NEW s \in SUBSET D, Cardinality(s) = n + 1 PROVE s \in G
    OBVIOUS
  <2>0. n \in Nat
    OBVIOUS
  <2>1. s # {} /\ IsFiniteSet(s)
    BY <1>1
  <2>2. Pick(s) \in s
    BY <2>1 DEF Pick
  <2>3. s \ {Pick(s)} \in SUBSET D /\ Cardinality(s \ {Pick(s)}) = n
    <3>1. Cardinality(s \ {Pick(s)}) = Cardinality(s) - 1
      <4> HIDE DEF S
      <4> QED BY <2>1, <2>2, FS_RemoveElement
    <3> QED BY <2>0, <3>1
  <2>4. s \ {Pick(s)} \in G
    BY <2>3
  <2> QED BY <2>1, <2>4
<1>4. S = Nat
  <2> HIDE DEF S
  <2>1. S \in SUBSET Nat
    BY DEF S
  <2> QED BY <1>2, <1>3, <2>1, NatSetInduction
<1> QED BY <1>1, <1>4

\* The recursive function inside the library's fold, for + and f.
IsSummation(g, f) ==
    g = [s \in SUBSET DOMAIN f |-> IF s = {} THEN 0 ELSE f[Pick(s)] + g[s \ {Pick(s)}]]

LEMMA FoldIsSummation ==
    ASSUME NEW f
    PROVE  FoldFunction(+, 0, f) = (CHOOSE g : IsSummation(g, f))[DOMAIN f]
BY DEF FoldFunction, FoldFunctionOnSet, MapThenFoldSet, IsSummation, Pick

(* The recursion has a solution: one for the smaller sets extends to the    *)
(* sets of one element more.                                                *)
LEMMA SummationExists ==
    ASSUME NEW f, IsFiniteSet(DOMAIN f)
    PROVE  \E g : IsSummation(g, f)
<1> DEFINE D == DOMAIN f
           Small(n) == {s \in SUBSET D : Cardinality(s) <= n}
           Term(g, s) == IF s = {} THEN 0 ELSE f[Pick(s)] + g[s \ {Pick(s)}]
           Partial(g, n) == g = [s \in Small(n) |-> Term(g, s)]
           S == {n \in Nat : \E g : Partial(g, n)}
<1>1. \A s \in SUBSET D : IsFiniteSet(s) /\ Cardinality(s) \in Nat /\ (Cardinality(s) = 0 <=> s = {})
  BY FS_Subset, FS_CardinalityType, FS_EmptySet
<1>2. \A s \in SUBSET D : s # {} =>
          s \ {Pick(s)} \in SUBSET D /\ Cardinality(s \ {Pick(s)}) = Cardinality(s) - 1
  <2> SUFFICES ASSUME NEW s \in SUBSET D, s # {} PROVE Cardinality(s \ {Pick(s)}) = Cardinality(s) - 1
    OBVIOUS
  <2> Pick(s) \in s
    BY DEF Pick
  <2> QED BY <1>1, FS_RemoveElement
<1>3. 0 \in S
  <2>1. \A s \in Small(0) : s = {}
    BY <1>1
  <2>2. \A g, s : s = {} => Term(g, s) = 0
    OBVIOUS
  <2>3. Partial([s \in Small(0) |-> 0], 0)
    <3> HIDE DEF Small, Term
    <3> QED BY <2>1, <2>2
  <2> QED BY <2>3
<1>4. ASSUME NEW n \in S PROVE n + 1 \in S
  <2>1. PICK g : Partial(g, n)
    OBVIOUS
  <2> DEFINE h == [s \in Small(n + 1) |-> Term(g, s)]
  <2>2. \A s \in Small(n) : s \in Small(n + 1) /\ h[s] = g[s]
    <3>1. \A s \in Small(n) : s \in Small(n + 1)
      BY <1>1
    <3>2. \A s \in Small(n) : g[s] = Term(g, s)
      <4> HIDE DEF Small, Term
      <4> QED BY <2>1
    <3> HIDE DEF Small, Term
    <3> QED BY <3>1, <3>2
  <2>3. \A s \in Small(n + 1) : s # {} => s \ {Pick(s)} \in Small(n)
    BY <1>1, <1>2
  <2>4. \A s \in Small(n + 1) : Term(g, s) = Term(h, s)
    BY <2>2, <2>3
  <2>5. Partial(h, n + 1)
    <3> HIDE DEF Small, Term
    <3> QED BY <2>4
  <2>6. n + 1 \in Nat /\ \E k : Partial(k, n + 1)
    <3> HIDE DEF Partial, h
    <3> QED BY <2>5
  <2> QED BY <2>6
<1>5. S = Nat
  <2> HIDE DEF S
  <2>1. S \in SUBSET Nat
    BY DEF S
  <2> QED BY <1>3, <1>4, <2>1, NatSetInduction
<1>6. Cardinality(D) \in S
  <2> HIDE DEF S
  <2> QED BY <1>1, <1>5
<1>7. PICK g : Partial(g, Cardinality(D))
  BY <1>6
<1>8. Small(Cardinality(D)) = SUBSET D
  BY <1>1, FS_Subset
<1>9. g = [s \in SUBSET D |-> Term(g, s)]
  <2> HIDE DEF Small, Term
  <2> QED BY <1>7, <1>8
<1> QED BY <1>9 DEF IsSummation

Summation(f) == CHOOSE g : IsSummation(g, f)

Total(f) == FoldFunction(+, 0, f)

LEMMA SumUnfolds ==
    ASSUME NEW D, IsFiniteSet(D), NEW f \in [D -> Nat]
    PROVE  /\ Total(f) = Summation(f)[D]
           /\ Summation(f)[{}] = 0
           /\ \A s \in SUBSET D : s # {} =>
                Summation(f)[s] = f[Pick(s)] + Summation(f)[s \ {Pick(s)}]
<1>1. IsSummation(Summation(f), f)
  BY SummationExists DEF Summation
<1>2. \A s \in SUBSET D : 
        Summation(f)[s] = IF s = {} THEN 0 ELSE f[Pick(s)] + Summation(f)[s \ {Pick(s)}]
  BY <1>1 DEF IsSummation
<1>3. Total(f) = Summation(f)[D]
  BY FoldIsSummation, Zenon DEF Summation, Total
<1> QED BY <1>2, <1>3

LEMMA SumIsNat ==
    ASSUME NEW D, IsFiniteSet(D), NEW f \in [D -> Nat]
    PROVE  Total(f) \in Nat
<1> DEFINE G == {s \in SUBSET D : Summation(f)[s] \in Nat}
<1>0. /\ Summation(f)[{}] = 0
      /\ \A s \in SUBSET D : s # {} =>
           Summation(f)[s] = f[Pick(s)] + Summation(f)[s \ {Pick(s)}]
  BY SumUnfolds
<1>1. {} \in G
  BY <1>0
<1>2. ASSUME NEW s \in SUBSET D, s # {}, s \ {Pick(s)} \in G PROVE s \in G
  <2>1. Pick(s) \in D
    BY <1>2 DEF Pick
  <2>2. Summation(f)[s] = f[Pick(s)] + Summation(f)[s \ {Pick(s)}]
    BY <1>0, <1>2
  <2> QED BY <1>2, <2>1, <2>2
<1>3. G = SUBSET D
  <2> HIDE DEF G
  <2>1. G \in SUBSET SUBSET D
    BY DEF G
  <2> QED BY <1>1, <1>2, <2>1, SetInduction
<1> QED BY <1>3, SumUnfolds

LEMMA SumOfZeros ==
    ASSUME NEW D, IsFiniteSet(D), NEW f \in [D -> Nat], \A x \in D : f[x] = 0
    PROVE  Total(f) = 0
<1> DEFINE G == {s \in SUBSET D : Summation(f)[s] = 0}
<1>0. /\ Summation(f)[{}] = 0
      /\ \A s \in SUBSET D : s # {} =>
           Summation(f)[s] = f[Pick(s)] + Summation(f)[s \ {Pick(s)}]
  BY SumUnfolds
<1>1. {} \in G
  BY <1>0
<1>2. ASSUME NEW s \in SUBSET D, s # {}, s \ {Pick(s)} \in G PROVE s \in G
  <2>1. Pick(s) \in D
    BY <1>2 DEF Pick
  <2>2. Summation(f)[s] = f[Pick(s)] + Summation(f)[s \ {Pick(s)}]
    BY <1>0, <1>2
  <2> QED BY <1>2, <2>1, <2>2
<1>3. G = SUBSET D
  <2> HIDE DEF G
  <2>1. G \in SUBSET SUBSET D
    BY DEF G
  <2> QED BY <1>1, <1>2, <2>1, SetInduction
<1> QED BY <1>3, SumUnfolds

(* A sum changes by as much as its one term that changes.                   *)
LEMMA SumOfChange ==
    ASSUME NEW D, IsFiniteSet(D), NEW f \in [D -> Nat], NEW h \in [D -> Nat], NEW w \in D,
           \A x \in D \ {w} : h[x] = f[x]
    PROVE  Total(h) + f[w] = Total(f) + h[w]
<1> DEFINE Old(s) == Summation(f)[s]
           New(s) == Summation(h)[s]
           G == {s \in SUBSET D : /\ Old(s) \in Nat /\ New(s) \in Nat
                                  /\ New(s) + (IF w \in s THEN f[w] ELSE 0)
                                       = Old(s) + (IF w \in s THEN h[w] ELSE 0)}
<1>1. {} \in G
  BY SumUnfolds
<1>2. ASSUME NEW s \in SUBSET D, s # {}, s \ {Pick(s)} \in G PROVE s \in G
  <2>1. Pick(s) \in s /\ Pick(s) \in D
    BY <1>2 DEF Pick
  <2> DEFINE t == s \ {Pick(s)}
  <2>2. Old(s) = f[Pick(s)] + Old(t) /\ New(s) = h[Pick(s)] + New(t)
    BY <1>2, SumUnfolds
  <2>3. f[Pick(s)] \in Nat /\ h[Pick(s)] \in Nat /\ f[w] \in Nat /\ h[w] \in Nat
    BY <2>1
  <2>4. Old(t) \in Nat /\ New(t) \in Nat
        /\ New(t) + (IF w \in t THEN f[w] ELSE 0) = Old(t) + (IF w \in t THEN h[w] ELSE 0)
    BY <1>2
  <2>5. CASE Pick(s) = w
    BY <2>1, <2>2, <2>3, <2>4, <2>5
  <2>6. CASE Pick(s) # w
    <3>1. h[Pick(s)] = f[Pick(s)] /\ (w \in s <=> w \in t)
      BY <2>1, <2>6
    <3> HIDE DEF t, Old, New
    <3>2. New(s) + (IF w \in s THEN f[w] ELSE 0) = Old(s) + (IF w \in s THEN h[w] ELSE 0)
      BY <2>2, <2>3, <2>4, <3>1
    <3> QED BY <2>2, <2>3, <2>4, <3>2
  <2> QED BY <2>5, <2>6
<1>3. G = SUBSET D
  <2> HIDE DEF G
  <2>1. G \in SUBSET SUBSET D
    BY DEF G
  <2> QED BY <1>1, <1>2, <2>1, SetInduction
<1>4. D \in G
  BY <1>3
<1> QED BY <1>4, SumUnfolds

-----------------------------------------------------------------------------
(* Where a step takes a worker. *)

\* w goes to a place; the others stay, but for those a notification wakes.
Moved(w, to) ==
    /\ pc' \in [Worker -> Place]
    /\ pc'[w] = to
    /\ \A v \in Worker \ {w} : pc'[v] = pc[v] \/ (pc[v] = "asleep" /\ pc'[v] = "top")
    /\ alarm' \in [Worker -> Nat]

Placed == pc \in [Worker -> Place] /\ alarm \in [Worker -> Nat]

LEMMA GotoMoves ==
    ASSUME Placed, NEW w \in Worker, NEW to \in Place, Goto(w, to), alarm' \in [Worker -> Nat]
    PROVE  Moved(w, to)
BY DEF Placed, Goto, Moved

LEMMA NotifyMoves ==
    ASSUME Placed, NEW w \in Worker, NEW to \in Place \ {"asleep"}, NotifyAndGoto(w, to)
    PROVE  Moved(w, to)
<1>1. "top" \in Place
  BY DEF Place
<1> DEFINE places == [pc EXCEPT ![w] = to]
<1>2. places \in [Worker -> Place] /\ places[w] = to /\ \A v \in Worker \ {w} : places[v] = pc[v]
  BY DEF Placed
<1>3. NotifyFrom(places)
  BY DEF NotifyAndGoto
<1> HIDE DEF places
<1>4. pc' = [v \in Worker |-> IF places[v] = "asleep" THEN "top" ELSE places[v]]
  BY <1>3 DEF NotifyFrom
<1>5. alarm' = [v \in Worker |-> IF places[v] = "asleep" THEN 0 ELSE alarm[v]]
  BY <1>3 DEF NotifyFrom
<1>6. pc' \in [Worker -> Place]
  BY <1>1, <1>2, <1>4
<1>7. alarm' \in [Worker -> Nat]
  BY <1>5 DEF Placed
<1> QED BY <1>2, <1>4, <1>6, <1>7 DEF Moved

(* What a move does to the workers at some places. *)
LEMMA Count ==
    ASSUME Placed, NEW w \in Worker, NEW to, Moved(w, to), NEW S, "asleep" \notin S, "top" \notin S
    PROVE  /\ At(S)' = IF to \in S THEN At(S) \cup {w} ELSE At(S) \ {w}
           /\ Cardinality(At(S)) \in Nat
           /\ Cardinality(At(S)') = Cardinality(At(S)) + (IF to \in S THEN 1 ELSE 0)
                                                      - (IF pc[w] \in S THEN 1 ELSE 0)
           /\ pc[w] \in S => Cardinality(At(S)) > 0
<1>1. At(S)' = IF to \in S THEN At(S) \cup {w} ELSE At(S) \ {w}
  BY DEF Moved, At
<1>2. IsFiniteSet(At(S)) /\ Cardinality(At(S)) \in Nat
  BY EngineAssumption, FS_Subset, FS_CardinalityType DEF At
<1>3. /\ w \in At(S) => Cardinality(At(S) \cup {w}) = Cardinality(At(S))
      /\ w \notin At(S) => Cardinality(At(S) \cup {w}) = Cardinality(At(S)) + 1
      /\ w \in At(S) => Cardinality(At(S) \ {w}) = Cardinality(At(S)) - 1
      /\ w \notin At(S) => Cardinality(At(S) \ {w}) = Cardinality(At(S))
  BY <1>2, FS_AddElement, FS_RemoveElement
<1>4. w \in At(S) => Cardinality(At(S)) # 0
  BY <1>2, FS_EmptySet
<1>5. w \in At(S) <=> pc[w] \in S
  BY DEF At
<1> QED BY <1>1, <1>2, <1>3, <1>4, <1>5

-----------------------------------------------------------------------------
(* The inductive invariant. *)

SharedOK ==
    /\ lock \in Worker \cup {None}
    /\ paused \in BOOLEAN /\ shutdown \in BOOLEAN
    /\ error_slot \in BOOLEAN /\ rejected \in BOOLEAN
    /\ sink \subseteq [url : Url, depth : Nat, links : SUBSET Url]
    /\ main \in {"sitemap", "seed", "join", "returned"}
    /\ list \in Seq(Url)
    /\ added \in Nat
    /\ result \in {None, "ok", "error"}

PagesOK ==
    /\ start \in [Worker -> Nat \cup {None}]
    /\ todo \in [Worker -> Seq(Url)]
    /\ found \in [Worker -> SUBSET Url]
    /\ fresh \in [Worker -> Nat]
    /\ unwinding \subseteq At({"drop", "complete", "ring"})

(* A worker holds a task exactly while it leases one, within the limit.     *)
TasksOK ==
    /\ task \in [Worker -> F!Task \cup {None}]
    /\ \A w \in Worker :
         IF pc[w] \in Leasing
           THEN task[w] \in F!Task /\ (MaxDepth # None => task[w].depth <= MaxDepth)
           ELSE task[w] = None

(* The first three equations of Ledger, without which the counters might    *)
(* underflow and an idle worker might leave too early.                      *)
Leases ==
    /\ stats \in [fetched : Nat, failed : Nat, discovered : Nat, in_flight : Nat]
    /\ active = Cardinality(At(Leasing))
    /\ dispatched = stats.fetched + stats.failed + Cardinality(At(Uncounted))
    /\ stats.in_flight = Cardinality(At(Leasing \ {"begin", "complete"}))

(* No worker runs before run() has seeded the frontier, and none after it   *)
(* has returned.                                                            *)
Phases ==
    /\ main \in {"sitemap", "seed"} => \A w \in Worker : pc[w] = "new"
    /\ main \in {"join", "returned"} => \A w \in Worker : pc[w] # "new"
    /\ main = "returned" => \A w \in Worker : pc[w] \in Ended

IInv == FP!IInv /\ Placed /\ SharedOK /\ PagesOK /\ TasksOK /\ Leases /\ Phases

(* What was fetched and what the sink was given, for every URL.             *)
CallsOK == requests \in [Url -> Nat] /\ handed \in [Url -> Nat]

LEMMA IInvTypes == IInv /\ CallsOK => TypeOK
<1> SUFFICES ASSUME IInv, CallsOK PROVE TypeOK
  OBVIOUS
<1>1. F!TypeOK
  BY SameFrontier DEF IInv, FP!IInv
<1>2. \A w \in Worker : IF w \in At(Leasing) THEN task[w] \in F!Task ELSE task[w] = None
  BY DEF IInv, TasksOK, At
<1>3. {paused, shutdown, error_slot, rejected} \subseteq BOOLEAN
  BY DEF IInv, SharedOK
<1> QED
  BY <1>1, <1>2, <1>3 DEF TypeOK, IInv, SharedOK, PagesOK, Placed, Leases, CallsOK

(* The queues and the seen set are as Frontier's proofs describe them.      *)
LEMMA InitIInv == Init => IInv
<1> SUFFICES ASSUME Init PROVE IInv
  OBVIOUS
<1>1. FP!IInv
  BY SameFrontier, FP!InitIInv DEF Init
<1>2. Placed
  BY DEF Init, Placed, Place
<1>3. SharedOK
  BY EngineAssumption DEF Init, SharedOK
<1>4. PagesOK
  BY DEF Init, PagesOK
<1>5. TasksOK
  BY DEF Init, TasksOK, Leasing, Uncounted
<1>6. Leases
  <2>1. At(Leasing) = {} /\ At(Uncounted) = {} /\ At(Leasing \ {"begin", "complete"}) = {}
    BY DEF Init, At, Leasing, Uncounted
  <2>2. active = 0 /\ dispatched = 0
    BY DEF Init, F!Init
  <2>3. /\ stats \in [fetched : Nat, failed : Nat, discovered : Nat, in_flight : Nat]
        /\ stats.fetched = 0 /\ stats.failed = 0 /\ stats.in_flight = 0
    BY DEF Init
  <2>4. Cardinality({}) = 0
    BY FS_EmptySet
  <2> QED BY <2>1, <2>2, <2>3, <2>4 DEF Leases
<1>7. Phases
  BY DEF Init, Phases
<1> QED BY <1>1, <1>2, <1>3, <1>4, <1>5, <1>6, <1>7 DEF IInv

-----------------------------------------------------------------------------
(* Every step of the engine is a step of the frontier, or none of its.      *)

LEMMA LinkInDepth ==
    ASSUME IInv, NEW w \in Worker, pc[w] = "link"
    PROVE  task[w].depth + 1 \in Depth
<1>1. task[w] \in F!Task /\ (MaxDepth # None => task[w].depth <= MaxDepth)
  BY DEF IInv, TasksOK, Leasing, Uncounted
<1> QED
  BY <1>1, EngineAssumption DEF F!Task

LEMMA FrontierStep ==
    ASSUME IInv, [Next]_vars
    PROVE  [F!Next]_F!vars
<1> USE EngineAssumption
<1>1. ASSUME UNCHANGED frontierVars PROVE [F!Next]_F!vars
  BY <1>1 DEF frontierVars, F!vars
<1>2. CASE UNCHANGED vars
  BY <1>1, <1>2 DEF vars
<1>3. CASE Run
  <2>1. CASE SeedNext
    <3>1. Head(list) \in Url
      BY <2>1 DEF SeedNext, IInv, SharedOK
    <3>2. F!Add(Head(list), 0) \/ UNCHANGED frontierVars
      BY <2>1, Zenon DEF SeedNext
    <3> QED BY <1>1, <3>1, <3>2 DEF F!Next
  <2>2. CASE SeedEnd \/ Return
    BY <1>1, <2>2 DEF SeedEnd, Return
  <2> QED BY <1>3, <2>1, <2>2 DEF Run
<1>4. CASE User \/ Done
  BY <1>1, <1>4 DEF User, Done, vars
<1>5. CASE Tick
  BY <1>5 DEF Tick, F!Next
<1>6. ASSUME NEW w \in Worker, Loop(w) PROVE [F!Next]_F!vars
  <2>1. CASE Ask(w)
    <3>1. (\E h \in Host : F!Lease(h)) \/ UNCHANGED frontierVars
      BY <2>1, Zenon DEF Ask, AskReady, AskWait, AskOther
    <3> QED BY <1>1, <3>1 DEF F!Next
  <2>2. CASE CheckShutdown(w) \/ CheckPaused(w) \/ Farewell(w) \/ Arm(w) \/ WakeUp(w)
    BY <1>1, <2>2 DEF CheckShutdown, CheckPaused, Farewell, Arm, WakeUp
  <2> QED BY <1>6, <2>1, <2>2 DEF Loop
<1>7. ASSUME NEW w \in Worker, Process(w) PROVE [F!Next]_F!vars
  <2>1. CASE HearDelay(w)
    <3>1. task[w] \in F!Task
      BY <2>1 DEF HearDelay, IInv, TasksOK, Leasing, Uncounted
    <3>2. task[w].url \in Url
      BY <3>1 DEF F!Task
    <3>3. PICK d \in CrawlDelay[task[w].url] :
             IF d = None THEN UNCHANGED frontierVars
                         ELSE lock = None /\ F!SetHostDelay(task[w].url, d)
      BY <2>1 DEF HearDelay
    <3>4. d # None => d \in Delay
      BY <3>2, <3>3
    <3> QED BY <1>1, <3>2, <3>3, <3>4 DEF F!Next
  <2>2. CASE Link(w)
    <3>1. Head(todo[w]) \in Url /\ task[w].depth + 1 \in Depth
      BY <2>2, LinkInDepth DEF Link, IInv, PagesOK
    <3>2. F!Add(Head(todo[w]), task[w].depth + 1) \/ UNCHANGED frontierVars
      BY <2>2, Zenon DEF Link
    <3> QED BY <1>1, <3>1, <3>2 DEF F!Next
  <2>3. CASE Complete(w)
    BY <2>3 DEF Complete, F!Next
  <2>4. CASE \/ Begin(w) \/ CheckRobots(w) \/ Send(w) \/ Reply(w) \/ Lock(w) \/ Unlock(w)
             \/ Tally(w) \/ Write(w) \/ Fail(w) \/ Drop(w) \/ Ring(w)
    BY <1>1, <2>4 DEF Begin, CheckRobots, Send, Reply, Lock, Unlock, Tally, Write, Fail, Drop, Ring
  <2> QED BY <1>7, <2>1, <2>2, <2>3, <2>4 DEF Process
<1> QED BY <1>2, <1>3, <1>4, <1>5, <1>6, <1>7 DEF Next

LEMMA FrontierKept ==
    ASSUME IInv, [Next]_vars
    PROVE  FP!IInv'
<1>1. FP!IInv /\ [F!Next]_F!vars
  BY FrontierStep DEF IInv
<1>2. F!Next <=> FP!Next
  BY SameFrontier
<1>3. UNCHANGED F!vars => UNCHANGED FP!vars
  BY DEF F!vars, FP!vars
<1>4. FP!IInv /\ [FP!Next]_FP!vars => FP!IInv'
  BY SameFrontier, FP!NextIInv, Zenon
<1> QED BY <1>1, <1>2, <1>3, <1>4, Zenon

-----------------------------------------------------------------------------
(* What a worker's step leaves to show. *)

Flight == Leasing \ {"begin", "complete"}

WorkerInv == Placed /\ TasksOK /\ Leases /\ Phases

LEMMA Places ==
    /\ "asleep" \notin Leasing /\ "top" \notin Leasing
    /\ Uncounted \subseteq Leasing /\ Flight \subseteq Leasing
BY DEF Leasing, Uncounted, Flight

\* A worker that moves is no new one, and run() waits for it.
LEMMA PhasesKept ==
    ASSUME IInv, NEW w \in Worker, NEW to \in Place \ {"new"}, Moved(w, to),
           pc[w] \notin Ended \cup {"new"}, UNCHANGED main
    PROVE  Phases'
<1>1. main = "join"
  BY DEF IInv, SharedOK, Phases
<1>2. \A v \in Worker : pc'[v] # "new"
  BY <1>1 DEF IInv, Phases, Moved
<1> QED BY <1>1, <1>2 DEF Phases

LEMMA CountsMoved ==
    ASSUME IInv, NEW w \in Worker, NEW to, Moved(w, to)
    PROVE  /\ Cardinality(At(Leasing)') = Cardinality(At(Leasing))
                 + (IF to \in Leasing THEN 1 ELSE 0) - (IF pc[w] \in Leasing THEN 1 ELSE 0)
           /\ Cardinality(At(Uncounted)') = Cardinality(At(Uncounted))
                 + (IF to \in Uncounted THEN 1 ELSE 0) - (IF pc[w] \in Uncounted THEN 1 ELSE 0)
           /\ Cardinality(At(Flight)') = Cardinality(At(Flight))
                 + (IF to \in Flight THEN 1 ELSE 0) - (IF pc[w] \in Flight THEN 1 ELSE 0)
           /\ Cardinality(At(Leasing)) \in Nat /\ Cardinality(At(Uncounted)) \in Nat
           /\ Cardinality(At(Flight)) \in Nat
           /\ pc[w] \in Flight => Cardinality(At(Flight)) > 0
<1>1. Placed
  BY DEF IInv
<1>2. \A S \in {Leasing, Uncounted, Flight} : "asleep" \notin S /\ "top" \notin S
  BY DEF Leasing, Uncounted, Flight
<1> QED BY <1>1, <1>2, Count, Zenon

\* A move that neither begins nor ends anything.
LEMMA QuietMove ==
    ASSUME IInv, NEW w \in Worker, NEW to \in Place \ {"new"}, Moved(w, to),
           pc[w] \notin Ended \cup {"new"},
           \A S \in {Leasing, Uncounted, Flight} : pc[w] \in S <=> to \in S,
           UNCHANGED <<stats, active, dispatched, task, main>>
    PROVE  WorkerInv'
<1>1. Placed'
  BY DEF Moved, Placed
<1>2. TasksOK'
  <2>1. \A v \in Worker : pc'[v] \in Leasing <=> pc[v] \in Leasing
    BY Places DEF Moved
  <2> QED BY <2>1 DEF IInv, TasksOK
<1>3. Leases'
  <2>1. /\ pc[w] \in Leasing <=> to \in Leasing
        /\ pc[w] \in Uncounted <=> to \in Uncounted
        /\ pc[w] \in Flight <=> to \in Flight
    OBVIOUS
  <2>2. /\ Cardinality(At(Leasing)') = Cardinality(At(Leasing))
        /\ Cardinality(At(Uncounted)') = Cardinality(At(Uncounted))
        /\ Cardinality(At(Flight)') = Cardinality(At(Flight))
    BY <2>1, CountsMoved
  <2> QED BY <2>2 DEF IInv, Leases, Flight
<1>4. Phases'
  BY PhasesKept
<1> QED BY <1>1, <1>2, <1>3, <1>4 DEF WorkerInv

\* The workers a panic unwinds are at its last three places.
LEMMA UnwindingKept ==
    ASSUME IInv, NEW w \in Worker, NEW to, Moved(w, to),
           pc[w] \in {"drop", "complete", "ring"} => to \in {"drop", "complete", "ring"},
           UNCHANGED unwinding
    PROVE  unwinding' \subseteq At({"drop", "complete", "ring"})'
BY DEF IInv, PagesOK, At, Moved

OwnInv == SharedOK /\ PagesOK /\ WorkerInv

\* A worker that leases a task.
LEMMA AskReadyKept ==
    ASSUME IInv, NEW w \in Worker, Ask(w), AskReady(w)
    PROVE  WorkerInv'
<1>1. PICK h \in Host : F!Lease(h) /\ task' = [task EXCEPT ![w] = Head(queues[h])]
  BY DEF AskReady
<1>2. pc[w] = "ask" /\ Goto(w, "begin") /\ UNCHANGED <<stats, main, alarm>>
  BY DEF Ask, AskReady, outputVars, mainVars
<1>3. Moved(w, "begin")
  BY <1>2, GotoMoves DEF IInv, Placed, Place, Leasing, Uncounted
<1>4. active' = active + 1 /\ dispatched' = dispatched + 1
  BY <1>1 DEF F!Lease
<1>5. /\ Head(queues[h]) \in F!Task
      /\ MaxDepth # None => Head(queues[h]).depth <= MaxDepth
  <2>1. FP!Lease(h) /\ FP!IInv /\ queues[h] \in Seq(F!Task) /\ queues[h] # <<>>
    BY <1>1, SameFrontier DEF IInv, FP!IInv, FP!TypeOK, F!Lease, F!Earliest, F!Pending
  <2>2. 1 \in DOMAIN queues[h] /\ Head(queues[h]) = queues[h][1] /\ queues[h][1] \in F!Task
    BY <2>1
  <2> QED BY <2>1, <2>2 DEF FP!IInv, FP!WellPlaced
<1>6. Placed'
  BY <1>3 DEF Moved, Placed
<1>7. TasksOK'
  <2>1. \A v \in Worker \ {w} : (pc'[v] \in Leasing <=> pc[v] \in Leasing) /\ task'[v] = task[v]
    BY <1>1, <1>3, Places DEF Moved, IInv, TasksOK
  <2>2. pc'[w] \in Leasing /\ task'[w] = Head(queues[h])
    BY <1>1, <1>3 DEF Moved, IInv, TasksOK, Leasing, Uncounted
  <2> QED BY <1>1, <1>5, <2>1, <2>2 DEF IInv, TasksOK
<1>8. Leases'
  <2>1. /\ Cardinality(At(Leasing)') = Cardinality(At(Leasing)) + 1
        /\ Cardinality(At(Uncounted)') = Cardinality(At(Uncounted)) + 1
        /\ Cardinality(At(Flight)') = Cardinality(At(Flight))
    BY <1>2, <1>3, CountsMoved DEF Leasing, Uncounted, Flight
  <2> QED BY <1>2, <1>4, <2>1, CountsMoved, <1>3 DEF IInv, Leases, Flight
<1>9. Phases'
  BY <1>2, <1>3, PhasesKept DEF Ended, Place, Leasing, Uncounted
<1> QED BY <1>6, <1>7, <1>8, <1>9 DEF WorkerInv

LEMMA AskKept ==
    ASSUME IInv, NEW w \in Worker, Ask(w)
    PROVE  OwnInv'
<1>1. /\ pc[w] = "ask"
      /\ UNCHANGED <<lock, paused, shutdown, error_slot, stats, sink, rejected, start, todo,
                     found, fresh, unwinding, main, list, added, result>>
  BY DEF Ask, controlVars, outputVars, mainVars
<1>2. SharedOK'
  BY <1>1 DEF IInv, SharedOK
<1>3. WorkerInv' /\ \E to \in Place : Moved(w, to)
  <2>1. CASE AskReady(w)
    <3>1. Goto(w, "begin") /\ UNCHANGED alarm /\ "begin" \in Place
      BY <2>1 DEF AskReady, Place, Leasing, Uncounted
    <3>2. Moved(w, "begin")
      BY <3>1, GotoMoves DEF IInv, Placed
    <3> QED BY <2>1, <3>1, <3>2, AskReadyKept
  <2>2. CASE AskWait(w) \/ AskOther(w)
    <3>1. PICK to \in {"unarmed", "farewell"} : Goto(w, to)
      BY <2>2 DEF AskWait, AskOther
    <3>2. UNCHANGED <<active, dispatched, task>> /\ alarm' \in [Worker -> Nat]
      <4>1. CASE AskWait(w)
        <5>1. UNCHANGED <<active, dispatched, task>> /\ alarm' = [alarm EXCEPT ![w] = F!WaitTime]
          BY <4>1 DEF AskWait, frontierVars
        <5>2. F!LeaseWaits
          BY <4>1 DEF AskWait
        <5>3. F!WaitTime \in Nat
          BY <5>2, WaitIsNat DEF IInv
        <5> QED BY <5>1, <5>3 DEF IInv, Placed
      <4>2. CASE AskOther(w)
        BY <4>2 DEF AskOther, frontierVars, IInv, Placed
      <4> QED BY <2>2, <4>1, <4>2
    <3>3. Moved(w, to) /\ to \in Place \ {"new"}
      BY <3>1, <3>2, GotoMoves DEF IInv, Place
    <3>4. \A S \in {Leasing, Uncounted, Flight} : pc[w] \in S <=> to \in S
      BY <1>1, <3>1 DEF Leasing, Uncounted, Flight
    <3> QED BY <1>1, <3>2, <3>3, <3>4, QuietMove DEF Ended
  <2> QED BY <2>1, <2>2 DEF Ask
<1>4. PagesOK'
  <2>1. unwinding' \subseteq At({"drop", "complete", "ring"})'
    BY <1>1, <1>3, UnwindingKept
  <2> QED BY <1>1, <2>1 DEF IInv, PagesOK
<1> QED BY <1>2, <1>3, <1>4 DEF OwnInv

\* A quiet move that leaves everything else but the alarm alone.
LEMMA MoveKept ==
    ASSUME IInv, NEW w \in Worker, NEW to \in Place \ {"new"}, Moved(w, to),
           pc[w] \notin Ended \cup {"new"},
           \A S \in {Leasing, Uncounted, Flight} : pc[w] \in S <=> to \in S,
           pc[w] \in {"drop", "complete", "ring"} => to \in {"drop", "complete", "ring"},
           UNCHANGED <<active, dispatched, stats, task, main, start, todo, found, fresh, unwinding>>,
           SharedOK'
    PROVE  OwnInv'
<1>1. WorkerInv'
  BY QuietMove
<1>2. unwinding' \subseteq At({"drop", "complete", "ring"})'
  BY UnwindingKept
<1>3. PagesOK'
  BY <1>2 DEF IInv, PagesOK
<1> QED BY <1>1, <1>3 DEF OwnInv

LEMMA LoopKept ==
    ASSUME IInv, NEW w \in Worker, Loop(w)
    PROVE  OwnInv'
<1> USE DEF frontierVars, controlVars, outputVars, pageVars, localVars, mainVars
<1>1. CASE Ask(w)
  BY <1>1, AskKept
<1>2. CASE CheckShutdown(w) \/ CheckPaused(w) \/ Farewell(w) \/ Arm(w) \/ WakeUp(w)
  <2>1. UNCHANGED <<active, dispatched, stats, task, main, start, todo, found, fresh, unwinding,
                    lock, paused, shutdown, error_slot, sink, rejected, list, added, result>>
    BY <1>2 DEF CheckShutdown, CheckPaused, Farewell, Arm, WakeUp
  <2>2. SharedOK'
    BY <2>1 DEF IInv, SharedOK
  <2>3. PICK to \in {"stopped", "gate", "unarmed", "ask", "drained", "asleep", "top"} :
           /\ pc[w] \in {"top", "gate", "farewell", "unarmed", "asleep"}
           /\ Moved(w, to)
    <3>1. CASE CheckShutdown(w)
      <4>1. PICK to \in {"stopped", "gate"} : Goto(w, to)
        BY <3>1 DEF CheckShutdown
      <4>2. pc[w] = "top" /\ UNCHANGED alarm
        BY <3>1 DEF CheckShutdown
      <4> QED BY <4>1, <4>2, GotoMoves DEF IInv, Placed, Place, Ended
    <3>2. CASE CheckPaused(w)
      <4>1. PICK to \in {"unarmed", "ask"} : Goto(w, to)
        BY <3>2 DEF CheckPaused
      <4>2. pc[w] = "gate" /\ UNCHANGED alarm
        BY <3>2 DEF CheckPaused
      <4> QED BY <4>1, <4>2, GotoMoves DEF IInv, Placed, Place
    <3>3. CASE Farewell(w)
      <4>1. pc[w] = "farewell" /\ NotifyAndGoto(w, "drained")
        BY <3>3 DEF Farewell
      <4> QED BY <4>1, NotifyMoves DEF IInv, Place, Ended
    <3>4. CASE Arm(w)
      <4>1. pc[w] = "unarmed" /\ Goto(w, "asleep") /\ alarm' = [alarm EXCEPT ![w] = now + alarm[w]]
        BY <3>4 DEF Arm
      <4>2. now \in Nat
        BY DEF IInv, FP!IInv, FP!TypeOK
      <4>3. alarm' \in [Worker -> Nat]
        BY <4>1, <4>2 DEF IInv, Placed
      <4> QED BY <4>1, <4>3, GotoMoves DEF IInv, Place
    <3>5. CASE WakeUp(w)
      <4>1. pc[w] = "asleep" /\ Goto(w, "top") /\ alarm' = [alarm EXCEPT ![w] = 0]
        BY <3>5 DEF WakeUp
      <4>2. alarm' \in [Worker -> Nat]
        BY <4>1 DEF IInv, Placed
      <4> QED BY <4>1, <4>2, GotoMoves DEF IInv, Place
    <3> QED BY <1>2, <3>1, <3>2, <3>3, <3>4, <3>5
  <2>4. /\ to \in Place \ {"new"} /\ pc[w] \notin Ended \cup {"new"}
        /\ pc[w] \notin {"drop", "complete", "ring"}
        /\ \A S \in {Leasing, Uncounted, Flight} : pc[w] \in S <=> to \in S
    BY <2>3 DEF Place, Ended, Leasing, Uncounted, Flight
  <2> QED BY <2>1, <2>2, <2>3, <2>4, MoveKept
<1> QED BY <1>1, <1>2 DEF Loop


-----------------------------------------------------------------------------
(* The steps of process(). *)

\* A move of a worker that keeps its lease, with what the counters must do.
LEMMA LeasedMove ==
    ASSUME IInv, NEW w \in Worker, NEW to \in Leasing, Moved(w, to), pc[w] \in Leasing,
           stats' \in [fetched : Nat, failed : Nat, discovered : Nat, in_flight : Nat],
           stats'.fetched + stats'.failed + (IF to \in Uncounted THEN 1 ELSE 0)
             = stats.fetched + stats.failed + (IF pc[w] \in Uncounted THEN 1 ELSE 0),
           stats'.in_flight = stats.in_flight + (IF to \in Flight THEN 1 ELSE 0)
                                              - (IF pc[w] \in Flight THEN 1 ELSE 0),
           UNCHANGED <<active, dispatched, task, main>>
    PROVE  WorkerInv'
<1>1. Placed'
  BY DEF Moved, Placed
<1>2. TasksOK'
  <2>1. \A v \in Worker : pc'[v] \in Leasing <=> pc[v] \in Leasing
    BY Places DEF Moved
  <2> QED BY <2>1 DEF IInv, TasksOK
<1>3. Leases'
  <2>1. /\ Cardinality(At(Leasing)') = Cardinality(At(Leasing))
        /\ Cardinality(At(Uncounted)') = Cardinality(At(Uncounted))
             + (IF to \in Uncounted THEN 1 ELSE 0) - (IF pc[w] \in Uncounted THEN 1 ELSE 0)
        /\ Cardinality(At(Flight)') = Cardinality(At(Flight))
             + (IF to \in Flight THEN 1 ELSE 0) - (IF pc[w] \in Flight THEN 1 ELSE 0)
        /\ Cardinality(At(Uncounted)) \in Nat
    BY CountsMoved
  <2>2. stats \in [fetched : Nat, failed : Nat, discovered : Nat, in_flight : Nat]
    BY DEF IInv, Leases
  <2> QED BY <2>1, <2>2 DEF IInv, Leases, Flight
<1>4. Phases'
  BY PhasesKept DEF Leasing, Uncounted, Place, Ended
<1> QED BY <1>1, <1>2, <1>3, <1>4 DEF WorkerInv

LEMMA BeginKept ==
    ASSUME IInv, NEW w \in Worker, Begin(w)
    PROVE  OwnInv'
<1> USE DEF frontierVars, controlVars, outputVars, pageVars, localVars, mainVars
<1>1. /\ pc[w] = "begin" /\ stats' = [stats EXCEPT !.in_flight = @ + 1]
      /\ UNCHANGED <<active, dispatched, task, main, start, todo, found, fresh, unwinding, alarm,
                     lock, paused, shutdown, error_slot, sink, rejected, list, added, result>>
  BY DEF Begin
<1>2. PICK to \in {"robots", "send"} : Goto(w, to)
  BY DEF Begin
<1>3. Moved(w, to) /\ to \in Leasing /\ to \in Uncounted /\ to \in Flight
  BY <1>1, <1>2, GotoMoves DEF IInv, Placed, Place, Leasing, Uncounted, Flight
<1>4. pc[w] \in Leasing /\ pc[w] \in Uncounted /\ pc[w] \notin Flight
  BY <1>1 DEF Leasing, Uncounted, Flight
<1>5. /\ stats' \in [fetched : Nat, failed : Nat, discovered : Nat, in_flight : Nat]
      /\ stats'.fetched = stats.fetched /\ stats'.failed = stats.failed
      /\ stats'.in_flight = stats.in_flight + 1
  BY <1>1 DEF IInv, Leases
<1>6. WorkerInv'
  BY <1>1, <1>3, <1>4, <1>5, LeasedMove DEF IInv, Leases
<1>7. SharedOK'
  BY <1>1 DEF IInv, SharedOK
<1>8. PagesOK'
  <2>1. unwinding' \subseteq At({"drop", "complete", "ring"})'
    BY <1>1, <1>3, UnwindingKept
  <2> QED BY <1>1, <2>1 DEF IInv, PagesOK
<1> QED BY <1>6, <1>7, <1>8 DEF OwnInv

\* The steps between "begin" and "tally" move no counter of the ledger.
LEMMA FetchingKept ==
    ASSUME IInv, NEW w \in Worker,
           \/ CheckRobots(w) \/ HearDelay(w) \/ Send(w) \/ Reply(w)
           \/ Lock(w) \/ Link(w) \/ Unlock(w)
    PROVE  OwnInv'
<1> USE DEF frontierVars, controlVars, outputVars, pageVars, localVars, mainVars
<1>1. UNCHANGED <<active, dispatched, stats, task, unwinding, alarm, paused, shutdown, error_slot,
                  sink, rejected, main, list, added, result>>
  <2>1. CASE HearDelay(w)
    BY <2>1 DEF HearDelay, F!SetHostDelay
  <2>2. CASE Link(w)
    BY <2>2 DEF Link, F!Add
  <2> QED BY <2>1, <2>2 DEF CheckRobots, Send, Reply, Lock, Unlock
<1>2. SharedOK'
  <2>1. lock' \in Worker \cup {None}
    BY DEF IInv, SharedOK, CheckRobots, HearDelay, Send, Reply, Lock, Link, Unlock
  <2> QED BY <1>1, <2>1 DEF IInv, SharedOK
<1>3. /\ start' \in [Worker -> Nat \cup {None}]
      /\ todo' \in [Worker -> Seq(Url)]
      /\ found' \in [Worker -> SUBSET Url]
      /\ fresh' \in [Worker -> Nat]
  <2>1. CASE CheckRobots(w) \/ HearDelay(w) \/ Lock(w) \/ Unlock(w)
    BY <2>1 DEF CheckRobots, HearDelay, Lock, Unlock, IInv, PagesOK
  <2>2. CASE Send(w)
    <3>1. now \in Nat
      BY DEF IInv, FP!IInv, FP!TypeOK
    <3> QED BY <2>2, <3>1 DEF Send, IInv, PagesOK
  <2>3. CASE Reply(w)
    <3>1. task[w] \in F!Task
      BY <2>3 DEF Reply, IInv, TasksOK, Leasing, Uncounted
    <3>2. task[w].url \in Url
      BY <3>1 DEF F!Task
    <3>3. Links[task[w].url] \in Seq(Url) /\ <<>> \in Seq(Url)
      BY <3>2, EngineAssumption
    <3>4. PICK r \in Replies[task[w].url] :
             todo' = [todo EXCEPT ![w] = IF r = "html" THEN Links[task[w].url] ELSE <<>>]
      BY <2>3 DEF Reply
    <3>5. todo' \in [Worker -> Seq(Url)]
      BY <3>3, <3>4 DEF IInv, PagesOK
    <3> QED BY <2>3, <3>5 DEF Reply, IInv, PagesOK
  <2>4. CASE Link(w)
    <3>1. /\ todo \in [Worker -> Seq(Url)] /\ found \in [Worker -> SUBSET Url]
          /\ fresh \in [Worker -> Nat] /\ start \in [Worker -> Nat \cup {None}]
      BY DEF IInv, PagesOK
    <3>2. todo[w] # <<>> /\ todo' = [todo EXCEPT ![w] = Tail(@)] /\ UNCHANGED start
      BY <2>4 DEF Link
    <3>3. Head(todo[w]) \in Url /\ Tail(todo[w]) \in Seq(Url)
      BY <3>1, <3>2
    <3>4. \/ found' = [found EXCEPT ![w] = @ \cup {Head(todo[w])}]
          \/ UNCHANGED found
      BY <2>4 DEF Link
    <3>5. \/ fresh' = [fresh EXCEPT ![w] = @ + 1]
          \/ fresh' = [fresh EXCEPT ![w] = @]
          \/ UNCHANGED fresh
      BY <2>4 DEF Link
    <3>6. todo' \in [Worker -> Seq(Url)]
      BY <3>1, <3>2, <3>3
    <3>7. found' \in [Worker -> SUBSET Url]
      <4>1. found[w] \cup {Head(todo[w])} \in SUBSET Url
        BY <3>1, <3>3
      <4> QED BY <3>1, <3>4, <4>1, Zenon
    <3>8. fresh[w] \in Nat /\ fresh[w] + 1 \in Nat
      BY <3>1
    <3>9. fresh' \in [Worker -> Nat]
      BY <3>1, <3>5, <3>8, Zenon
    <3> QED BY <3>1, <3>2, <3>6, <3>7, <3>9
  <2> QED BY <2>1, <2>2, <2>3, <2>4
<1>4. PICK to \in Uncounted \ {"begin"} :
         pc[w] \in Uncounted \ {"begin"} /\ (Goto(w, to) \/ (to = pc[w] /\ UNCHANGED pc))
  <2>1. CASE CheckRobots(w)
    <3>1. \E to \in {"fail", "delay", "send"} : Goto(w, to)
      BY <2>1 DEF CheckRobots
    <3> QED BY <2>1, <3>1 DEF CheckRobots, Uncounted
  <2>2. CASE Reply(w)
    <3>1. \E to \in {"fail", "lock"} : Goto(w, to)
      BY <2>2 DEF Reply
    <3> QED BY <2>2, <3>1 DEF Reply, Uncounted
  <2>3. CASE HearDelay(w) \/ Send(w)
    <3>1. \E to \in {"send", "reply"} : Goto(w, to)
      BY <2>3 DEF HearDelay, Send
    <3> QED BY <2>3, <3>1 DEF HearDelay, Send, Uncounted
  <2>4. CASE Lock(w) \/ Unlock(w)
    <3>1. \E to \in {"link", "tally"} : Goto(w, to)
      BY <2>4 DEF Lock, Unlock
    <3> QED BY <2>4, <3>1 DEF Lock, Unlock, Uncounted
  <2>5. CASE Link(w)
    BY <2>5 DEF Link, Uncounted
  <2> QED BY <2>1, <2>2, <2>3, <2>4, <2>5
<1>5. Moved(w, to)
  BY <1>1, <1>4, GotoMoves DEF IInv, Placed, Place, Leasing, Moved
<1>6. WorkerInv'
  <2>1. /\ to \in Place \ {"new"} /\ pc[w] \notin Ended \cup {"new"}
        /\ \A S \in {Leasing, Uncounted, Flight} : pc[w] \in S <=> to \in S
    BY <1>4 DEF Place, Ended, Leasing, Uncounted, Flight
  <2> QED BY <1>1, <1>5, <2>1, QuietMove
<1>7. PagesOK'
  <2>1. pc[w] \notin {"drop", "complete", "ring"}
    BY <1>4 DEF Uncounted
  <2>2. unwinding' \subseteq At({"drop", "complete", "ring"})'
    BY <1>1, <1>5, <2>1, UnwindingKept
  <2> QED BY <1>3, <2>2 DEF PagesOK
<1> QED BY <1>2, <1>6, <1>7 DEF OwnInv

LEMMA TallyKept ==
    ASSUME IInv, NEW w \in Worker, Tally(w)
    PROVE  OwnInv'
<1> USE DEF frontierVars, controlVars, outputVars, mainVars
<1>1. /\ pc[w] = "tally"
      /\ stats' = [stats EXCEPT !.discovered = @ + fresh[w], !.fetched = @ + 1]
      /\ fresh' = [fresh EXCEPT ![w] = 0]
      /\ UNCHANGED <<active, dispatched, task, main, start, todo, found, unwinding,
                     lock, paused, shutdown, error_slot, sink, rejected, list, added, result>>
  BY DEF Tally
<1>2. Moved(w, "write") /\ "write" \in Leasing /\ "write" \notin Uncounted /\ "write" \in Flight
  <2>1. "write" \in Place \ {"asleep"}
    BY DEF Place, Leasing
  <2>2. NotifyAndGoto(w, "write") \/ (Goto(w, "write") /\ UNCHANGED alarm)
    BY DEF Tally
  <2>3. Moved(w, "write")
    BY <2>1, <2>2, NotifyMoves, GotoMoves DEF IInv, Placed
  <2> QED BY <2>3 DEF Leasing, Uncounted, Flight
<1>3. pc[w] \in Leasing /\ pc[w] \in Uncounted /\ pc[w] \in Flight
  BY <1>1 DEF Leasing, Uncounted, Flight
<1>4. fresh[w] \in Nat /\ fresh' \in [Worker -> Nat]
  BY <1>1 DEF IInv, PagesOK
<1>5. /\ stats' \in [fetched : Nat, failed : Nat, discovered : Nat, in_flight : Nat]
      /\ stats'.fetched = stats.fetched + 1 /\ stats'.failed = stats.failed
      /\ stats'.in_flight = stats.in_flight
  <2>1. stats \in [fetched : Nat, failed : Nat, discovered : Nat, in_flight : Nat]
    BY DEF IInv, Leases
  <2>2. stats.discovered + fresh[w] \in Nat /\ stats.fetched + 1 \in Nat
    BY <1>4, <2>1
  <2>3. stats' \in [fetched : Nat, failed : Nat, discovered : Nat, in_flight : Nat]
    BY <1>1, <2>1, <2>2, Zenon
  <2> QED BY <1>1, <2>1, <2>3
<1>6. WorkerInv'
  <2>1. stats \in [fetched : Nat, failed : Nat, discovered : Nat, in_flight : Nat]
    BY DEF IInv, Leases
  <2>2. /\ stats'.fetched + stats'.failed + 0 = stats.fetched + stats.failed + 1
        /\ stats'.in_flight = stats.in_flight + 1 - 1
    BY <1>5, <2>1
  <2> QED BY <1>1, <1>2, <1>3, <1>5, <2>2, LeasedMove
<1>7. SharedOK'
  BY <1>1 DEF IInv, SharedOK
<1>8. PagesOK'
  <2>1. unwinding' \subseteq At({"drop", "complete", "ring"})'
    BY <1>1, <1>2, UnwindingKept
  <2> QED BY <1>1, <1>4, <2>1 DEF IInv, PagesOK
<1> QED BY <1>6, <1>7, <1>8 DEF OwnInv

LEMMA WriteKept ==
    ASSUME IInv, NEW w \in Worker, Write(w)
    PROVE  OwnInv'
<1> USE DEF frontierVars, controlVars, outputVars, mainVars
<1>1. /\ pc[w] = "write" /\ found' = [found EXCEPT ![w] = {}]
      /\ UNCHANGED <<active, dispatched, stats, task, main, start, todo, fresh, lock, paused,
                     list, added, result>>
  <2>1. WriteOk(w) \/ WriteErr(w) \/ WritePanic(w)
    BY DEF Write
  <2>2. UNCHANGED paused
    BY <2>1 DEF WriteOk, WriteErr, WritePanic, FailCrawl
  <2> QED BY <2>2 DEF Write
<1>2. Moved(w, "drop") /\ "drop" \in Leasing /\ "drop" \notin Uncounted /\ "drop" \in Flight
  <2>1. "drop" \in Place \ {"asleep"}
    BY DEF Place, Leasing
  <2>2. NotifyAndGoto(w, "drop") \/ (Goto(w, "drop") /\ UNCHANGED alarm)
    BY DEF Write, WriteOk, WriteErr, WritePanic, FailCrawl
  <2>3. Moved(w, "drop")
    BY <2>1, <2>2, NotifyMoves, GotoMoves DEF IInv, Placed
  <2> QED BY <2>3 DEF Leasing, Uncounted, Flight
<1>3. pc[w] \in Leasing /\ pc[w] \notin Uncounted /\ pc[w] \in Flight
  BY <1>1 DEF Leasing, Uncounted, Flight
<1>4. WorkerInv'
  <2>1. /\ "drop" \in Place \ {"new"} /\ pc[w] \notin Ended \cup {"new"}
        /\ \A S \in {Leasing, Uncounted, Flight} : pc[w] \in S <=> "drop" \in S
    BY <1>1 DEF Place, Ended, Leasing, Uncounted, Flight
  <2> QED BY <1>1, <1>2, <2>1, QuietMove
<1>5. SharedOK'
  <2>1. task[w] \in F!Task /\ found[w] \in SUBSET Url
    BY <1>3 DEF IInv, TasksOK, PagesOK
  <2>2. /\ task[w].url \in Url /\ task[w].depth \in Nat
    BY <2>1, EngineAssumption DEF F!Task, F!FrontierAssumption
  <2>3. sink' \subseteq [url : Url, depth : Nat, links : SUBSET Url]
    <3>1. \/ sink' = sink \cup {[url |-> task[w].url, depth |-> task[w].depth, links |-> found[w]]}
          \/ UNCHANGED sink
      BY DEF Write, WriteOk, WriteErr, WritePanic
    <3> QED BY <2>1, <2>2, <3>1 DEF IInv, SharedOK
  <2>4. shutdown' \in BOOLEAN /\ error_slot' \in BOOLEAN /\ rejected' \in BOOLEAN
    BY DEF Write, WriteOk, WriteErr, WritePanic, FailCrawl, IInv, SharedOK
  <2> QED BY <1>1, <2>3, <2>4 DEF IInv, SharedOK
<1>6. PagesOK'
  <2>1. unwinding' \subseteq unwinding \cup {w}
    BY DEF Write, WriteOk, WriteErr, WritePanic, FailCrawl
  <2>2. unwinding' \subseteq At({"drop", "complete", "ring"})'
    BY <1>2, <2>1 DEF IInv, PagesOK, At, Moved
  <2>3. found' \in [Worker -> SUBSET Url]
    BY <1>1 DEF IInv, PagesOK
  <2> QED BY <1>1, <2>2, <2>3 DEF IInv, PagesOK
<1> QED BY <1>4, <1>5, <1>6 DEF OwnInv

LEMMA FailKept ==
    ASSUME IInv, NEW w \in Worker, Fail(w)
    PROVE  OwnInv'
<1> USE DEF frontierVars, controlVars, outputVars, mainVars
<1>1. /\ pc[w] = "fail" /\ stats' = [stats EXCEPT !.failed = @ + 1]
      /\ Goto(w, "drop") /\ unwinding' \subseteq unwinding \cup {w}
      /\ UNCHANGED <<active, dispatched, task, main, start, todo, found, fresh, alarm,
                     lock, paused, shutdown, error_slot, sink, rejected, list, added, result>>
  BY DEF Fail
<1>2. Moved(w, "drop") /\ "drop" \in Leasing /\ "drop" \notin Uncounted /\ "drop" \in Flight
  BY <1>1, GotoMoves DEF IInv, Placed, Place, Leasing, Uncounted, Flight
<1>3. pc[w] \in Leasing /\ pc[w] \in Uncounted /\ pc[w] \in Flight
  BY <1>1 DEF Leasing, Uncounted, Flight
<1>4. /\ stats' \in [fetched : Nat, failed : Nat, discovered : Nat, in_flight : Nat]
      /\ stats'.fetched = stats.fetched /\ stats'.failed = stats.failed + 1
      /\ stats'.in_flight = stats.in_flight
  BY <1>1 DEF IInv, Leases
<1>5. WorkerInv'
  BY <1>1, <1>2, <1>3, <1>4, LeasedMove DEF IInv, Leases
<1>6. SharedOK'
  BY <1>1 DEF IInv, SharedOK
<1>7. PagesOK'
  <2>1. unwinding' \subseteq At({"drop", "complete", "ring"})'
    BY <1>1, <1>2 DEF IInv, PagesOK, At, Moved
  <2> QED BY <1>1, <2>1 DEF IInv, PagesOK
<1> QED BY <1>5, <1>6, <1>7 DEF OwnInv

LEMMA DropKept ==
    ASSUME IInv, NEW w \in Worker, Drop(w)
    PROVE  OwnInv'
<1> USE DEF frontierVars, controlVars, outputVars, pageVars, localVars, mainVars
<1>1. /\ pc[w] = "drop" /\ stats' = [stats EXCEPT !.in_flight = @ - 1]
      /\ Goto(w, "complete")
      /\ UNCHANGED <<active, dispatched, task, main, start, todo, found, fresh, unwinding, alarm,
                     lock, paused, shutdown, error_slot, sink, rejected, list, added, result>>
  BY DEF Drop
<1>2. /\ Moved(w, "complete")
      /\ "complete" \in Leasing /\ "complete" \notin Uncounted /\ "complete" \notin Flight
  BY <1>1, GotoMoves DEF IInv, Placed, Place, Leasing, Uncounted, Flight
<1>3. pc[w] \in Leasing /\ pc[w] \notin Uncounted /\ pc[w] \in Flight
  BY <1>1 DEF Leasing, Uncounted, Flight
<1>4. stats.in_flight \in Nat /\ stats.in_flight > 0
  BY <1>2, <1>3, CountsMoved DEF IInv, Leases, Flight
<1>5. /\ stats' \in [fetched : Nat, failed : Nat, discovered : Nat, in_flight : Nat]
      /\ stats'.fetched = stats.fetched /\ stats'.failed = stats.failed
      /\ stats'.in_flight = stats.in_flight - 1
  BY <1>1, <1>4 DEF IInv, Leases
<1>6. WorkerInv'
  <2>1. stats \in [fetched : Nat, failed : Nat, discovered : Nat, in_flight : Nat]
    BY DEF IInv, Leases
  <2>2. /\ stats'.fetched + stats'.failed + 0 = stats.fetched + stats.failed + 0
        /\ stats'.in_flight = stats.in_flight + 0 - 1
    BY <1>5, <2>1
  <2> QED BY <1>1, <1>2, <1>3, <1>5, <2>2, LeasedMove
<1>7. SharedOK'
  BY <1>1 DEF IInv, SharedOK
<1>8. PagesOK'
  <2>1. unwinding' \subseteq At({"drop", "complete", "ring"})'
    BY <1>1, <1>2, UnwindingKept
  <2> QED BY <1>1, <2>1 DEF IInv, PagesOK
<1> QED BY <1>6, <1>7, <1>8 DEF OwnInv

\* A worker that gives its lease back.
LEMMA CompleteKept ==
    ASSUME IInv, NEW w \in Worker, Complete(w)
    PROVE  OwnInv'
<1> USE DEF controlVars, outputVars, mainVars
<1>1. /\ pc[w] = "complete" /\ Goto(w, "ring") /\ task' = [task EXCEPT ![w] = None]
      /\ active' = active - 1 /\ UNCHANGED dispatched
      /\ UNCHANGED <<stats, main, start, todo, found, fresh, unwinding, alarm,
                     lock, paused, shutdown, error_slot, sink, rejected, list, added, result>>
  BY DEF Complete, F!Complete
<1>2. Moved(w, "ring") /\ "ring" \notin Leasing /\ "ring" \notin Uncounted /\ "ring" \notin Flight
  BY <1>1, GotoMoves DEF IInv, Placed, Place, Leasing, Uncounted, Flight
<1>3. pc[w] \in Leasing /\ pc[w] \notin Uncounted /\ pc[w] \notin Flight
  BY <1>1 DEF Leasing, Uncounted, Flight
<1>4. Placed'
  BY <1>2 DEF Moved, Placed
<1>5. TasksOK'
  <2>1. \A v \in Worker \ {w} : (pc'[v] \in Leasing <=> pc[v] \in Leasing) /\ task'[v] = task[v]
    BY <1>1, <1>2, Places DEF Moved, IInv, TasksOK
  <2>2. pc'[w] \notin Leasing /\ task'[w] = None
    BY <1>1, <1>2 DEF Moved, IInv, TasksOK
  <2> QED BY <1>1, <2>1, <2>2 DEF IInv, TasksOK
<1>6. Leases'
  <2>1. /\ Cardinality(At(Leasing)') = Cardinality(At(Leasing)) - 1
        /\ Cardinality(At(Uncounted)') = Cardinality(At(Uncounted))
        /\ Cardinality(At(Flight)') = Cardinality(At(Flight))
    BY <1>2, <1>3, CountsMoved
  <2> QED BY <1>1, <2>1 DEF IInv, Leases, Flight
<1>7. Phases'
  BY <1>1, <1>2, PhasesKept DEF Ended, Place, Leasing, Uncounted
<1>8. SharedOK'
  BY <1>1 DEF IInv, SharedOK
<1>9. PagesOK'
  <2>1. unwinding' \subseteq At({"drop", "complete", "ring"})'
    BY <1>1, <1>2, UnwindingKept
  <2> QED BY <1>1, <2>1 DEF IInv, PagesOK
<1> QED BY <1>4, <1>5, <1>6, <1>7, <1>8, <1>9 DEF OwnInv, WorkerInv

LEMMA RingKept ==
    ASSUME IInv, NEW w \in Worker, Ring(w)
    PROVE  OwnInv'
<1> USE DEF frontierVars, controlVars, outputVars, mainVars
<1>1. /\ pc[w] = "ring" /\ unwinding' = unwinding \ {w}
      /\ UNCHANGED <<active, dispatched, stats, task, main, start, todo, found, fresh,
                     lock, paused, shutdown, error_slot, sink, rejected, list, added, result>>
  BY DEF Ring
<1>2. PICK to \in {"dead", "top"} : NotifyAndGoto(w, to)
  BY DEF Ring
<1>3. Moved(w, to)
  BY <1>2, NotifyMoves DEF IInv, Place, Ended
<1>4. WorkerInv'
  <2>1. /\ to \in Place \ {"new"} /\ pc[w] \notin Ended \cup {"new"}
        /\ \A S \in {Leasing, Uncounted, Flight} : pc[w] \in S <=> to \in S
    BY <1>1, <1>2 DEF Place, Ended, Leasing, Uncounted, Flight
  <2> QED BY <1>1, <1>3, <2>1, QuietMove
<1>5. SharedOK'
  BY <1>1 DEF IInv, SharedOK
<1>6. PagesOK'
  <2>1. unwinding' \subseteq At({"drop", "complete", "ring"})'
    BY <1>1, <1>3 DEF IInv, PagesOK, At, Moved
  <2> QED BY <1>1, <2>1 DEF IInv, PagesOK
<1> QED BY <1>4, <1>5, <1>6 DEF OwnInv

LEMMA ProcessKept ==
    ASSUME IInv, NEW w \in Worker, Process(w)
    PROVE  OwnInv'
BY BeginKept, FetchingKept, TallyKept, WriteKept, FailKept, DropKept, CompleteKept, RingKept
   DEF Process

-----------------------------------------------------------------------------
(* The steps of run(), the user and the clock. *)

LEMMA RunKept ==
    ASSUME IInv, Run
    PROVE  OwnInv'
<1> USE DEF frontierVars, controlVars, outputVars, pageVars, localVars, mainVars
<1>1. /\ UNCHANGED <<active, dispatched, task, start, todo, found, fresh, unwinding, alarm,
                     lock, paused, shutdown, error_slot, sink, rejected>>
      /\ main # "returned"
  <2>1. CASE SeedNext
    BY <2>1 DEF SeedNext, F!Add
  <2> QED BY <2>1 DEF Run, SeedEnd, Return
<1>2. SharedOK'
  <2>1. CASE SeedNext
    <3>1. list' \in Seq(Url) /\ UNCHANGED <<main, result>>
      BY <2>1 DEF SeedNext, IInv, SharedOK
    <3>2. added' \in Nat
      <4>1. added' = added \/ added' = added + 1
        BY <2>1 DEF SeedNext
      <4> QED BY <4>1 DEF IInv, SharedOK
    <3> QED BY <1>1, <3>1, <3>2 DEF IInv, SharedOK
  <2>2. CASE SeedEnd
    <3>1. /\ main' \in {"seed", "join"} /\ list' \in {Seeds, list} /\ added' = 0
          /\ UNCHANGED result
      BY <2>2 DEF SeedEnd
    <3> QED BY <1>1, <3>1, EngineAssumption DEF IInv, SharedOK
  <2>3. CASE Return
    BY <1>1, <2>3 DEF Return, IInv, SharedOK
  <2> QED BY <2>1, <2>2, <2>3 DEF Run
<1>3. CASE SeedNext \/ Return
  <2>1. UNCHANGED <<pc, stats>>
    BY <1>3 DEF SeedNext, Return
  <2>2. Phases'
    BY <1>3, <2>1 DEF SeedNext, Return, IInv, Phases, SharedOK
  <2> QED BY <1>1, <1>2, <2>1, <2>2
        DEF IInv, Placed, PagesOK, TasksOK, Leases, OwnInv, WorkerInv, At
<1>4. CASE SeedEnd
  <2>1. \A w \in Worker : pc[w] = "new"
    BY <1>4 DEF SeedEnd, IInv, Phases
  <2>2. \/ main' = "seed" /\ UNCHANGED pc
        \/ main' = "join" /\ pc' = [w \in Worker |-> "top"]
    BY <1>4 DEF SeedEnd
  <2>3. \A w \in Worker : pc'[w] \in {"new", "top"}
    BY <2>1, <2>2
  <2>4. Placed'
    BY <1>1, <2>2 DEF IInv, Placed, Place
  <2>5. /\ At(Leasing)' = At(Leasing) /\ At(Uncounted)' = At(Uncounted)
        /\ At(Leasing \ {"begin", "complete"})' = At(Leasing \ {"begin", "complete"})
        /\ At({"drop", "complete", "ring"}) = {}
    BY <2>1, <2>3 DEF At, Leasing, Uncounted
  <2>6. TasksOK'
    BY <1>1, <2>1, <2>3 DEF IInv, TasksOK, Leasing, Uncounted
  <2>7. Leases'
    <3>1. stats' = [stats EXCEPT !.discovered = @ + added] /\ added \in Nat
      BY <1>4 DEF SeedEnd, IInv, SharedOK
    <3>2. /\ stats' \in [fetched : Nat, failed : Nat, discovered : Nat, in_flight : Nat]
          /\ stats'.fetched = stats.fetched /\ stats'.failed = stats.failed
          /\ stats'.in_flight = stats.in_flight
      BY <3>1 DEF IInv, Leases
    <3> QED BY <1>1, <2>5, <3>2 DEF IInv, Leases
  <2>8. Phases'
    BY <2>1, <2>2 DEF Phases
  <2>9. PagesOK'
    BY <1>1, <2>5 DEF IInv, PagesOK
  <2> QED BY <1>2, <2>4, <2>6, <2>7, <2>8, <2>9 DEF OwnInv, WorkerInv
<1> QED BY <1>3, <1>4 DEF Run

\* A notification moves sleepers only.
LEMMA UserKept ==
    ASSUME IInv, User
    PROVE  OwnInv'
<1> USE DEF frontierVars, outputVars, pageVars, mainVars
<1>1. /\ UNCHANGED <<active, dispatched, stats, task, start, todo, found, fresh, unwinding,
                     lock, error_slot, sink, rejected, main, list, added, result>>
      /\ main # "returned"
  BY DEF User
<1>2. SharedOK'
  <2>1. paused' \in BOOLEAN /\ shutdown' \in BOOLEAN
    BY DEF User, UserStop, UserPause, IInv, SharedOK
  <2> QED BY <1>1, <2>1 DEF IInv, SharedOK
<1>3. /\ pc' = [w \in Worker |-> IF pc[w] = "asleep" THEN "top" ELSE pc[w]]
      /\ alarm' = [w \in Worker |-> IF pc[w] = "asleep" THEN 0 ELSE alarm[w]]
  BY DEF User, Notify, NotifyFrom
<1>4. Placed'
  BY <1>3 DEF IInv, Placed, Place
<1>5. \A w \in Worker : pc'[w] = pc[w] \/ (pc[w] = "asleep" /\ pc'[w] = "top")
  BY <1>3
<1>6. \A S : "asleep" \notin S /\ "top" \notin S => At(S)' = At(S)
  BY <1>5 DEF At
<1>7. /\ At(Leasing)' = At(Leasing) /\ At(Uncounted)' = At(Uncounted)
      /\ At(Leasing \ {"begin", "complete"})' = At(Leasing \ {"begin", "complete"})
      /\ At({"drop", "complete", "ring"})' = At({"drop", "complete", "ring"})
  BY <1>6 DEF Leasing, Uncounted
<1>8. TasksOK'
  <2>1. \A w \in Worker : pc'[w] \in Leasing <=> pc[w] \in Leasing
    BY <1>5, Places
  <2> QED BY <1>1, <2>1 DEF IInv, TasksOK
<1>9. Leases' /\ PagesOK'
  BY <1>1, <1>7 DEF IInv, Leases, PagesOK
<1>10. Phases'
  BY <1>1, <1>5 DEF IInv, Phases
<1> QED BY <1>2, <1>4, <1>8, <1>9, <1>10 DEF OwnInv, WorkerInv

LEMMA RestKept ==
    ASSUME IInv, Tick \/ UNCHANGED vars
    PROVE  OwnInv'
<1> USE DEF frontierVars, controlVars, outputVars, pageVars, localVars, mainVars
<1>1. UNCHANGED <<active, dispatched, stats, task, start, todo, found, fresh, unwinding, pc, alarm,
                  lock, paused, shutdown, error_slot, sink, rejected, main, list, added, result>>
  BY DEF Tick, F!Tick, vars
<1>2. SharedOK'
  BY <1>1 DEF IInv, SharedOK
<1>3. PagesOK'
  BY <1>1 DEF IInv, PagesOK, At
<1>4. Placed' /\ TasksOK' /\ Phases'
  BY <1>1 DEF IInv, Placed, TasksOK, Phases
<1>5. Leases'
  BY <1>1 DEF IInv, Leases, At
<1> QED BY <1>2, <1>3, <1>4, <1>5 DEF OwnInv, WorkerInv

LEMMA NextIInv == IInv /\ [Next]_vars => IInv'
<1> SUFFICES ASSUME IInv, [Next]_vars PROVE IInv'
  OBVIOUS
<1>1. FP!IInv'
  BY FrontierKept
<1>2. OwnInv'
  <2>1. ASSUME NEW w \in Worker, Loop(w) \/ Process(w) PROVE OwnInv'
    BY <2>1, LoopKept, ProcessKept
  <2> QED BY <2>1, RunKept, UserKept, RestKept DEF Next, Done
<1> QED BY <1>1, <1>2 DEF IInv, OwnInv, WorkerInv

LEMMA SpecIInv == Spec => []IInv
BY InitIInv, NextIInv, PTL DEF Spec

-----------------------------------------------------------------------------
(* The fourth equation of Ledger. *)

(* Every accepted URL is counted as discovered, or is about to be: by run() *)
(* when a seeding loop ends, by a worker when it tallies its page.          *)
Discoveries == Cardinality(seen) = stats.discovered + added + Total(fresh)

LEMMA AddCounts ==
    ASSUME IInv, NEW u \in Url, NEW d \in Depth, F!Add(u, d)
    PROVE  Cardinality(seen') = Cardinality(seen) + (IF F!Accepts(u, d) THEN 1 ELSE 0)
<1>1. IsFiniteSet(seen) /\ Cardinality(seen) \in Nat
  <2>1. IsFiniteSet(seen)
    BY SameCardinality DEF IInv, FP!IInv
  <2> QED BY <2>1, FS_CardinalityType
<1>2. CASE F!Accepts(u, d)
  <2>1. Canon[u] \notin seen /\ seen' = seen \cup {Canon[u]}
    BY <1>2 DEF F!Add, F!Accepts
  <2>2. Cardinality(seen') = Cardinality(seen) + 1
    BY <1>1, <2>1, FS_AddElement
  <2> QED BY <1>2, <2>2
<1>3. CASE ~F!Accepts(u, d)
  <2>1. seen' = seen
    BY <1>3 DEF F!Add
  <2> QED BY <1>1, <1>3, <2>1
<1> QED BY <1>2, <1>3

\* The sum of fresh when one worker's part of it changes.
LEMMA FreshChange ==
    ASSUME IInv, NEW w \in Worker, NEW n \in Nat, fresh' = [fresh EXCEPT ![w] = n]
    PROVE  /\ Total(fresh) \in Nat /\ Total(fresh') \in Nat /\ fresh[w] \in Nat
           /\ Total(fresh') + fresh[w] = Total(fresh) + n
<1>1. IsFiniteSet(Worker)
  BY EngineAssumption
<1>2. fresh \in [Worker -> Nat]
  BY DEF IInv, PagesOK
<1>3. /\ fresh' \in [Worker -> Nat] /\ fresh'[w] = n
      /\ \A v \in Worker \ {w} : fresh'[v] = fresh[v]
  BY <1>2
<1>4. \A f, h \in [Worker -> Nat] :
          (\A v \in Worker \ {w} : h[v] = f[v]) => Total(h) + f[w] = Total(f) + h[w]
  BY <1>1, SumOfChange
<1>5. \A f \in [Worker -> Nat] : Total(f) \in Nat
  BY <1>1, SumIsNat
<1>6. Total(fresh') + fresh[w] = Total(fresh) + fresh'[w]
  BY <1>2, <1>3, <1>4
<1> QED BY <1>2, <1>3, <1>5, <1>6

LEMMA DiscoveriesKept == IInv /\ Discoveries /\ [Next]_vars => Discoveries'
<1> SUFFICES ASSUME IInv, Discoveries, [Next]_vars PROVE Discoveries'
  OBVIOUS
<1>1. /\ Cardinality(seen) \in Nat /\ stats.discovered \in Nat /\ added \in Nat
      /\ Total(fresh) \in Nat /\ fresh \in [Worker -> Nat]
  <2>1. IsFiniteSet(seen) /\ fresh \in [Worker -> Nat]
    BY SameCardinality DEF IInv, FP!IInv, PagesOK
  <2>2. \A f \in [Worker -> Nat] : Total(f) \in Nat
    BY EngineAssumption, SumIsNat
  <2>3. stats.discovered \in Nat /\ added \in Nat
    BY DEF IInv, Leases, SharedOK
  <2> QED BY <2>1, <2>2, <2>3, FS_CardinalityType
<1>2. UNCHANGED <<seen, stats, added, fresh>> => Discoveries'
  BY DEF Discoveries
<1>3. CASE SeedNext
  <2>1. Head(list) \in Url /\ 0 \in Depth /\ UNCHANGED <<stats, fresh>>
    BY <1>3, EngineAssumption DEF SeedNext, IInv, SharedOK, outputVars, localVars, pageVars
  <2>2. \/ /\ F!Add(Head(list), 0)
           /\ added' = IF F!Accepts(Head(list), 0) THEN added + 1 ELSE added
        \/ UNCHANGED <<frontierVars, added>>
    BY <1>3, Zenon DEF SeedNext
  <2>3. CASE UNCHANGED <<frontierVars, added>>
    BY <1>2, <2>1, <2>3 DEF frontierVars
  <2>4. CASE F!Add(Head(list), 0) /\ added' = IF F!Accepts(Head(list), 0) THEN added + 1 ELSE added
    <3>1. Cardinality(seen') = Cardinality(seen) + (IF F!Accepts(Head(list), 0) THEN 1 ELSE 0)
      BY <2>1, <2>4, AddCounts
    <3>2. Total(fresh)' = Total(fresh)
      BY <2>1
    <3> QED BY <1>1, <2>1, <2>4, <3>1, <3>2 DEF Discoveries
  <2> QED BY <2>2, <2>3, <2>4
<1>4. CASE SeedEnd
  <2>1. /\ UNCHANGED <<seen, fresh>> /\ added' = 0
        /\ stats'.discovered = stats.discovered + added
    BY <1>4 DEF SeedEnd, frontierVars, localVars, pageVars, IInv, Leases
  <2>2. Total(fresh)' = Total(fresh) /\ Cardinality(seen)' = Cardinality(seen)
    BY <2>1
  <2> QED BY <1>1, <2>1, <2>2 DEF Discoveries
<1>5. ASSUME NEW w \in Worker, Link(w) PROVE Discoveries'
  <2> DEFINE u == Head(todo[w])
             d == task[w].depth + 1
  <2>1. u \in Url /\ d \in Depth /\ UNCHANGED <<stats, added>>
    BY <1>5, LinkInDepth DEF Link, IInv, PagesOK, outputVars, mainVars
  <2>2. \/ F!Add(u, d) /\ fresh' = [fresh EXCEPT ![w] = IF F!Accepts(u, d) THEN @ + 1 ELSE @]
        \/ UNCHANGED <<frontierVars, fresh>>
    BY <1>5, Zenon DEF Link
  <2> HIDE DEF u, d
  <2>3. CASE UNCHANGED <<frontierVars, fresh>>
    BY <1>2, <2>1, <2>3 DEF frontierVars
  <2>4. CASE F!Add(u, d) /\ fresh' = [fresh EXCEPT ![w] = IF F!Accepts(u, d) THEN @ + 1 ELSE @]
    <3>1. Cardinality(seen') = Cardinality(seen) + (IF F!Accepts(u, d) THEN 1 ELSE 0)
      BY <2>1, <2>4, AddCounts
    <3> DEFINE n == fresh[w] + (IF F!Accepts(u, d) THEN 1 ELSE 0)
    <3>2. n \in Nat /\ fresh' = [fresh EXCEPT ![w] = n]
      <4>1. fresh[w] \in Nat
        BY <1>1
      <4>2. CASE F!Accepts(u, d)
        <5>1. fresh' = [fresh EXCEPT ![w] = @ + 1] /\ n = fresh[w] + 1
          BY <2>4, <4>2, Zenon
        <5> HIDE DEF n
        <5> QED BY <4>1, <5>1
      <4>3. CASE ~F!Accepts(u, d)
        <5>1. fresh' = [fresh EXCEPT ![w] = fresh[w]] /\ n = fresh[w] + 0
          BY <2>4, <4>3, Zenon
        <5> HIDE DEF n
        <5>2. n = fresh[w]
          BY <4>1, <5>1
        <5> QED BY <4>1, <5>1, <5>2, Zenon
      <4> QED BY <4>2, <4>3
    <3> HIDE DEF n
    <3>3. Total(fresh') \in Nat /\ fresh[w] \in Nat /\ Total(fresh') + fresh[w] = Total(fresh) + n
      BY <3>2, FreshChange
    <3> QED BY <1>1, <2>1, <3>1, <3>3 DEF Discoveries, n
  <2> QED BY <2>2, <2>3, <2>4
<1>6. ASSUME NEW w \in Worker, Tally(w) PROVE Discoveries'
  <2>1. /\ UNCHANGED <<seen, added>> /\ fresh' = [fresh EXCEPT ![w] = 0]
        /\ stats'.discovered = stats.discovered + fresh[w]
    BY <1>6 DEF Tally, frontierVars, mainVars, IInv, Leases
  <2>2. Total(fresh') \in Nat /\ fresh[w] \in Nat /\ Total(fresh') + fresh[w] = Total(fresh) + 0
    BY <2>1, FreshChange
  <2>3. Cardinality(seen)' = Cardinality(seen)
    BY <2>1
  <2> QED BY <1>1, <2>1, <2>2, <2>3 DEF Discoveries
<1>7. ASSUME UNCHANGED <<seen, added, fresh>>, stats'.discovered = stats.discovered PROVE Discoveries'
  BY <1>7 DEF Discoveries
<1>8. ASSUME NEW w \in Worker, Process(w) PROVE Discoveries'
  <2> USE DEF frontierVars, outputVars, localVars, pageVars, mainVars
  <2>1. CASE Begin(w) \/ Drop(w) \/ Fail(w)
    <3>1. UNCHANGED <<seen, added, fresh>>
      BY <2>1 DEF Begin, Drop, Fail
    <3>2. \/ stats' = [stats EXCEPT !.in_flight = @ + 1]
          \/ stats' = [stats EXCEPT !.in_flight = @ - 1]
          \/ stats' = [stats EXCEPT !.failed = @ + 1]
      BY <2>1 DEF Begin, Drop, Fail
    <3>3. stats'.discovered = stats.discovered
      BY <3>2 DEF IInv, Leases
    <3> QED BY <1>7, <3>1, <3>3
  <2>2. CASE HearDelay(w)
    BY <1>2, <2>2 DEF HearDelay, F!SetHostDelay
  <2>3. CASE Complete(w)
    BY <1>2, <2>3 DEF Complete, F!Complete
  <2>4. CASE CheckRobots(w) \/ Send(w) \/ Reply(w) \/ Lock(w) \/ Unlock(w) \/ Write(w) \/ Ring(w)
    BY <1>2, <2>4 DEF CheckRobots, Send, Reply, Lock, Unlock, Write, Ring
  <2> QED BY <1>5, <1>6, <1>8, <2>1, <2>2, <2>3, <2>4 DEF Process
<1>9. ASSUME NEW w \in Worker, Loop(w) PROVE Discoveries'
  <2> USE DEF frontierVars, outputVars, localVars, pageVars, mainVars
  <2>1. CASE Ask(w)
    BY <1>2, <2>1 DEF Ask, AskReady, AskWait, AskOther, F!Lease
  <2> QED BY <1>2, <1>9, <2>1 DEF Loop, CheckShutdown, CheckPaused, Farewell, Arm, WakeUp
<1>10. CASE Return \/ User \/ Tick \/ UNCHANGED vars
  BY <1>2, <1>10 DEF Return, User, Tick, F!Tick, vars, frontierVars, outputVars, localVars,
                     pageVars, mainVars
<1> QED BY <1>3, <1>4, <1>8, <1>9, <1>10 DEF Next, Run, Done

LEMMA SpecDiscoveries == Spec => []Discoveries
<1>1. Init => Discoveries
  <2> SUFFICES ASSUME Init PROVE Discoveries
    OBVIOUS
  <2>1. fresh \in [Worker -> Nat] /\ \A w \in Worker : fresh[w] = 0
    BY DEF Init
  <2>2. Total(fresh) = 0
    BY <2>1, SumOfZeros, EngineAssumption
  <2>3. Cardinality(seen) = 0 /\ stats.discovered = 0 /\ added = 0
    BY FS_EmptySet DEF Init, F!Init
  <2> QED BY <2>2, <2>3 DEF Discoveries
<1> QED BY <1>1, SpecIInv, DiscoveriesKept, PTL DEF Spec

-----------------------------------------------------------------------------
(* What is fetched and what the sink is given. *)

LEMMA WhoCalls ==
    ASSUME [Next]_vars
    PROVE  UNCHANGED callVars \/ \E w \in Worker : Send(w) \/ Write(w)
<1> USE DEF outputVars
<1>1. CASE Run \/ User \/ Tick \/ UNCHANGED vars
  BY <1>1 DEF Run, SeedNext, SeedEnd, Return, User, Tick, vars
<1>2. ASSUME NEW w \in Worker, Loop(w) PROVE UNCHANGED callVars
  BY <1>2 DEF Loop, CheckShutdown, CheckPaused, Ask, Farewell, Arm, WakeUp
<1>3. ASSUME NEW w \in Worker, Process(w) PROVE UNCHANGED callVars \/ Send(w) \/ Write(w)
  BY <1>3 DEF Process, Begin, CheckRobots, HearDelay, Reply, Lock, Link, Unlock, Tally, Fail, Drop,
              Complete, Ring
<1> QED BY <1>1, <1>2, <1>3 DEF Next, Done

LEMMA CallsOKKept == IInv /\ CallsOK /\ [Next]_vars => CallsOK'
<1> SUFFICES ASSUME IInv, CallsOK, [Next]_vars PROVE CallsOK'
  OBVIOUS
<1>1. CASE UNCHANGED callVars
  BY <1>1 DEF callVars, CallsOK
<1>2. ASSUME NEW w \in Worker, Send(w) \/ Write(w) PROVE CallsOK'
  <2>1. task[w].url \in Url
    BY <1>2 DEF Send, Write, IInv, TasksOK, Leasing, Uncounted, F!Task
  <2>2. CASE Send(w)
    <3>1. UNCHANGED handed /\ requests' = [requests EXCEPT ![task[w].url] = @ + 1]
      BY <2>2 DEF Send
    <3> QED BY <2>1, <3>1 DEF CallsOK
  <2>3. CASE Write(w)
    <3>1. UNCHANGED requests /\ handed' = [handed EXCEPT ![task[w].url] = @ + 1]
      BY <2>3 DEF Write
    <3> QED BY <2>1, <3>1 DEF CallsOK
  <2> QED BY <1>2, <2>2, <2>3
<1> QED BY <1>1, <1>2, WhoCalls

LEMMA SpecCallsOK == Spec => []CallsOK
<1>1. Init => CallsOK
  BY DEF Init, CallsOK
<1> QED BY <1>1, SpecIInv, CallsOKKept, PTL DEF Spec

-----------------------------------------------------------------------------
(* The theorems. *)

(* Every variable keeps its type, and a worker has a task exactly while it  *)
(* holds a lease: the task process() works on is there at every step.       *)
THEOREM TypeCorrect == Spec => []TypeOK
BY SpecIInv, SpecCallsOK, IInvTypes, PTL

(* What FrontierProofs shows of Frontier!Spec holds in a running crawl.     *)
LEMMA FrontierRuns == Spec => F!Spec
<1>1. Init => F!Init
  BY DEF Init
<1>2. IInv /\ [Next]_vars => [F!Next]_F!vars
  BY FrontierStep
<1> QED BY <1>1, <1>2, SpecIInv, PTL DEF Spec, F!Spec

(* The leases the frontier counts are the workers that hold one, each       *)
(* dispatched task is fetched, failed or in a worker's hands, and in_flight *)
(* never underflows: also with panics, stops and errors at any point.       *)
THEOREM LeasesHold == Spec => []Leases
BY SpecIInv, PTL DEF IInv

(* No page is lost between counters that different threads update without a *)
(* common lock: the leases are in some worker's hands, dispatched tasks are *)
(* fetched, failed or in hand, and accepted URLs are counted or about to    *)
(* be, in every state of every crawl.                                       *)
THEOREM LedgerHolds == Spec => []Ledger
<1>1. Leases /\ Discoveries => Ledger
  BY Zenon DEF Leases, Discoveries, Total, Ledger
<1> QED BY <1>1, LeasesHold, SpecDiscoveries, PTL
=============================================================================
