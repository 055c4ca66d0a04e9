----------------------------- MODULE CrawlProofs -----------------------------
(***************************************************************************)
(* What a running crawl promises, proved from the engine's invariant: no    *)
(* worker leaves too early, a stop and a pause hold, a failing sink is      *)
(* reported, no page is crawled twice, the summary is exact, a new host is  *)
(* not slept over, and the engine implements Crawl.                         *)
(***************************************************************************)
EXTENDS EngineProofs

-----------------------------------------------------------------------------
(* Where a worker goes from a place; a link loop goes back to itself.       *)

Successor(p, q) ==
    \/ p = "top" /\ q \in {"stopped", "gate"}
    \/ p = "gate" /\ q \in {"unarmed", "ask"}
    \/ p = "ask" /\ q \in {"begin", "unarmed", "farewell"}
    \/ p = "farewell" /\ q = "drained"
    \/ p = "unarmed" /\ q = "asleep"
    \/ p = "asleep" /\ q = "top"
    \/ p \in Uncounted /\ q \in (Uncounted \ {"begin"}) \cup {"write", "drop"}
    \/ p = "write" /\ q = "drop"
    \/ p = "drop" /\ q = "complete"
    \/ p = "complete" /\ q = "ring"
    \/ p = "ring" /\ q \in {"dead", "top"}

LEMMA LoopMoves ==
    ASSUME IInv, NEW w \in Worker, Loop(w)
    PROVE  \E to \in Place : Moved(w, to) /\ Successor(pc[w], to)
<1> USE DEF pageVars
<1>1. CASE CheckShutdown(w)
  <2>1. PICK to \in {"stopped", "gate"} : Goto(w, to)
    BY <1>1 DEF CheckShutdown
  <2>2. pc[w] = "top" /\ UNCHANGED alarm
    BY <1>1 DEF CheckShutdown, localVars
  <2> QED BY <2>1, <2>2, GotoMoves DEF IInv, Placed, Place, Ended, Successor
<1>2. CASE CheckPaused(w)
  <2>1. PICK to \in {"unarmed", "ask"} : Goto(w, to)
    BY <1>2 DEF CheckPaused
  <2>2. pc[w] = "gate" /\ UNCHANGED alarm
    BY <1>2 DEF CheckPaused, localVars
  <2> QED BY <2>1, <2>2, GotoMoves DEF IInv, Placed, Place, Successor
<1>3. CASE Ask(w)
  <2>1. PICK to \in {"begin", "unarmed", "farewell"} : Goto(w, to)
    BY <1>3 DEF Ask, AskReady, AskWait, AskOther
  <2>2. pc[w] = "ask"
    BY <1>3 DEF Ask
  <2>3. alarm' \in [Worker -> Nat]
    <3>1. CASE AskWait(w)
      <4>1. F!LeaseWaits /\ alarm' = [alarm EXCEPT ![w] = F!WaitTime]
        BY <3>1 DEF AskWait
      <4>2. F!WaitTime \in Nat
        BY <4>1, WaitIsNat DEF IInv
      <4> QED BY <4>1, <4>2 DEF IInv, Placed
    <3>2. CASE AskReady(w) \/ AskOther(w)
      BY <3>2 DEF AskReady, AskOther, frontierVars, IInv, Placed
    <3> QED BY <1>3, <3>1, <3>2 DEF Ask
  <2> QED BY <2>1, <2>2, <2>3, GotoMoves DEF IInv, Place, Leasing, Uncounted, Successor
<1>4. CASE Farewell(w)
  <2>1. pc[w] = "farewell" /\ NotifyAndGoto(w, "drained")
    BY <1>4 DEF Farewell
  <2> QED BY <2>1, NotifyMoves DEF IInv, Place, Ended, Successor
<1>5. CASE Arm(w) \/ WakeUp(w)
  <2>1. now \in Nat /\ alarm \in [Worker -> Nat]
    BY DEF IInv, FP!IInv, FP!TypeOK, Placed
  <2>2. alarm' \in [Worker -> Nat]
    <3>1. PICK n \in {now + alarm[w], 0} : alarm' = [alarm EXCEPT ![w] = n]
      BY <1>5 DEF Arm, WakeUp
    <3>2. n \in Nat
      BY <2>1
    <3> QED BY <2>1, <3>1, <3>2
  <2>3. \/ pc[w] = "unarmed" /\ Goto(w, "asleep")
        \/ pc[w] = "asleep" /\ Goto(w, "top")
    BY <1>5 DEF Arm, WakeUp
  <2> QED BY <2>2, <2>3, GotoMoves DEF IInv, Place, Successor
<1> QED BY <1>1, <1>2, <1>3, <1>4, <1>5 DEF Loop

LEMMA ProcessMoves ==
    ASSUME IInv, NEW w \in Worker, Process(w)
    PROVE  \E to \in Place : Moved(w, to) /\ Successor(pc[w], to)
<1> USE DEF pageVars
<1>1. CASE CheckRobots(w) \/ HearDelay(w) \/ Send(w) \/ Reply(w) \/ Lock(w) \/ Unlock(w) \/ Begin(w)
           \/ Fail(w) \/ Drop(w) \/ Complete(w)
  <2>1. UNCHANGED alarm
    BY <1>1 DEF localVars, CheckRobots, HearDelay, Send, Reply, Lock, Unlock, Begin, Fail, Drop,
                Complete
  <2>2. PICK to \in Place : Goto(w, to) /\ Successor(pc[w], to)
    <3>1. CASE CheckRobots(w)
      <4>1. pc[w] = "robots" /\ \E to \in {"fail", "delay", "send"} : Goto(w, to)
        BY <3>1 DEF CheckRobots
      <4> QED BY <4>1 DEF Successor, Uncounted, Place, Leasing
    <3>2. CASE Reply(w)
      <4>1. pc[w] = "reply" /\ \E to \in {"fail", "lock"} : Goto(w, to)
        BY <3>2 DEF Reply
      <4> QED BY <4>1 DEF Successor, Uncounted, Place, Leasing
    <3>3. CASE Begin(w)
      <4>1. pc[w] = "begin" /\ \E to \in {"robots", "send"} : Goto(w, to)
        BY <3>3 DEF Begin
      <4> QED BY <4>1 DEF Successor, Uncounted, Place, Leasing
    <3>4. CASE HearDelay(w) \/ Send(w) \/ Lock(w) \/ Unlock(w)
      <4>1. pc[w] \in {"delay", "send", "lock", "link"}
        BY <3>4 DEF HearDelay, Send, Lock, Unlock
      <4>2. \E to \in {"send", "reply", "link", "tally"} : Goto(w, to)
        BY <3>4 DEF HearDelay, Send, Lock, Unlock
      <4> QED BY <4>1, <4>2 DEF Successor, Uncounted, Place, Leasing
    <3>5. CASE Fail(w) \/ Drop(w) \/ Complete(w)
      BY <3>5 DEF Fail, Drop, Complete, Successor, Uncounted, Place, Leasing
    <3> QED BY <1>1, <3>1, <3>2, <3>3, <3>4, <3>5
  <2> QED BY <2>1, <2>2, GotoMoves DEF IInv, Placed
<1>2. CASE Link(w)
  <2>1. UNCHANGED <<pc, alarm>> /\ pc[w] = "link"
    BY <1>2 DEF Link
  <2> QED BY <2>1 DEF IInv, Placed, Moved, Successor, Place, Leasing, Uncounted
<1>3. CASE Tally(w) \/ Write(w)
  <2>1. PICK to \in {"write", "drop"} :
           /\ NotifyAndGoto(w, to) \/ (Goto(w, to) /\ UNCHANGED alarm)
           /\ pc[w] = "tally" \/ (pc[w] = "write" /\ to = "drop")
    BY <1>3 DEF Tally, Write, WriteOk, WriteErr, WritePanic, FailCrawl
  <2>2. to \in Place \ {"asleep"} /\ Successor(pc[w], to)
    BY <2>1 DEF Place, Leasing, Uncounted, Successor
  <2> QED BY <2>1, <2>2, NotifyMoves, GotoMoves DEF IInv, Placed
<1>4. CASE Ring(w)
  <2>1. pc[w] = "ring" /\ \E to \in {"dead", "top"} : NotifyAndGoto(w, to)
    BY <1>4 DEF Ring
  <2> QED BY <2>1, NotifyMoves DEF IInv, Place, Ended, Successor
<1> QED BY <1>1, <1>2, <1>3, <1>4 DEF Process

\* The steps that are no worker's leave every place but "asleep" and "new".
LEMMA OthersMove ==
    ASSUME IInv, Run \/ User \/ Tick \/ UNCHANGED vars, NEW w \in Worker
    PROVE  pc'[w] = pc[w] \/ (pc[w] \in {"asleep", "new"} /\ pc'[w] = "top")
<1>1. CASE Run
  <2>1. CASE SeedEnd
    <3>1. \A v \in Worker : pc[v] = "new"
      BY <2>1 DEF SeedEnd, IInv, Phases
    <3>2. UNCHANGED pc \/ pc' = [v \in Worker |-> "top"]
      BY <2>1 DEF SeedEnd
    <3> QED BY <3>1, <3>2
  <2> QED BY <1>1, <2>1 DEF Run, SeedNext, Return
<1>2. CASE User
  BY <1>2 DEF User, Notify, NotifyFrom
<1> QED BY <1>1, <1>2 DEF Tick, vars

-----------------------------------------------------------------------------
(* A sink that refuses a page. *)

SinkInv ==
    /\ rejected => error_slot
    /\ IF main = "returned" THEN error_slot => result = "error" ELSE result = None

LEMMA SinkInvKept == IInv /\ SinkInv /\ [Next]_vars => SinkInv'
<1> SUFFICES ASSUME IInv, SinkInv, [Next]_vars PROVE SinkInv'
  OBVIOUS
<1> USE DEF controlVars, outputVars, mainVars
<1>1. CASE Run
  <2>1. UNCHANGED <<rejected, error_slot>>
    BY <1>1 DEF Run, SeedNext, SeedEnd, Return
  <2>2. CASE Return
    <3>1. main' = "returned" /\ (error_slot => result' = "error")
      BY <2>2 DEF Return
    <3> QED BY <2>1, <3>1 DEF SinkInv
  <2>3. CASE SeedNext \/ SeedEnd
    <3>1. main # "returned" /\ main' # "returned" /\ UNCHANGED result
      BY <2>3 DEF SeedNext, SeedEnd
    <3> QED BY <2>1, <3>1 DEF SinkInv
  <2> QED BY <1>1, <2>2, <2>3 DEF Run
<1>2. ASSUME NEW w \in Worker, Write(w) PROVE SinkInv'
  <2>1. UNCHANGED <<main, result>> /\ main # "returned"
    BY <1>2 DEF Write, IInv, Phases, Ended
  <2>2. UNCHANGED <<rejected, error_slot>> \/ error_slot'
    BY <1>2 DEF Write, WriteOk, WriteErr, WritePanic, FailCrawl
  <2> QED BY <2>1, <2>2 DEF SinkInv
<1>3. UNCHANGED <<rejected, error_slot, main, result>> => SinkInv'
  BY DEF SinkInv
<1>4. ASSUME NEW w \in Worker, Loop(w) PROVE SinkInv'
  BY <1>3, <1>4 DEF Loop, CheckShutdown, CheckPaused, Ask, Farewell, Arm, WakeUp
<1>5. ASSUME NEW w \in Worker, Process(w) PROVE SinkInv'
  BY <1>2, <1>3, <1>5 DEF Process, Begin, CheckRobots, HearDelay, Send, Reply, Lock, Link, Unlock,
                          Tally, Fail, Drop, Complete, Ring
<1>6. CASE User \/ Tick \/ UNCHANGED vars
  BY <1>3, <1>6 DEF User, Tick, vars
<1> QED BY <1>1, <1>4, <1>5, <1>6 DEF Next, Done

(* A page the sink refused is never hidden by an Ok result: the error is    *)
(* recorded before any worker can end because of it, and run() looks at it  *)
(* after the last one has.                                                  *)
THEOREM SinkFailureSurfacesHolds == Spec => []SinkFailureSurfaces
<1>1. Init => SinkInv
  BY DEF Init, SinkInv
<1>2. SinkInv => SinkFailureSurfaces
  BY EngineAssumption DEF SinkInv, SinkFailureSurfaces
<1> QED BY <1>1, <1>2, SpecIInv, SinkInvKept, PTL DEF Spec

-----------------------------------------------------------------------------
(* The workers already past a check bound what is leased after it. *)

\* Only a worker that asks leases, and it leases one task.
LEMMA Dispatching ==
    ASSUME IInv, [Next]_vars
    PROVE  \/ UNCHANGED dispatched
           \/ \E w \in Worker : /\ pc[w] = "ask" /\ Moved(w, "begin")
                                /\ dispatched' = dispatched + 1
<1>1. CASE Run \/ User \/ Tick \/ UNCHANGED vars
  BY <1>1 DEF Run, SeedNext, SeedEnd, Return, User, Tick, vars, frontierVars, F!Add, F!Tick
<1>2. ASSUME NEW w \in Worker, Loop(w)
      PROVE  \/ UNCHANGED dispatched
             \/ pc[w] = "ask" /\ Moved(w, "begin") /\ dispatched' = dispatched + 1
  <2>1. CASE Ask(w) /\ AskReady(w)
    <3>1. dispatched' = dispatched + 1
      BY <2>1 DEF AskReady, F!Lease
    <3>2. pc[w] = "ask" /\ Goto(w, "begin") /\ UNCHANGED alarm
      BY <2>1 DEF Ask, AskReady
    <3> QED BY <3>1, <3>2, GotoMoves DEF IInv, Placed, Place, Leasing, Uncounted
  <2> QED BY <1>2, <2>1
        DEF Loop, CheckShutdown, CheckPaused, Ask, AskWait, AskOther, Farewell, Arm, WakeUp,
            frontierVars
<1>3. ASSUME NEW w \in Worker, Process(w) PROVE UNCHANGED dispatched
  <2>1. CASE HearDelay(w) \/ Link(w) \/ Complete(w)
    BY <2>1 DEF HearDelay, Link, Complete, F!SetHostDelay, F!Add, F!Complete, frontierVars
  <2> QED BY <1>3, <2>1
        DEF Process, Begin, CheckRobots, Send, Reply, Lock, Unlock, Tally, Write, Fail, Drop, Ring,
            frontierVars
<1> QED BY <1>1, <1>2, <1>3 DEF Next, Done

\* The workers in S never grow but by one that comes from elsewhere.
LEMMA QueueToLease ==
    ASSUME IInv, [Next]_vars, NEW S, "ask" \in S, S \subseteq {"gate", "ask"},
           \A w \in Worker : pc[w] \notin S => pc'[w] \notin S
    PROVE  dispatched' + Cardinality(At(S)') <= dispatched + Cardinality(At(S))
<1>1. dispatched \in Nat /\ Placed /\ "asleep" \notin S /\ "top" \notin S /\ "begin" \notin S
  BY DEF IInv, FP!IInv, FP!TypeOK
<1>2. IsFiniteSet(At(S)) /\ Cardinality(At(S)) \in Nat
  BY EngineAssumption, FS_Subset, FS_CardinalityType DEF At
<1>3. CASE UNCHANGED dispatched
  <2>1. At(S)' \subseteq At(S)
    BY DEF At
  <2>2. Cardinality(At(S)') \in Nat /\ Cardinality(At(S)') <= Cardinality(At(S))
    BY <1>2, <2>1, FS_Subset, FS_CardinalityType
  <2> QED BY <1>1, <1>2, <1>3, <2>2
<1>4. ASSUME NEW w \in Worker, pc[w] = "ask", Moved(w, "begin"), dispatched' = dispatched + 1
      PROVE  dispatched' + Cardinality(At(S)') <= dispatched + Cardinality(At(S))
  <2>1. Cardinality(At(S)') = Cardinality(At(S)) + 0 - 1
    BY <1>1, <1>4, Count
  <2> QED BY <1>1, <1>2, <1>4, <2>1
<1> QED BY <1>3, <1>4, Dispatching

(* After a stop only the workers that had passed their check lease, each    *)
(* once, however workers, wake-ups and further stops interleave.            *)
THEOREM StopStopsLeasingHolds == Spec => StopStopsLeasing
<1>1. IInv /\ [Next]_vars =>
        [shutdown => dispatched' + Cardinality(At({"gate", "ask"})')
                       <= dispatched + Cardinality(At({"gate", "ask"}))]_vars
  <2> SUFFICES ASSUME IInv, [Next]_vars, shutdown
               PROVE  dispatched' + Cardinality(At({"gate", "ask"})')
                        <= dispatched + Cardinality(At({"gate", "ask"}))
    OBVIOUS
  <2>1. ASSUME NEW w \in Worker, pc[w] \notin {"gate", "ask"} PROVE pc'[w] \notin {"gate", "ask"}
    <3>1. ASSUME NEW v \in Worker, Loop(v) \/ Process(v) PROVE pc'[w] \notin {"gate", "ask"}
      <4>1. PICK to \in Place : Moved(v, to) /\ Successor(pc[v], to)
        BY <3>1, LoopMoves, ProcessMoves
      <4>2. CASE v = w /\ pc[w] = "top"
        <5>1. CheckShutdown(w)
          BY <3>1, <4>2
             DEF Loop, Process, CheckShutdown, CheckPaused, Ask, Farewell, Arm, WakeUp, Begin,
                 CheckRobots, HearDelay, Send, Reply, Lock, Link, Unlock, Tally, Write, Fail,
                 Drop, Complete, Ring
        <5>2. Goto(w, "stopped")
          BY <5>1 DEF CheckShutdown
        <5> QED BY <5>2 DEF Goto, IInv, Placed
      <4>3. CASE v = w /\ pc[w] # "top"
        BY <2>1, <4>1, <4>3 DEF Moved, Successor, Uncounted
      <4>4. CASE v # w
        BY <2>1, <4>1, <4>4 DEF Moved
      <4> QED BY <4>2, <4>3, <4>4
    <3>2. CASE Run \/ User \/ Tick \/ UNCHANGED vars
      BY <2>1, <3>2, OthersMove
    <3> QED BY <3>1, <3>2 DEF Next, Done
  <2> QED BY <2>1, QueueToLease
<1> QED BY <1>1, SpecIInv, PTL DEF Spec, StopStopsLeasing

(* A pause holds in the same way, for as long as it lasts.                  *)
THEOREM PauseStopsLeasingHolds == Spec => PauseStopsLeasing
<1>1. IInv /\ [Next]_vars =>
        [paused /\ paused' => dispatched' + Cardinality(At({"ask"})')
                                <= dispatched + Cardinality(At({"ask"}))]_vars
  <2> SUFFICES ASSUME IInv, [Next]_vars, paused
               PROVE  dispatched' + Cardinality(At({"ask"})')
                        <= dispatched + Cardinality(At({"ask"}))
    OBVIOUS
  <2>1. ASSUME NEW w \in Worker, pc[w] \notin {"ask"} PROVE pc'[w] \notin {"ask"}
    <3>1. ASSUME NEW v \in Worker, Loop(v) \/ Process(v) PROVE pc'[w] # "ask"
      <4>1. PICK to \in Place : Moved(v, to) /\ Successor(pc[v], to)
        BY <3>1, LoopMoves, ProcessMoves
      <4>2. CASE v = w /\ pc[w] = "gate"
        <5>1. CheckPaused(w)
          BY <3>1, <4>2
             DEF Loop, Process, CheckShutdown, CheckPaused, Ask, Farewell, Arm, WakeUp, Begin,
                 CheckRobots, HearDelay, Send, Reply, Lock, Link, Unlock, Tally, Write, Fail,
                 Drop, Complete, Ring
        <5>2. Goto(w, "unarmed")
          BY <5>1 DEF CheckPaused
        <5> QED BY <5>2 DEF Goto, IInv, Placed
      <4>3. CASE v = w /\ pc[w] # "gate"
        BY <2>1, <4>1, <4>3 DEF Moved, Successor, Uncounted
      <4>4. CASE v # w
        BY <2>1, <4>1, <4>4 DEF Moved
      <4> QED BY <4>2, <4>3, <4>4
    <3>2. CASE Run \/ User \/ Tick \/ UNCHANGED vars
      BY <2>1, <3>2, OthersMove
    <3> QED BY <3>1, <3>2 DEF Next, Done
  <2> QED BY <2>1, QueueToLease
<1> QED BY <1>1, SpecIInv, PTL DEF Spec, PauseStopsLeasing

-----------------------------------------------------------------------------
(* Nobody leaves a crawl that still has work. *)

Leaving == {"farewell", "drained"}

LEMMA BudgetStays ==
    ASSUME IInv, [Next]_vars, F!BudgetExhausted
    PROVE  F!BudgetExhausted'
<1>1. dispatched \in Nat /\ MaxPages \in Nat \cup {None}
  BY EngineAssumption DEF IInv, FP!IInv, FP!TypeOK, F!FrontierAssumption
<1>2. dispatched' = dispatched \/ dispatched' = dispatched + 1
  BY Dispatching
<1> QED BY <1>1, <1>2 DEF F!BudgetExhausted

LEMMA NobodyLeases ==
    ASSUME IInv
    PROVE  At(Leasing) = {} <=> active = 0
<1>1. IsFiniteSet(At(Leasing))
  BY EngineAssumption, FS_Subset DEF At
<1>2. active = Cardinality(At(Leasing))
  BY DEF IInv, Leases
<1> QED BY <1>1, <1>2, FS_EmptySet

LEMMA ExitKept == IInv /\ NoPrematureExit /\ [Next]_vars => NoPrematureExit'
<1> SUFFICES ASSUME IInv, NoPrematureExit, [Next]_vars, ~F!BudgetExhausted',
                    NEW x \in Worker, pc'[x] \in Leaving
             PROVE  F!Pending' = {} /\ At(Leasing)' = {}
  BY DEF NoPrematureExit, At, Leaving
<1>1. ~F!BudgetExhausted
  BY BudgetStays
<1>2. ASSUME UNCHANGED queues, pc[x] \in Leaving,
             \A w \in Worker : pc'[w] \in Leasing => pc[w] \in Leasing
      PROVE  F!Pending' = {} /\ At(Leasing)' = {}
  <2>1. F!Pending = {} /\ At(Leasing) = {}
    BY <1>1, <1>2 DEF NoPrematureExit, At, Leaving
  <2> QED BY <1>2, <2>1 DEF F!Pending, At
<1>3. CASE Run
  <2>1. \A w \in Worker : pc'[w] = pc[w] \/ pc'[w] = "top"
    BY <1>3, OthersMove
  <2>2. pc[x] \in Leaving
    BY <2>1 DEF Leaving
  <2>3. pc[x] # "new"
    BY <2>2 DEF Leaving
  <2>4. Return
    BY <1>3, <2>3 DEF Run, SeedNext, SeedEnd, IInv, Phases
  <2> QED BY <1>2, <2>1, <2>2, <2>4, Places DEF Return, frontierVars
<1>4. CASE User \/ Tick \/ UNCHANGED vars
  <2>1. UNCHANGED queues
    BY <1>4 DEF User, Tick, F!Tick, vars, frontierVars
  <2>2. \A w \in Worker : pc'[w] = pc[w] \/ pc'[w] = "top"
    BY <1>4, OthersMove
  <2> QED BY <1>2, <2>1, <2>2, Places DEF Leaving
<1>5. ASSUME NEW w \in Worker, Loop(w) PROVE F!Pending' = {} /\ At(Leasing)' = {}
  <2>1. PICK to \in Place : Moved(w, to) /\ Successor(pc[w], to)
    BY <1>5, LoopMoves
  <2>2. pc[x] \in Leaving \/ (x = w /\ pc[w] = "ask" /\ to = "farewell")
    BY <2>1 DEF Moved, Successor, Leaving, Uncounted
  <2>3. CASE Ask(w) /\ AskReady(w)
    <3>1. PICK h \in Host : F!Lease(h)
      BY <2>3 DEF AskReady
    <3>2. F!Pending # {}
      BY <3>1 DEF F!Lease, F!Earliest
    <3>3. Goto(w, "begin")
      BY <2>3 DEF AskReady
    <3>4. pc[x] \in Leaving
      BY <2>2, <3>3 DEF Leaving, Goto, IInv, Placed
    <3> QED BY <1>1, <3>2, <3>4 DEF NoPrematureExit, At, Leaving
  <2>4. CASE Ask(w) /\ (AskWait(w) \/ AskOther(w))
    <3>1. UNCHANGED queues /\ pc[w] = "ask"
      BY <2>4 DEF Ask, AskWait, AskOther, frontierVars
    <3>2. Goto(w, "unarmed") \/ (Goto(w, "farewell") /\ F!LeaseDone)
      BY <2>4 DEF AskWait, AskOther
    <3>3. pc' = [pc EXCEPT ![w] = pc'[w]] /\ pc'[w] \in {"unarmed", "farewell"}
      BY <3>2 DEF Goto, IInv, Placed
    <3>4. \A v \in Worker : pc'[v] \in Leasing => pc[v] \in Leasing
      BY <3>3 DEF Leasing, Uncounted, IInv, Placed
    <3>5. CASE pc[x] \in Leaving
      BY <1>2, <3>1, <3>4, <3>5
    <3>6. CASE pc[x] \notin Leaving
      <4>1. x = w /\ pc'[w] = "farewell"
        BY <2>2, <3>6, <2>1 DEF Moved
      <4>2. F!LeaseDone
        BY <3>2, <4>1 DEF Goto, IInv, Placed
      <4>3. F!Pending = {} /\ active = 0
        BY <1>1, <4>2 DEF F!LeaseDone
      <4>4. At(Leasing) = {}
        BY <4>3, NobodyLeases
      <4> QED BY <3>1, <3>4, <4>3, <4>4 DEF F!Pending, At
    <3> QED BY <3>5, <3>6
  <2>5. CASE CheckShutdown(w) \/ CheckPaused(w) \/ Farewell(w) \/ Arm(w) \/ WakeUp(w)
    <3>1. UNCHANGED queues /\ pc[w] # "ask"
      BY <2>5 DEF CheckShutdown, CheckPaused, Farewell, Arm, WakeUp, frontierVars
    <3>2. \A v \in Worker : pc'[v] \in Leasing => pc[v] \in Leasing
      <4>1. pc[w] \notin Leasing /\ pc[w] # "ask"
        BY <2>5 DEF CheckShutdown, CheckPaused, Farewell, Arm, WakeUp, Leasing, Uncounted
      <4>2. to \notin Leasing
        BY <2>1, <4>1 DEF Successor, Leasing, Uncounted
      <4> QED BY <2>1, <4>2, Places DEF Moved
    <3> QED BY <1>2, <2>2, <3>1, <3>2
  <2> QED BY <1>5, <2>3, <2>4, <2>5 DEF Loop, Ask
<1>6. ASSUME NEW w \in Worker, Process(w) PROVE F!Pending' = {} /\ At(Leasing)' = {}
  <2>1. PICK to \in Place : Moved(w, to) /\ Successor(pc[w], to)
    BY <1>6, ProcessMoves
  <2>2. pc[w] \in Leasing \cup {"ring"}
    BY <1>6 DEF Process, Begin, CheckRobots, HearDelay, Send, Reply, Lock, Link, Unlock, Tally,
                Write, Fail, Drop, Complete, Ring, Leasing, Uncounted
  <2>3. pc[x] \in Leaving
    BY <2>1, <2>2 DEF Moved, Successor, Leaving, Leasing, Uncounted
  <2>4. At(Leasing) = {}
    BY <1>1, <2>3 DEF NoPrematureExit, At, Leaving
  <2>5. pc[w] = "ring"
    BY <2>2, <2>4 DEF At
  <2>6. Ring(w)
    BY <1>6, <2>5 DEF Process, Begin, CheckRobots, HearDelay, Send, Reply, Lock, Link, Unlock,
                      Tally, Write, Fail, Drop, Complete
  <2>7. UNCHANGED queues
    BY <2>6 DEF Ring, frontierVars
  <2>8. \A v \in Worker : pc'[v] \in Leasing => pc[v] \in Leasing
    BY <2>1, <2>5, Places DEF Moved, Successor, Leasing, Uncounted
  <2> QED BY <1>2, <2>3, <2>7, <2>8
<1> QED BY <1>3, <1>4, <1>5, <1>6 DEF Next, Done

(* A worker that lease told Done leaves no queued task behind and no page   *)
(* in another worker's hands whose links would need it.                     *)
THEOREM NoPrematureExitHolds == Spec => []NoPrematureExit
<1>1. Init => NoPrematureExit
  BY DEF Init, NoPrematureExit, At
<1> QED BY <1>1, SpecIInv, ExitKept, PTL DEF Spec

-----------------------------------------------------------------------------
(* A URL is on one page. *)

\* A URL that has left the queues; it never gets back.
Settled(u) == u \in seen \ F!QueuedUrls

\* The places where a worker's page is not yet in the sink.
Unwritten == Uncounted \cup {"write"}

PageInv ==
    /\ \A w \in At(Leasing) : Settled(task[w].url)
    /\ \A v, w \in At(Leasing) : task[v].url = task[w].url => v = w
    /\ \A p \in sink : Settled(p.url) /\ \A w \in At(Unwritten) : task[w].url # p.url

LEMMA SettledStays ==
    ASSUME IInv, [Next]_vars, NEW u, Settled(u)
    PROVE  Settled(u)'
<1>1. FP!IInv /\ [FP!Next]_FP!vars
  <2>1. [F!Next]_F!vars
    BY FrontierStep
  <2> QED BY <2>1, SameFrontier, Zenon DEF IInv, F!vars, FP!vars
<1>2. /\ F!QueuedUrls = FP!QueuedUrls /\ F!QueuedUrls' = FP!QueuedUrls'
      /\ FP!FrontierAssumption
  BY SameFrontier DEF F!QueuedUrls, FP!QueuedUrls
<1>3. CASE \E v \in Url, d \in Depth : FP!Add(v, d)
  <2>1. PICK v \in Url, d \in Depth : FP!Add(v, d)
    BY <1>3
  <2>2. IF FP!Accepts(v, d)
          THEN /\ Canon[v] \notin seen
               /\ seen' = seen \cup {Canon[v]}
               /\ FP!QueuedUrls' = FP!QueuedUrls \cup {Canon[v]}
          ELSE seen' = seen /\ FP!QueuedUrls' = FP!QueuedUrls
    BY <1>1, <1>2, <2>1, FP!AddUrls, Zenon
  <2> QED BY <1>2, <2>2 DEF Settled
<1>4. CASE \E h \in Host : FP!Lease(h)
  <2>1. PICK h \in Host : FP!Lease(h)
    BY <1>4
  <2>2. FP!QueuedUrls' = FP!QueuedUrls \ {Head(queues[h]).url}
    BY <1>1, <1>2, <2>1, FP!LeaseUrls, Zenon
  <2>3. UNCHANGED seen
    BY <2>1 DEF FP!Lease
  <2> QED BY <1>2, <2>2, <2>3 DEF Settled
<1>5. CASE UNCHANGED <<queues, seen>>
  BY <1>5 DEF Settled, F!QueuedUrls
<1> QED BY <1>1, <1>3, <1>4, <1>5
        DEF FP!Next, FP!SetHostDelay, FP!Complete, FP!Tick, FP!vars

\* A step that starts no page and finishes none.
LEMMA PageQuiet ==
    ASSUME IInv, PageInv, [Next]_vars, UNCHANGED sink,
           \A w \in Worker : /\ pc'[w] \in Leasing => pc[w] \in Leasing /\ task'[w] = task[w]
                             /\ pc'[w] \in Unwritten => pc[w] \in Unwritten
    PROVE  PageInv'
<1>1. Unwritten \subseteq Leasing
  BY DEF Unwritten, Leasing
<1>2. \A w \in At(Leasing)' : w \in At(Leasing) /\ task'[w] = task[w]
  BY DEF At
<1>3. \A w \in At(Unwritten)' : w \in At(Unwritten) /\ task'[w] = task[w]
  BY <1>1 DEF At
<1>4. \A w \in At(Leasing)' : Settled(task[w].url)'
  <2> TAKE w \in At(Leasing)'
  <2>1. Settled(task[w].url) /\ task'[w] = task[w]
    BY <1>2 DEF PageInv
  <2> DEFINE u == task[w].url
  <2>2. Settled(u)
    BY <2>1
  <2> HIDE DEF u
  <2>3. u \in seen' \ F!QueuedUrls'
    BY <2>2, SettledStays DEF Settled
  <2> QED BY <2>1, <2>3 DEF u, Settled
<1>5. \A p \in sink' : Settled(p.url)'
  BY SettledStays DEF PageInv, Settled
<1>6. \A v, w \in At(Leasing)' : task'[v].url = task'[w].url => v = w
  BY <1>2 DEF PageInv
<1>7. \A p \in sink' : \A w \in At(Unwritten)' : task'[w].url # p.url
  BY <1>3 DEF PageInv
<1> QED BY <1>4, <1>5, <1>6, <1>7 DEF PageInv

LEMMA LeaseKeepsPages ==
    ASSUME IInv, PageInv, [Next]_vars, NEW w \in Worker, Ask(w), AskReady(w)
    PROVE  PageInv'
<1>1. PICK h \in Host : F!Lease(h) /\ task' = [task EXCEPT ![w] = Head(queues[h])]
  BY DEF AskReady
<1>0. PICK c : c = Head(queues[h]).url
  OBVIOUS
<1>2. FP!IInv /\ FP!Lease(h) /\ FP!FrontierAssumption /\ F!QueuedUrls = FP!QueuedUrls
      /\ F!QueuedUrls' = FP!QueuedUrls'
  BY <1>1, SameFrontier DEF IInv, F!QueuedUrls, FP!QueuedUrls
<1>3. c \in FP!QueuedUrls /\ FP!QueuedUrls' = FP!QueuedUrls \ {c}
  BY <1>0, <1>2, FP!LeaseUrls, Zenon
<1>4. seen' = seen /\ FP!QueuedUrls \subseteq seen
  BY <1>1, <1>2 DEF F!Lease, FP!IInv, FP!Accounting
<1>5. Settled(c)' /\ ~Settled(c)
  <2>1. c \in seen' \ F!QueuedUrls' /\ c \notin seen \ F!QueuedUrls
    BY <1>2, <1>3, <1>4
  <2> QED BY <2>1 DEF Settled
<1>6. /\ \A v \in At(Leasing)' : v # w => v \in At(Leasing) /\ task'[v] = task[v]
      /\ \A v \in At(Unwritten)' : v # w => v \in At(Unwritten) /\ task'[v] = task[v]
      /\ task'[w].url = c
      /\ UNCHANGED sink
  <2>1. pc' = [pc EXCEPT ![w] = "begin"] /\ UNCHANGED sink
    BY DEF Ask, AskReady, Goto, outputVars
  <2>2. task'[w].url = c /\ \A v \in Worker \ {w} : task'[v] = task[v]
    BY <1>0, <1>1 DEF IInv, TasksOK
  <2> QED BY <2>1, <2>2 DEF At, IInv, Placed
<1>7. \A v \in At(Leasing) : task[v].url # c
  BY <1>5 DEF PageInv
<1>8. \A p \in sink : p.url # c
  BY <1>5 DEF PageInv
<1>9. \A v \in At(Leasing)' : Settled(task[v].url)'
  <2> TAKE v \in At(Leasing)'
  <2>1. CASE v = w
    BY <1>5, <1>6, <2>1 DEF Settled
  <2>2. CASE v # w
    <3>1. Settled(task[v].url) /\ task'[v] = task[v]
      BY <1>6, <2>2 DEF PageInv
    <3> DEFINE u == task[v].url
    <3>2. Settled(u)
      BY <3>1
    <3> HIDE DEF u
    <3>3. u \in seen' \ F!QueuedUrls'
      BY <3>2, SettledStays DEF Settled
    <3> QED BY <3>1, <3>3 DEF u, Settled
  <2> QED BY <2>1, <2>2
<1>10. \A v, x \in At(Leasing)' : task'[v].url = task'[x].url => v = x
  BY <1>6, <1>7 DEF PageInv
<1>11. \A p \in sink' : Settled(p.url)'
  BY <1>6, SettledStays DEF PageInv, Settled
<1>12. \A p \in sink' : \A v \in At(Unwritten)' : task'[v].url # p.url
  BY <1>6, <1>8 DEF PageInv
<1> QED BY <1>9, <1>10, <1>11, <1>12 DEF PageInv

LEMMA WriteKeepsPages ==
    ASSUME IInv, PageInv, [Next]_vars, NEW w \in Worker, Write(w)
    PROVE  PageInv'
<1>1. PICK to \in Place : Moved(w, to) /\ Successor(pc[w], to)
  <2>1. Process(w)
    BY DEF Process
  <2> QED BY <2>1, ProcessMoves
<1>2. pc[w] = "write" /\ to = "drop" /\ UNCHANGED <<task, queues, seen>>
  BY <1>1 DEF Write, Successor, Uncounted, frontierVars
<1>3. /\ w \in At(Leasing) /\ w \in At(Unwritten)
      /\ At(Leasing)' = At(Leasing) /\ At(Unwritten)' = At(Unwritten) \ {w}
  BY <1>1, <1>2 DEF Moved, At, Leasing, Uncounted, Unwritten
<1>4. UNCHANGED sink
      \/ sink' = sink \cup {[url |-> task[w].url, depth |-> task[w].depth, links |-> found[w]]}
  BY DEF Write, WriteOk, WriteErr, WritePanic
<1> DEFINE u == task[w].url
<1>5. \A p \in sink' : p \in sink \/ p.url = u
  BY <1>4
<1>7. Settled(u) /\ \A p \in sink : p.url # u
  BY <1>3 DEF PageInv
<1>8. \A v \in At(Unwritten)' : v \in At(Leasing) /\ v # w
  BY <1>3 DEF At, Unwritten, Leasing
<1>9. \A x : Settled(x)' <=> Settled(x)
  BY <1>2 DEF Settled, F!QueuedUrls
<1>10. \A p \in sink' : Settled(p.url)'
  BY <1>5, <1>7, <1>9 DEF PageInv
<1>11. \A p \in sink' : \A v \in At(Unwritten)' : task'[v].url # p.url
  BY <1>2, <1>3, <1>5, <1>8 DEF PageInv
<1>12. \A v \in At(Leasing)' : Settled(task[v].url)'
  BY <1>2, <1>3, <1>9 DEF PageInv
<1>13. \A v, x \in At(Leasing)' : task'[v].url = task'[x].url => v = x
  BY <1>2, <1>3 DEF PageInv
<1> QED BY <1>10, <1>11, <1>12, <1>13 DEF PageInv

\* A turn of the loop that leases nothing.
LEMMA IdleMoves ==
    ASSUME IInv, NEW w \in Worker, Loop(w), ~(Ask(w) /\ AskReady(w))
    PROVE  \E to \in Place : Moved(w, to) /\ to \notin Leasing
<1>1. pc[w] \notin Leasing
  BY DEF Loop, CheckShutdown, CheckPaused, Ask, Farewell, Arm, WakeUp, Leasing, Uncounted
<1>2. PICK to \in Place : Moved(w, to) /\ Successor(pc[w], to)
  BY LoopMoves
<1>3. to # "begin"
  <2>1. pc[w] = "ask" => Ask(w) /\ (AskWait(w) \/ AskOther(w))
    BY DEF Loop, CheckShutdown, CheckPaused, Ask, Farewell, Arm, WakeUp
  <2>2. pc[w] = "ask" => \E x \in {"unarmed", "farewell"} : Goto(w, x)
    BY <2>1 DEF AskWait, AskOther
  <2> QED BY <1>1, <1>2, <2>2 DEF Moved, Goto, Successor, IInv, Placed, Leasing
<1>4. to \notin Leasing
  BY <1>1, <1>2, <1>3 DEF Successor, Leasing, Uncounted
<1> QED BY <1>2, <1>4

LEMMA PageInvKept == IInv /\ PageInv /\ [Next]_vars => PageInv'
<1> SUFFICES ASSUME IInv, PageInv, [Next]_vars PROVE PageInv'
  OBVIOUS
<1>1. CASE Run \/ User \/ Tick \/ UNCHANGED vars
  <2>1. UNCHANGED <<sink, task>>
    BY <1>1 DEF Run, SeedNext, SeedEnd, Return, User, Tick, vars, outputVars, localVars, pageVars
  <2>2. \A w \in Worker : pc'[w] = pc[w] \/ pc'[w] = "top"
    BY <1>1, OthersMove
  <2>3. "top" \notin Leasing \cup Unwritten
    BY DEF Leasing, Unwritten, Uncounted
  <2> QED BY <2>1, <2>2, <2>3, PageQuiet
<1>2. ASSUME NEW w \in Worker, Loop(w) PROVE PageInv'
  <2>1. CASE Ask(w) /\ AskReady(w)
    BY <2>1, LeaseKeepsPages
  <2>2. CASE ~(Ask(w) /\ AskReady(w))
    <3>1. UNCHANGED <<sink, task>>
      BY <1>2, <2>2 DEF Loop, CheckShutdown, CheckPaused, Ask, AskWait, AskOther, Farewell, Arm,
                        WakeUp, outputVars, localVars, pageVars
    <3>2. PICK to \in Place : Moved(w, to) /\ to \notin Leasing
      BY <1>2, <2>2, IdleMoves
    <3>4. to \notin Leasing \cup Unwritten
      BY <3>2 DEF Leasing, Unwritten
    <3>5. "top" \notin Leasing \cup Unwritten
      BY DEF Leasing, Unwritten, Uncounted
    <3> QED BY <3>1, <3>2, <3>4, <3>5, PageQuiet DEF Moved
  <2> QED BY <2>1, <2>2
<1>3. ASSUME NEW w \in Worker, Process(w) PROVE PageInv'
  <2>1. CASE Write(w)
    BY <2>1, WriteKeepsPages
  <2>2. CASE ~Write(w)
    <3>1. PICK to \in Place : Moved(w, to) /\ Successor(pc[w], to)
      BY <1>3, ProcessMoves
    <3>2. pc[w] \in Leasing \cup {"ring"}
      BY <1>3 DEF Process, Begin, CheckRobots, HearDelay, Send, Reply, Lock, Link, Unlock, Tally,
                  Write, Fail, Drop, Complete, Ring, Leasing, Uncounted
    <3>3. UNCHANGED sink /\ (UNCHANGED task \/ (to = "ring" /\ task' = [task EXCEPT ![w] = None]))
      <4>1. CASE Complete(w)
        BY <3>1, <4>1 DEF Complete, outputVars, Successor, Uncounted
      <4> QED BY <1>3, <2>2, <4>1
              DEF Process, Begin, CheckRobots, HearDelay, Send, Reply, Lock, Link, Unlock, Tally,
                  Fail, Drop, Ring, outputVars, localVars, pageVars
    <3>4. \A v \in Worker : pc'[v] \in Leasing => pc[v] \in Leasing /\ task'[v] = task[v]
      BY <3>1, <3>2, <3>3, Places DEF Moved, Successor, Leasing, Uncounted, IInv, TasksOK
    <3>5. \A v \in Worker : pc'[v] \in Unwritten => pc[v] \in Unwritten
      BY <3>1, <3>2 DEF Moved, Successor, Unwritten, Leasing, Uncounted
    <3> QED BY <3>3, <3>4, <3>5, PageQuiet
  <2> QED BY <2>1, <2>2
<1> QED BY <1>1, <1>2, <1>3 DEF Next, Done

LEMMA SpecPageInv == Spec => []PageInv
<1>1. Init => PageInv
  BY DEF Init, PageInv, At, Leasing, Unwritten, Uncounted
<1> QED BY <1>1, SpecIInv, PageInvKept, PTL DEF Spec

-----------------------------------------------------------------------------
(* What is fetched and what the sink is given.  A URL is fetched from the   *)
(* task of the one worker that leased it, and given to the sink after.      *)

Unsent == {"begin", "robots", "delay", "send"}
Fetched == {"reply", "lock", "link", "tally", "write"}

CallInv ==
    /\ CallsOK
    /\ \A u \in Url : requests[u] # 0 => Settled(u) /\ Canon[u] = u
    /\ \A u \in Url : requests[u] <= 1 /\ handed[u] <= requests[u]
    /\ \A w \in At(Leasing) : Canon[task[w].url] = task[w].url
    /\ \A w \in At(Unsent) : requests[task[w].url] = 0
    /\ \A w \in At(Fetched) : requests[task[w].url] = 1 /\ handed[task[w].url] = 0

\* No worker gets to these places, or gets another task while there.
Stay(S) == \A w \in Worker : pc'[w] \in S => pc[w] \in S /\ task'[w] = task[w]

LEMMA Stages == /\ Unsent \subseteq Leasing /\ Fetched \subseteq Leasing
                /\ "top" \notin Leasing
                /\ Unsent \cap Fetched = {}
BY DEF Unsent, Fetched, Leasing, Uncounted

LEMMA FetchedStay ==
    ASSUME CallInv, [Next]_vars, IInv
    PROVE  \A u \in Url : requests[u] # 0 => Settled(u)' /\ Canon[u] = u
BY SettledStays DEF CallInv

LEMMA CallsQuiet ==
    ASSUME IInv, CallInv, [Next]_vars, UNCHANGED callVars,
           Stay(Leasing), Stay(Unsent), Stay(Fetched)
    PROVE  CallInv'
<1>1. UNCHANGED <<requests, handed>>
  BY DEF callVars
<1>2. \A u \in Url : requests'[u] # 0 => Settled(u)' /\ Canon[u] = u
  BY <1>1, FetchedStay
<1>3. \A w \in At(Leasing)' : Canon[task'[w].url] = task'[w].url
  BY DEF CallInv, Stay, At
<1>4. \A w \in At(Unsent)' : requests'[task'[w].url] = 0
  BY <1>1 DEF CallInv, Stay, At
<1>5. \A w \in At(Fetched)' : requests'[task'[w].url] = 1 /\ handed'[task'[w].url] = 0
  BY <1>1 DEF CallInv, Stay, At
<1>6. CallsOK' /\ \A u \in Url : requests'[u] <= 1 /\ handed'[u] <= requests'[u]
  BY <1>1 DEF CallInv, CallsOK
<1> QED BY <1>2, <1>3, <1>4, <1>5, <1>6 DEF CallInv

\* What is leased is canonical, and has never been fetched.
LEMMA LeaseIsNew ==
    ASSUME IInv, CallInv, NEW h \in Host, F!Lease(h), NEW c, c = Head(queues[h]).url
    PROVE  c \in Url /\ Canon[c] = c /\ requests[c] = 0
<1>1. FP!IInv /\ FP!Lease(h) /\ FP!FrontierAssumption /\ F!QueuedUrls = FP!QueuedUrls
  BY SameFrontier DEF IInv, F!QueuedUrls, FP!QueuedUrls
<1>2. Head(queues[h]) \in FP!Task /\ c \in FP!QueuedUrls
  BY <1>1, FP!LeaseUrls, Zenon
<1>3. c \in Url
  BY <1>2 DEF FP!Task
<1>4. queues[h] \in Seq(FP!Task) /\ queues[h] # <<>>
  BY <1>1 DEF FP!IInv, FP!TypeOK, FP!Lease, FP!Earliest, FP!Pending
<1>5. 1 \in DOMAIN queues[h] /\ c = queues[h][1].url
  BY <1>4
<1>6. Canon[queues[h][1].url] = queues[h][1].url
  BY <1>1, <1>5 DEF FP!IInv, FP!WellPlaced
<1>7. requests[c] = 0
  BY <1>1, <1>2, <1>3 DEF CallInv, Settled
<1> QED BY <1>3, <1>5, <1>6, <1>7

LEMMA LeaseKeepsCalls ==
    ASSUME IInv, CallInv, [Next]_vars, NEW w \in Worker, Ask(w), AskReady(w)
    PROVE  CallInv'
<1>1. PICK h \in Host : F!Lease(h) /\ task' = [task EXCEPT ![w] = Head(queues[h])]
  BY DEF AskReady
<1>2. PICK c : c = Head(queues[h]).url
  OBVIOUS
<1>3. c \in Url /\ Canon[c] = c /\ requests[c] = 0
  BY <1>1, <1>2, LeaseIsNew
<1>4. pc' = [pc EXCEPT ![w] = "begin"] /\ UNCHANGED <<requests, handed>>
  BY DEF Ask, AskReady, Goto, outputVars, callVars
<1>5. /\ task'[w].url = c
      /\ \A v \in Worker \ {w} : task'[v] = task[v] /\ pc'[v] = pc[v]
      /\ pc'[w] = "begin"
  BY <1>1, <1>2, <1>4 DEF IInv, TasksOK, Placed
<1>6. \A u \in Url : requests'[u] # 0 => Settled(u)' /\ Canon[u] = u
  BY <1>4, FetchedStay
<1>7. \A v \in At(Leasing)' : Canon[task'[v].url] = task'[v].url
  BY <1>3, <1>5 DEF CallInv, At
<1>8. \A v \in At(Unsent)' : requests'[task'[v].url] = 0
  BY <1>3, <1>4, <1>5 DEF CallInv, At
<1>9. \A v \in At(Fetched)' : requests'[task'[v].url] = 1 /\ handed'[task'[v].url] = 0
  BY <1>4, <1>5 DEF CallInv, At, Fetched
<1>10. CallsOK' /\ \A u \in Url : requests'[u] <= 1 /\ handed'[u] <= requests'[u]
  BY <1>4 DEF CallInv, CallsOK
<1> QED BY <1>6, <1>7, <1>8, <1>9, <1>10 DEF CallInv

LEMMA SendKeepsCalls ==
    ASSUME IInv, PageInv, CallInv, [Next]_vars, NEW w \in Worker, Send(w)
    PROVE  CallInv'
<1>1. PICK u : u = task[w].url
  OBVIOUS
<1>2. /\ pc[w] = "send" /\ pc' = [pc EXCEPT ![w] = "reply"]
      /\ requests' = [requests EXCEPT ![u] = @ + 1] /\ UNCHANGED <<handed, task, queues, seen>>
  BY <1>1 DEF Send, Goto, frontierVars
<1>3. w \in At(Leasing) /\ w \in At(Unsent)
  BY <1>2 DEF At, Leasing, Uncounted, Unsent
<1>4. u \in Url /\ requests[u] = 0 /\ handed[u] = 0 /\ Canon[u] = u /\ Settled(u)
  <2>1. u \in Url
    BY <1>1, <1>3 DEF IInv, TasksOK, At, F!Task
  <2>2. requests[u] = 0 /\ Canon[u] = u /\ Settled(u)
    BY <1>1, <1>3 DEF CallInv, PageInv
  <2> QED BY <2>1, <2>2 DEF CallInv, CallsOK
<1>5. requests'[u] = 1 /\ \A v \in Url \ {u} : requests'[v] = requests[v]
  BY <1>2, <1>4 DEF CallInv, CallsOK
<1>6. \A v \in At(Leasing) \ {w} : task[v].url # u /\ task[v].url \in Url
  <2>1. \A v \in At(Leasing) \ {w} : task[v].url # u
    BY <1>1, <1>3 DEF PageInv
  <2> QED BY <2>1 DEF IInv, TasksOK, At, F!Task
<1>7. \A v \in Worker \ {w} : pc'[v] = pc[v]
  BY <1>2 DEF IInv, Placed
<1>8. pc'[w] = "reply"
  BY <1>2 DEF IInv, Placed
<1>9. \A v \in Url : requests'[v] # 0 => Settled(v)' /\ Canon[v] = v
  <2>1. Settled(u)'
    BY <1>4, SettledStays
  <2> QED BY <1>4, <1>5, <2>1, FetchedStay
<1>10. \A v \in At(Leasing)' : Canon[task'[v].url] = task'[v].url
  BY <1>2, <1>3, <1>7 DEF CallInv, At
<1>11. \A v \in At(Unsent)' : requests'[task'[v].url] = 0
  <2> TAKE v \in At(Unsent)'
  <2>1. v # w /\ v \in At(Unsent) /\ v \in At(Leasing)
    BY <1>7, <1>8, Stages DEF At, Unsent
  <2> QED BY <1>2, <1>5, <1>6, <2>1 DEF CallInv
<1>12. \A v \in At(Fetched)' : requests'[task'[v].url] = 1 /\ handed'[task'[v].url] = 0
  <2> TAKE v \in At(Fetched)'
  <2>1. CASE v = w
    BY <1>1, <1>2, <1>4, <1>5, <2>1
  <2>2. CASE v # w
    <3>1. v \in At(Fetched) /\ v \in At(Leasing)
      BY <1>7, <2>2, Stages DEF At
    <3> QED BY <1>2, <1>5, <1>6, <2>2, <3>1 DEF CallInv
  <2> QED BY <2>1, <2>2
<1>13. CallsOK'
  BY <1>2, <1>4 DEF CallInv, CallsOK
<1>14. \A v \in Url : requests'[v] <= 1 /\ handed'[v] <= requests'[v]
  BY <1>2, <1>4, <1>5 DEF CallInv, CallsOK
<1> QED BY <1>9, <1>10, <1>11, <1>12, <1>13, <1>14 DEF CallInv

LEMMA WriteKeepsCalls ==
    ASSUME IInv, PageInv, CallInv, [Next]_vars, NEW w \in Worker, Write(w)
    PROVE  CallInv'
<1>1. PICK u : u = task[w].url
  OBVIOUS
<1>2. PICK to \in Place : Moved(w, to) /\ Successor(pc[w], to)
  <2>1. Process(w)
    BY DEF Process
  <2> QED BY <2>1, ProcessMoves
<1>3. /\ pc[w] = "write" /\ to = "drop"
      /\ handed' = [handed EXCEPT ![u] = @ + 1] /\ UNCHANGED <<requests, task>>
  BY <1>1, <1>2 DEF Write, Successor, Uncounted
<1>4. w \in At(Leasing) /\ w \in At(Fetched)
  BY <1>3 DEF At, Leasing, Fetched
<1>5. u \in Url /\ requests[u] = 1 /\ handed[u] = 0
  BY <1>1, <1>4 DEF IInv, TasksOK, At, F!Task, CallInv
<1>6. handed'[u] = 1 /\ \A v \in Url \ {u} : handed'[v] = handed[v]
  BY <1>3, <1>5 DEF CallInv, CallsOK
<1>7. /\ \A v \in At(Leasing)' : v \in At(Leasing)
      /\ \A v \in At(Unsent)' : v \in At(Unsent)
      /\ \A v \in At(Fetched)' : v \in At(Fetched) /\ v # w
  BY <1>2, <1>3, <1>4, Stages DEF Moved, At, Unsent, Fetched
<1>8. \A v \in Url : requests'[v] # 0 => Settled(v)' /\ Canon[v] = v
  BY <1>3, FetchedStay
<1>9. \A v \in At(Leasing)' : Canon[task'[v].url] = task'[v].url
  BY <1>3, <1>7 DEF CallInv
<1>10. \A v \in At(Unsent)' : requests'[task'[v].url] = 0
  BY <1>3, <1>7 DEF CallInv
<1>11. \A v \in At(Fetched)' : requests'[task'[v].url] = 1 /\ handed'[task'[v].url] = 0
  <2> TAKE v \in At(Fetched)'
  <2>1. v \in At(Fetched) /\ v \in At(Leasing) /\ v # w
    BY <1>7, Stages DEF At
  <2>2. task[v].url # u /\ task[v].url \in Url
    BY <1>1, <1>4, <2>1 DEF PageInv, IInv, TasksOK, At, F!Task
  <2> QED BY <1>3, <1>6, <2>1, <2>2 DEF CallInv
<1>12. CallsOK'
  BY <1>3, <1>5 DEF CallInv, CallsOK
<1>13. \A v \in Url : requests'[v] <= 1 /\ handed'[v] <= requests'[v]
  BY <1>3, <1>5, <1>6 DEF CallInv, CallsOK
<1> QED BY <1>8, <1>9, <1>10, <1>11, <1>12, <1>13 DEF CallInv

\* Only Send takes a worker from one stage to the next.
LEMMA StagesKept ==
    ASSUME IInv, NEW w \in Worker, Process(w), ~Send(w)
    PROVE  (pc'[w] \in Unsent => pc[w] \in Unsent) /\ (pc'[w] \in Fetched => pc[w] \in Fetched)
<1>0. pc \in [Worker -> Place]
  BY DEF IInv, Placed
<1>1. CASE Begin(w) \/ CheckRobots(w) \/ HearDelay(w)
  <2>1. pc[w] \in Unsent /\ \E to \in {"robots", "delay", "send", "fail"} : Goto(w, to)
    BY <1>1 DEF Begin, CheckRobots, HearDelay, Unsent
  <2> QED BY <1>0, <2>1 DEF Goto, Unsent, Fetched
<1>2. CASE Reply(w) \/ Lock(w) \/ Unlock(w)
  <2>1. pc[w] \in Fetched /\ \E to \in {"fail", "lock", "link", "tally"} : Goto(w, to)
    BY <1>2 DEF Reply, Lock, Unlock, Fetched
  <2> QED BY <1>0, <2>1 DEF Goto, Unsent, Fetched
<1>3. CASE Link(w)
  BY <1>3 DEF Link
<1>4. CASE Tally(w) \/ Write(w)
  <2>1. pc[w] \in Fetched /\ pc[w] # "fail"
    BY <1>4 DEF Tally, Write, Fetched
  <2>2. PICK to \in {"write", "drop"} : NotifyAndGoto(w, to) \/ Goto(w, to)
    BY <1>4 DEF Tally, Write, WriteOk, WriteErr, WritePanic, FailCrawl
  <2>3. pc'[w] = to
    BY <1>0, <2>2 DEF NotifyAndGoto, NotifyFrom, Goto
  <2> QED BY <2>1, <2>2, <2>3 DEF Unsent, Fetched
<1>5. CASE Fail(w) \/ Drop(w) \/ Complete(w) \/ Ring(w)
  <2>1. PICK to \in Place : Moved(w, to) /\ Successor(pc[w], to)
    BY ProcessMoves
  <2>2. CASE Fail(w)
    BY <1>0, <2>2 DEF Fail, Goto, Unsent, Fetched
  <2>3. CASE ~Fail(w)
    <3>1. pc[w] \in {"drop", "complete", "ring"}
      BY <1>5, <2>3 DEF Drop, Complete, Ring
    <3> QED BY <2>1, <3>1 DEF Moved, Successor, Unsent, Fetched, Uncounted
  <2> QED BY <2>2, <2>3
<1> QED BY <1>1, <1>2, <1>3, <1>4, <1>5 DEF Process

LEMMA CallInvKept == IInv /\ PageInv /\ CallInv /\ [Next]_vars => CallInv'
<1> SUFFICES ASSUME IInv, PageInv, CallInv, [Next]_vars PROVE CallInv'
  OBVIOUS
<1>1. CASE Run \/ User \/ Tick \/ UNCHANGED vars
  <2>1. UNCHANGED <<callVars, task>>
    BY <1>1 DEF Run, SeedNext, SeedEnd, Return, User, Tick, vars, outputVars, localVars, pageVars
  <2>2. \A w \in Worker : pc'[w] = pc[w] \/ pc'[w] = "top"
    BY <1>1, OthersMove
  <2>3. Stay(Leasing) /\ Stay(Unsent) /\ Stay(Fetched)
    BY <2>1, <2>2, Stages DEF Stay
  <2> QED BY <2>1, <2>3, CallsQuiet
<1>2. ASSUME NEW w \in Worker, Loop(w) PROVE CallInv'
  <2>1. CASE Ask(w) /\ AskReady(w)
    BY <2>1, LeaseKeepsCalls
  <2>2. CASE ~(Ask(w) /\ AskReady(w))
    <3>1. UNCHANGED <<callVars, task>>
      BY <1>2, <2>2 DEF Loop, CheckShutdown, CheckPaused, Ask, AskWait, AskOther, Farewell, Arm,
                        WakeUp, outputVars, localVars, pageVars
    <3>2. PICK to \in Place : Moved(w, to) /\ to \notin Leasing
      BY <1>2, <2>2, IdleMoves
    <3>3. Stay(Leasing) /\ Stay(Unsent) /\ Stay(Fetched)
      BY <3>1, <3>2, Stages DEF Stay, Moved
    <3> QED BY <3>1, <3>3, CallsQuiet
  <2> QED BY <2>1, <2>2
<1>3. ASSUME NEW w \in Worker, Process(w) PROVE CallInv'
  <2>1. CASE Send(w)
    BY <2>1, SendKeepsCalls
  <2>2. CASE Write(w)
    BY <2>2, WriteKeepsCalls
  <2>3. CASE ~Send(w) /\ ~Write(w)
    <3>1. PICK to \in Place : Moved(w, to) /\ Successor(pc[w], to)
      BY <1>3, ProcessMoves
    <3>2. UNCHANGED callVars /\ (UNCHANGED task \/ (to = "ring" /\ task' = [task EXCEPT ![w] = None]))
      <4>1. CASE Complete(w)
        BY <3>1, <4>1 DEF Complete, outputVars, Successor, Uncounted
      <4> QED BY <1>3, <2>3, <4>1
              DEF Process, Begin, CheckRobots, HearDelay, Reply, Lock, Link, Unlock, Tally,
                  Fail, Drop, Ring, outputVars, localVars, pageVars
    <3>3. Stay(Leasing)
      <4>1. pc[w] \in Leasing \cup {"ring"}
        BY <1>3 DEF Process, Begin, CheckRobots, HearDelay, Send, Reply, Lock, Link, Unlock, Tally,
                    Write, Fail, Drop, Complete, Ring, Leasing, Uncounted
      <4> QED BY <3>1, <3>2, <4>1, Places DEF Stay, Moved, Successor, Leasing, Uncounted, IInv, TasksOK
    <3>4. \A v \in Worker : /\ pc'[v] \in Unsent => pc[v] \in Unsent
                            /\ pc'[v] \in Fetched => pc[v] \in Fetched
      BY <1>3, <2>3, <3>1, StagesKept, Stages DEF Moved
    <3>5. Stay(Unsent) /\ Stay(Fetched)
      BY <3>3, <3>4, Stages DEF Stay
    <3> QED BY <3>2, <3>3, <3>5, CallsQuiet
  <2> QED BY <2>1, <2>2, <2>3
<1> QED BY <1>1, <1>2, <1>3 DEF Next, Done

LEMMA SpecCallInv == Spec => []CallInv
<1>1. Init => CallInv
  <2> SUFFICES ASSUME Init PROVE CallInv
    OBVIOUS
  <2>1. CallsOK /\ \A u \in Url : requests[u] = 0 /\ handed[u] = 0
    BY DEF Init, CallsOK
  <2>2. At(Leasing) = {} /\ At(Unsent) = {} /\ At(Fetched) = {}
    BY DEF Init, At, Leasing, Uncounted, Unsent, Fetched
  <2> QED BY <2>1, <2>2 DEF CallInv
<1> QED BY <1>1, SpecIInv, SpecPageInv, CallInvKept, PTL DEF Spec

(* Whatever pages, seeds and sitemaps name a URL, in whatever spelling, and *)
(* however many workers race for it: it is fetched at most once, also when  *)
(* that fails, and given to the sink at most once, and then after it was    *)
(* fetched, also when the sink refuses it or panics.  A leased URL is in no *)
(* queue and with no other worker, and can never be queued again.           *)
THEOREM OnePagePerUrlHolds == Spec => []OnePagePerUrl
<1>1. CallInv => OnePagePerUrl
  BY DEF CallInv, OnePagePerUrl
<1> QED BY <1>1, SpecCallInv, PTL

-----------------------------------------------------------------------------
(* What the rest of the module rests on. *)

Stopped == At({"stopped"}) # {} => shutdown

LEMMA StoppedKept == IInv /\ Stopped /\ [Next]_vars => Stopped'
<1> SUFFICES ASSUME IInv, Stopped, [Next]_vars, NEW x \in Worker, pc'[x] = "stopped"
             PROVE  shutdown'
  BY DEF Stopped, At
<1>1. shutdown => shutdown'
  <2>1. CASE Run \/ User \/ Tick \/ UNCHANGED vars
    BY <2>1 DEF Run, SeedNext, SeedEnd, Return, User, UserStop, UserPause, Tick, vars, controlVars
  <2>2. ASSUME NEW w \in Worker, Loop(w) PROVE shutdown => shutdown'
    BY <2>2 DEF Loop, CheckShutdown, CheckPaused, Ask, Farewell, Arm, WakeUp, controlVars
  <2>3. ASSUME NEW w \in Worker, Process(w) PROVE shutdown => shutdown'
    BY <2>3 DEF Process, Begin, CheckRobots, HearDelay, Send, Reply, Lock, Link, Unlock, Tally,
                Write, WriteOk, WriteErr, WritePanic, FailCrawl, Fail, Drop, Complete, Ring,
                controlVars
  <2> QED BY <2>1, <2>2, <2>3 DEF Next, Done
<1>2. CASE pc[x] = "stopped"
  BY <1>1, <1>2 DEF Stopped, At
<1>3. CASE pc[x] # "stopped"
  <2>1. ASSUME NEW w \in Worker, Loop(w) \/ Process(w) PROVE shutdown'
    <3>1. PICK to \in Place : Moved(w, to) /\ Successor(pc[w], to)
      BY <2>1, LoopMoves, ProcessMoves
    <3>2. x = w /\ pc[w] = "top"
      BY <1>3, <3>1 DEF Moved, Successor, Uncounted
    <3>3. CheckShutdown(w)
      BY <2>1, <3>2
         DEF Loop, Process, CheckShutdown, CheckPaused, Ask, Farewell, Arm, WakeUp, Begin,
             CheckRobots, HearDelay, Send, Reply, Lock, Link, Unlock, Tally, Write, Fail,
             Drop, Complete, Ring
    <3>4. pc'[w] = IF shutdown THEN "stopped" ELSE "gate"
      BY <3>3 DEF CheckShutdown, Goto, IInv, Placed
    <3> QED BY <1>1, <3>2, <3>4
  <2>2. CASE Run \/ User \/ Tick \/ UNCHANGED vars
    BY <1>3, <2>2, OthersMove
  <2> QED BY <2>1, <2>2 DEF Next, Done
<1> QED BY <1>2, <1>3

CrawlInv == IInv /\ PageInv /\ NoPrematureExit /\ Stopped

LEMMA SpecCrawlInv == Spec => []CrawlInv
<1>1. Init => Stopped
  BY DEF Init, Stopped, At
<1> QED BY <1>1, SpecIInv, SpecPageInv, NoPrematureExitHolds, StoppedKept, PTL DEF Spec, CrawlInv

-----------------------------------------------------------------------------
(* What the summary of run() counts. *)

(* Nothing is counted late: once the workers run, run() has published its   *)
(* count, and only a worker between its links and its tally has one.        *)
CountsPublished ==
    /\ main \in {"join", "returned"} => added = 0
    /\ \A w \in Worker : pc[w] \notin {"link", "tally"} => fresh[w] = 0

LEMMA CountsPublishedKept == IInv /\ CountsPublished /\ [Next]_vars => CountsPublished'
<1> SUFFICES ASSUME IInv, CountsPublished, [Next]_vars PROVE CountsPublished'
  OBVIOUS
<1>0. fresh \in [Worker -> Nat]
  BY DEF IInv, PagesOK
<1>1. ASSUME NEW w \in Worker, UNCHANGED <<main, added>>, \A v \in Worker \ {w} : fresh'[v] = fresh[v],
             NEW to \in Place, Moved(w, to), to \notin {"link", "tally"} => fresh'[w] = 0
      PROVE  CountsPublished'
  BY <1>1 DEF CountsPublished, Moved
<1>2. ASSUME NEW w \in Worker, Loop(w) PROVE CountsPublished'
  <2>1. PICK to \in Place : Moved(w, to)
    BY <1>2, LoopMoves
  <2>2. UNCHANGED <<main, added, fresh>> /\ pc[w] \notin {"link", "tally"}
    BY <1>2 DEF Loop, CheckShutdown, CheckPaused, Ask, Farewell, Arm, WakeUp, mainVars, localVars,
                pageVars
  <2> QED BY <1>1, <2>1, <2>2 DEF CountsPublished
<1>3. ASSUME NEW w \in Worker, Process(w) PROVE CountsPublished'
  <2>1. PICK to \in Place : Moved(w, to) /\ Successor(pc[w], to)
    BY <1>3, ProcessMoves
  <2>2. UNCHANGED <<main, added>>
    BY <1>3 DEF Process, Begin, CheckRobots, HearDelay, Send, Reply, Lock, Link, Unlock, Tally,
                Write, Fail, Drop, Complete, Ring, mainVars
  <2>3. CASE Link(w)
    <3>1. pc'[w] = "link"
      BY <2>3 DEF Link
    <3>2. \A v \in Worker \ {w} : fresh'[v] = fresh[v]
      BY <1>0, <2>3 DEF Link
    <3> QED BY <1>1, <2>1, <2>2, <3>1, <3>2 DEF Moved
  <2>4. CASE Tally(w)
    <3>1. fresh'[w] = 0 /\ \A v \in Worker \ {w} : fresh'[v] = fresh[v]
      BY <1>0, <2>4 DEF Tally
    <3> QED BY <1>1, <2>1, <2>2, <3>1
  <2>5. CASE Unlock(w)
    <3>1. UNCHANGED fresh /\ pc'[w] = "tally"
      BY <2>5 DEF Unlock, Goto, localVars, pageVars, IInv, Placed
    <3> QED BY <1>1, <2>1, <2>2, <3>1 DEF Moved
  <2>6. CASE ~(Link(w) \/ Tally(w) \/ Unlock(w))
    <3>1. UNCHANGED fresh /\ pc[w] \notin {"link", "tally"}
      BY <1>3, <2>6 DEF Process, Begin, CheckRobots, HearDelay, Send, Reply, Lock, Write, Fail, Drop,
                        Complete, Ring, localVars, pageVars
    <3> QED BY <1>1, <2>1, <2>2, <3>1 DEF CountsPublished
  <2> QED BY <2>3, <2>4, <2>5, <2>6
<1>4. CASE Run \/ User \/ Tick \/ UNCHANGED vars
  <2>1. \A w \in Worker : pc'[w] = pc[w] \/ (pc[w] \in {"asleep", "new"} /\ pc'[w] = "top")
    BY <1>4, OthersMove
  <2>2. UNCHANGED fresh
    BY <1>4 DEF Run, SeedNext, SeedEnd, Return, User, Tick, vars, localVars, pageVars
  <2>3. main' \in {"join", "returned"} => added' = 0
    <3>1. CASE SeedNext
      BY <3>1 DEF SeedNext
    <3>2. CASE SeedEnd
      BY <3>2 DEF SeedEnd
    <3>3. CASE Return
      BY <3>3 DEF Return, CountsPublished
    <3>4. CASE User \/ Tick \/ UNCHANGED vars
      BY <3>4 DEF User, Tick, vars, mainVars, CountsPublished
    <3> QED BY <1>4, <3>1, <3>2, <3>3, <3>4 DEF Run
  <2> QED BY <2>1, <2>2, <2>3 DEF CountsPublished
<1> QED BY <1>2, <1>3, <1>4 DEF Next, Done

\* The workers a panic took, or is about to take.
Panicked == unwinding \cup Lost

(* As long as the sink refuses nothing, the fetched pages are in it, or on  *)
(* their way to it, but for at most one page of each panicked worker.       *)
Delivered ==
    /\ IsFiniteSet(sink)
    /\ ~rejected =>
         /\ Cardinality(sink) + Cardinality(At({"write"})) <= stats.fetched
         /\ stats.fetched <= Cardinality(sink) + Cardinality(At({"write"})) + Cardinality(Panicked)

LEMMA DeliveredQuiet ==
    ASSUME IInv, Delivered, UNCHANGED <<sink, rejected>>, stats'.fetched = stats.fetched,
           At({"write"})' = At({"write"}), Panicked \subseteq Panicked', Panicked' \subseteq Worker
    PROVE  Delivered'
<1>1. /\ Cardinality(Panicked) \in Nat /\ Cardinality(Panicked') \in Nat
      /\ Cardinality(Panicked) <= Cardinality(Panicked')
  <2>1. IsFiniteSet(Panicked') /\ IsFiniteSet(Panicked)
    BY EngineAssumption, FS_Subset
  <2> QED BY <2>1, FS_Subset, FS_CardinalityType
<1>2. Cardinality(At({"write"})) \in Nat
  <2>1. IsFiniteSet(At({"write"}))
    BY EngineAssumption, FS_Subset DEF At
  <2> QED BY <2>1, FS_CardinalityType
<1>3. stats.fetched \in Nat
  BY DEF IInv, Leases
<1>4. Cardinality(sink) \in Nat
  BY FS_CardinalityType DEF Delivered
<1>5. Cardinality(sink)' = Cardinality(sink) /\ Cardinality(At({"write"}))' = Cardinality(At({"write"}))
  OBVIOUS
<1>6. Cardinality(Panicked)' = Cardinality(Panicked')
  OBVIOUS
<1> QED BY <1>1, <1>2, <1>3, <1>4, <1>5, <1>6 DEF Delivered

\* What a worker's move does to the two sets.
LEMMA DeliveryMove ==
    ASSUME IInv, NEW w \in Worker, NEW to, Moved(w, to), Successor(pc[w], to)
    PROVE  /\ to # "write" /\ pc[w] # "write" => At({"write"})' = At({"write"})
           /\ to # "dead" => Lost' = Lost
           /\ to = "dead" => Lost' = Lost \cup {w}
BY DEF Moved, Successor, At, Lost, Uncounted

LEMMA WriteDelivers ==
    ASSUME IInv, PageInv, Delivered, NEW w \in Worker, Write(w)
    PROVE  Delivered'
<1>1. PICK to \in Place : Moved(w, to) /\ Successor(pc[w], to)
  <2>1. Process(w)
    BY DEF Process
  <2> QED BY <2>1, ProcessMoves
<1>2. pc[w] = "write" /\ to = "drop" /\ UNCHANGED <<task, stats>>
  BY <1>1 DEF Write, Successor, Uncounted
<1>3. /\ Cardinality(At({"write"}))' = Cardinality(At({"write"})) - 1
      /\ Cardinality(At({"write"})) \in Nat /\ Cardinality(At({"write"})) > 0
      /\ Lost' = Lost
  <2>1. Placed
    BY DEF IInv
  <2>2. Lost' = Lost
    BY <1>1, <1>2, DeliveryMove
  <2>3. /\ Cardinality(At({"write"})') = Cardinality(At({"write"})) + 0 - 1
        /\ Cardinality(At({"write"})) \in Nat /\ Cardinality(At({"write"})) > 0
    BY <1>1, <1>2, <2>1, Count
  <2> QED BY <2>2, <2>3
<1>4. /\ IsFiniteSet(sink) /\ Cardinality(sink) \in Nat /\ stats.fetched \in Nat
      /\ IsFiniteSet(Panicked) /\ Cardinality(Panicked) \in Nat /\ w \notin Panicked
  <2>1. Panicked \subseteq Worker /\ w \notin Panicked
    BY <1>2 DEF Panicked, Lost, At, IInv, PagesOK
  <2>2. IsFiniteSet(Panicked)
    BY <2>1, EngineAssumption, FS_Subset
  <2> QED BY <2>1, <2>2, FS_CardinalityType DEF Delivered, IInv, Leases
<1>5. CASE WriteOk(w)
  <2> DEFINE p == [url |-> task[w].url, depth |-> task[w].depth, links |-> found[w]]
  <2>1. sink' = sink \cup {p} /\ UNCHANGED <<rejected, unwinding>>
    BY <1>5 DEF WriteOk
  <2>2. p \notin sink
    <3>1. w \in At(Unwritten)
      BY <1>2 DEF At, Unwritten
    <3>2. p.url = task[w].url
      OBVIOUS
    <3> HIDE DEF p
    <3> QED BY <3>1, <3>2 DEF PageInv
  <2> HIDE DEF p
  <2>3. IsFiniteSet(sink') /\ Cardinality(sink') = Cardinality(sink) + 1
    BY <1>4, <2>1, <2>2, FS_AddElement
  <2>4. Panicked' = Panicked
    BY <1>3, <2>1 DEF Panicked
  <2>5. Cardinality(Panicked)' = Cardinality(Panicked)
    BY <2>4
  <2> QED BY <1>2, <1>3, <1>4, <2>1, <2>3, <2>5 DEF Delivered
<1>6. CASE WriteErr(w)
  <2>1. rejected' /\ sink' = sink
    BY <1>6 DEF WriteErr
  <2> QED BY <1>4, <2>1 DEF Delivered
<1>7. CASE WritePanic(w)
  <2>1. /\ unwinding' = unwinding \cup {w} /\ UNCHANGED <<sink, rejected>>
    BY <1>7 DEF WritePanic
  <2>2. Panicked' = Panicked \cup {w}
    BY <1>3, <2>1 DEF Panicked
  <2>3. Cardinality(Panicked)' = Cardinality(Panicked) + 1
    BY <1>4, <2>2, FS_AddElement
  <2>4. Cardinality(sink)' = Cardinality(sink)
    BY <2>1
  <2> QED BY <1>2, <1>3, <1>4, <2>1, <2>3, <2>4 DEF Delivered
<1> QED BY <1>5, <1>6, <1>7 DEF Write

LEMMA TallyDelivers ==
    ASSUME IInv, Delivered, NEW w \in Worker, Tally(w)
    PROVE  Delivered'
<1>1. PICK to \in Place : Moved(w, to) /\ Successor(pc[w], to)
  <2>1. Process(w)
    BY DEF Process
  <2> QED BY <2>1, ProcessMoves
<1>2. pc[w] = "tally" /\ to = "write" /\ UNCHANGED <<sink, rejected, unwinding>>
  <2>1. pc[w] = "tally" /\ UNCHANGED <<sink, rejected, unwinding>>
    BY DEF Tally
  <2>2. NotifyAndGoto(w, "write") \/ Goto(w, "write")
    BY DEF Tally
  <2>3. pc'[w] = "write"
    BY <2>2 DEF NotifyAndGoto, NotifyFrom, Goto, IInv, Placed
  <2> QED BY <1>1, <2>1, <2>3 DEF Moved
<1>3. /\ Cardinality(At({"write"}))' = Cardinality(At({"write"})) + 1
      /\ Cardinality(At({"write"})) \in Nat
  <2>1. Placed
    BY DEF IInv
  <2>2. /\ Cardinality(At({"write"})') = Cardinality(At({"write"})) + 1 - 0
        /\ Cardinality(At({"write"})) \in Nat
    BY <1>1, <1>2, <2>1, Count
  <2> QED BY <2>2
<1>4. Cardinality(Panicked)' = Cardinality(Panicked) /\ Cardinality(sink)' = Cardinality(sink)
  <2>1. Panicked' = Panicked
    BY <1>1, <1>2, DeliveryMove DEF Panicked
  <2> QED BY <1>2, <2>1
<1>5. stats'.fetched = stats.fetched + 1 /\ stats.fetched \in Nat
  BY DEF Tally, IInv, Leases
<1>6. Cardinality(sink) \in Nat /\ Cardinality(Panicked) \in Nat
  <2>1. Panicked \subseteq Worker
    BY DEF Panicked, Lost, At, IInv, PagesOK
  <2>2. IsFiniteSet(Panicked)
    BY <2>1, EngineAssumption, FS_Subset
  <2> QED BY <2>2, FS_CardinalityType DEF Delivered
<1> QED BY <1>2, <1>3, <1>4, <1>5, <1>6 DEF Delivered

LEMMA DeliveredKept == IInv /\ PageInv /\ Delivered /\ [Next]_vars => Delivered'
<1> SUFFICES ASSUME IInv, PageInv, Delivered, [Next]_vars PROVE Delivered'
  OBVIOUS
<1>0. Panicked' \subseteq Worker
  <2>1. IInv'
    BY NextIInv
  <2> QED BY <2>1 DEF Panicked, Lost, At, IInv, PagesOK
<1>1. ASSUME NEW w \in Worker, Loop(w) PROVE Delivered'
  <2>1. PICK to \in Place : Moved(w, to) /\ Successor(pc[w], to)
    BY <1>1, LoopMoves
  <2>2. UNCHANGED <<sink, rejected, stats, unwinding>> /\ pc[w] \notin Leasing \cup {"ring"}
    BY <1>1 DEF Loop, CheckShutdown, CheckPaused, Ask, Farewell, Arm, WakeUp, outputVars, localVars,
                pageVars, Leasing, Uncounted
  <2>3. pc[w] # "write" /\ to # "write" /\ to # "dead"
    BY <2>1, <2>2 DEF Successor, Leasing, Uncounted
  <2> QED BY <1>0, <2>1, <2>2, <2>3, DeliveryMove, DeliveredQuiet DEF Panicked
<1>2. ASSUME NEW w \in Worker, Process(w) PROVE Delivered'
  <2>1. PICK to \in Place : Moved(w, to) /\ Successor(pc[w], to)
    BY <1>2, ProcessMoves
  <2>2. CASE Fail(w)
    <3>1. /\ pc[w] = "fail" /\ UNCHANGED <<sink, rejected>> /\ unwinding \subseteq unwinding'
          /\ stats' = [stats EXCEPT !.failed = @ + 1] /\ pc'[w] = "drop"
      BY <2>2 DEF Fail, Goto, IInv, Placed
    <3>2. to = "drop" /\ stats'.fetched = stats.fetched
      BY <2>1, <3>1 DEF Moved, IInv, Leases
    <3> QED BY <1>0, <2>1, <3>1, <3>2, DeliveryMove, DeliveredQuiet DEF Panicked
  <2>3. CASE Ring(w)
    <3>1. /\ pc[w] = "ring" /\ UNCHANGED <<sink, rejected, stats>> /\ unwinding' = unwinding \ {w}
          /\ pc'[w] = IF w \in unwinding THEN "dead" ELSE "top"
      BY <2>3 DEF Ring, NotifyAndGoto, NotifyFrom, outputVars, IInv, Placed
    <3>2. to = IF w \in unwinding THEN "dead" ELSE "top"
      BY <2>1, <3>1 DEF Moved
    <3>3. Panicked \subseteq Panicked' /\ At({"write"})' = At({"write"})
      BY <2>1, <3>1, <3>2, DeliveryMove DEF Panicked
    <3> QED BY <1>0, <3>1, <3>3, DeliveredQuiet
  <2>4. CASE ~(Tally(w) \/ Write(w) \/ Fail(w) \/ Ring(w))
    <3>1. /\ UNCHANGED <<sink, rejected, unwinding>> /\ pc[w] \notin {"tally", "write", "ring"}
          /\ pc[w] \in Leasing
      BY <1>2, <2>4 DEF Process, Begin, CheckRobots, HearDelay, Send, Reply, Lock, Link, Unlock,
                        Drop, Complete, outputVars, localVars, pageVars, Leasing, Uncounted
    <3>2. to \notin {"dead", "write"}
      <4>1. pc'[w] # "write"
        BY <1>2, <2>4, <3>1 DEF Process, Begin, CheckRobots, HearDelay, Send, Reply, Lock, Link,
                        Unlock, Drop, Complete, Goto, IInv, Placed
      <4> QED BY <2>1, <3>1, <4>1 DEF Successor, Leasing, Uncounted, Moved
    <3>3. stats'.fetched = stats.fetched
      <4>1. \/ UNCHANGED stats
            \/ stats' = [stats EXCEPT !.in_flight = @ + 1]
            \/ stats' = [stats EXCEPT !.in_flight = @ - 1]
        BY <1>2, <2>4 DEF Process, Begin, CheckRobots, HearDelay, Send, Reply, Lock, Link, Unlock,
                          Drop, Complete, outputVars
      <4> QED BY <4>1 DEF IInv, Leases
    <3> QED BY <1>0, <2>1, <3>1, <3>2, <3>3, DeliveryMove, DeliveredQuiet DEF Panicked
  <2> QED BY <2>2, <2>3, <2>4, WriteDelivers, TallyDelivers
<1>3. CASE Run \/ User \/ Tick \/ UNCHANGED vars
  <2>1. \A w \in Worker : pc'[w] = pc[w] \/ (pc[w] \in {"asleep", "new"} /\ pc'[w] = "top")
    BY <1>3, OthersMove
  <2>2. At({"write"})' = At({"write"}) /\ Lost' = Lost
    BY <2>1 DEF At, Lost
  <2>3. UNCHANGED <<sink, rejected, unwinding>> /\ stats'.fetched = stats.fetched
    <3>1. CASE SeedEnd
      BY <3>1 DEF SeedEnd, localVars, pageVars, IInv, Leases
    <3> QED BY <1>3, <3>1 DEF Run, SeedNext, Return, User, Tick, vars, outputVars, localVars, pageVars
  <2> QED BY <1>0, <2>2, <2>3, DeliveredQuiet DEF Panicked
<1> QED BY <1>1, <1>2, <1>3 DEF Next, Done

SummaryInv == CrawlInv /\ CountsPublished /\ Delivered /\ SinkInv /\ Discoveries

LEMMA SpecSummaryInv == Spec => []SummaryInv
<1>1. Init => CountsPublished /\ Delivered /\ SinkInv
  <2> SUFFICES ASSUME Init PROVE CountsPublished /\ Delivered /\ SinkInv
    OBVIOUS
  <2>1. CountsPublished
    BY DEF Init, CountsPublished
  <2>2. SinkInv
    BY DEF Init, SinkInv
  <2>3. sink = {} /\ At({"write"}) = {} /\ stats.fetched = 0 /\ Panicked = {}
    BY DEF Init, At, Panicked, Lost
  <2>4. IsFiniteSet({}) /\ Cardinality({}) = 0
    BY FS_EmptySet
  <2> QED BY <2>1, <2>2, <2>3, <2>4 DEF Delivered
<1> QED BY <1>1, SpecIInv, SpecPageInv, SpecCrawlInv, SpecDiscoveries, CountsPublishedKept, DeliveredKept,
           SinkInvKept, PTL DEF Spec, SummaryInv

\* The state that run() returns Ok in.
LEMMA SummaryIsExactThen ==
    ASSUME SummaryInv, result = "ok"
    PROVE  /\ stats.discovered = Cardinality(seen)
           /\ stats.in_flight = 0
           /\ Cardinality(sink) <= stats.fetched
           /\ stats.fetched <= Cardinality(sink) + Cardinality(Lost)
           /\ Lost # Worker /\ ~shutdown /\ ~F!BudgetExhausted =>
                  stats.fetched + stats.failed = stats.discovered
<1>1. main = "returned" /\ ~rejected /\ \A w \in Worker : pc[w] \in Ended
  <2>1. main = "returned"
    BY EngineAssumption DEF SummaryInv, SinkInv
  <2> QED BY <2>1 DEF SummaryInv, SinkInv, CrawlInv, IInv, Phases
<1>2. /\ At(Leasing) = {} /\ At(Uncounted) = {} /\ At(Leasing \ {"begin", "complete"}) = {}
      /\ At({"write"}) = {} /\ Panicked = Lost
  BY <1>1 DEF At, Leasing, Uncounted, Ended, Panicked, SummaryInv, CrawlInv, IInv, PagesOK
<1>3. Cardinality({}) = 0
  BY FS_EmptySet
<1>4. stats.in_flight = 0 /\ dispatched = stats.fetched + stats.failed + 0
  BY <1>2, <1>3 DEF SummaryInv, CrawlInv, IInv, Leases
<1>5. stats.discovered = Cardinality(seen)
  <2>1. added = 0 /\ \A w \in Worker : fresh[w] = 0
    BY <1>1 DEF SummaryInv, CountsPublished, Ended
  <2>2. fresh \in [Worker -> Nat] /\ stats.discovered \in Nat
    BY DEF SummaryInv, CrawlInv, IInv, PagesOK, Leases
  <2>3. Total(fresh) = 0
    BY <2>1, <2>2, SumOfZeros, EngineAssumption
  <2> QED BY <2>1, <2>2, <2>3 DEF SummaryInv, Discoveries
<1>6. /\ stats.fetched \in Nat /\ stats.failed \in Nat /\ Cardinality(sink) \in Nat
      /\ Cardinality(Lost) \in Nat
  <2>1. IsFiniteSet(Lost)
    BY EngineAssumption, FS_Subset DEF Lost, At
  <2> QED BY <2>1, FS_CardinalityType DEF SummaryInv, Delivered, CrawlInv, IInv, Leases
<1>7. Cardinality(sink) <= stats.fetched /\ stats.fetched <= Cardinality(sink) + Cardinality(Lost)
  <2>1. Cardinality(At({"write"})) = 0 /\ Cardinality(Panicked) = Cardinality(Lost)
    BY <1>2, <1>3
  <2>2. /\ Cardinality(sink) + Cardinality(At({"write"})) <= stats.fetched
        /\ stats.fetched <= Cardinality(sink) + Cardinality(At({"write"})) + Cardinality(Panicked)
    BY <1>1 DEF SummaryInv, Delivered
  <2> QED BY <1>6, <2>1, <2>2
<1>8. ASSUME Lost # Worker, ~shutdown, ~F!BudgetExhausted
      PROVE  stats.fetched + stats.failed = stats.discovered
  <2>1. PICK w \in Worker : pc[w] \in {"drained", "stopped"}
    BY <1>1, <1>8 DEF Lost, At, Ended
  <2>2. pc[w] = "drained"
    BY <1>8, <2>1 DEF SummaryInv, CrawlInv, Stopped, At
  <2>3. F!Pending = {}
    BY <1>8, <2>2 DEF SummaryInv, CrawlInv, NoPrematureExit, At
  <2>4. FP!QueuedUrls = {}
    BY <2>3 DEF F!Pending, FP!QueuedUrls
  <2>5. queued = 0
    <3>1. queued = Cardinality(FP!QueuedUrls)
      BY SameCardinality DEF SummaryInv, CrawlInv, IInv, FP!IInv, FP!Accounting
    <3> QED BY <1>3, <2>4, <3>1
  <2>6. dispatched + queued = Cardinality(seen) /\ dispatched \in Nat
    BY SameCardinality DEF SummaryInv, CrawlInv, IInv, FP!IInv, FP!Accounting, FP!TypeOK
  <2> QED BY <1>4, <1>5, <1>6, <2>5, <2>6
<1> QED BY <1>4, <1>5, <1>7, <1>8

(* What run() returns with Ok is exact, whatever workers panicked and in    *)
(* whatever order the counters were updated: every accepted URL is counted, *)
(* the fetched pages are those the sink has but for one of each lost        *)
(* worker, and an uncut crawl has tried every URL.                          *)
THEOREM SummaryIsExactHolds == Spec => []SummaryIsExact
<1>1. SummaryInv => SummaryIsExact
  BY SummaryIsExactThen DEF SummaryIsExact
<1> QED BY <1>1, SpecSummaryInv, PTL

-----------------------------------------------------------------------------
(* A link to a host that was never leased is not slept over. *)

\* Only a worker that is about to sleep, or asleep, has an alarm.
AlarmsOff == \A w \in Worker : pc[w] \notin {"unarmed", "asleep"} => alarm[w] = 0

\* w sleeps, or will, for a politeness delay.
LongAsleep(w) ==
    \/ pc[w] = "unarmed" /\ alarm[w] > 0
    \/ pc[w] = "asleep" /\ alarm[w] > now

Alert(w) == pc[w] \notin Ended /\ ~LongAsleep(w)

NewHostWaits == \E h \in F!Pending : next_allowed[h] = None

(* Unlike NoIdleCrew this looks at a worker before it is asleep, too: a     *)
(* wake-up that comes now would be missed by it.                            *)
SomeoneAlert ==
    main = "join" /\ Lost = {} /\ ~shutdown /\ ~F!BudgetExhausted /\ NewHostWaits
        => \E w \in Worker : Alert(w)

\* What a worker's step does to the others, and to its own alarm.
LEMMA LoopAlarms ==
    ASSUME IInv, NEW w \in Worker, Loop(w)
    PROVE  /\ \A v \in Worker \ {w} :
                \/ pc'[v] = pc[v] /\ alarm'[v] = alarm[v]
                \/ pc[v] = "asleep" /\ pc'[v] = "top" /\ alarm'[v] = 0
           /\ \/ pc'[w] \in {"stopped", "gate", "ask", "begin", "farewell", "unarmed"}
                   /\ alarm'[w] = alarm[w] /\ pc[w] \in {"top", "gate", "ask"}
              \/ pc[w] = "ask" /\ pc'[w] = "unarmed" /\ AskWait(w)
              \/ pc[w] = "farewell" /\ pc'[w] = "drained" /\ alarm'[w] = alarm[w]
              \/ pc[w] = "unarmed" /\ pc'[w] = "asleep" /\ alarm'[w] = now + alarm[w]
              \/ pc[w] = "asleep" /\ pc'[w] = "top" /\ alarm'[w] = 0
<1> USE DEF IInv, Placed
<1>1. CASE CheckShutdown(w) \/ CheckPaused(w)
  BY <1>1 DEF CheckShutdown, CheckPaused, Goto, localVars
<1>2. CASE Ask(w)
  <2>1. CASE AskWait(w)
    <3>1. alarm' = [alarm EXCEPT ![w] = F!WaitTime] /\ pc' = [pc EXCEPT ![w] = "unarmed"]
      BY <2>1 DEF AskWait, Goto
    <3> QED BY <1>2, <2>1, <3>1 DEF Ask
  <2>2. CASE AskReady(w) \/ AskOther(w)
    BY <1>2, <2>2 DEF Ask, AskReady, AskOther, Goto
  <2> QED BY <1>2, <2>1, <2>2 DEF Ask
<1>3. CASE Farewell(w)
  BY <1>3 DEF Farewell, NotifyAndGoto, NotifyFrom
<1>4. CASE Arm(w) \/ WakeUp(w)
  BY <1>4 DEF Arm, WakeUp, Goto
<1> QED BY <1>1, <1>2, <1>3, <1>4 DEF Loop

LEMMA ProcessAlarms ==
    ASSUME IInv, NEW w \in Worker, Process(w)
    PROVE  /\ \A v \in Worker \ {w} :
                \/ pc'[v] = pc[v] /\ alarm'[v] = alarm[v]
                \/ pc[v] = "asleep" /\ pc'[v] = "top" /\ alarm'[v] = 0
           /\ pc[w] \notin {"unarmed", "asleep"} /\ pc'[w] \notin {"unarmed", "asleep"}
           /\ alarm'[w] = alarm[w]
<1> USE DEF IInv, Placed
<1>1. CASE CheckRobots(w) \/ HearDelay(w) \/ Send(w) \/ Reply(w) \/ Lock(w) \/ Unlock(w) \/ Begin(w)
           \/ Fail(w) \/ Drop(w) \/ Complete(w)
  <2>1. UNCHANGED alarm /\ pc[w] \notin {"unarmed", "asleep"}
    BY <1>1 DEF localVars, CheckRobots, HearDelay, Send, Reply, Lock, Unlock, Begin, Fail, Drop,
                Complete
  <2>2. \E to \in Place \ {"unarmed", "asleep"} : Goto(w, to)
    BY <1>1 DEF CheckRobots, HearDelay, Send, Reply, Lock, Unlock, Begin, Fail, Drop, Complete, Place,
                Leasing, Uncounted
  <2> QED BY <2>1, <2>2 DEF Goto
<1>2. CASE Link(w)
  BY <1>2 DEF Link
<1>3. CASE Tally(w) \/ Write(w) \/ Ring(w)
  <2>1. PICK to \in {"write", "drop", "dead", "top"} :
           NotifyAndGoto(w, to) \/ (Goto(w, to) /\ UNCHANGED alarm)
    BY <1>3 DEF Tally, Write, WriteOk, WriteErr, WritePanic, FailCrawl, Ring
  <2>2. pc[w] \notin {"unarmed", "asleep"}
    BY <1>3 DEF Tally, Write, Ring
  <2> QED BY <2>1, <2>2 DEF NotifyAndGoto, NotifyFrom, Goto
<1> QED BY <1>1, <1>2, <1>3 DEF Process

LEMMA OtherAlarms ==
    ASSUME IInv, Run \/ User \/ Tick \/ UNCHANGED vars, NEW w \in Worker
    PROVE  \/ pc'[w] = pc[w] /\ alarm'[w] = alarm[w]
           \/ pc[w] = "asleep" /\ pc'[w] = "top" /\ alarm'[w] = 0
           \/ pc[w] = "new" /\ pc'[w] = "top" /\ alarm'[w] = alarm[w]
<1>1. CASE SeedEnd
  <2>1. \A v \in Worker : pc[v] = "new"
    BY <1>1 DEF SeedEnd, IInv, Phases
  <2>2. (UNCHANGED pc \/ pc' = [v \in Worker |-> "top"]) /\ UNCHANGED alarm
    BY <1>1 DEF SeedEnd, localVars
  <2> QED BY <2>1, <2>2
<1>2. CASE User
  BY <1>2 DEF User, Notify, NotifyFrom
<1> QED BY <1>1, <1>2 DEF Run, SeedNext, Return, Tick, vars, localVars

LEMMA AlarmsOffKept == IInv /\ AlarmsOff /\ [Next]_vars => AlarmsOff'
<1> SUFFICES ASSUME IInv, AlarmsOff, [Next]_vars, NEW x \in Worker, pc'[x] \notin {"unarmed", "asleep"}
             PROVE  alarm'[x] = 0
  BY DEF AlarmsOff
<1>1. ASSUME NEW w \in Worker, Loop(w) PROVE alarm'[x] = 0
  BY <1>1, LoopAlarms DEF AlarmsOff
<1>2. ASSUME NEW w \in Worker, Process(w) PROVE alarm'[x] = 0
  BY <1>2, ProcessAlarms DEF AlarmsOff
<1>3. CASE Run \/ User \/ Tick \/ UNCHANGED vars
  BY <1>3, OtherAlarms DEF AlarmsOff
<1> QED BY <1>1, <1>2, <1>3 DEF Next, Done

\* The answer Wait is not given while a host never leased has a task.
LEMMA NoWaitForNew ==
    ASSUME IInv, NewHostWaits
    PROVE  ~F!LeaseWaits
<1> SUFFICES ASSUME F!LeaseWaits PROVE FALSE
  OBVIOUS
<1>1. PICK h \in F!Pending : next_allowed[h] = None
  BY DEF NewHostWaits
<1>2. PICK g \in F!Earliest : F!AllowedAt(g) > now
  BY DEF F!LeaseWaits
<1>3. F!AllowedAt(g) <= F!AllowedAt(h) /\ F!AllowedAt(h) = now /\ g \in Host
  BY <1>1, <1>2 DEF F!Earliest, F!AllowedAt, F!Pending
<1>4. now \in Nat /\ next_allowed \in [Host -> Nat \cup {None}]
  BY DEF IInv, FP!IInv, FP!TypeOK
<1>5. F!AllowedAt(g) \in Nat
  BY <1>3, <1>4 DEF F!AllowedAt
<1> QED BY <1>2, <1>3, <1>4, <1>5

\* A host never leased gets its first task from a seed or a link.
LEMMA NewHostComes ==
    ASSUME IInv, [Next]_vars, NewHostWaits', ~NewHostWaits
    PROVE  (\E w \in Worker : Link(w)) \/ SeedNext
<1>1. F!Pending \in SUBSET Host /\ next_allowed \in [Host -> Nat \cup {None}] /\ now \in Nat
      /\ None \notin Nat /\ queues \in [Host -> Seq(F!Task)]
  BY EngineAssumption, SameFrontier DEF F!Pending, F!FrontierAssumption, IInv, FP!IInv, F!TypeOK
<1>2. ASSUME UNCHANGED <<queues, next_allowed>> PROVE FALSE
  BY <1>2 DEF NewHostWaits, F!Pending
<1>3. ASSUME NEW h \in Host, F!Lease(h) PROVE FALSE
  <2>1. next_allowed' = [next_allowed EXCEPT ![h] = now + F!DelayFor(h)]
        /\ queues' = [queues EXCEPT ![h] = Tail(@)]
    BY <1>3 DEF F!Lease
  <2>2. F!DelayFor(h) \in Nat
    BY EngineAssumption DEF IInv, FP!IInv, FP!TypeOK, F!DelayFor, F!FrontierAssumption
  <2>3. PICK g \in Host : queues'[g] # <<>> /\ next_allowed'[g] = None
    BY DEF NewHostWaits, F!Pending
  <2>4. g # h
    <3>1. next_allowed'[h] = now + F!DelayFor(h)
      BY <1>1, <2>1
    <3> QED BY <1>1, <2>2, <2>3, <3>1
  <2>5. queues[g] # <<>> /\ next_allowed[g] = None
    BY <1>1, <2>1, <2>3, <2>4
  <2> QED BY <2>5 DEF NewHostWaits, F!Pending
<1>4. ASSUME NEW w \in Worker, Loop(w) PROVE FALSE
  <2>1. (\E h \in Host : F!Lease(h)) \/ UNCHANGED <<queues, next_allowed>>
    BY <1>4 DEF Loop, CheckShutdown, CheckPaused, Ask, AskReady, AskWait, AskOther, Farewell, Arm,
                WakeUp, frontierVars
  <2> QED BY <1>2, <1>3, <2>1
<1>5. ASSUME NEW w \in Worker, Process(w), ~Link(w) PROVE FALSE
  <2>1. UNCHANGED <<queues, next_allowed>>
    <3>1. CASE HearDelay(w) \/ Complete(w)
      BY <3>1 DEF HearDelay, F!SetHostDelay, Complete, F!Complete, frontierVars
    <3> QED BY <1>5, <3>1 DEF Process, Begin, CheckRobots, Send, Reply, Lock, Unlock, Tally, Write,
                              Fail, Drop, Ring, frontierVars
  <2> QED BY <1>2, <2>1
<1>6. CASE SeedEnd \/ Return \/ User \/ Tick \/ UNCHANGED vars
  BY <1>2, <1>6 DEF SeedEnd, Return, User, Tick, F!Tick, vars, frontierVars
<1> QED BY <1>4, <1>5, <1>6 DEF Next, Run, Done

LEMMA SomeoneAlertKept ==
    CrawlInv /\ AlarmsOff /\ SomeoneAlert /\ [Next]_vars => SomeoneAlert'
<1> SUFFICES ASSUME CrawlInv, AlarmsOff, SomeoneAlert, [Next]_vars,
                    main' = "join", Lost' = {}, ~shutdown', ~F!BudgetExhausted', NewHostWaits'
             PROVE  \E w \in Worker : Alert(w)'
  BY DEF SomeoneAlert
<1>0. IInv /\ now \in Nat /\ alarm \in [Worker -> Nat]
  BY DEF CrawlInv, IInv, FP!IInv, FP!TypeOK, Placed
<1>1. CASE \E w \in Worker : Link(w)
  <2>1. PICK w \in Worker : Link(w)
    BY <1>1
  <2>2. pc'[w] = "link"
    BY <2>1 DEF Link
  <2> QED BY <2>2 DEF Alert, LongAsleep, Ended
<1>2. CASE main # "join"
  <2>1. SeedEnd
    <3>1. CASE Run
      BY <1>2, <3>1 DEF Run, SeedNext, Return
    <3>2. UNCHANGED main \/ Run
      BY DEF Next, Loop, CheckShutdown, CheckPaused, Ask, Farewell, Arm, WakeUp, Process, Begin,
             CheckRobots, HearDelay, Send, Reply, Lock, Link, Unlock, Tally, Write, Fail, Drop,
             Complete, Ring, User, Tick, Done, vars, mainVars
    <3> QED BY <1>2, <3>1, <3>2
  <2>2. pc' = [w \in Worker |-> "top"]
    BY <2>1 DEF SeedEnd
  <2> QED BY <2>2, EngineAssumption DEF Alert, LongAsleep, Ended
<1>3. CASE main = "join" /\ ~\E w \in Worker : Link(w)
  <2>1. NewHostWaits
    <3>1. ~SeedNext
      BY <1>3 DEF SeedNext
    <3> QED BY <1>0, <1>3, <3>1, NewHostComes
  <2>2. ~F!BudgetExhausted
    BY <1>0, BudgetStays
  <2>3. ~shutdown /\ Lost = {}
    <3>1. CASE Run \/ User \/ Tick \/ UNCHANGED vars
      <4>1. shutdown => shutdown'
        BY <3>1 DEF Run, SeedNext, SeedEnd, Return, User, UserStop, UserPause, Tick, vars, controlVars
      <4>2. \A w \in Worker : pc[w] = "dead" => pc'[w] = "dead"
        BY <1>0, <3>1, OthersMove
      <4> QED BY <4>1, <4>2 DEF Lost, At
    <3>2. ASSUME NEW w \in Worker, Loop(w) \/ Process(w) PROVE ~shutdown /\ Lost = {}
      <4>1. PICK to \in Place : Moved(w, to) /\ Successor(pc[w], to)
        BY <1>0, <3>2, LoopMoves, ProcessMoves
      <4>2. Lost \subseteq Lost'
        BY <4>1 DEF Moved, Successor, Lost, At, Uncounted
      <4>3. shutdown => shutdown'
        BY <3>2 DEF Loop, CheckShutdown, CheckPaused, Ask, Farewell, Arm, WakeUp, Process, Begin,
                    CheckRobots, HearDelay, Send, Reply, Lock, Link, Unlock, Tally, Write, WriteOk,
                    WriteErr, WritePanic, FailCrawl, Fail, Drop, Complete, Ring, controlVars
      <4> QED BY <4>2, <4>3
    <3> QED BY <3>1, <3>2 DEF Next, Done
  <2>4. PICK x \in Worker : Alert(x)
    BY <1>3, <2>1, <2>2, <2>3 DEF SomeoneAlert
  <2>5. F!Pending # {}
    BY <2>1 DEF NewHostWaits
  <2>6. pc[x] # "farewell"
    BY <2>2, <2>5 DEF CrawlInv, NoPrematureExit, At
  <2>7. ASSUME pc'[x] = pc[x], alarm'[x] = alarm[x], now' \in Nat, now' >= now PROVE Alert(x)'
    BY <1>0, <2>4, <2>7 DEF Alert, LongAsleep
  <2>8. ASSUME pc'[x] = "top" PROVE Alert(x)'
    BY <2>8 DEF Alert, LongAsleep, Ended
  <2>9. ASSUME NEW w \in Worker, Loop(w) PROVE Alert(x)'
    <3>1. now' = now
      BY <2>9 DEF Loop, CheckShutdown, CheckPaused, Ask, AskReady, AskWait, AskOther, F!Lease, Farewell,
                  Arm, WakeUp, frontierVars
    <3>2. CASE x # w
      BY <1>0, <2>7, <2>8, <2>9, <3>1, <3>2, LoopAlarms
    <3>3. CASE x = w
      <4>1. CASE /\ pc'[w] \in {"stopped", "gate", "ask", "begin", "farewell", "unarmed"}
                 /\ alarm'[w] = alarm[w] /\ pc[w] \in {"top", "gate", "ask"}
        <5>1. pc'[w] # "stopped"
          <6>1. pc'[w] = "stopped" => CheckShutdown(w)
            BY <1>0, <2>9 DEF Loop, CheckShutdown, CheckPaused, Ask, AskReady, AskWait, AskOther,
                   Farewell, NotifyAndGoto, NotifyFrom, Arm, WakeUp, Goto, IInv, Placed
          <6>2. CheckShutdown(w) => pc'[w] = "gate"
            BY <1>0, <2>3 DEF CheckShutdown, Goto, IInv, Placed
          <6> QED BY <6>1, <6>2
        <5>2. alarm[w] = 0
          BY <4>1 DEF AlarmsOff
        <5> QED BY <3>1, <3>3, <4>1, <5>1, <5>2 DEF Alert, LongAsleep, Ended
      <4>2. ~AskWait(w)
        BY <1>0, <2>1, NoWaitForNew DEF AskWait
      <4>3. CASE pc[w] = "unarmed" /\ pc'[w] = "asleep" /\ alarm'[w] = now + alarm[w]
        <5>1. alarm[w] = 0
          BY <1>0, <2>4, <3>3, <4>3 DEF Alert, LongAsleep
        <5> QED BY <1>0, <3>1, <3>3, <4>3, <5>1 DEF Alert, LongAsleep, Ended
      <4>4. CASE pc[w] = "asleep" /\ pc'[w] = "top"
        BY <2>8, <3>3, <4>4
      <4> QED BY <1>0, <2>6, <2>9, <3>3, <4>1, <4>2, <4>3, <4>4, LoopAlarms
    <3> QED BY <3>2, <3>3
  <2>10. ASSUME NEW w \in Worker, Process(w) PROVE Alert(x)'
    <3>1. now' = now
      BY <1>3, <2>10 DEF Process, Begin, CheckRobots, HearDelay, F!SetHostDelay, Send, Reply, Lock,
                  Unlock, Tally, Write, Fail, Drop, Complete, F!Complete, Ring, frontierVars
    <3>2. CASE x # w
      BY <1>0, <2>7, <2>8, <2>10, <3>1, <3>2, ProcessAlarms
    <3>3. CASE x = w
      <4>1. pc'[w] \notin {"unarmed", "asleep", "dead"}
        <5>1. pc'[w] # "dead"
          BY DEF Lost, At
        <5> QED BY <1>0, <2>10, <5>1, ProcessAlarms
      <4>2. pc'[w] \notin {"drained", "stopped"}
        <5>1. PICK to \in Place : Moved(w, to) /\ Successor(pc[w], to)
          BY <1>0, <2>10, ProcessMoves
        <5>2. pc[w] \notin {"top", "farewell"}
          BY <2>10 DEF Process, Begin, CheckRobots, HearDelay, Send, Reply, Lock, Link, Unlock, Tally,
                       Write, Fail, Drop, Complete, Ring
        <5> QED BY <5>1, <5>2 DEF Moved, Successor, Uncounted
      <4> QED BY <3>3, <4>1, <4>2 DEF Alert, LongAsleep, Ended
    <3> QED BY <3>2, <3>3
  <2>11. CASE Run \/ User \/ Tick \/ UNCHANGED vars
    <3>1. now' \in Nat /\ now' >= now
      <4>1. now' = now \/ now' = now + 1
        BY <2>11 DEF Run, SeedNext, F!Add, SeedEnd, Return, User, Tick, F!Tick, vars, frontierVars
      <4> QED BY <1>0, <4>1
    <3> QED BY <1>0, <2>7, <2>8, <2>11, <3>1, OtherAlarms
  <2> QED BY <2>9, <2>10, <2>11 DEF Next, Done
<1> QED BY <1>1, <1>2, <1>3

(* Links to a host that was never leased are followed at once: the crew is  *)
(* never all asleep for a politeness delay over such a task.  A worker that *)
(* misses the wake-up for it was told to wait before the task was there, so *)
(* the worker that added the task is another one, and asks again.           *)
THEOREM NoIdleCrewHolds == Spec => []NoIdleCrew
<1>1. Init => AlarmsOff /\ SomeoneAlert
  BY DEF Init, AlarmsOff, SomeoneAlert
<1>2. SomeoneAlert /\ IInv => NoIdleCrew
  <2> SUFFICES ASSUME SomeoneAlert, IInv, main = "join", Lost = {}, ~shutdown, ~F!BudgetExhausted,
                      NewHostWaits
               PROVE  \E w \in Worker : pc[w] \notin Ended /\ (pc[w] = "asleep" => alarm[w] <= now)
    BY DEF NoIdleCrew, NewHostWaits
  <2>1. PICK w \in Worker : Alert(w)
    BY DEF SomeoneAlert
  <2>2. now \in Nat /\ alarm[w] \in Nat
    BY DEF IInv, FP!IInv, FP!TypeOK, Placed
  <2> QED BY <2>1, <2>2 DEF Alert, LongAsleep
<1>3. CrawlInv => IInv
  BY DEF CrawlInv
<1> QED BY <1>1, <1>2, <1>3, SpecCrawlInv, AlarmsOffKept, SomeoneAlertKept, PTL DEF Spec

-----------------------------------------------------------------------------
(* The engine implements Crawl: what its state means there. *)

Finished == seen \ (F!QueuedUrls \cup InProgress)
Crew == Cardinality(Worker) - Cardinality(Lost)
Phase == CASE main = "join" -> "crawling" [] main = "returned" -> "closed" [] OTHER -> "seeding"

\* A URL waits, is in progress or is finished, and nothing but one of them.
LEMMA Partition ==
    ASSUME CrawlInv
    PROVE  /\ F!QueuedUrls \subseteq seen
           /\ InProgress \subseteq seen \ F!QueuedUrls
           /\ InProgress \cup Finished = seen \ F!QueuedUrls
           /\ F!QueuedUrls \cup InProgress \cup Finished = seen
<1>1. F!QueuedUrls \subseteq seen
  BY SameFrontier DEF CrawlInv, IInv, FP!IInv, FP!Accounting
<1>2. InProgress \subseteq seen \ F!QueuedUrls
  BY DEF CrawlInv, PageInv, Settled, InProgress
<1> QED BY <1>1, <1>2 DEF Finished

\* The pages begun are the tasks the frontier has dispatched.
LEMMA BegunIsDispatched ==
    ASSUME CrawlInv
    PROVE  Cardinality(InProgress \cup Finished) = dispatched
<1>1. /\ IsFiniteSet(seen) /\ FP!QueuedUrls \subseteq seen
      /\ queued = Cardinality(FP!QueuedUrls) /\ dispatched + queued = Cardinality(seen)
      /\ queued \in Nat /\ dispatched \in Nat
  BY SameCardinality DEF CrawlInv, IInv, FP!IInv, FP!Accounting, FP!TypeOK
<1>2. InProgress \cup Finished = seen \ FP!QueuedUrls
  BY Partition, SameFrontier
<1>3. Cardinality(seen \ FP!QueuedUrls) = Cardinality(seen) - Cardinality(seen \cap FP!QueuedUrls)
  BY <1>1, FS_Difference
<1>4. seen \cap FP!QueuedUrls = FP!QueuedUrls
  BY <1>1
<1>5. Cardinality(seen \ FP!QueuedUrls) = Cardinality(seen) - queued
  BY <1>1, <1>3, <1>4, Zenon
<1>6. Cardinality(seen) - queued = dispatched
  BY <1>1
<1> QED BY <1>2, <1>5, <1>6

\* A live worker that is on no page makes room for one.
LEMMA PagesFit ==
    ASSUME CrawlInv, NEW w \in Worker, pc[w] \notin Leasing \cup {"dead"}
    PROVE  Cardinality(InProgress) < Crew /\ Crew \in Nat /\ Cardinality(InProgress) \in Nat
<1>1. /\ IsFiniteSet(Worker) /\ IsFiniteSet(At(Leasing)) /\ IsFiniteSet(Lost)
      /\ Cardinality(At(Leasing)) \in Nat
  BY EngineAssumption, FS_Subset, FS_CardinalityType DEF At, Lost
<1>2. Cardinality(InProgress) <= Cardinality(At(Leasing)) /\ IsFiniteSet(InProgress)
  <2> DEFINE f == [v \in At(Leasing) |-> task[v].url]
  <2>1. f \in Surjection(At(Leasing), InProgress)
    BY DEF Surjection, InProgress
  <2> QED BY <1>1, <2>1, FS_Surjection
<1>3. Cardinality(At(Leasing) \cup {w}) = Cardinality(At(Leasing)) + 1
  BY <1>1, FS_AddElement DEF At
<1>4. At(Leasing) \cup {w} \in SUBSET (Worker \ Lost)
  BY DEF At, Lost, Leasing, Uncounted
<1>5. IsFiniteSet(Worker \ Lost) /\ Cardinality(Worker \ Lost) = Cardinality(Worker) - Cardinality(Lost)
  <2>1. Worker \cap Lost = Lost
    BY DEF Lost, At
  <2> QED BY <1>1, <2>1, FS_Difference
<1>6. Cardinality(At(Leasing) \cup {w}) <= Cardinality(Worker \ Lost)
  BY <1>4, <1>5, FS_Subset
<1>7. Crew = Cardinality(Worker \ Lost) /\ Cardinality(Worker \ Lost) \in Nat
  BY <1>5, FS_CardinalityType DEF Crew
<1>8. Cardinality(InProgress) \in Nat
  BY <1>2, FS_CardinalityType
<1> QED BY <1>1, <1>2, <1>3, <1>6, <1>7, <1>8

LEMMA SameAsCrawl ==
    /\ C!vars = <<Phase, F!QueuedUrls, InProgress, Finished, Crew, shutdown>>
    /\ \A S : C!Cardinality(S) = Cardinality(S)
<1>1. \A S : C!Cardinality(S) = Cardinality(S)
  BY Zenon DEF C!Cardinality, Cardinality
<1> QED BY <1>1 DEF C!vars, Phase, Finished, Crew

LEMMA BudgetIsSpent ==
    ASSUME CrawlInv
    PROVE  C!OutOfBudget <=> F!BudgetExhausted
<1>1. C!OutOfBudget <=> MaxPages # None /\ Cardinality(InProgress \cup Finished) >= MaxPages
  BY SameAsCrawl DEF C!OutOfBudget, Finished
<1> QED BY <1>1, BegunIsDispatched DEF F!BudgetExhausted

\* A step that the caller of a crawl does not see.
LEMMA Unseen ==
    ASSUME UNCHANGED <<main, queues, seen, InProgress, Lost, shutdown>>
    PROVE  UNCHANGED C!vars
BY DEF C!vars, F!QueuedUrls

\* A move that leaves the tasks alone and loses no worker.
LEMMA SamePages ==
    ASSUME NEW w \in Worker, NEW to, Moved(w, to), pc[w] \in Leasing <=> to \in Leasing,
           pc[w] # "dead", to # "dead", UNCHANGED task
    PROVE  UNCHANGED <<InProgress, Lost>>
<1>1. \A v \in Worker : (pc'[v] \in Leasing <=> pc[v] \in Leasing) /\ (pc'[v] = "dead" <=> pc[v] = "dead")
  BY Places DEF Moved
<1>2. At(Leasing)' = At(Leasing) /\ Lost' = Lost
  BY <1>1 DEF At, Lost
<1> QED BY <1>2 DEF InProgress

\* A URL that is added is discovered.
LEMMA AddDiscovers ==
    ASSUME CrawlInv, NEW u \in Url, NEW d \in Depth, F!Add(u, d),
           main \in {"sitemap", "seed"} \/ (main = "join" /\ InProgress # {}),
           UNCHANGED <<main, InProgress, Lost, shutdown>>
    PROVE  [C!Next]_C!vars
<1>1. /\ FP!IInv /\ FP!Add(u, d) /\ FP!FrontierAssumption
      /\ F!QueuedUrls = FP!QueuedUrls /\ F!QueuedUrls' = FP!QueuedUrls'
  BY SameFrontier DEF CrawlInv, IInv, F!QueuedUrls, FP!QueuedUrls
<1>2. IF FP!Accepts(u, d)
        THEN /\ Canon[u] \notin seen
             /\ seen' = seen \cup {Canon[u]}
             /\ FP!QueuedUrls' = FP!QueuedUrls \cup {Canon[u]}
        ELSE seen' = seen /\ FP!QueuedUrls' = FP!QueuedUrls
  BY <1>1, FP!AddUrls, Zenon
<1>3. UNCHANGED <<Phase, Crew>>
  BY DEF Phase, Crew
<1>4. CASE ~FP!Accepts(u, d)
  <2>1. UNCHANGED <<Phase, F!QueuedUrls, InProgress, Finished, Crew, shutdown>>
    BY <1>1, <1>2, <1>3, <1>4 DEF Finished
  <2> QED BY <2>1 DEF C!vars, Phase, Finished, Crew
<1>5. CASE FP!Accepts(u, d)
  <2> DEFINE c == Canon[u]
  <2>1. c \in Url
    BY EngineAssumption DEF F!FrontierAssumption
  <2>2. Finished' = Finished /\ F!QueuedUrls' = F!QueuedUrls \cup {c}
    BY <1>1, <1>2, <1>5, Partition DEF Finished
  <2>3. c \notin F!QueuedUrls \cup InProgress \cup Finished
    BY <1>2, <1>5, Partition
  <2>4. Phase = "seeding" \/ (Phase = "crawling" /\ InProgress # {})
    BY DEF Phase
  <2>5. C!Discover(c)
    BY <1>3, <2>2, <2>3, <2>4 DEF C!Discover, C!Known, Phase, Finished, Crew
  <2> QED BY <2>1, <2>5 DEF C!Next
<1> QED BY <1>4, <1>5

LEMMA LeaseBegins ==
    ASSUME CrawlInv, NEW w \in Worker, Ask(w), AskReady(w)
    PROVE  [C!Next]_C!vars
<1>1. PICK h \in Host : F!Lease(h) /\ task' = [task EXCEPT ![w] = Head(queues[h])]
  BY DEF AskReady
<1>2. /\ FP!IInv /\ FP!Lease(h) /\ FP!FrontierAssumption
      /\ F!QueuedUrls = FP!QueuedUrls /\ F!QueuedUrls' = FP!QueuedUrls'
  BY <1>1, SameFrontier DEF CrawlInv, IInv, F!QueuedUrls, FP!QueuedUrls
<1>3. PICK c : c = Head(queues[h]).url
  OBVIOUS
<1>4. c \in F!QueuedUrls /\ F!QueuedUrls' = F!QueuedUrls \ {c}
  BY <1>2, <1>3, FP!LeaseUrls, Zenon
<1>5. c \in Url
  BY <1>4, Partition DEF CrawlInv, IInv, FP!IInv, FP!TypeOK
<1>6. pc[w] = "ask" /\ pc' = [pc EXCEPT ![w] = "begin"] /\ UNCHANGED <<main, shutdown, seen>>
  BY <1>1 DEF Ask, AskReady, Goto, controlVars, mainVars, F!Lease
<1>7. /\ pc \in [Worker -> Place] /\ task \in [Worker -> F!Task \cup {None}]
      /\ main = "join"
  BY <1>6 DEF CrawlInv, IInv, Placed, TasksOK, Phases, SharedOK, Ended
<1>8. At(Leasing)' = At(Leasing) \cup {w} /\ Lost' = Lost /\ w \notin At(Leasing)
  BY <1>6, <1>7 DEF At, Lost, Leasing, Uncounted
<1>9. InProgress' = InProgress \cup {c}
  <2>1. task'[w].url = c /\ \A v \in At(Leasing) : task'[v] = task[v]
    BY <1>1, <1>3, <1>7, <1>8 DEF At
  <2> QED BY <1>8, <2>1 DEF InProgress
<1>10. Finished' = Finished /\ Phase = "crawling" /\ Phase' = Phase /\ Crew' = Crew
  BY <1>4, <1>6, <1>7, <1>8, <1>9 DEF Finished, Phase, Crew
<1>11. C!Cardinality(InProgress) < Crew /\ ~C!OutOfBudget
  <2>1. Cardinality(InProgress) < Crew
    BY <1>6, PagesFit DEF Leasing, Uncounted
  <2>2. ~F!BudgetExhausted
    BY <1>1 DEF F!Lease
  <2> QED BY <2>1, <2>2, SameAsCrawl, BudgetIsSpent
<1>12. C!Begin(c)
  BY <1>4, <1>6, <1>9, <1>10, <1>11 DEF C!Begin, Phase, Finished, Crew
<1> QED BY <1>5, <1>12 DEF C!Next

LEMMA CompleteFinishes ==
    ASSUME CrawlInv, NEW w \in Worker, Complete(w)
    PROVE  [C!Next]_C!vars
<1>1. /\ pc[w] = "complete" /\ pc' = [pc EXCEPT ![w] = "ring"] /\ task' = [task EXCEPT ![w] = None]
      /\ UNCHANGED <<main, shutdown, seen, queues>>
  BY DEF Complete, F!Complete, Goto, controlVars, mainVars
<1>2. /\ pc \in [Worker -> Place] /\ task \in [Worker -> F!Task \cup {None}]
  BY DEF CrawlInv, IInv, Placed, TasksOK
<1>3. At(Leasing)' = At(Leasing) \ {w} /\ Lost' = Lost /\ w \in At(Leasing)
  BY <1>1, <1>2 DEF At, Lost, Leasing, Uncounted
<1>4. PICK u : u = task[w].url
  OBVIOUS
<1>5. \A v \in At(Leasing) : task[v].url = u => v = w
  BY <1>3, <1>4 DEF CrawlInv, PageInv
<1>6. \A v \in At(Leasing)' : task'[v] = task[v]
  BY <1>1, <1>2, <1>3 DEF At
<1>7. InProgress' = InProgress \ {u} /\ u \in InProgress
  BY <1>3, <1>4, <1>5, <1>6 DEF InProgress
<1>8. F!QueuedUrls' = F!QueuedUrls
  BY <1>1 DEF F!QueuedUrls
<1>9. /\ u \in Url /\ Finished' = Finished \cup {u}
      /\ Phase' = Phase /\ Crew' = Crew
  <2>1. u \in seen /\ u \notin F!QueuedUrls /\ seen \subseteq Url
    BY <1>7, Partition DEF CrawlInv, IInv, FP!IInv, FP!TypeOK
  <2> QED BY <1>1, <1>3, <1>7, <1>8, <2>1 DEF Finished, Phase, Crew
<1>10. C!Finish(u)
  BY <1>1, <1>7, <1>8, <1>9 DEF C!Finish, Phase, Finished, Crew
<1> QED BY <1>9, <1>10 DEF C!Next

LEMMA RingLoses ==
    ASSUME CrawlInv, NEW w \in Worker, Ring(w)
    PROVE  [C!Next]_C!vars
<1>1. /\ pc[w] = "ring" /\ UNCHANGED <<main, shutdown, seen, queues, task>>
  BY DEF Ring, frontierVars, controlVars, mainVars
<1>2. PICK to \in {"dead", "top"} : Moved(w, to)
  <2>1. \E to \in {"dead", "top"} : NotifyAndGoto(w, to)
    BY DEF Ring
  <2> QED BY <2>1, NotifyMoves DEF CrawlInv, IInv, Place, Ended
<1>3. CASE to = "top"
  <2>1. UNCHANGED <<InProgress, Lost>>
    BY <1>1, <1>2, <1>3, SamePages DEF Leasing, Uncounted
  <2> QED BY <1>1, <2>1, Unseen
<1>4. CASE to = "dead"
  <2>1. At(Leasing)' = At(Leasing)
    BY <1>1, <1>2, <1>4 DEF Moved, At, Leasing, Uncounted
  <2>2. InProgress' = InProgress
    BY <1>1, <2>1 DEF InProgress
  <2>3. Cardinality(At({"dead"})') = Cardinality(At({"dead"})) + 1 - 0
        /\ Cardinality(At({"dead"})) \in Nat
    BY <1>1, <1>2, <1>4, Count DEF CrawlInv, IInv
  <2>4. Cardinality(Worker) \in Nat
    BY EngineAssumption, FS_CardinalityType
  <2>5. Crew' = Crew - 1
    BY <2>3, <2>4 DEF Crew, Lost
  <2>6. UNCHANGED <<Phase, F!QueuedUrls, Finished>>
    BY <1>1, <2>2 DEF Phase, F!QueuedUrls, Finished
  <2>7. C!Cardinality(InProgress) < Crew
    BY <1>1, PagesFit, SameAsCrawl DEF Leasing, Uncounted
  <2>8. C!Lose
    BY <1>1, <2>2, <2>5, <2>6, <2>7 DEF C!Lose, Phase, Finished, Crew
  <2> QED BY <2>8 DEF C!Next
<1> QED BY <1>2, <1>3, <1>4

\* When all workers have ended, the crawl may close.
LEMMA ReturnCloses ==
    ASSUME CrawlInv, Return
    PROVE  [C!Next]_C!vars
<1>1. /\ main = "join" /\ main' = "returned" /\ \A w \in Worker : pc[w] \in Ended
      /\ UNCHANGED <<queues, seen, shutdown, pc, task>>
  BY DEF Return, frontierVars, controlVars, localVars, pageVars
<1>2. InProgress = {}
  BY <1>1 DEF InProgress, At, Ended, Leasing, Uncounted
<1>3. F!QueuedUrls = {} \/ C!OutOfBudget \/ shutdown \/ Crew = 0
  <2>1. CASE At({"drained"}) # {}
    <3>1. F!BudgetExhausted \/ F!Pending = {}
      BY <2>1 DEF CrawlInv, NoPrematureExit, At
    <3>2. F!Pending = {} => F!QueuedUrls = {}
      BY DEF F!Pending, F!QueuedUrls
    <3> QED BY <3>1, <3>2, BudgetIsSpent
  <2>2. CASE At({"stopped"}) # {}
    BY <2>2 DEF CrawlInv, Stopped
  <2>3. CASE At({"drained"}) = {} /\ At({"stopped"}) = {}
    <3>1. Lost = Worker
      BY <1>1, <2>3 DEF Lost, At, Ended
    <3>2. Cardinality(Worker) \in Nat
      BY EngineAssumption, FS_CardinalityType
    <3> QED BY <3>1, <3>2 DEF Crew
  <2> QED BY <2>1, <2>2, <2>3
<1>4. UNCHANGED <<F!QueuedUrls, InProgress, Finished, Crew, shutdown>>
  BY <1>1 DEF F!QueuedUrls, InProgress, Finished, Crew, Lost, At
<1>5. Phase = "crawling" /\ Phase' = "closed"
  BY <1>1 DEF Phase
<1>6. C!Close
  BY <1>2, <1>3, <1>4, <1>5 DEF C!Close, Phase, Finished, Crew
<1> QED BY <1>6 DEF C!Next

\* A stop, or a failing sink that asks for one, is the only way stopping is set.
LEMMA StopStops ==
    ASSUME CrawlInv, shutdown' = TRUE, main # "returned",
           UNCHANGED <<main, queues, seen, InProgress, Lost>>
    PROVE  [C!Next]_C!vars
<1>1. UNCHANGED <<Phase, F!QueuedUrls, Finished, Crew>> /\ Phase # "closed"
  BY DEF Phase, F!QueuedUrls, Finished, Crew
<1>2. C!Stop
  BY <1>1 DEF C!Stop, Phase, Finished, Crew
<1> QED BY <1>2 DEF C!Next

LEMMA RunSteps ==
    ASSUME CrawlInv, Run
    PROVE  [C!Next]_C!vars
<1>1. CASE SeedNext
  <2>1. /\ main \in {"sitemap", "seed"} /\ Head(list) \in Url
        /\ UNCHANGED <<main, pc, task, shutdown>>
    BY <1>1 DEF SeedNext, CrawlInv, IInv, SharedOK, controlVars, localVars, pageVars
  <2>2. UNCHANGED <<InProgress, Lost>>
    BY <2>1 DEF InProgress, Lost, At
  <2>3. F!Add(Head(list), 0) \/ UNCHANGED frontierVars
    BY <1>1, Zenon DEF SeedNext
  <2>4. CASE F!Add(Head(list), 0)
    <3>1. 0 \in Depth
      BY EngineAssumption
    <3> QED BY <2>1, <2>2, <2>4, <3>1, AddDiscovers
  <2>5. CASE UNCHANGED frontierVars
    BY <2>1, <2>2, <2>5, Unseen DEF frontierVars
  <2> QED BY <2>3, <2>4, <2>5
<1>2. CASE SeedEnd
  <2>1. /\ \A w \in Worker : pc[w] = "new" /\ pc'[w] \in {"new", "top"}
        /\ UNCHANGED <<queues, seen, task, shutdown>>
        /\ main \in {"sitemap", "seed"} /\ main' \in {"seed", "join"}
    BY <1>2 DEF SeedEnd, CrawlInv, IInv, Phases, frontierVars, controlVars, localVars, pageVars
  <2>2. At(Leasing)' = At(Leasing) /\ Lost' = Lost
    BY <2>1 DEF At, Lost, Leasing, Uncounted
  <2>3. UNCHANGED <<F!QueuedUrls, InProgress, Finished, Crew, shutdown>>
    BY <2>1, <2>2 DEF F!QueuedUrls, InProgress, Finished, Crew
  <2>4. Phase = "seeding" /\ Phase' \in {"seeding", "crawling"}
    BY <2>1 DEF Phase
  <2>5. CASE Phase' = "seeding"
    <3>1. UNCHANGED <<Phase, F!QueuedUrls, InProgress, Finished, Crew, shutdown>>
      BY <2>3, <2>4, <2>5
    <3> QED BY <3>1 DEF C!vars, Phase, Finished, Crew
  <2>6. CASE Phase' = "crawling"
    <3>1. C!Open
      BY <2>3, <2>4, <2>6 DEF C!Open, Phase, Finished, Crew
    <3> QED BY <3>1 DEF C!Next
  <2> QED BY <2>4, <2>5, <2>6
<1> QED BY <1>1, <1>2, ReturnCloses DEF Run

LEMMA UserSteps ==
    ASSUME CrawlInv, User \/ Tick \/ UNCHANGED vars
    PROVE  [C!Next]_C!vars
<1>1. UNCHANGED <<main, queues, seen, task>>
  BY DEF User, Tick, F!Tick, vars, frontierVars, mainVars, localVars, pageVars
<1>2. \A w \in Worker : pc'[w] = pc[w] \/ (pc[w] \in {"asleep", "new"} /\ pc'[w] = "top")
  BY OthersMove DEF CrawlInv
<1>3. At(Leasing)' = At(Leasing) /\ Lost' = Lost
  BY <1>2 DEF At, Lost, Leasing, Uncounted
<1>4. InProgress' = InProgress
  BY <1>1, <1>3 DEF InProgress
<1>5. UNCHANGED shutdown \/ (shutdown' = TRUE /\ main # "returned")
  BY DEF User, UserStop, UserPause, Tick, vars, controlVars
<1> QED BY <1>1, <1>3, <1>4, <1>5, StopStops, Unseen

LEMMA LoopSteps ==
    ASSUME CrawlInv, NEW w \in Worker, Loop(w)
    PROVE  [C!Next]_C!vars
<1>1. CASE Ask(w) /\ AskReady(w)
  BY <1>1, LeaseBegins
<1>2. CASE ~(Ask(w) /\ AskReady(w))
  <2>1. /\ UNCHANGED <<main, queues, seen, shutdown, task>>
        /\ pc[w] \notin Uncounted \cup {"write", "drop", "complete"}
        /\ pc[w] \notin {"ring", "dead"}
    BY <1>2 DEF Loop, CheckShutdown, CheckPaused, Ask, AskWait, AskOther, Farewell, Arm, WakeUp,
                frontierVars, controlVars, localVars, pageVars, mainVars, Uncounted
  <2>2. PICK to \in Place : Moved(w, to) /\ Successor(pc[w], to)
    BY LoopMoves DEF CrawlInv
  <2>3. to # "begin"
    <3>1. pc[w] = "ask" => Ask(w) /\ (AskWait(w) \/ AskOther(w))
      BY <1>2 DEF Loop, CheckShutdown, CheckPaused, Ask, Farewell, Arm, WakeUp
    <3>2. pc[w] = "ask" => \E x \in {"unarmed", "farewell"} : Goto(w, x)
      BY <3>1 DEF AskWait, AskOther
    <3> QED BY <2>1, <2>2, <3>2 DEF Moved, Goto, Successor, CrawlInv, IInv, Placed
  <2>4. pc[w] \notin Leasing /\ to \notin Leasing /\ to # "dead"
    BY <2>1, <2>2, <2>3 DEF Successor, Leasing, Uncounted
  <2>5. UNCHANGED <<InProgress, Lost>>
    BY <2>1, <2>2, <2>4, SamePages
  <2> QED BY <2>1, <2>5, Unseen
<1> QED BY <1>1, <1>2

LEMMA ProcessSteps ==
    ASSUME CrawlInv, NEW w \in Worker, Process(w)
    PROVE  [C!Next]_C!vars
<1>1. CASE Complete(w) \/ Ring(w)
  BY <1>1, CompleteFinishes, RingLoses
<1>2. CASE ~(Complete(w) \/ Ring(w))
  <2>1. /\ UNCHANGED <<main, task>> /\ pc[w] \in Uncounted \cup {"write", "drop"}
    BY <1>2 DEF Process, Begin, CheckRobots, HearDelay, Send, Reply, Lock, Link, Unlock, Tally,
                Write, Fail, Drop, localVars, pageVars, mainVars, Uncounted
  <2>2. PICK to \in Place : Moved(w, to) /\ Successor(pc[w], to)
    BY ProcessMoves DEF CrawlInv
  <2>3. pc[w] \in Leasing /\ to \in Leasing /\ pc[w] # "dead" /\ to # "dead"
    BY <2>1, <2>2 DEF Successor, Leasing, Uncounted
  <2>4. UNCHANGED <<InProgress, Lost>>
    BY <2>1, <2>2, <2>3, SamePages
  <2>5. main = "join"
    BY <2>3 DEF CrawlInv, IInv, Phases, SharedOK, Ended, Leasing, Uncounted
  <2>6. CASE Link(w)
    <3>1. UNCHANGED shutdown /\ pc[w] = "link"
      BY <2>6 DEF Link, controlVars
    <3>2. Head(todo[w]) \in Url /\ task[w].depth + 1 \in Depth
      BY <2>6, <3>1, LinkInDepth DEF Link, CrawlInv, IInv, PagesOK
    <3>3. InProgress # {}
      BY <2>3 DEF InProgress, At
    <3>4. F!Add(Head(todo[w]), task[w].depth + 1) \/ UNCHANGED frontierVars
      BY <2>6, Zenon DEF Link
    <3>5. CASE F!Add(Head(todo[w]), task[w].depth + 1)
      BY <2>1, <2>4, <2>5, <3>1, <3>2, <3>3, <3>5, AddDiscovers
    <3>6. CASE UNCHANGED frontierVars
      BY <2>1, <2>4, <3>1, <3>6, Unseen DEF frontierVars
    <3> QED BY <3>4, <3>5, <3>6
  <2>7. CASE ~Link(w)
    <3>1. UNCHANGED <<queues, seen>>
      BY <1>2, <2>7 DEF Process, Begin, CheckRobots, HearDelay, Send, Reply, Lock, Unlock, Tally,
                        Write, Fail, Drop, frontierVars, F!SetHostDelay
    <3>2. UNCHANGED shutdown \/ shutdown' = TRUE
      BY <1>2, <2>7 DEF Process, Begin, CheckRobots, HearDelay, Send, Reply, Lock, Unlock, Tally,
                        Write, WriteOk, WriteErr, WritePanic, FailCrawl, Fail, Drop, controlVars
    <3> QED BY <2>1, <2>4, <2>5, <3>1, <3>2, StopStops, Unseen
  <2> QED BY <2>6, <2>7
<1> QED BY <1>1, <1>2

(* The engine implements the crawl a caller expects: with any number of     *)
(* workers, panics, failing sinks, stops and pauses, each URL goes once     *)
(* from waiting through in progress to finished, and run() returns only     *)
(* when the crawl is drained, out of budget, stopped or without workers.    *)
THEOREM RefinesCrawlHolds == Spec => RefinesCrawl
<1>1. Init => C!Init
  <2> SUFFICES ASSUME Init PROVE C!Init
    OBVIOUS
  <2>1. F!QueuedUrls = {} /\ InProgress = {} /\ Lost = {} /\ seen = {}
    BY DEF Init, F!Init, F!QueuedUrls, InProgress, Lost, At, Leasing, Uncounted
  <2>2. Cardinality(Worker) \in Nat /\ Cardinality(Lost) = 0
    BY <2>1, EngineAssumption, FS_EmptySet, FS_CardinalityType
  <2>3. Phase = "seeding" /\ Finished = {} /\ Crew = Cardinality(Worker) /\ shutdown = FALSE
    BY <2>1, <2>2 DEF Init, Phase, Finished, Crew
  <2> QED BY <2>1, <2>3 DEF C!Init, Phase, Finished, Crew
<1>2. CrawlInv /\ [Next]_vars => [C!Next]_C!vars
  BY RunSteps, UserSteps, LoopSteps, ProcessSteps DEF Next, Done
<1> QED BY <1>1, <1>2, SpecCrawlInv, PTL DEF Spec, RefinesCrawl, C!Spec

-----------------------------------------------------------------------------
(* What is proved of the frontier holds in a running crawl: its leases are  *)
(* BaseDelay apart on each host, and the page budget is never overdrawn,    *)
(* with any number of workers behind its mutex.                             *)
THEOREM CrawlIsPolite == Spec => []F!BudgetRespected /\ F!LeaseSpacing
<1>1. F!Spec => FP!Spec
  <2>1. F!Init => FP!Init
    BY SameFrontier
  <2>2. [F!Next]_F!vars => [FP!Next]_FP!vars
    BY SameFrontier, Zenon DEF F!vars, FP!vars
  <2> QED BY <2>1, <2>2, PTL DEF F!Spec, FP!Spec
<1>2. FP!Spec => []FP!BudgetRespected /\ FP!LeaseSpacing
  BY SameFrontier, FP!BudgetHolds, FP!SpacingHolds, PTL
<1>3. /\ FP!BudgetRespected => F!BudgetRespected
      /\ [\A h \in Host : FP!Leased(h) /\ last_lease[h] # None
              => now >= last_lease[h] + BaseDelay]_FP!vars
         => [\A h \in Host : F!Leased(h) /\ last_lease[h] # None
                 => now >= last_lease[h] + BaseDelay]_F!vars
  BY DEF FP!BudgetRespected, F!BudgetRespected, FP!Leased, F!Leased, FP!vars, F!vars
<1> QED BY <1>1, <1>2, <1>3, FrontierRuns, PTL
        DEF FP!LeaseSpacing, F!LeaseSpacing
=============================================================================
