---------------------------- MODULE AotRuntimeProofs ----------------------------
(***************************************************************************)
(* Safety of the AOT engine's scheduler, for every number of processes,    *)
(* messages and timers: CoreInv and AotInv are inductive.  The second part *)
(* shows that the engine implements SelectiveReceive in its weak form.     *)
(***************************************************************************)
EXTENDS AotRefinement, ProcSchedRefinementProofs

\* Every branch of aot_send_hook preserves the invariant.
LEMMA CoreSend ==
  ASSUME CoreInv, Send
  PROVE  CoreInv'
<1>1. PICK p \in Pids, q \in Pids, t \in Tags : AotSend(p, q, [id |-> sent + 1, tag |-> t])
  BY DEF Send
<1> DEFINE m == [id |-> sent + 1, tag |-> t]
<1>2. PICK k \in 1..MaxSends : k = sent + 1
  BY <1>1, BoundsAssumption DEF AotSend, CoreInv, TypeOK
<1>3. PICK msg \in Message : msg = m
  BY <1>2, Zenon DEF Message
<1>4. AotSend(p, q, msg)
  BY <1>1, <1>3
<1>5. Sending(p, msg)
  BY <1>2, <1>4, BoundsAssumption DEF Sending, AotSend
<1>7. CASE UNCHANGED <<procVars, runq, timers, log>>
  BY <1>5, <1>7, CoreSendDropped
<1>8. CASE ProbeHit(q, msg) /\ runq' = Append(runq, q)
  BY <1>5, <1>8, CoreSendTaken
<1>9. CASE ProbeMiss(q, msg) /\ UNCHANGED runq
  BY <1>5, <1>9, CoreSendQueued, Zenon DEF ProbeMiss
<1>10. CASE /\ ~Parked(q)
            /\ mailbox' = [mailbox EXCEPT ![q] = Append(@, msg)]
            /\ IF state[q] = "Blocked"
                 THEN /\ state' = [state EXCEPT ![q] = "Ready"]
                      /\ runq' = Append(runq, q)
                 ELSE UNCHANGED <<state, runq>>
            /\ UNCHANGED <<runnable, wait, timers, log>>
  <2>1. state[q] # "Blocked"
    BY <1>10 DEF CoreInv, SleepInv
  <2> QED BY <2>1, <1>5, <1>10, CoreSendQueued, Zenon
<1> QED BY <1>4, <1>7, <1>8, <1>9, <1>10 DEF AotSend

\* A stray turn leaves the process Running and asleep on an empty mailbox.
LEMMA CoreLeft ==
  ASSUME CoreInv, NEW p, Turn(p), DispatchLeft(p)
  PROVE  CoreInv'
<1> USE DEF CoreInv
<1>1. /\ p \in Pids /\ p < nextPid /\ cur = NoPid /\ expiring = {} /\ expiring' = {}
      /\ runq' \in Seq(Pids)
      /\ \A q \in Pids : InQueue(q) /\ q # p => InQueue(q)'
      /\ \A i \in DOMAIN runq' : \E j \in DOMAIN runq : runq[j] = runq'[i]
  BY TurnFacts
<1>2. /\ Parked(p) /\ mailbox[p] = <<>> /\ runnable[p] = "none"
      /\ state' = [state EXCEPT ![p] = "Running"] /\ cur' = NoPid /\ pc' = "drain"
      /\ UNCHANGED <<runnable, wait, mailbox, timers, log, exits, expiring, nextTimer, now, nextPid, sent>>
  BY DEF DispatchLeft, StrayTurn, Turn, BackToLoop
<1>3. TypeOK'
  BY <1>1, <1>2, Zenon DEF TypeOK, ProcessState
<1>4. PhaseInv' /\ CurInv'
  BY <1>1, <1>2 DEF PhaseInv, CurInv
<1>5. MintInv'
  BY <1>1, <1>2 DEF MintInv, TypeOK, Parked, Pids
<1>6. SleepInv' /\ OnePrimary'
  BY <1>1, <1>2, SMTT(20) DEF SleepInv, OnePrimary, TypeOK, Parked, Accepted, Matches
<1>7. ReadyIsQueued'
  BY <1>1, <1>2 DEF ReadyIsQueued, TypeOK
<1>8. TimerIdInv' /\ TimersMatchParks'
  BY <1>1, <1>2 DEF TimerIdInv, TimersMatchParks, Parked
<1> QED BY <1>3, <1>4, <1>5, <1>6, <1>7, <1>8

\* Every branch of dispatch_quantum preserves the invariant.
LEMMA CoreDispatch ==
  ASSUME CoreInv, DispatchQuantum
  PROVE  CoreInv'
<1>1. PICK p : p = Head(runq)
  OBVIOUS
<1>2. Turn(p)
  BY <1>1 DEF Turn, DispatchQuantum
<1> QED BY <1>1, <1>2, CoreScanHit, CoreScanMiss, CoreResume, CoreNothing, CoreLeft DEF DispatchQuantum

\* Sleeping to a deadline and returning change only the clock and the phase.
LEMMA CoreEmptyQueue ==
  ASSUME CoreInv, SleepToDeadline \/ GoIdle
  PROVE  CoreInv'
<1> USE DEF CoreInv
<1>1. /\ pc = "fire" /\ expiring = {} /\ (pc' = "drain" \/ pc' = "idle") /\ now' \in Nat
      /\ UNCHANGED <<state, runnable, wait, mailbox, runq, timers, expiring, nextTimer, nextPid, cur, sent, log, exits>>
  BY DEF SleepToDeadline, GoIdle, AtPop, procVars, timerVars, histVars, TypeOK, TimerEntry
<1>2. TypeOK'
  BY <1>1 DEF TypeOK
<1>3. PhaseInv' /\ CurInv' /\ MintInv' /\ SleepInv' /\ OnePrimary' /\ ReadyIsQueued'
  BY <1>1 DEF PhaseInv, CurInv, MintInv, SleepInv, OnePrimary, ReadyIsQueued, Parked, InQueue, Accepted
<1>4. TimerIdInv' /\ TimersMatchParks'
  BY <1>1 DEF TimerIdInv, TimersMatchParks, Parked
<1> QED BY <1>2, <1>3, <1>4

\* The invariant holds in every reachable state of the AOT engine.
THEOREM AotCoreInv == Spec => []CoreInv
<1>1. Init => CoreInv
  BY CoreInit DEF Init
<1>2. CoreInv /\ [Next]_vars => CoreInv'
  <2>1. SUFFICES ASSUME CoreInv, [Next]_vars PROVE CoreInv'
    OBVIOUS
  <2>2. CASE Step
    BY <2>1, <2>2, CoreDrainExpired, CoreFireTimer, CoreDispatch, CoreEmptyQueue, CoreQuantum, CoreSend
       DEF Step
  <2>3. CASE Tick
    BY <2>1, <2>3, CoreTick
  <2>4. CASE UNCHANGED vars
    BY <2>1, <2>4, CoreStutter
  <2> QED BY <2>1, <2>2, <2>3, <2>4 DEF Next, Returned
<1> QED BY <1>1, <1>2, PTL DEF Spec

\* Type correctness of the AOT engine's scheduler.
THEOREM AotTypeOK == Spec => []TypeOK
<1>1. CoreInv => TypeOK
  BY DEF CoreInv
<1> QED BY <1>1, AotCoreInv, PTL

\* The run loop of the AOT engine never forgets a process that is ready.
THEOREM AotReadyIsQueued == Spec => []ReadyIsQueued
<1>1. CoreInv => ReadyIsQueued
  BY DEF CoreInv
<1> QED BY <1>1, AotCoreInv, PTL

\* No process of the AOT engine sleeps on a message its receive accepts.
THEOREM AotNoMissedMatch == Spec => []NoMissedMatch
<1>1. CoreInv => NoMissedMatch
  BY CoreImpliesNoMissedMatch
<1> QED BY <1>1, AotCoreInv, PTL

\* The AOT engine's timers are exactly the "after" clauses of its receives.
THEOREM AotTimersMatchParks == Spec => []TimersMatchParks
<1>1. CoreInv => TimersMatchParks
  BY DEF CoreInv
<1> QED BY <1>1, AotCoreInv, PTL

-----------------------------------------------------------------------------
\* What the AOT loop adds: it returns only from an empty queue and wheel.
AotInv == pc = "idle" => runq = <<>> /\ timers = {}

\* Once the loop has returned nothing happens any more.
LEMMA AotInvStep ==
  ASSUME CoreInv, AotInv, [Next]_vars
  PROVE  AotInv'
<1> USE DEF AotInv
<1>1. CASE pc = "idle"
  <2>1. cur = NoPid
    BY <1>1 DEF CoreInv, PhaseInv
  <2>2. \A p \in Pids : cur # p
    BY <2>1 DEF Pids, NoPid
  <2>3. UNCHANGED vars
    BY <1>1, <2>2, Zenon DEF Next, Step, DrainExpired, FireTimer, DispatchQuantum, SleepToDeadline, GoIdle, AtPop,
         Quantum, SpawnClosure, YieldMidFlight, Exit, ParkForever, ParkAfter, Park, Send, AotSend, Tick, Returned
  <2> QED BY <1>1, <2>3 DEF vars, timerVars
<1>2. CASE pc # "idle"
  <2>1. SUFFICES ASSUME pc' = "idle" PROVE runq' = <<>> /\ timers' = {}
    OBVIOUS
  <2>2. GoIdle \/ ~(Step \/ Tick \/ Returned)
    BY <1>2, <2>1, Zenon DEF Step, DrainExpired, FireTimer, DispatchQuantum, SleepToDeadline,
         DispatchScanHit, DispatchScanMiss, DispatchResume, DispatchNothing, DispatchLeft, BackToLoop,
         Quantum, SpawnClosure, YieldMidFlight, Exit, ParkForever, ParkAfter, Park, Send, AotSend, Tick, Returned
  <2>3. GoIdle
    BY <1>2, <2>1, <2>2 DEF Next, vars
  <2> QED BY <2>3 DEF GoIdle, timerVars
<1> QED BY <1>1, <1>2

\* The AOT program returns only when no process can go on and none is in a
\* receive that would time out.
THEOREM AotIdleMeansSettled == Spec => []IdleMeansSettled
<1>1. Init => AotInv
  BY DEF Init, InitWith, AotInv
<1>2. CoreInv /\ AotInv => IdleMeansSettled
  <2>1. SUFFICES ASSUME CoreInv, AotInv, pc = "idle", NEW p \in Pids, state[p] \notin {"Unborn", "Exited"}
                 PROVE  Parked(p) /\ wait[p].timer = NoTimer /\ Accepted(p) = {}
    BY DEF IdleMeansSettled
  <2>2. runq = <<>> /\ timers = {} /\ expiring = {} /\ cur = NoPid
    BY <2>1 DEF AotInv, CoreInv, PhaseInv
  <2>3. Parked(p) /\ Accepted(p) = {}
    <3>1. cur # p /\ ~InQueue(p)
      BY <2>2 DEF Pids, NoPid, InQueue
    <3> QED BY <3>1, <2>1, CoreImpliesNoMissedMatch DEF NoMissedMatch
  <2>4. wait[p].timer = NoTimer
    <3>1. ASSUME wait[p].timer # NoTimer PROVE FALSE
      <4>1. PICK e \in timers \cup expiring : e.pid = p
        BY <3>1, <2>1, <2>3 DEF CoreInv, TimersMatchParks
      <4> QED BY <4>1, <2>2
    <3> QED BY <3>1
  <2> QED BY <2>3, <2>4
<1> QED BY <1>1, <1>2, AotInvStep, AotCoreInv, PTL DEF Spec

-----------------------------------------------------------------------------
(* Refinement.                                                             *)

\* Each branch of aot_send_hook is a send or a hand-off.
LEMMA RefineAotSend ==
  ASSUME CoreInv, LifeInv, Send
  PROVE  LifeInv' /\ AbsStep
<1>1. PICK p \in Pids, q \in Pids, t \in Tags : AotSend(p, q, [id |-> sent + 1, tag |-> t])
  BY DEF Send
<1>2. sent < MaxSends /\ sent' = sent + 1 /\ nextPid' = nextPid
  BY <1>1 DEF AotSend
<1>3. \/ state[q] \in {"Unborn", "Exited"} /\ UNCHANGED <<procVars, log>>
      \/ /\ state[q] \notin {"Unborn", "Exited"}
         /\ ProbeHit(q, [id |-> sent + 1, tag |-> t])
      \/ /\ state[q] \notin {"Unborn", "Exited"}
         /\ mailbox' = [mailbox EXCEPT ![q] = Append(@, [id |-> sent + 1, tag |-> t])]
         /\ UNCHANGED <<runnable, wait, log>>
         /\ UNCHANGED state \/ state' = [state EXCEPT ![q] = "Ready"]
  BY <1>1, Zenon DEF AotSend, ProbeMiss
<1> QED BY <1>2, <1>3, RefineSend

\* A turn of aot_run_queue_loop.
LEMMA RefineDispatch ==
  ASSUME CoreInv, LifeInv, DispatchQuantum
  PROVE  LifeInv' /\ AbsStep
<1>1. PICK p \in Pids : p = Head(runq) /\ p < nextPid
  <2>1. runq \in Seq(Pids) /\ runq # <<>>
    BY DEF DispatchQuantum, CoreInv, TypeOK
  <2>2. Head(runq) \in Pids /\ 1 \in DOMAIN runq /\ runq[1] = Head(runq)
    BY <2>1
  <2> QED BY <2>2 DEF CoreInv, MintInv
<1>2. UNCHANGED <<nextPid, sent>>
  BY DEF DispatchQuantum
<1>3. CASE DispatchScanHit(p) \/ DispatchScanMiss(p) \/ DispatchResume(p) \/ DispatchNothing(p)
  BY <1>1, <1>2, <1>3, RefineTurn
<1>4. CASE DispatchLeft(p)
  <2>1. /\ StrayTurn(p) /\ state' = [state EXCEPT ![p] = "Running"]
        /\ UNCHANGED <<runnable, wait, mailbox, log>>
    BY <1>4 DEF DispatchLeft
  <2> QED BY <2>1, <1>2, RefineStray
<1> QED BY <1>1, <1>3, <1>4 DEF DispatchQuantum

\* Every step of the AOT engine is an abstract step or a stutter.
LEMMA AotRefinesStep ==
  ASSUME CoreInv, LifeInv, [Next]_vars
  PROVE  LifeInv' /\ AbsStep
<1>1. CASE DrainExpired \/ SleepToDeadline \/ GoIdle \/ Tick \/ UNCHANGED vars
  <2>1. UNCHANGED <<procVars, nextPid, histVars>>
    BY <1>1, Zenon DEF DrainExpired, SleepToDeadline, GoIdle, Tick, vars
  <2> QED BY <2>1, RefineIdle
<1> QED BY <1>1, RefineFireTimer, RefineDispatch, RefineQuantum, RefineAotSend
        DEF Next, Step, Returned

\* The AOT engine implements selective receive: no message is lost, duplicated
\* or reordered in a mailbox, a receive returns a message it accepts or times
\* out, and a retired process takes no further part (aot_send_hook, aot_run_queue_loop).
THEOREM AotRefinesSelectiveReceive == Spec => RefinesSelectiveReceive
<1>1. Init => Abstract!Init /\ LifeInv
  BY RefineInit DEF Init
<1>2. CoreInv /\ LifeInv /\ [Next]_vars => LifeInv' /\ [Abstract!Next]_(Abstract!vars)
  BY AotRefinesStep DEF AbsStep
<1> QED BY <1>1, <1>2, AotCoreInv, PTL DEF Spec, RefinesSelectiveReceive, Abstract!Spec

\* For any number of processes, messages and timers, the AOT engine keeps every
\* mailbox in the order of the sends and has no message in two places
\* (aot_send_hook, initial_scan).
THEOREM AotDeliveredOnce == Spec => []DeliveredOnce
<1>1. Init => DeliveredOnce /\ LifeInv
  BY RefineInit, DeliversInit DEF Init
<1>2. /\ CoreInv /\ LifeInv /\ [Next]_vars => LifeInv'
      /\ CoreInv /\ LifeInv /\ DeliveredOnce /\ [Next]_vars => DeliveredOnce'
  BY AotRefinesStep, DeliversStep DEF CoreInv, Delivers, Carried, DeliveredOnce
<1> QED BY <1>1, <1>2, AotCoreInv, PTL DEF Spec

\* No message that reached a process of the AOT engine goes astray: it stays in
\* the mailbox until a receive returns it, across timeouts, yields and the
\* steps of every other process; what a process has not received when it exits
\* is never received by another.
THEOREM AotNothingLost == Spec => NothingLost
<1>1. Init => LifeInv
  BY RefineInit DEF Init
<1>2. CoreInv /\ LifeInv /\ [Next]_vars => LifeInv'
  BY AotRefinesStep
<1>3. CoreInv /\ LifeInv /\ DeliveredOnce /\ [Next]_vars =>
        [\A p \in Pids : Seen(mailbox[p], log[p]) \subseteq Seen(mailbox[p], log[p])']_vars
  BY AotRefinesStep, DeliversStep DEF CoreInv, Delivers, Carried
<1> QED BY <1>1, <1>2, <1>3, AotCoreInv, AotDeliveredOnce, PTL DEF Spec, NothingLost
=============================================================================
