---------------------------- MODULE JitRuntimeProofs ----------------------------
(***************************************************************************)
(* Safety of the JIT engine's scheduler, for every number of processes,    *)
(* messages and timers: CoreInv and JitInv are inductive.  The second part *)
(* shows that the engine implements SelectiveReceive in its weak form.     *)
(***************************************************************************)
EXTENDS JitRefinement, ProcSchedRefinementProofs

\* Every branch of send_via preserves the invariant.
LEMMA CoreSend ==
  ASSUME CoreInv, Send
  PROVE  CoreInv'
<1>1. PICK p \in Pids, q \in Pids, t \in Tags : SendVia(p, q, [id |-> sent + 1, tag |-> t])
  BY DEF Send
<1> DEFINE m == [id |-> sent + 1, tag |-> t]
<1>2. PICK k \in 1..MaxSends : k = sent + 1
  BY <1>1, BoundsAssumption DEF SendVia, CoreInv, TypeOK
<1>3. PICK msg \in Message : msg = m
  BY <1>2, Zenon DEF Message
<1>4. SendVia(p, q, msg)
  BY <1>1, <1>3
<1>5. Sending(p, msg)
  BY <1>2, <1>4, BoundsAssumption DEF Sending, SendVia
<1>6. CASE q = p /\ mailbox' = [mailbox EXCEPT ![p] = Append(@, msg)]
             /\ UNCHANGED <<state, runnable, wait, runq, timers, log>>
  <2>1. ~Parked(q)
    BY <1>5, <1>6, InQuantum DEF Sending, Parked
  <2> QED BY <2>1, <1>5, <1>6, CoreSendQueued, Zenon
<1>7. CASE UNCHANGED <<procVars, runq, timers, log>>
  BY <1>5, <1>7, CoreSendDropped
<1>8. CASE ProbeHit(q, msg) /\ runq' = Append(runq, q)
  BY <1>5, <1>8, CoreSendTaken
<1>9. CASE ProbeMiss(q, msg) /\ UNCHANGED runq
  BY <1>5, <1>9, CoreSendQueued, Zenon DEF ProbeMiss
<1>10. CASE /\ ~Parked(q)
            /\ mailbox' = [mailbox EXCEPT ![q] = Append(@, msg)]
            /\ IF state[q] = "Blocked"
                 THEN /\ state' = [state EXCEPT ![q] = "Ready"]
                      /\ runq' = Append(runq, q)
                 ELSE UNCHANGED <<state, runq>>
            /\ UNCHANGED <<runnable, wait, timers, log>>
  <2>1. state[q] # "Blocked"
    BY <1>10 DEF CoreInv, SleepInv
  <2> QED BY <2>1, <1>5, <1>10, CoreSendQueued, Zenon
<1> QED BY <1>4, <1>6, <1>7, <1>8, <1>9, <1>10 DEF SendVia

\* A stray turn puts the process back at the end of the queue.
LEMMA CoreOther ==
  ASSUME CoreInv, AtPop, runq # <<>>, NEW p, p = Head(runq), DispatchOther(p),
         runq' = Append(Tail(runq), p), UNCHANGED <<expiring, nextTimer, now, nextPid, sent>>
  PROVE  CoreInv'
<1> USE DEF CoreInv
<1>1. /\ runq \in Seq(Pids) /\ p \in Pids /\ p < nextPid /\ InQueue(p)
  <2>1. runq \in Seq(Pids) /\ p \in Pids /\ 1 \in DOMAIN runq /\ runq[1] = p
    BY DEF TypeOK
  <2> QED BY <2>1 DEF MintInv, InQueue
<1>2. /\ runq' \in Seq(Pids)
      /\ \A i \in DOMAIN runq : \E j \in DOMAIN runq' : runq'[j] = runq[i]
      /\ \A i \in DOMAIN runq' : \E j \in DOMAIN runq : runq[j] = runq'[i]
  <2>1. /\ runq' \in Seq(Pids) /\ Len(runq') = Len(runq) /\ Len(runq) \in Nat \ {0}
        /\ DOMAIN runq' = 1..Len(runq) /\ DOMAIN runq = 1..Len(runq)
        /\ \A i \in 1..(Len(runq) - 1) : runq'[i] = runq[i + 1]
        /\ runq'[Len(runq)] = p /\ runq[1] = p
    BY <1>1
  <2>2. ASSUME NEW i \in DOMAIN runq PROVE \E j \in DOMAIN runq' : runq'[j] = runq[i]
    <3>1. CASE i = 1
      BY <3>1, <2>1
    <3>2. CASE i # 1
      <4>1. i - 1 \in 1..(Len(runq) - 1) /\ i - 1 \in DOMAIN runq' /\ runq'[i - 1] = runq[i]
        BY <3>2, <2>1
      <4> QED BY <4>1
    <3> QED BY <3>1, <3>2
  <2>3. ASSUME NEW i \in DOMAIN runq' PROVE \E j \in DOMAIN runq : runq[j] = runq'[i]
    <3>1. CASE i = Len(runq)
      BY <3>1, <2>1
    <3>2. CASE i # Len(runq)
      <4>1. i \in 1..(Len(runq) - 1) /\ i + 1 \in DOMAIN runq /\ runq[i + 1] = runq'[i]
        BY <3>2, <2>1
      <4> QED BY <4>1
    <3> QED BY <3>1, <3>2
  <2> QED BY <2>1, <2>2, <2>3, Zenon
<1>3. /\ Parked(p) /\ mailbox[p] = <<>> /\ runnable[p] = "none"
      /\ state' = [state EXCEPT ![p] = "Ready"] /\ pc' = "drain" /\ cur' = NoPid
      /\ cur = NoPid /\ expiring = {}
      /\ UNCHANGED <<runnable, wait, mailbox, timers, log, exits>>
  BY DEF DispatchOther, StrayTurn, BackToLoop, AtPop, PhaseInv
<1>4. TypeOK'
  BY <1>1, <1>2, <1>3, Zenon DEF TypeOK, ProcessState
<1>5. PhaseInv' /\ CurInv'
  BY <1>3 DEF PhaseInv, CurInv
<1>6. MintInv'
  BY <1>1, <1>2, <1>3, ZenonT(30) DEF MintInv, TypeOK, Parked, Pids
<1>7. SleepInv' /\ OnePrimary'
  BY <1>1, <1>3, Zenon DEF SleepInv, OnePrimary, TypeOK, Parked, Accepted, Matches
<1>8. ReadyIsQueued'
  <2>1. ASSUME NEW q \in Pids, InQueue(q) PROVE InQueue(q)'
    <3>1. PICK i \in DOMAIN runq : runq[i] = q
      BY <2>1 DEF InQueue
    <3>2. PICK j \in DOMAIN runq' : runq'[j] = runq[i]
      BY <1>2, Zenon
    <3> QED BY <3>1, <3>2 DEF InQueue
  <2> QED BY <2>1, <1>1, <1>3 DEF ReadyIsQueued, TypeOK
<1>9. TimerIdInv' /\ TimersMatchParks'
  BY <1>3 DEF TimerIdInv, TimersMatchParks, Parked
<1> QED BY <1>4, <1>5, <1>6, <1>7, <1>8, <1>9

\* Every branch of a turn of run_until_idle preserves the invariant.
LEMMA CoreDispatch ==
  ASSUME CoreInv, Dispatch
  PROVE  CoreInv'
<1>1. PICK p : p = Head(runq)
  OBVIOUS
<1>2. CASE (DispatchScanHit(p) \/ DispatchScanMiss(p) \/ DispatchResume(p) \/ DispatchNothing(p))
           /\ runq' = Tail(runq)
  <2>1. Turn(p)
    BY <1>1, <1>2 DEF Turn, Dispatch
  <2> QED BY <2>1, <1>2, CoreScanHit, CoreScanMiss, CoreResume, CoreNothing
<1>3. CASE DispatchOther(p) /\ runq' = Append(Tail(runq), p)
  BY <1>1, <1>3, CoreOther DEF Dispatch
<1> QED BY <1>1, <1>2, <1>3 DEF Dispatch

\* Returning from run_until_idle changes only the phase.
LEMMA CoreGoIdle ==
  ASSUME CoreInv, GoIdle
  PROVE  CoreInv'
<1> USE DEF CoreInv, GoIdle, procVars, timerVars, histVars
<1>1. TypeOK'
  BY DEF TypeOK
<1>2. PhaseInv' /\ CurInv' /\ MintInv' /\ SleepInv' /\ OnePrimary' /\ ReadyIsQueued'
  BY DEF PhaseInv, CurInv, MintInv, SleepInv, OnePrimary, ReadyIsQueued, Parked, InQueue, Accepted, AtPop
<1>3. TimerIdInv' /\ TimersMatchParks'
  BY DEF TimerIdInv, TimersMatchParks, Parked
<1> QED BY <1>1, <1>2, <1>3

\* The invariant holds in every reachable state of the JIT engine.
THEOREM JitCoreInv == Spec => []CoreInv
<1>1. Init => CoreInv
  BY CoreInit DEF Init
<1>2. CoreInv /\ [Next]_vars => CoreInv'
  <2>1. SUFFICES ASSUME CoreInv, [Next]_vars PROVE CoreInv'
    OBVIOUS
  <2>2. CASE Step
    BY <2>1, <2>2, CoreDrainExpired, CoreFireTimer, CoreDispatch, CoreGoIdle, CoreQuantum, CoreSend
       DEF Step
  <2>3. CASE Tick
    BY <2>1, <2>3, CoreTick
  <2>4. CASE UNCHANGED vars
    BY <2>1, <2>4, CoreStutter
  <2> QED BY <2>1, <2>2, <2>3, <2>4 DEF Next, Returned
<1> QED BY <1>1, <1>2, PTL DEF Spec

\* Type correctness of the JIT engine's scheduler.
THEOREM JitTypeOK == Spec => []TypeOK
<1>1. CoreInv => TypeOK
  BY DEF CoreInv
<1> QED BY <1>1, JitCoreInv, PTL

\* The run loop of the JIT engine never forgets a process that is ready.
THEOREM JitReadyIsQueued == Spec => []ReadyIsQueued
<1>1. CoreInv => ReadyIsQueued
  BY DEF CoreInv
<1> QED BY <1>1, JitCoreInv, PTL

\* No process of the JIT engine sleeps on a message its receive accepts.
THEOREM JitNoMissedMatch == Spec => []NoMissedMatch
<1>1. CoreInv => NoMissedMatch
  BY CoreImpliesNoMissedMatch
<1> QED BY <1>1, JitCoreInv, PTL

\* The JIT engine's timers are exactly the "after" clauses of its receives.
THEOREM JitTimersMatchParks == Spec => []TimersMatchParks
<1>1. CoreInv => TimersMatchParks
  BY DEF CoreInv
<1> QED BY <1>1, JitCoreInv, PTL

-----------------------------------------------------------------------------
\* What the JIT loop adds: only the process in its quantum is Running, and the
\* loop has returned only from an empty queue.
JitInv ==
  /\ \A p \in Pids : state[p] = "Running" => cur = p
  /\ pc = "idle" => runq = <<>>

\* Every step keeps the two facts: each turn of the loop leaves the process it
\* took in another state than Running, or in its quantum.
LEMMA JitInvStep ==
  ASSUME CoreInv, JitInv, [Next]_vars
  PROVE  JitInv'
<1> USE DEF JitInv
<1>1. CASE DrainExpired
  BY <1>1 DEF DrainExpired, procVars
<1>2. CASE FireTimer
  BY <1>2, SMTT(20) DEF FireTimer, FireAfterTimer, CoreInv, TypeOK, TimerEntry
<1>3. CASE Dispatch
  <2>1. state \in [Pids -> ProcessState]
    BY DEF CoreInv, TypeOK
  <2>2. cur = NoPid /\ (pc' = "run" \/ pc' = "drain")
    BY <1>3 DEF Dispatch, AtPop, CoreInv, PhaseInv, DispatchScanHit, DispatchScanMiss, DispatchResume,
                DispatchNothing, DispatchOther, BackToLoop
  <2>3. \A p \in Pids : state[p] # "Running"
    BY <2>2 DEF Pids, NoPid
  <2>4. PICK p : p = Head(runq)
    OBVIOUS
  <2>5. \/ state' = [state EXCEPT ![p] = "Running"] /\ cur' = p
        \/ state' = [state EXCEPT ![p] = "Blocked"]
        \/ state' = [state EXCEPT ![p] = "Exited"]
        \/ state' = [state EXCEPT ![p] = "Ready"]
    BY <1>3, <2>4 DEF Dispatch, DispatchScanHit, DispatchScanMiss, ScanMiss, DispatchResume,
                      DispatchNothing, DispatchOther
  <2> QED BY <2>1, <2>2, <2>3, <2>5
<1>4. CASE GoIdle
  BY <1>4 DEF GoIdle, procVars
<1>5. CASE Quantum
  <2>1. PICK p \in Pids :
          \/ SpawnClosure(p) \/ YieldMidFlight(p) \/ Exit(p)
          \/ \E pats \in Matchers, t \in Nat : Park(p, pats, t)
    <3>1. nextTimer \in Nat /\ NoTimer \in Nat
      BY DEF CoreInv, TypeOK, NoTimer
    <3> QED BY <3>1, <1>5 DEF Quantum, ParkForever, ParkAfter
  <2>2. cur = p /\ pc = "run" /\ \A q \in Pids : q # p => state[q] # "Running"
    <3>1. cur = p
      BY <2>1 DEF SpawnClosure, YieldMidFlight, Exit, Park
    <3> QED BY <3>1, InQuantum
  <2>3. state \in [Pids -> ProcessState]
    BY DEF CoreInv, TypeOK
  <2>4. CASE SpawnClosure(p)
    BY <2>2, <2>3, <2>4 DEF SpawnClosure
  <2>5. CASE YieldMidFlight(p) \/ Exit(p) \/ \E pats \in Matchers, t \in Nat : Park(p, pats, t)
    BY <2>2, <2>3, <2>5 DEF YieldMidFlight, Exit, Park, BackToLoop
  <2> QED BY <2>1, <2>4, <2>5
<1>6. CASE Send
  <2>1. PICK p \in Pids, q \in Pids, t \in Tags :
          SendVia(p, q, [id |-> sent + 1, tag |-> t])
    BY <1>6 DEF Send
  <2>2. cur = p /\ pc = "run" /\ pc' = pc /\ cur' = cur
    <3>1. cur = p /\ pc' = pc /\ cur' = cur
      BY <2>1 DEF SendVia
    <3> QED BY <3>1, InQuantum
  <2>3. state' = state \/ state' = [state EXCEPT ![q] = "Ready"]
    BY <2>1 DEF SendVia, ProbeHit, ProbeMiss, procVars
  <2> QED BY <2>2, <2>3 DEF CoreInv, TypeOK
<1>7. CASE Tick
  BY <1>7 DEF Tick, procVars
<1>8. CASE UNCHANGED vars
  BY <1>8 DEF vars, procVars
<1> QED BY <1>1, <1>2, <1>3, <1>4, <1>5, <1>6, <1>7, <1>8 DEF Next, Step, Returned

\* run_until_idle returns only when every task has halted or blocked.
THEOREM JitIdleMeansSettled == Spec => []IdleMeansSettled
<1>1. Init => JitInv
  BY DEF Init, InitWith, JitInv, Pids
<1>2. CoreInv /\ JitInv => IdleMeansSettled
  <2>1. SUFFICES ASSUME CoreInv, JitInv, pc = "idle", NEW p \in Pids
                 PROVE  state[p] \in {"Unborn", "Blocked", "Exited"}
    BY DEF IdleMeansSettled
  <2>2. runq = <<>> /\ cur = NoPid
    BY <2>1 DEF JitInv, CoreInv, PhaseInv
  <2>3. state[p] \notin {"New", "Ready"}
    BY <2>1, <2>2 DEF CoreInv, ReadyIsQueued, InQueue
  <2>4. state[p] # "Running"
    BY <2>1, <2>2 DEF JitInv, Pids, NoPid
  <2> QED BY <2>1, <2>3, <2>4 DEF CoreInv, TypeOK, ProcessState
<1> QED BY <1>1, <1>2, JitInvStep, JitCoreInv, PTL DEF Spec

-----------------------------------------------------------------------------
(* Refinement.                                                             *)

\* Each branch of send_via is a send or a hand-off; a self-send finds its
\* sender alive and not parked.
LEMMA RefineSendVia ==
  ASSUME CoreInv, LifeInv, Send
  PROVE  LifeInv' /\ AbsStep
<1>1. PICK p \in Pids, q \in Pids, t \in Tags : SendVia(p, q, [id |-> sent + 1, tag |-> t])
  BY DEF Send
<1>2. sent < MaxSends /\ sent' = sent + 1 /\ nextPid' = nextPid /\ cur = p
  BY <1>1 DEF SendVia
<1>3. state[p] \notin {"Unborn", "Exited"}
  BY <1>2, InQuantum
<1>4. \/ state[q] \in {"Unborn", "Exited"} /\ UNCHANGED <<procVars, log>>
      \/ /\ state[q] \notin {"Unborn", "Exited"}
         /\ ProbeHit(q, [id |-> sent + 1, tag |-> t])
      \/ /\ state[q] \notin {"Unborn", "Exited"}
         /\ mailbox' = [mailbox EXCEPT ![q] = Append(@, [id |-> sent + 1, tag |-> t])]
         /\ UNCHANGED <<runnable, wait, log>>
         /\ UNCHANGED state \/ state' = [state EXCEPT ![q] = "Ready"]
  BY <1>1, <1>3, Zenon DEF SendVia, ProbeMiss
<1> QED BY <1>2, <1>4, RefineSend

\* A turn of run_until_idle.
LEMMA RefineDispatch ==
  ASSUME CoreInv, LifeInv, Dispatch
  PROVE  LifeInv' /\ AbsStep
<1>1. PICK p \in Pids : p = Head(runq) /\ p < nextPid
  <2>1. runq \in Seq(Pids) /\ runq # <<>>
    BY DEF Dispatch, CoreInv, TypeOK
  <2>2. Head(runq) \in Pids /\ 1 \in DOMAIN runq /\ runq[1] = Head(runq)
    BY <2>1
  <2> QED BY <2>2 DEF CoreInv, MintInv
<1>2. UNCHANGED <<nextPid, sent>>
  BY DEF Dispatch
<1>3. CASE DispatchScanHit(p) \/ DispatchScanMiss(p) \/ DispatchResume(p) \/ DispatchNothing(p)
  BY <1>1, <1>2, <1>3, RefineTurn
<1>4. CASE DispatchOther(p)
  <2>1. /\ StrayTurn(p) /\ state' = [state EXCEPT ![p] = "Ready"]
        /\ UNCHANGED <<runnable, wait, mailbox, log>>
    BY <1>4 DEF DispatchOther
  <2> QED BY <2>1, <1>2, RefineStray
<1> QED BY <1>1, <1>3, <1>4 DEF Dispatch

\* Every step of the JIT engine is an abstract step or a stutter.
LEMMA JitRefinesStep ==
  ASSUME CoreInv, LifeInv, [Next]_vars
  PROVE  LifeInv' /\ AbsStep
<1>1. CASE DrainExpired \/ GoIdle \/ Tick \/ UNCHANGED vars
  <2>1. UNCHANGED <<procVars, nextPid, histVars>>
    BY <1>1, Zenon DEF DrainExpired, GoIdle, Tick, vars
  <2> QED BY <2>1, RefineIdle
<1> QED BY <1>1, RefineFireTimer, RefineDispatch, RefineQuantum, RefineSendVia
        DEF Next, Step, Returned

\* The JIT engine implements selective receive: no message is lost, duplicated
\* or reordered in a mailbox, a receive returns a message it accepts or times
\* out, and a retired process takes no further part (send_via, run_until_idle).
THEOREM JitRefinesSelectiveReceive == Spec => RefinesSelectiveReceive
<1>1. Init => Abstract!Init /\ LifeInv
  BY RefineInit DEF Init
<1>2. CoreInv /\ LifeInv /\ [Next]_vars => LifeInv' /\ [Abstract!Next]_(Abstract!vars)
  BY JitRefinesStep DEF AbsStep
<1> QED BY <1>1, <1>2, JitCoreInv, PTL DEF Spec, RefinesSelectiveReceive, Abstract!Spec

\* For any number of processes, messages and timers, the JIT engine keeps every
\* mailbox in the order of the sends and has no message in two places
\* (send_via, initial_scan).
THEOREM JitDeliveredOnce == Spec => []DeliveredOnce
<1>1. Init => DeliveredOnce /\ LifeInv
  BY RefineInit, DeliversInit DEF Init
<1>2. /\ CoreInv /\ LifeInv /\ [Next]_vars => LifeInv'
      /\ CoreInv /\ LifeInv /\ DeliveredOnce /\ [Next]_vars => DeliveredOnce'
  BY JitRefinesStep, DeliversStep DEF CoreInv, Delivers, Carried, DeliveredOnce
<1> QED BY <1>1, <1>2, JitCoreInv, PTL DEF Spec

\* No message that reached a process of the JIT engine goes astray: it stays in
\* the mailbox until a receive returns it, across timeouts, yields and the
\* steps of every other process; what a process has not received when it exits
\* is never received by another.
THEOREM JitNothingLost == Spec => NothingLost
<1>1. Init => LifeInv
  BY RefineInit DEF Init
<1>2. CoreInv /\ LifeInv /\ [Next]_vars => LifeInv'
  BY JitRefinesStep
<1>3. CoreInv /\ LifeInv /\ DeliveredOnce /\ [Next]_vars =>
        [\A p \in Pids : Seen(mailbox[p], log[p]) \subseteq Seen(mailbox[p], log[p])']_vars
  BY JitRefinesStep, DeliversStep DEF CoreInv, Delivers, Carried
<1> QED BY <1>1, <1>2, <1>3, JitCoreInv, JitDeliveredOnce, PTL DEF Spec, NothingLost
=============================================================================
