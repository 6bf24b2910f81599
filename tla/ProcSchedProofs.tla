---------------------------- MODULE ProcSchedProofs ----------------------------
(***************************************************************************)
(* The steps of the loop and of a quantum that the two compiled engines    *)
(* share preserve CoreInv, for every number of processes, messages and     *)
(* timers.  ProcSchedRefinementProofs goes on with the dispatch branches   *)
(* and sends, JitRuntimeProofs and AotRuntimeProofs with what differs.     *)
(***************************************************************************)
EXTENDS ProcSched, MailboxesProofs

-----------------------------------------------------------------------------
(* The queue, the mailboxes and the histories.                             *)

\* NoPid, the "no process" of cur, is no pid.
LEMMA PidIsNotNoPid == \A q \in Pids : q # NoPid
  BY BoundsAssumption DEF Pids, NoPid

\* A record of the park-record type has its two fields.
LEMMA ParkFields ==
  ASSUME TypeOK, NEW p \in Pids, Parked(p)
  PROVE  wait[p] \in ParkRecord /\ wait[p].pats \in Matchers /\ wait[p].timer \in 0..MaxTimers
  BY DEF TypeOK, Parked, ParkRecord

\* Pushing a pid on the run queue.
LEMMA QueueAppend ==
  ASSUME TypeOK, NEW p \in Pids, runq' = Append(runq, p)
  PROVE  /\ runq' \in Seq(Pids)
         /\ InQueue(p)'
         /\ \A q \in Pids : InQueue(q) => InQueue(q)'
         /\ \A i \in DOMAIN runq' : runq'[i] = p \/ \E j \in DOMAIN runq : runq[j] = runq'[i]
<1>1. runq \in Seq(Pids)
  BY DEF TypeOK
<1>2. /\ runq' \in Seq(Pids)
      /\ \A i \in DOMAIN runq : i \in DOMAIN runq' /\ runq'[i] = runq[i]
      /\ Len(runq) + 1 \in DOMAIN runq' /\ runq'[Len(runq) + 1] = p
      /\ \A i \in DOMAIN runq' : (i \in DOMAIN runq /\ runq'[i] = runq[i]) \/ runq'[i] = p
  BY <1>1
<1> QED BY <1>2 DEF InQueue

\* Popping the run queue.
LEMMA QueueTail ==
  ASSUME TypeOK, runq # <<>>, runq' = Tail(runq)
  PROVE  /\ runq' \in Seq(Pids)
         /\ Head(runq) \in Pids
         /\ InQueue(Head(runq))
         /\ \A q \in Pids : InQueue(q) /\ q # Head(runq) => InQueue(q)'
         /\ \A i \in DOMAIN runq' : \E j \in DOMAIN runq : runq[j] = runq'[i]
<1>1. runq \in Seq(Pids)
  BY DEF TypeOK
<1>2. /\ runq' \in Seq(Pids) /\ Head(runq) \in Pids
      /\ \A i \in DOMAIN runq' : i + 1 \in DOMAIN runq /\ runq'[i] = runq[i + 1]
      /\ \A i \in DOMAIN runq : runq[i] = Head(runq) \/ \E j \in DOMAIN runq' : runq'[j] = runq[i]
  BY <1>1, TailFacts, Zenon
<1>3. 1 \in DOMAIN runq /\ runq[1] = Head(runq)
  BY <1>1
<1> QED BY <1>2, <1>3 DEF InQueue

\* A message put in a mailbox is the only new one there.
LEMMA MailAppend ==
  ASSUME TypeOK, NEW q \in Pids, NEW m \in Message,
         mailbox' = [mailbox EXCEPT ![q] = Append(@, m)]
  PROVE  /\ mailbox' \in [Pids -> Seq(Message)]
         /\ \A i \in DOMAIN mailbox'[q] :
              mailbox'[q][i] = m \/ (i \in DOMAIN mailbox[q] /\ mailbox'[q][i] = mailbox[q][i])
         /\ \A r \in Pids : r # q => mailbox'[r] = mailbox[r]
<1>1. mailbox[q] \in Seq(Message) /\ mailbox'[q] = Append(mailbox[q], m)
  BY DEF TypeOK
<1>2. /\ mailbox'[q] \in Seq(Message)
      /\ \A i \in DOMAIN mailbox'[q] :
           (i \in DOMAIN mailbox[q] /\ mailbox'[q][i] = mailbox[q][i]) \/ mailbox'[q][i] = m
  BY <1>1
<1> QED BY <1>1, <1>2, SMTT(60) DEF TypeOK

\* What a receive returned is added to the history of its process.
LEMMA LogAppend ==
  ASSUME TypeOK, NEW q \in Pids, NEW x \in 0..MaxSends, log' = [log EXCEPT ![q] = Append(@, x)]
  PROVE  log' \in [Pids -> Seq(0..MaxSends)]
<1>1. log[q] \in Seq(0..MaxSends)
  BY DEF TypeOK
<1>2. Append(log[q], x) \in Seq(0..MaxSends)
  BY <1>1
<1> QED BY <1>2 DEF TypeOK

-----------------------------------------------------------------------------
(* The loop's own steps.                                                   *)

\* The initial state of either engine satisfies the invariant.
LEMMA CoreInit ==
  ASSUME NEW s \in {"New", "Ready"}, InitWith(s)
  PROVE  CoreInv
<1> USE BoundsAssumption DEF InitWith, Pids
<1>1. TypeOK
  BY DEF TypeOK, ProcessState, Closure, ParkRecord, TimerEntry, NoPid
<1>2. PhaseInv /\ CurInv /\ TimerIdInv
  BY DEF PhaseInv, CurInv, TimerIdInv, NoPid
<1>3. MintInv
  BY DEF MintInv, Parked
<1>4. SleepInv /\ OnePrimary
  BY DEF SleepInv, OnePrimary, Parked
<1>5. ReadyIsQueued
  BY DEF ReadyIsQueued, InQueue
<1>6. TimersMatchParks
  BY DEF TimersMatchParks, Parked
<1> QED BY <1>1, <1>2, <1>3, <1>4, <1>5, <1>6 DEF CoreInv

\* Draining moves entries from the wheel to the drained set and loses none.
LEMMA CoreDrainExpired ==
  ASSUME CoreInv, DrainExpired
  PROVE  CoreInv'
<1> USE DEF CoreInv, DrainExpired, procVars, histVars
<1>0. timers' \cup expiring' = timers \cup expiring /\ expiring = {}
  BY DEF PhaseInv
<1>1. TypeOK'
  BY DEF TypeOK
<1>2. PhaseInv' /\ CurInv'
  BY DEF PhaseInv, CurInv, Parked
<1>3. MintInv' /\ SleepInv' /\ OnePrimary' /\ ReadyIsQueued'
  BY DEF MintInv, SleepInv, OnePrimary, ReadyIsQueued, Parked, InQueue, Accepted
<1>4. TimerIdInv' /\ TimersMatchParks'
  BY <1>0 DEF TimerIdInv, TimersMatchParks, Parked
<1> QED BY <1>1, <1>2, <1>3, <1>4

\* Time passing changes nothing but the clock.
LEMMA CoreTick ==
  ASSUME CoreInv, Tick
  PROVE  CoreInv'
<1> USE DEF CoreInv, Tick, procVars, histVars
<1>1. TypeOK'
  BY DEF TypeOK
<1>2. PhaseInv' /\ CurInv' /\ MintInv' /\ SleepInv' /\ OnePrimary' /\ ReadyIsQueued'
  BY DEF PhaseInv, CurInv, MintInv, SleepInv, OnePrimary, ReadyIsQueued, Parked, InQueue, Accepted
<1>3. TimerIdInv' /\ TimersMatchParks'
  BY DEF TimerIdInv, TimersMatchParks, Parked
<1> QED BY <1>1, <1>2, <1>3

\* Stuttering changes nothing.
LEMMA CoreStutter ==
  ASSUME CoreInv, UNCHANGED vars
  PROVE  CoreInv'
<1> USE DEF CoreInv, vars, procVars, timerVars, histVars
<1>1. TypeOK'
  BY DEF TypeOK
<1>2. PhaseInv' /\ CurInv' /\ MintInv' /\ SleepInv' /\ OnePrimary' /\ ReadyIsQueued'
  BY DEF PhaseInv, CurInv, MintInv, SleepInv, OnePrimary, ReadyIsQueued, Parked, InQueue, Accepted
<1>3. TimerIdInv' /\ TimersMatchParks'
  BY DEF TimerIdInv, TimersMatchParks, Parked
<1> QED BY <1>1, <1>2, <1>3

\* A drained entry ends the receive it was scheduled for and wakes its process.
LEMMA CoreFireTimer ==
  ASSUME CoreInv, FireTimer
  PROVE  CoreInv'
<1> USE DEF CoreInv
<1>1. PICK e \in expiring : IsNextExpiring(e) /\ expiring' = expiring \ {e} /\ FireAfterTimer(e)
  BY DEF FireTimer
<1>2. /\ pc = "fire" /\ UNCHANGED <<mailbox, timers, nextTimer, now, nextPid, pc, cur, sent, exits>>
  BY DEF FireTimer
<1> DEFINE p == e.pid
<1>3. p \in Pids /\ Parked(p) /\ wait[p].timer = e.id /\ e.id # NoTimer
  BY DEF TypeOK, TimerEntry, TimersMatchParks, NoTimer
<1>4. /\ wait' = [wait EXCEPT ![p] = NoWait]
      /\ runnable' = [runnable EXCEPT ![p] = "after"]
      /\ state' = [state EXCEPT ![p] = "Ready"]
      /\ runq' = Append(runq, p)
      /\ log' = [log EXCEPT ![p] = Append(@, TimedOut)]
  BY <1>1, <1>3 DEF FireAfterTimer
<1>5. cur = NoPid
  BY <1>2 DEF PhaseInv
<1> HIDE DEF p
<1>Q. /\ runq' \in Seq(Pids) /\ InQueue(p)' /\ \A q \in Pids : InQueue(q) => InQueue(q)'
      /\ \A i \in DOMAIN runq' : runq'[i] = p \/ \E j \in DOMAIN runq : runq[j] = runq'[i]
  BY <1>3, <1>4, QueueAppend
<1>6. TypeOK'
  <2>1. TimedOut \in 0..MaxSends
    BY BoundsAssumption DEF TimedOut
  <2>2. log' \in [Pids -> Seq(0..MaxSends)]
    BY <2>1, <1>3, <1>4, LogAppend, Zenon
  <2> QED BY <2>2, <1>Q, <1>1, <1>2, <1>3, <1>4, SMTT(60) DEF TypeOK, ProcessState, Closure
<1>7. PhaseInv' /\ CurInv'
  BY <1>1, <1>2, <1>5 DEF PhaseInv, CurInv, NoPid
<1>8. MintInv'
  <2>1. p < nextPid
    BY <1>3 DEF MintInv, TypeOK, Pids
  <2>2. \A i \in DOMAIN runq' : runq'[i] < nextPid'
    BY <2>1, <1>2, <1>Q DEF MintInv
  <2> QED BY <2>1, <2>2, <1>2, <1>3, <1>4, SMTT(60) DEF MintInv, TypeOK, Parked, Pids
<1>9. SleepInv' /\ OnePrimary'
  BY <1>2, <1>3, <1>4, <1>5, SMTT(60) DEF SleepInv, OnePrimary, TypeOK, Parked, Accepted, Matches
<1>10. ReadyIsQueued'
  BY <1>3, <1>4, <1>Q DEF ReadyIsQueued, TypeOK
<1>11. TimerIdInv'
  BY <1>1, <1>2 DEF TimerIdInv
<1>12. TimersMatchParks'
  <2>1. ASSUME NEW f \in timers' \cup expiring'
        PROVE  f \in timers \cup expiring /\ f.pid # p
    <3>1. f \in timers \cup expiring
      BY <1>1, <1>2
    <3>2. f # e
      <4>1. ASSUME f = e PROVE FALSE
        BY <4>1, <1>1, <1>2 DEF TimerIdInv
      <4> QED BY <4>1
    <3>3. f.id # e.id
      BY <3>1, <3>2 DEF TimerIdInv
    <3> QED BY <3>1, <3>3, <1>3 DEF TimersMatchParks
  <2>2. \A f \in timers' \cup expiring' : Parked(f.pid)' /\ wait'[f.pid].timer = f.id
    BY <2>1, <1>4, SMTT(60) DEF TimersMatchParks, Parked, TypeOK, TimerEntry
  <2>3. ASSUME NEW q \in Pids, Parked(q)', wait'[q].timer # NoTimer
        PROVE  \E f \in timers' \cup expiring' : f.pid = q /\ f.id = wait'[q].timer
    <3>1. q # p /\ wait'[q] = wait[q]
      BY <2>3, <1>3, <1>4 DEF Parked, TypeOK
    <3>2. PICK f \in timers \cup expiring : f.pid = q /\ f.id = wait[q].timer
      BY <2>3, <3>1 DEF TimersMatchParks, Parked
    <3> QED BY <3>1, <3>2, <1>1, <1>2 DEF p
  <2> QED BY <2>2, <2>3 DEF TimersMatchParks
<1> QED BY <1>6, <1>7, <1>8, <1>9, <1>10, <1>11, <1>12

-----------------------------------------------------------------------------
(* The steps of the process in its quantum.                                *)

\* The process in its quantum, and the loop's phase, as facts about one p.
LEMMA InQuantum ==
  ASSUME CoreInv, NEW p \in Pids, cur = p
  PROVE  /\ p # NoPid /\ pc = "run" /\ expiring = {}
         /\ state[p] = "Running" /\ wait[p] = NoWait /\ runnable[p] = "none"
         /\ p < nextPid
<1>1. p # NoPid
  BY DEF Pids, NoPid
<1> QED BY <1>1 DEF CoreInv, PhaseInv, CurInv, MintInv, TypeOK, Parked, Pids

\* A spawned process is queued with its entry closure.
LEMMA CoreSpawn ==
  ASSUME CoreInv, NEW p \in Pids, SpawnClosure(p)
  PROVE  CoreInv'
<1> USE DEF CoreInv
<1>0. PICK c \in Pids : c = nextPid
  BY DEF SpawnClosure
<1>1. /\ cur = p /\ nextPid = c /\ nextPid' = c + 1
      /\ state' = [state EXCEPT ![c] = "Ready"]
      /\ runnable' = [runnable EXCEPT ![c] = "entry"]
      /\ runq' = Append(runq, c)
      /\ UNCHANGED <<wait, mailbox, timers, expiring, nextTimer, now, pc, cur, sent, log, exits>>
  BY <1>0 DEF SpawnClosure, timerVars, histVars
<1>2. /\ p # NoPid /\ pc = "run" /\ state[p] = "Running" /\ wait[p] = NoWait
      /\ runnable[p] = "none" /\ p < c
  BY <1>1, InQuantum
<1>3. state[c] = "Unborn" /\ ~Parked(c)
  BY <1>1 DEF MintInv, TypeOK, Pids
<1>Q. /\ runq' \in Seq(Pids) /\ InQueue(c)' /\ \A q \in Pids : InQueue(q) => InQueue(q)'
      /\ \A i \in DOMAIN runq' : runq'[i] = c \/ \E j \in DOMAIN runq : runq[j] = runq'[i]
  BY <1>1, QueueAppend
<1>4. c \in Nat /\ nextPid = c
  BY <1>1 DEF Pids
<1>5. TypeOK'
  <2>1. nextPid' \in 1..(MaxPid + 1)
    BY <1>1, <1>4, BoundsAssumption DEF Pids
  <2> QED BY <2>1, <1>1, <1>Q, Zenon DEF TypeOK, ProcessState, Closure
<1>6. PhaseInv' /\ CurInv'
  BY <1>1, <1>2, <1>4 DEF PhaseInv, CurInv, Parked, TypeOK, Pids
<1>7. MintInv'
  <2>1. \A q \in Pids : q >= nextPid' => state'[q] = "Unborn"
    BY <1>1, <1>4 DEF MintInv, TypeOK, Pids
  <2>2. \A q \in Pids : state'[q] = "Unborn" => ~Parked(q)'
    BY <1>1, <1>3 DEF MintInv, TypeOK, Parked
  <2>3. ASSUME NEW i \in DOMAIN runq'
        PROVE  runq'[i] < nextPid'
    <3>1. runq'[i] \in Pids /\ (runq'[i] = c \/ runq'[i] < c)
      BY <1>Q, <1>4 DEF MintInv
    <3> QED BY <3>1, <1>1, <1>4 DEF Pids
  <2> QED BY <2>1, <2>2, <2>3 DEF MintInv
<1>8. SleepInv' /\ OnePrimary'
  BY <1>1, <1>2, <1>3, SMTT(60) DEF SleepInv, OnePrimary, TypeOK, Parked, Accepted, Matches
<1>9. ReadyIsQueued'
  BY <1>1, <1>Q DEF ReadyIsQueued, TypeOK
<1>10. TimerIdInv' /\ TimersMatchParks'
  BY <1>1 DEF TimerIdInv, TimersMatchParks, Parked
<1> QED BY <1>5, <1>6, <1>7, <1>8, <1>9, <1>10

\* A yielding process is queued with its continuation.
LEMMA CoreYield ==
  ASSUME CoreInv, NEW p \in Pids, YieldMidFlight(p)
  PROVE  CoreInv'
<1> USE DEF CoreInv
<1>1. /\ cur = p
      /\ state' = [state EXCEPT ![p] = "Ready"]
      /\ runnable' = [runnable EXCEPT ![p] = "yield"]
      /\ runq' = Append(runq, p)
      /\ pc' = "drain" /\ cur' = NoPid
      /\ UNCHANGED <<wait, mailbox, timers, expiring, nextTimer, now, nextPid, sent, log, exits>>
  BY DEF YieldMidFlight, BackToLoop, timerVars, histVars
<1>2. /\ p # NoPid /\ expiring = {} /\ state[p] = "Running" /\ wait[p] = NoWait /\ p < nextPid
  BY <1>1, InQuantum
<1>Q. /\ runq' \in Seq(Pids) /\ InQueue(p)' /\ \A q \in Pids : InQueue(q) => InQueue(q)'
      /\ \A i \in DOMAIN runq' : runq'[i] = p \/ \E j \in DOMAIN runq : runq[j] = runq'[i]
  BY <1>1, QueueAppend
<1>3. TypeOK'
  BY <1>1, <1>Q DEF TypeOK, ProcessState, Closure
<1>4. PhaseInv' /\ CurInv'
  BY <1>1, <1>2 DEF PhaseInv, CurInv
<1>5. MintInv'
  BY <1>1, <1>2, <1>Q DEF MintInv, TypeOK, Parked, Pids
<1>6. SleepInv' /\ OnePrimary'
  BY <1>1, <1>2, SMTT(60) DEF SleepInv, OnePrimary, TypeOK, Parked, Accepted, Matches
<1>7. ReadyIsQueued'
  BY <1>1, <1>Q DEF ReadyIsQueued, TypeOK
<1>8. TimerIdInv' /\ TimersMatchParks'
  BY <1>1 DEF TimerIdInv, TimersMatchParks, Parked
<1> QED BY <1>3, <1>4, <1>5, <1>6, <1>7, <1>8

\* An exiting process leaves nothing to resume or to wait for.
LEMMA CoreExit ==
  ASSUME CoreInv, NEW p \in Pids, Exit(p)
  PROVE  CoreInv'
<1> USE DEF CoreInv
<1>1. /\ cur = p
      /\ state' = [state EXCEPT ![p] = "Exited"]
      /\ exits' = [exits EXCEPT ![p] = @ + 1]
      /\ pc' = "drain" /\ cur' = NoPid
      /\ UNCHANGED <<runnable, wait, mailbox, runq, timers, expiring, nextTimer, now, nextPid, sent, log>>
  BY DEF Exit, BackToLoop, timerVars
<1>2. /\ p # NoPid /\ expiring = {} /\ state[p] = "Running" /\ wait[p] = NoWait /\ p < nextPid
  BY <1>1, InQuantum
<1>3. TypeOK'
  BY <1>1, SMTT(60) DEF TypeOK, ProcessState
<1>4. PhaseInv' /\ CurInv'
  BY <1>1, <1>2 DEF PhaseInv, CurInv
<1>5. MintInv'
  BY <1>1, <1>2 DEF MintInv, TypeOK, Parked, Pids
<1>6. SleepInv' /\ OnePrimary'
  BY <1>1, <1>2, SMTT(60) DEF SleepInv, OnePrimary, TypeOK, Parked, Accepted, Matches
<1>7. ReadyIsQueued'
  BY <1>1 DEF ReadyIsQueued, InQueue, TypeOK
<1>8. TimerIdInv' /\ TimersMatchParks'
  BY <1>1 DEF TimerIdInv, TimersMatchParks, Parked
<1> QED BY <1>3, <1>4, <1>5, <1>6, <1>7, <1>8

\* Parking: the process sleeps only on an empty mailbox, otherwise it is queued
\* for a scan, and its receive owns the timer it was given, if any.
LEMMA CorePark ==
  ASSUME CoreInv, NEW p \in Pids, NEW pats \in Matchers, NEW t \in 0..MaxTimers,
         Park(p, pats, t),
         \/ t = NoTimer /\ UNCHANGED <<timers, nextTimer>>
         \/ /\ t = nextTimer /\ nextTimer' = nextTimer + 1
            /\ \E at \in Nat : timers' = timers \cup {[id |-> t, pid |-> p, at |-> at]}
  PROVE  CoreInv'
<1> USE DEF CoreInv
<1>1. /\ cur = p
      /\ wait' = [wait EXCEPT ![p] = [pats |-> pats, timer |-> t]]
      /\ pc' = "drain" /\ cur' = NoPid
      /\ UNCHANGED <<runnable, mailbox, expiring, now, nextPid, sent, log, exits>>
  BY DEF Park, BackToLoop, histVars
<1>2. \/ mailbox[p] = <<>> /\ state' = [state EXCEPT ![p] = "Blocked"] /\ runq' = runq
      \/ mailbox[p] # <<>> /\ state' = [state EXCEPT ![p] = "Ready"] /\ runq' = Append(runq, p)
  BY DEF Park
<1>3. /\ p # NoPid /\ expiring = {} /\ state[p] = "Running" /\ wait[p] = NoWait
      /\ runnable[p] = "none" /\ p < nextPid
  BY <1>1, InQuantum
<1>4. [pats |-> pats, timer |-> t] \in ParkRecord /\ [pats |-> pats, timer |-> t] # NoWait
  BY NoWaitAssumption DEF ParkRecord
<1>5. /\ runq' \in Seq(Pids) /\ \A q \in Pids : InQueue(q) => InQueue(q)'
      /\ mailbox[p] # <<>> => InQueue(p)'
      /\ \A i \in DOMAIN runq' : runq'[i] = p \/ \E j \in DOMAIN runq : runq[j] = runq'[i]
  <2>1. CASE mailbox[p] = <<>> /\ runq' = runq
    BY <2>1 DEF TypeOK, InQueue
  <2>2. CASE mailbox[p] # <<>> /\ runq' = Append(runq, p)
    BY <2>2, QueueAppend
  <2> QED BY <2>1, <2>2, <1>2
<1>6. PICK new \in SUBSET TimerEntry :
        /\ timers' = timers \cup new
        /\ new = {} => t = NoTimer /\ nextTimer' = nextTimer
        /\ new # {} => /\ t = nextTimer /\ t # NoTimer /\ nextTimer' = nextTimer + 1
                       /\ \E e \in new : new = {e} /\ e.id = t /\ e.pid = p
  <2>1. CASE t = NoTimer /\ UNCHANGED <<timers, nextTimer>>
    BY <2>1, Zenon
  <2>2. ASSUME t = nextTimer, nextTimer' = nextTimer + 1, NEW at \in Nat,
               timers' = timers \cup {[id |-> t, pid |-> p, at |-> at]}
        PROVE  /\ {[id |-> t, pid |-> p, at |-> at]} \in SUBSET TimerEntry
               /\ t # NoTimer
               /\ [id |-> t, pid |-> p, at |-> at].id = t /\ [id |-> t, pid |-> p, at |-> at].pid = p
    BY <2>2 DEF TimerEntry, TypeOK, NoTimer
  <2> QED BY <2>1, <2>2, Zenon
<1>7. TypeOK'
  <2>1. nextTimer' \in 1..(MaxTimers + 1)
    BY <1>6, BoundsAssumption, SMTT(60) DEF TypeOK
  <2> QED BY <2>1, <1>1, <1>2, <1>4, <1>5, <1>6, Zenon DEF TypeOK, ProcessState
<1>8. PhaseInv' /\ CurInv'
  BY <1>1, <1>3 DEF PhaseInv, CurInv
<1>9. MintInv'
  BY <1>1, <1>2, <1>3, <1>5, Zenon DEF MintInv, TypeOK, Parked, Pids
<1>10. SleepInv' /\ OnePrimary'
  <2>1. \A q \in Pids : q # p => state'[q] = state[q] /\ wait'[q] = wait[q] /\ cur # q
    BY <1>1, <1>2 DEF TypeOK
  <2>2. wait'[p] = [pats |-> pats, timer |-> t]
    BY <1>1 DEF TypeOK
  <2>3. OnePrimary'
    BY <2>1, <1>1, <1>3 DEF OnePrimary, Parked
  <2>4. ASSUME state'[p] = "Blocked" \/ (state'[p] = "Running" /\ cur' # p)
        PROVE  mailbox[p] = <<>>
    BY <2>4, <1>2 DEF TypeOK
  <2>5. SleepInv'
    <3>1. ASSUME NEW q \in Pids, q # p,
                 state'[q] = "Blocked" \/ (state'[q] = "Running" /\ cur' # q)
          PROVE  Parked(q)' /\ runnable'[q] = "none" /\ Accepted(q)' = {}
      BY <3>1, <2>1, <1>1, SMTT(60) DEF SleepInv, Parked, Accepted, Matches
    <3>2. ASSUME state'[p] = "Blocked" \/ (state'[p] = "Running" /\ cur' # p)
          PROVE  Parked(p)' /\ runnable'[p] = "none" /\ Accepted(p)' = {}
      BY <3>2, <2>2, <2>4, <1>1, <1>3, <1>4 DEF Parked, Accepted
    <3> QED BY <3>1, <3>2, SMTT(60) DEF SleepInv
  <2> QED BY <2>3, <2>5
<1>11. ReadyIsQueued'
  BY <1>1, <1>2, <1>5, SMTT(60) DEF ReadyIsQueued, TypeOK
<1>12. TimerIdInv'
  <2>1. expiring' = {} /\ nextTimer \in Nat /\ nextTimer <= nextTimer' /\ nextTimer' \in Nat
    BY <1>1, <1>3, <1>6 DEF TypeOK
  <2>2. \A e \in timers : e.id \in Nat /\ e.id < nextTimer
    BY DEF TimerIdInv, TypeOK, TimerEntry
  <2>3. CASE new = {}
    BY <2>1, <2>2, <2>3, <1>3, <1>6 DEF TimerIdInv
  <2>4. ASSUME NEW e \in new, new = {e}, e.id = nextTimer, nextTimer' = nextTimer + 1
        PROVE  TimerIdInv'
    <3>1. \A f \in timers' \cup expiring' : f = e \/ f \in timers
      BY <2>1, <2>4, <1>6
    <3>2. \A f \in timers' \cup expiring' : f.id < nextTimer'
      BY <3>1, <2>1, <2>2, <2>4
    <3>3. \A f \in timers : f.id # e.id
      BY <2>2, <2>4
    <3> QED BY <3>1, <3>2, <3>3, <2>1 DEF TimerIdInv
  <2> QED BY <2>3, <2>4, <1>6
<1>13. TimersMatchParks'
  <2>1. ASSUME NEW e \in timers \cup expiring
        PROVE  e.pid # p /\ e.pid \in Pids
    BY <1>3 DEF TimersMatchParks, Parked, TypeOK, TimerEntry
  <2>2. wait'[p] = [pats |-> pats, timer |-> t] /\ \A q \in Pids : q # p => wait'[q] = wait[q]
    BY <1>1 DEF TypeOK
  <2>3. \A e \in timers' \cup expiring' : Parked(e.pid)' /\ wait'[e.pid].timer = e.id
    BY <2>1, <2>2, <1>1, <1>4, <1>6 DEF TimersMatchParks, Parked
  <2>4. ASSUME NEW q \in Pids, Parked(q)', wait'[q].timer # NoTimer
        PROVE  \E e \in timers' \cup expiring' : e.pid = q /\ e.id = wait'[q].timer
    BY <2>2, <2>4, <1>1, <1>6 DEF TimersMatchParks, Parked
  <2> QED BY <2>3, <2>4 DEF TimersMatchParks
<1> QED BY <1>7, <1>8, <1>9, <1>10, <1>11, <1>12, <1>13

\* Everything the running process does, sends apart.
LEMMA CoreQuantum ==
  ASSUME CoreInv, Quantum
  PROVE  CoreInv'
<1>1. PICK p \in Pids :
        \/ SpawnClosure(p) \/ YieldMidFlight(p) \/ Exit(p)
        \/ \E pats \in Matchers :
             ParkForever(p, pats) \/ \E delay \in Delays : ParkAfter(p, pats, delay)
  BY DEF Quantum
<1>2. ASSUME NEW pats \in Matchers, ParkForever(p, pats) PROVE CoreInv'
  <2>1. NoTimer \in 0..MaxTimers /\ Park(p, pats, NoTimer) /\ UNCHANGED <<timers, nextTimer>>
    BY <1>2, BoundsAssumption DEF ParkForever, NoTimer
  <2> QED BY <2>1, CorePark
<1>3. ASSUME NEW pats \in Matchers, NEW delay \in Delays, ParkAfter(p, pats, delay) PROVE CoreInv'
  <2>1. nextTimer \in 0..MaxTimers /\ now + delay \in Nat
    BY <1>3, BoundsAssumption DEF ParkAfter, CoreInv, TypeOK
  <2>2. PICK t \in 0..MaxTimers : t = nextTimer
    BY <2>1
  <2>3. /\ Park(p, pats, t) /\ nextTimer' = nextTimer + 1
        /\ timers' = timers \cup {[id |-> t, pid |-> p, at |-> now + delay]}
    BY <1>3, <2>2 DEF ParkAfter
  <2> QED BY <2>1, <2>2, <2>3, CorePark
<1> QED BY <1>1, <1>2, <1>3, CoreSpawn, CoreYield, CoreExit
=============================================================================
