----------------------- MODULE ProcSchedRefinementProofs -----------------------
(***************************************************************************)
(* The dispatch branches and the outcomes of a send preserve CoreInv.      *)
(* Every step the two compiled engines share is a step of SelectiveReceive *)
(* or leaves its variables alone, for every number of processes, messages  *)
(* and timers, and every such step delivers messages in order and once.    *)
(* JitRuntimeProofs and AotRuntimeProofs add each engine's own steps.      *)
(***************************************************************************)
EXTENDS ProcSchedRefinement, ProcSchedProofs

-----------------------------------------------------------------------------
(* Turns of the loop.  p is the process at the head of the queue.          *)

\* What a turn leaves alone.
Turn(p) ==
  /\ AtPop
  /\ runq # <<>>
  /\ p = Head(runq)
  /\ runq' = Tail(runq)
  /\ UNCHANGED <<expiring, nextTimer, now, nextPid, sent>>

\* A match cancels the timer of its receive and no other.
LEMMA CancelTimer ==
  ASSUME CoreInv, NEW p \in Pids, Parked(p), expiring = {}, expiring' = {},
         Cancel(wait[p].timer), nextTimer' = nextTimer,
         wait' = [wait EXCEPT ![p] = NoWait]
  PROVE  TimerIdInv' /\ TimersMatchParks' /\ timers' \in SUBSET TimerEntry
<1> USE DEF CoreInv
<1>1. timers' = {e \in timers : e.id # wait[p].timer}
  BY DEF Cancel
<1>2. TimerIdInv' /\ timers' \in SUBSET TimerEntry
  BY <1>1 DEF TimerIdInv, TypeOK
<1>3. wait'[p] = NoWait /\ \A q \in Pids : q # p => wait'[q] = wait[q]
  BY DEF TypeOK
<1>4. ASSUME NEW e \in timers'
      PROVE  Parked(e.pid)' /\ wait'[e.pid].timer = e.id
  <2>1. e \in timers /\ e.id # wait[p].timer /\ e.pid \in Pids
    BY <1>1 DEF TypeOK, TimerEntry
  <2>2. Parked(e.pid) /\ wait[e.pid].timer = e.id
    BY <2>1 DEF TimersMatchParks
  <2> QED BY <2>1, <2>2, <1>3 DEF Parked
<1>5. ASSUME NEW q \in Pids, Parked(q)', wait'[q].timer # NoTimer
      PROVE  \E e \in timers' : e.pid = q /\ e.id = wait'[q].timer
  <2>1. q # p /\ wait'[q] = wait[q] /\ Parked(q)
    BY <1>3, <1>5 DEF Parked
  <2>2. PICK e \in timers : e.pid = q /\ e.id = wait[q].timer
    BY <2>1, <1>5 DEF TimersMatchParks
  <2>3. e.id # wait[p].timer
    <3>1. SUFFICES ASSUME e.id = wait[p].timer PROVE FALSE
      OBVIOUS
    <3>2. PICK f \in timers : f.pid = p /\ f.id = wait[p].timer
      BY <3>1, <2>1, <2>2, <1>5, Zenon DEF TimersMatchParks
    <3> QED BY <3>1, <3>2, <2>1, <2>2 DEF TimerIdInv
  <2> QED BY <2>1, <2>2, <2>3, <1>1
<1> QED BY <1>2, <1>4, <1>5 DEF TimersMatchParks

\* The phase of the loop and the queue, in a turn.
LEMMA TurnFacts ==
  ASSUME CoreInv, NEW p, Turn(p)
  PROVE  /\ p \in Pids /\ p # NoPid /\ p < nextPid
         /\ pc = "fire" /\ cur = NoPid /\ expiring = {} /\ expiring' = {}
         /\ runq' \in Seq(Pids)
         /\ \A q \in Pids : InQueue(q) /\ q # p => InQueue(q)'
         /\ \A i \in DOMAIN runq' : \E j \in DOMAIN runq : runq[j] = runq'[i]
<1> USE DEF CoreInv, Turn, AtPop
<1>1. p \in Pids /\ InQueue(p)
  BY QueueTail
<1>2. p # NoPid /\ p < nextPid
  BY <1>1 DEF MintInv, InQueue, Pids, NoPid
<1> QED BY <1>1, <1>2, QueueTail DEF PhaseInv

\* A scan hit: the process runs with the first message it accepts.
LEMMA CoreScanHit ==
  ASSUME CoreInv, NEW p, Turn(p), DispatchScanHit(p)
  PROVE  CoreInv'
<1> USE DEF CoreInv
<1>1. /\ p \in Pids /\ p # NoPid /\ p < nextPid /\ cur = NoPid /\ expiring = {} /\ expiring' = {}
      /\ runq' \in Seq(Pids)
      /\ \A q \in Pids : InQueue(q) /\ q # p => InQueue(q)'
      /\ \A i \in DOMAIN runq' : \E j \in DOMAIN runq : runq[j] = runq'[i]
  BY TurnFacts
<1>2. /\ Parked(p) /\ state' = [state EXCEPT ![p] = "Running"]
      /\ wait' = [wait EXCEPT ![p] = NoWait] /\ Cancel(wait[p].timer)
      /\ cur' = p /\ pc' = "run"
      /\ UNCHANGED <<runnable, exits, expiring, nextTimer, now, nextPid, sent>>
  BY DEF DispatchScanHit, ScanHit, ScanApplies, Turn
<1>3. PICK i \in Accepted(p) : /\ log' = [log EXCEPT ![p] = Append(@, mailbox[p][i].id)]
                               /\ mailbox' = [mailbox EXCEPT ![p] = RemoveAt(@, i)]
  BY Zenon DEF DispatchScanHit, ScanHit
<1>4. TimerIdInv' /\ TimersMatchParks' /\ timers' \in SUBSET TimerEntry
  BY <1>1, <1>2, CancelTimer, Zenon
<1>5. mailbox' \in [Pids -> Seq(Message)] /\ log' \in [Pids -> Seq(0..MaxSends)]
  <2>1. mailbox[p] \in Seq(Message) /\ i \in DOMAIN mailbox[p]
    BY <1>1 DEF TypeOK, Accepted
  <2>2. RemoveAt(mailbox[p], i) \in Seq(Message)
    BY <2>1, RemoveAtFacts, Zenon
  <2>3. mailbox[p][i].id \in 0..MaxSends
    <3>1. mailbox[p][i] \in Message
      BY <2>1
    <3> QED BY <3>1 DEF Message
  <2>4. log' \in [Pids -> Seq(0..MaxSends)]
    BY <2>3, <1>1, <1>3, LogAppend, Zenon
  <2> QED BY <2>2, <2>4, <1>1, <1>3 DEF TypeOK
<1>6. TypeOK'
  BY <1>1, <1>2, <1>4, <1>5, Zenon DEF TypeOK, ProcessState
<1>7. PhaseInv'
  BY <1>1, <1>2 DEF PhaseInv
<1>8. CurInv'
  BY <1>1, <1>2 DEF CurInv, Parked, TypeOK, OnePrimary
<1>9. MintInv'
  BY <1>1, <1>2 DEF MintInv, TypeOK, Parked, Pids
<1>10. OnePrimary'
  BY <1>1, <1>2, Zenon DEF OnePrimary, TypeOK, Parked
<1>11. SleepInv'
  <2>1. \A q \in Pids : q # p => /\ state'[q] = state[q] /\ wait'[q] = wait[q]
                                /\ mailbox'[q] = mailbox[q] /\ runnable'[q] = runnable[q]
    BY <1>1, <1>2, <1>3 DEF TypeOK
  <2>2. state'[p] = "Running" /\ cur' = p
    BY <1>1, <1>2 DEF TypeOK
  <2>3. \A q \in Pids : q # p => cur # q
    BY <1>1, PidIsNotNoPid
  <2> QED BY <2>1, <2>2, <2>3 DEF SleepInv, Parked, Accepted, Matches
<1>12. ReadyIsQueued'
  BY <1>1, <1>2 DEF ReadyIsQueued, TypeOK
<1> QED BY <1>4, <1>6, <1>7, <1>8, <1>9, <1>10, <1>11, <1>12

\* A scan miss: the process blocks, and nothing in its mailbox is accepted.
LEMMA CoreScanMiss ==
  ASSUME CoreInv, NEW p, Turn(p), DispatchScanMiss(p)
  PROVE  CoreInv'
<1> USE DEF CoreInv
<1>1. /\ p \in Pids /\ p # NoPid /\ p < nextPid /\ cur = NoPid /\ expiring = {} /\ expiring' = {}
      /\ runq' \in Seq(Pids)
      /\ \A q \in Pids : InQueue(q) /\ q # p => InQueue(q)'
      /\ \A i \in DOMAIN runq' : \E j \in DOMAIN runq : runq[j] = runq'[i]
  BY TurnFacts
<1>2. /\ Parked(p) /\ Accepted(p) = {} /\ state' = [state EXCEPT ![p] = "Blocked"]
      /\ cur' = NoPid /\ pc' = "drain"
      /\ UNCHANGED <<runnable, wait, mailbox, timers, log, exits, expiring, nextTimer, now, nextPid, sent>>
  BY DEF DispatchScanMiss, ScanMiss, ScanApplies, Turn, BackToLoop
<1>3. TypeOK'
  BY <1>1, <1>2 DEF TypeOK, ProcessState
<1>4. PhaseInv' /\ CurInv'
  BY <1>1, <1>2, Zenon DEF PhaseInv, CurInv
<1>5. MintInv'
  BY <1>1, <1>2 DEF MintInv, TypeOK, Parked, Pids
<1>6. OnePrimary'
  BY <1>1, <1>2, Zenon DEF OnePrimary, TypeOK, Parked
<1>7. SleepInv'
  <2>1. \A q \in Pids : q # p => state'[q] = state[q] /\ cur # q
    BY <1>1, <1>2, PidIsNotNoPid DEF TypeOK
  <2>2. state'[p] = "Blocked" /\ runnable[p] = "none"
    BY <1>1, <1>2, Zenon DEF TypeOK, OnePrimary
  <2> QED BY <2>1, <2>2, <1>2 DEF SleepInv, Parked, Accepted, Matches
<1>8. ReadyIsQueued'
  BY <1>1, <1>2, Zenon DEF ReadyIsQueued, TypeOK
<1>9. TimerIdInv' /\ TimersMatchParks'
  BY <1>1, <1>2, Zenon DEF TimerIdInv, TimersMatchParks, Parked
<1> QED BY <1>3, <1>4, <1>5, <1>6, <1>7, <1>8, <1>9

\* Resuming a closure: the process is not parked, because it has a closure.
LEMMA CoreResume ==
  ASSUME CoreInv, NEW p, Turn(p), DispatchResume(p)
  PROVE  CoreInv'
<1> USE DEF CoreInv
<1>1. /\ p \in Pids /\ p # NoPid /\ p < nextPid /\ cur = NoPid /\ expiring = {} /\ expiring' = {}
      /\ runq' \in Seq(Pids)
      /\ \A q \in Pids : InQueue(q) /\ q # p => InQueue(q)'
      /\ \A i \in DOMAIN runq' : \E j \in DOMAIN runq : runq[j] = runq'[i]
  BY TurnFacts
<1>2. /\ runnable[p] # "none" /\ runnable' = [runnable EXCEPT ![p] = "none"]
      /\ state' = [state EXCEPT ![p] = "Running"] /\ cur' = p /\ pc' = "run"
      /\ UNCHANGED <<wait, mailbox, timers, log, exits, expiring, nextTimer, now, nextPid, sent>>
  BY DEF DispatchResume, Turn
<1>3. ~Parked(p)
  BY <1>1, <1>2 DEF OnePrimary
<1>4. TypeOK'
  BY <1>1, <1>2 DEF TypeOK, ProcessState, Closure
<1>5. PhaseInv' /\ CurInv'
  BY <1>1, <1>2, <1>3 DEF PhaseInv, CurInv, TypeOK, Parked
<1>6. MintInv'
  BY <1>1, <1>2 DEF MintInv, TypeOK, Parked, Pids
<1>7. OnePrimary'
  BY <1>1, <1>2 DEF OnePrimary, TypeOK, Parked
<1>8. SleepInv'
  <2>1. \A q \in Pids : q # p => state'[q] = state[q] /\ runnable'[q] = runnable[q] /\ cur # q
    BY <1>1, <1>2, PidIsNotNoPid, Zenon DEF TypeOK
  <2>2. state'[p] = "Running" /\ cur' = p
    BY <1>1, <1>2 DEF TypeOK
  <2> QED BY <2>1, <2>2, <1>2 DEF SleepInv, Parked, Accepted, Matches
<1>9. ReadyIsQueued'
  BY <1>1, <1>2 DEF ReadyIsQueued, TypeOK
<1>10. TimerIdInv' /\ TimersMatchParks'
  BY <1>1, <1>2, Zenon DEF TimerIdInv, TimersMatchParks, Parked
<1> QED BY <1>4, <1>5, <1>6, <1>7, <1>8, <1>9, <1>10

\* A turn with nothing to resume and nothing awaited retires the process.
LEMMA CoreNothing ==
  ASSUME CoreInv, NEW p, Turn(p), DispatchNothing(p)
  PROVE  CoreInv'
<1> USE DEF CoreInv
<1>1. /\ p \in Pids /\ p # NoPid /\ p < nextPid /\ cur = NoPid /\ expiring = {} /\ expiring' = {}
      /\ runq' \in Seq(Pids)
      /\ \A q \in Pids : InQueue(q) /\ q # p => InQueue(q)'
      /\ \A i \in DOMAIN runq' : \E j \in DOMAIN runq : runq[j] = runq'[i]
  BY TurnFacts, Zenon
<1>2. /\ ~Parked(p) /\ state' = [state EXCEPT ![p] = "Exited"]
      /\ exits' = [exits EXCEPT ![p] = @ + 1] /\ cur' = NoPid /\ pc' = "drain"
      /\ UNCHANGED <<runnable, wait, mailbox, timers, log, expiring, nextTimer, now, nextPid, sent>>
  BY DEF DispatchNothing, Turn, BackToLoop
<1>3. TypeOK'
  BY <1>1, <1>2 DEF TypeOK, ProcessState
<1>4. PhaseInv' /\ CurInv'
  BY <1>1, <1>2, Zenon DEF PhaseInv, CurInv
<1>5. MintInv'
  BY <1>1, <1>2, SMTT(60) DEF MintInv, TypeOK, Parked, Pids
<1>6. SleepInv' /\ OnePrimary'
  BY <1>1, <1>2, Zenon DEF SleepInv, OnePrimary, TypeOK, Parked, Accepted, Matches
<1>7. ReadyIsQueued'
  BY <1>1, <1>2 DEF ReadyIsQueued, TypeOK
<1>8. TimerIdInv' /\ TimersMatchParks'
  BY <1>1, <1>2, Zenon DEF TimerIdInv, TimersMatchParks, Parked
<1> QED BY <1>3, <1>4, <1>5, <1>6, <1>7, <1>8

-----------------------------------------------------------------------------
(* What a send can do to its receiver.                                     *)

\* The running process p sends message m.
Sending(p, m) ==
  /\ cur = p /\ p \in Pids /\ m \in Message
  /\ sent' = sent + 1 /\ sent' \in 0..MaxSends
  /\ UNCHANGED <<expiring, nextTimer, now, nextPid, pc, cur, exits>>

\* A dropped message changes nothing.
LEMMA CoreSendDropped ==
  ASSUME CoreInv, NEW p, NEW m, Sending(p, m), UNCHANGED <<procVars, runq, timers, log>>
  PROVE  CoreInv'
<1> USE DEF CoreInv, Sending, procVars
<1>1. TypeOK'
  BY DEF TypeOK
<1>2. PhaseInv' /\ CurInv' /\ MintInv' /\ SleepInv' /\ OnePrimary' /\ ReadyIsQueued'
  BY SMTT(60) DEF PhaseInv, CurInv, MintInv, SleepInv, OnePrimary, ReadyIsQueued, Parked, InQueue, Accepted
<1>3. TimerIdInv' /\ TimersMatchParks'
  BY DEF TimerIdInv, TimersMatchParks, Parked
<1> QED BY <1>1, <1>2, <1>3

\* A message put in the mailbox of a process that is not parked, or whose
\* receive rejects it, puts nobody to sleep on a match.
LEMMA CoreSendQueued ==
  ASSUME CoreInv, NEW p, NEW m, NEW q \in Pids, Sending(p, m),
         Parked(q) => ~Matches(wait[q], m),
         mailbox' = [mailbox EXCEPT ![q] = Append(@, m)],
         UNCHANGED <<state, runnable, wait, runq, timers, log>>
  PROVE  CoreInv'
<1> USE DEF CoreInv, Sending
<1>1. /\ mailbox' \in [Pids -> Seq(Message)]
      /\ \A i \in DOMAIN mailbox'[q] :
           mailbox'[q][i] = m \/ (i \in DOMAIN mailbox[q] /\ mailbox'[q][i] = mailbox[q][i])
      /\ \A r \in Pids : r # q => mailbox'[r] = mailbox[r]
  BY MailAppend, Zenon
<1>2. TypeOK'
  BY <1>1, SMTT(60) DEF TypeOK
<1>3. PhaseInv' /\ CurInv' /\ MintInv' /\ OnePrimary' /\ ReadyIsQueued'
  BY DEF PhaseInv, CurInv, MintInv, OnePrimary, ReadyIsQueued, Parked, InQueue
<1>4. TimerIdInv' /\ TimersMatchParks'
  <2>1. TimerIdInv /\ TimersMatchParks /\ UNCHANGED <<wait, timers, expiring, nextTimer>>
    OBVIOUS
  <2> HIDE DEF CoreInv, Sending
  <2> QED BY <2>1 DEF TimerIdInv, TimersMatchParks, Parked
<1>5. SleepInv'
  <2>1. SUFFICES ASSUME NEW r \in Pids, state[r] = "Blocked" \/ (state[r] = "Running" /\ cur # r)
                 PROVE  Parked(r) /\ runnable[r] = "none" /\ Accepted(r)' = {}
    BY DEF SleepInv, Parked
  <2>2. Parked(r) /\ runnable[r] = "none" /\ Accepted(r) = {}
    BY <2>1 DEF SleepInv
  <2>3. CASE r # q
    BY <2>2, <2>3, <1>1 DEF Accepted, Matches
  <2>4. CASE r = q
    <3>1. ASSUME NEW i \in DOMAIN mailbox'[q]
          PROVE  ~Matches(wait[q], mailbox'[q][i])
      BY <1>1, <2>2, <2>4 DEF Accepted
    <3> QED BY <3>1, <2>2, <2>4 DEF Accepted, Matches
  <2> QED BY <2>3, <2>4
<1> QED BY <1>2, <1>3, <1>4, <1>5

\* A message taken by a parked receive wakes and queues its process.
LEMMA CoreSendTaken ==
  ASSUME CoreInv, NEW p, NEW m, NEW q \in Pids, Sending(p, m),
         ProbeHit(q, m), runq' = Append(runq, q)
  PROVE  CoreInv'
<1> USE DEF CoreInv
<1>1. /\ cur = p /\ p \in Pids /\ m \in Message /\ sent' \in 0..MaxSends
      /\ UNCHANGED <<expiring, nextTimer, now, nextPid, pc, cur, exits, mailbox>>
      /\ Parked(q) /\ wait' = [wait EXCEPT ![q] = NoWait] /\ Cancel(wait[q].timer)
      /\ runnable' = [runnable EXCEPT ![q] = "clause"]
      /\ state' = [state EXCEPT ![q] = "Ready"]
      /\ log' = [log EXCEPT ![q] = Append(@, m.id)]
  BY DEF Sending, ProbeHit
<1>2. /\ p # NoPid /\ expiring = {} /\ state[p] = "Running" /\ wait[p] = NoWait
      /\ runnable[p] = "none" /\ pc = "run"
  BY <1>1, InQuantum
<1>3. p # q /\ expiring' = {}
  BY <1>1, <1>2 DEF Parked
<1>Q. /\ runq' \in Seq(Pids) /\ InQueue(q)' /\ \A r \in Pids : InQueue(r) => InQueue(r)'
      /\ \A i \in DOMAIN runq' : runq'[i] = q \/ \E j \in DOMAIN runq : runq[j] = runq'[i]
  BY QueueAppend
<1>4. TimerIdInv' /\ TimersMatchParks' /\ timers' \in SUBSET TimerEntry
  BY <1>1, <1>2, <1>3, CancelTimer, Zenon
<1>5. TypeOK'
  <2>1. m.id \in 0..MaxSends
    BY <1>1 DEF Message
  <2>2. log' \in [Pids -> Seq(0..MaxSends)]
    BY <2>1, <1>1, LogAppend, Zenon
  <2> QED BY <2>2, <1>1, <1>Q, <1>4, Zenon DEF TypeOK, ProcessState, Closure
<1>6. PhaseInv' /\ CurInv'
  BY <1>1, <1>2, <1>3, SMTT(60) DEF PhaseInv, CurInv, Parked, TypeOK
<1>7. MintInv'
  <2>1. q < nextPid
    BY <1>1 DEF MintInv, TypeOK, Pids
  <2> QED BY <2>1, <1>1, <1>Q DEF MintInv, TypeOK, Parked, Pids
<1>8. OnePrimary'
  BY <1>1, SMTT(60) DEF OnePrimary, TypeOK, Parked
<1>9. SleepInv'
  <2>1. \A r \in Pids : r # q => state'[r] = state[r] /\ wait'[r] = wait[r] /\ runnable'[r] = runnable[r]
    BY <1>1 DEF TypeOK
  <2>2. state'[q] = "Ready"
    BY <1>1, SMTT(60) DEF TypeOK
  <2>3. mailbox' = mailbox /\ cur' = cur
    BY <1>1, SMTT(60)
  <2>4. SUFFICES ASSUME NEW r \in Pids,
                        state'[r] = "Blocked" \/ (state'[r] = "Running" /\ cur' # r)
                 PROVE  (Parked(r) /\ runnable[r] = "none" /\ Accepted(r) = {})'
    BY DEF SleepInv
  <2>5. r # q
    BY <2>2, <2>4
  <2>6. Parked(r) /\ runnable[r] = "none" /\ Accepted(r) = {}
    BY <2>1, <2>3, <2>4, <2>5, <1>1, SMTT(60) DEF SleepInv
  <2>7. Accepted(r)' = Accepted(r) /\ Parked(r)' = Parked(r)
    BY <2>1, <2>3, <2>4, <2>5, SMTT(60) DEF Accepted, Matches, Parked
  <2> QED BY <2>1, <2>4, <2>5, <2>6, <2>7
<1>10. ReadyIsQueued'
  BY <1>1, <1>Q DEF ReadyIsQueued, TypeOK
<1> QED BY <1>4, <1>5, <1>6, <1>7, <1>8, <1>9, <1>10

-----------------------------------------------------------------------------
\* The four safety properties follow from the inductive invariant; only the
\* absence of missed matches takes an argument.
LEMMA CoreImpliesNoMissedMatch ==
  ASSUME CoreInv
  PROVE  NoMissedMatch
<1>1. SUFFICES ASSUME NEW p \in Pids, cur # p, ~InQueue(p), state[p] \notin {"Unborn", "Exited"}
               PROVE  Parked(p) /\ runnable[p] = "none" /\ Accepted(p) = {}
  BY DEF NoMissedMatch
<1>2. state[p] \notin {"New", "Ready"} /\ state[p] \in ProcessState
  BY <1>1 DEF CoreInv, ReadyIsQueued, TypeOK
<1> QED BY <1>1, <1>2 DEF CoreInv, SleepInv, ProcessState

-----------------------------------------------------------------------------
(* The refinement.                                                         *)

\* A step of the abstract specification, or a stutter.
AbsStep == [Abstract!Next]_(Abstract!vars)

\* Changing the state of one process changes its life and no other's.
LEMMA LifeUpdate ==
  ASSUME TypeOK, NEW q \in Pids, NEW s, state' = [state EXCEPT ![q] = s]
  PROVE  /\ AbsLife' = [AbsLife EXCEPT ![q] = Life(q)']
         /\ state'[q] = s
<1>1. state'[q] = s /\ \A p \in Pids : p # q => state'[p] = state[p]
  BY DEF TypeOK
<1>2. \A p \in Pids : p # q => Life(p)' = Life(p)
  BY <1>1 DEF Life
<1> QED BY <1>1, <1>2, Zenon DEF AbsLife

\* Moving a process between two states of a live process is invisible.
LEMMA LifeStays ==
  ASSUME TypeOK, NEW q \in Pids, NEW s, state' = [state EXCEPT ![q] = s],
         state[q] \notin {"Unborn", "Exited"}, s \notin {"Unborn", "Exited"}
  PROVE  AbsLife' = AbsLife
<1>1. AbsLife' = [AbsLife EXCEPT ![q] = Life(q)'] /\ state'[q] = s
  BY LifeUpdate, Zenon
<1>2. Life(q)' = "live" /\ Life(q) = "live"
  BY <1>1 DEF Life
<1> QED BY <1>1, <1>2, Zenon DEF AbsLife

\* Changing the park record of one process changes what it wants and no more.
LEMMA WantUpdate ==
  ASSUME TypeOK, NEW q \in Pids, NEW w, wait' = [wait EXCEPT ![q] = w]
  PROVE  /\ AbsWant' = [AbsWant EXCEPT ![q] = Want(q)']
         /\ wait'[q] = w
<1>1. wait'[q] = w /\ \A p \in Pids : p # q => wait'[p] = wait[p]
  BY DEF TypeOK
<1>2. \A p \in Pids : p # q => Want(p)' = Want(p)
  BY <1>1 DEF Want, Parked
<1> QED BY <1>1, <1>2, Zenon DEF AbsWant

\* A process that leaves its receive wants nothing.
LEMMA WantCleared ==
  ASSUME TypeOK, NEW q \in Pids, wait' = [wait EXCEPT ![q] = NoWait]
  PROVE  AbsWant' = [AbsWant EXCEPT ![q] = NoWait]
<1>1. AbsWant' = [AbsWant EXCEPT ![q] = Want(q)'] /\ wait'[q] = NoWait
  BY WantUpdate, Zenon
<1>2. Want(q)' = NoWait
  BY <1>1 DEF Want, Parked
<1> QED BY <1>1, <1>2

\* A parked process wants what its park record says.
LEMMA WantOfParked ==
  ASSUME TypeOK, NEW p \in Pids, Parked(p)
  PROVE  /\ AbsWant[p] = [pats |-> wait[p].pats, timed |-> wait[p].timer # NoTimer]
         /\ AbsWant[p] # NoWait
         /\ AbsWant[p] \in Abstract!Receive
         /\ AbsWant[p].pats = wait[p].pats
         /\ wait[p].pats \in SUBSET Tags
<1>1. wait[p].pats \in Matchers /\ wait[p].timer \in 0..MaxTimers /\ wait[p].pats \in SUBSET Tags
  BY ParkFields, BoundsAssumption
<1>2. AbsWant[p] = [pats |-> wait[p].pats, timed |-> wait[p].timer # NoTimer]
  BY DEF AbsWant, Want
<1>3. AbsWant[p] \in [pats : Matchers, timed : BOOLEAN]
  BY <1>1, <1>2
<1>4. AbsWant[p] \in Abstract!Receive
  <2>1. Matchers \subseteq SUBSET Tags
    BY BoundsAssumption
  <2> QED BY <2>1, <1>3 DEF Abstract!Receive
<1>5. AbsWant[p] # NoWait
  BY <1>3, NoWaitAssumption
<1>6. AbsWant[p].pats = wait[p].pats
  BY <1>2
<1> QED BY <1>1, <1>2, <1>4, <1>5, <1>6, Zenon

\* Steps that leave the abstract variables alone.
LEMMA AbsSame ==
  ASSUME AbsLife' = AbsLife, AbsWant' = AbsWant, UNCHANGED <<mailbox, sent, log>>
  PROVE  AbsStep
  BY DEF AbsStep, Abstract!vars

\* A process is retired: abstractly it exits.
LEMMA AbsExit ==
  ASSUME TypeOK, NEW p \in Pids, state[p] \notin {"Unborn", "Exited"}, ~Parked(p),
         state' = [state EXCEPT ![p] = "Exited"], UNCHANGED <<wait, mailbox, sent, log>>
  PROVE  AbsStep
<1>1. AbsLife' = [AbsLife EXCEPT ![p] = "dead"]
  BY LifeUpdate, Zenon DEF Life
<1>2. AbsLife[p] = "live" /\ AbsWant[p] = NoWait
  BY DEF AbsLife, Life, AbsWant, Want
<1>3. AbsWant' = AbsWant
  BY DEF AbsWant, Want, Parked
<1>4. Abstract!Exit(p)
  BY <1>1, <1>2, <1>3 DEF Abstract!Exit, Abstract!Running
<1> QED BY <1>4 DEF AbsStep, Abstract!Next

\* A process is registered: abstractly it is spawned.
LEMMA AbsSpawn ==
  ASSUME TypeOK, NEW p \in Pids, state[p] = "Unborn",
         state' = [state EXCEPT ![p] = "Ready"], UNCHANGED <<wait, mailbox, sent, log>>
  PROVE  AbsStep
<1>1. AbsLife' = [AbsLife EXCEPT ![p] = "live"]
  <2>1. AbsLife' = [AbsLife EXCEPT ![p] = Life(p)'] /\ state'[p] = "Ready"
    BY LifeUpdate, Zenon
  <2>2. Life(p)' = "live"
    BY <2>1 DEF Life
  <2> QED BY <2>1, <2>2
<1>2. AbsLife[p] = "unborn"
  BY DEF AbsLife, Life
<1>3. AbsWant' = AbsWant
  BY DEF AbsWant, Want, Parked
<1>4. Abstract!Spawn(p)
  BY <1>1, <1>2, <1>3 DEF Abstract!Spawn
<1> QED BY <1>4 DEF AbsStep, Abstract!Next

\* A process parks: abstractly it is suspended in its receive.
LEMMA AbsPark ==
  ASSUME CoreInv, NEW p \in Pids, NEW pats \in Matchers, NEW t \in 0..MaxTimers,
         Park(p, pats, t)
  PROVE  AbsStep
<1> DEFINE w == [pats |-> pats, timer |-> t]
           r == [pats |-> pats, timed |-> t # NoTimer]
<1>1. TypeOK /\ state[p] = "Running" /\ wait[p] = NoWait
  BY InQuantum DEF CoreInv, Park
<1>2. /\ wait' = [wait EXCEPT ![p] = w] /\ UNCHANGED <<mailbox, sent, log>>
      /\ state' = [state EXCEPT ![p] = "Blocked"] \/ state' = [state EXCEPT ![p] = "Ready"]
  BY DEF Park, histVars
<1>3. AbsLife' = AbsLife
  BY <1>1, <1>2, LifeStays
<1>4. w # NoWait
  <2>1. w \in [pats : Matchers, timer : 0..MaxTimers]
    OBVIOUS
  <2> QED BY <2>1, NoWaitAssumption
<1>5. AbsWant' = [AbsWant EXCEPT ![p] = r]
  <2>1. AbsWant' = [AbsWant EXCEPT ![p] = Want(p)'] /\ wait'[p] = w
    BY <1>1, <1>2, WantUpdate, Zenon
  <2>2. Want(p)' = r
    BY <2>1, <1>4 DEF Want, Parked
  <2> QED BY <2>1, <2>2
<1>6. r \in Abstract!Receive
  <2>1. pats \in SUBSET Tags
    BY BoundsAssumption
  <2> QED BY <2>1 DEF Abstract!Receive
<1>7. Abstract!Running(p)
  BY <1>1 DEF Abstract!Running, AbsLife, AbsWant, Life, Want, Parked
<1>8. Abstract!Suspend(p, r)
  BY <1>2, <1>3, <1>5, <1>7 DEF Abstract!Suspend
<1> QED BY <1>6, <1>8 DEF AbsStep, Abstract!Next

\* A scan takes message i: abstractly the suspended receive takes it.
LEMMA AbsTake ==
  ASSUME TypeOK, NEW p \in Pids, ScanHit(p), state[p] \notin {"Unborn", "Exited"},
         state' = [state EXCEPT ![p] = "Running"], UNCHANGED sent
  PROVE  AbsStep
<1>1. Parked(p) /\ wait' = [wait EXCEPT ![p] = NoWait]
  BY DEF ScanHit, ScanApplies
<1>2. PICK i \in Accepted(p) : /\ log' = [log EXCEPT ![p] = Append(@, mailbox[p][i].id)]
                               /\ mailbox' = [mailbox EXCEPT ![p] = RemoveAt(@, i)]
  BY Zenon DEF ScanHit
<1>3. AbsLife' = AbsLife /\ AbsLife[p] = "live"
  BY LifeStays DEF AbsLife, Life
<1>4. AbsWant' = [AbsWant EXCEPT ![p] = NoWait]
  BY <1>1, WantCleared, Zenon
<1>5. PICK pats \in SUBSET Tags : pats = wait[p].pats /\ AbsWant[p].pats = pats
  BY <1>1, WantOfParked, Zenon
<1>6. i \in DOMAIN mailbox[p] /\ mailbox[p][i].tag \in pats
  BY <1>2, <1>5 DEF Accepted, Matches
<1>7. Abstract!MayTake(pats, mailbox[p], i)
  BY <1>6 DEF Abstract!MayTake, Abstract!Accepted
<1>8. mailbox' = [mailbox EXCEPT ![p] = Abstract!RemoveAt(@, i)]
  BY <1>2 DEF RemoveAt, Abstract!RemoveAt
<1>9. Abstract!Take(p, pats, i)
  BY <1>2, <1>3, <1>4, <1>5, <1>7, <1>8, Zenon DEF Abstract!Take
<1> QED BY <1>6, <1>9, Zenon DEF AbsStep, Abstract!Next

\* A timer fires on the receive it belongs to: abstractly the receive times out.
LEMMA AbsTimeOut ==
  ASSUME TypeOK, NEW p \in Pids, Parked(p), wait[p].timer # NoTimer,
         state[p] \notin {"Unborn", "Exited"}, state' = [state EXCEPT ![p] = "Ready"],
         wait' = [wait EXCEPT ![p] = NoWait], log' = [log EXCEPT ![p] = Append(@, TimedOut)],
         UNCHANGED <<mailbox, sent>>
  PROVE  AbsStep
<1>1. AbsLife' = AbsLife /\ AbsLife[p] = "live"
  BY LifeStays DEF AbsLife, Life
<1>2. AbsWant' = [AbsWant EXCEPT ![p] = NoWait]
  BY WantCleared, Zenon
<1>3. PICK pats \in SUBSET Tags : AbsWant[p] = [pats |-> pats, timed |-> TRUE]
  <2>1. AbsWant[p] = [pats |-> wait[p].pats, timed |-> wait[p].timer # NoTimer]
        /\ wait[p].pats \in SUBSET Tags
    BY WantOfParked
  <2>2. (wait[p].timer # NoTimer) = TRUE
    OBVIOUS
  <2> QED BY <2>1, <2>2, Zenon
<1>4. Abstract!TimeOut(p, pats)
  BY <1>1, <1>2, <1>3 DEF Abstract!TimeOut, Abstract!MayTimeOut, Abstract!TimedOut, TimedOut
<1> QED BY <1>4 DEF AbsStep, Abstract!Next

\* A message to a live process goes to its mailbox, one to any other is dropped.
LEMMA AbsSend ==
  ASSUME TypeOK, NEW q \in Pids, NEW t \in Tags, sent < MaxSends, sent' = sent + 1,
         AbsLife' = AbsLife, UNCHANGED <<wait, log>>,
         \/ /\ state[q] \notin {"Unborn", "Exited"}
            /\ mailbox' = [mailbox EXCEPT ![q] = Append(@, [id |-> sent + 1, tag |-> t])]
         \/ state[q] \in {"Unborn", "Exited"} /\ mailbox' = mailbox
  PROVE  AbsStep
<1>1. AbsWant' = AbsWant
  BY DEF AbsWant, Want, Parked
<1>2. (AbsLife[q] = "live") <=> state[q] \notin {"Unborn", "Exited"}
  BY DEF AbsLife, Life
<1>3. Abstract!Send(q, t)
  BY <1>1, <1>2 DEF Abstract!Send
<1> QED BY <1>3 DEF AbsStep, Abstract!Next

\* A message the probed receive accepts is handed to it.
LEMMA AbsHandOff ==
  ASSUME TypeOK, NEW q \in Pids, NEW t \in Tags, sent < MaxSends, sent' = sent + 1,
         state[q] \notin {"Unborn", "Exited"}, ProbeHit(q, [id |-> sent + 1, tag |-> t])
  PROVE  AbsStep
<1>1. /\ Parked(q) /\ t \in wait[q].pats /\ wait' = [wait EXCEPT ![q] = NoWait]
      /\ state' = [state EXCEPT ![q] = "Ready"] /\ log' = [log EXCEPT ![q] = Append(@, sent + 1)]
      /\ mailbox' = mailbox
  BY DEF ProbeHit, Matches
<1>2. AbsLife' = AbsLife
  BY <1>1, LifeStays, Zenon
<1>3. AbsWant' = [AbsWant EXCEPT ![q] = NoWait]
  BY <1>1, WantCleared, Zenon
<1>4. AbsWant[q] # NoWait /\ t \in AbsWant[q].pats
  BY <1>1, WantOfParked, Zenon
<1>5. Abstract!HandOff(q, t)
  BY <1>1, <1>2, <1>3, <1>4 DEF Abstract!HandOff, Abstract!MayTimeOut
<1> QED BY <1>5 DEF AbsStep, Abstract!Next

-----------------------------------------------------------------------------
(* The shared steps, and LifeInv.                                          *)

\* A step that changes one process, and leaves it alive, keeps LifeInv.
LEMMA LifeKept ==
  ASSUME TypeOK, LifeInv, NEW q \in Pids, NEW s, s \notin {"Unborn", "Exited"},
         state' = [state EXCEPT ![q] = s], nextPid' = nextPid,
         \A p \in Pids : p # q => wait'[p] = wait[p] /\ runnable'[p] = runnable[p]
  PROVE  LifeInv'
<1>1. state'[q] = s /\ \A p \in Pids : p # q => state'[p] = state[p]
  BY DEF TypeOK
<1>2. SUFFICES ASSUME NEW p \in Pids
               PROVE  /\ p < nextPid => state'[p] # "Unborn"
                      /\ state'[p] = "Exited" => ~Parked(p)' /\ runnable'[p] = "none"
  BY DEF LifeInv
<1>3. CASE p = q
  BY <1>1, <1>3
<1>4. CASE p # q
  BY <1>1, <1>4 DEF LifeInv, Parked
<1> QED BY <1>3, <1>4

\* The mapped initial state is one of the abstract specification.
LEMMA RefineInit ==
  ASSUME NEW s \in {"New", "Ready"}, InitWith(s)
  PROVE  Abstract!Init /\ LifeInv
<1> USE DEF InitWith
<1>1. 1 \in Pids
  BY BoundsAssumption DEF Pids
<1>2. AbsLife = [p \in Pids |-> IF p = 1 THEN "live" ELSE "unborn"]
  BY DEF AbsLife, Life
<1>3. AbsWant = [p \in Pids |-> NoWait]
  BY DEF AbsWant, Want, Parked
<1>4. LifeInv
  BY DEF LifeInv, Parked, Pids
<1> QED BY <1>1, <1>2, <1>3, <1>4 DEF Abstract!Init

\* A step that touches no process is a stutter.
LEMMA RefineIdle ==
  ASSUME CoreInv, LifeInv, UNCHANGED <<procVars, nextPid, histVars>>
  PROVE  LifeInv' /\ AbsStep
<1> USE DEF procVars, histVars
<1>1. AbsLife' = AbsLife /\ AbsWant' = AbsWant
  BY DEF AbsLife, AbsWant, Life, Want, Parked
<1>2. LifeInv'
  BY DEF LifeInv, Parked
<1> QED BY <1>1, <1>2, AbsSame

\* A parked process is alive.
LEMMA ParkedIsLive ==
  ASSUME CoreInv, LifeInv, NEW p \in Pids, Parked(p)
  PROVE  state[p] \notin {"Unborn", "Exited"}
  BY DEF CoreInv, MintInv, LifeInv

\* A drained timer ends the receive it belongs to, or does nothing.
LEMMA RefineFireTimer ==
  ASSUME CoreInv, LifeInv, FireTimer
  PROVE  LifeInv' /\ AbsStep
<1>1. PICK e \in expiring : FireAfterTimer(e)
  BY DEF FireTimer
<1>2. e.pid \in Pids /\ e.id \in 1..MaxTimers /\ TypeOK
  BY Zenon DEF CoreInv, TypeOK, TimerEntry
<1>3. UNCHANGED <<mailbox, nextPid, sent, exits>>
  BY DEF FireTimer
<1>4. CASE Parked(e.pid) /\ wait[e.pid].timer = e.id
  <2>1. /\ wait' = [wait EXCEPT ![e.pid] = NoWait]
        /\ runnable' = [runnable EXCEPT ![e.pid] = "after"]
        /\ state' = [state EXCEPT ![e.pid] = "Ready"]
        /\ log' = [log EXCEPT ![e.pid] = Append(@, TimedOut)]
    BY <1>1, <1>4 DEF FireAfterTimer
  <2>2. wait[e.pid].timer # NoTimer
    BY <1>2, <1>4, BoundsAssumption DEF NoTimer
  <2>3. state[e.pid] \notin {"Unborn", "Exited"}
    BY <1>2, <1>4, ParkedIsLive
  <2>4. LifeInv'
    <3>1. \A p \in Pids : p # e.pid => wait'[p] = wait[p] /\ runnable'[p] = runnable[p]
      BY <2>1, <1>2 DEF TypeOK
    <3> QED BY <3>1, <2>1, <1>2, <1>3, LifeKept, Zenon
  <2>5. AbsStep
    BY <2>1, <2>2, <2>3, <1>2, <1>3, <1>4, AbsTimeOut, Zenon
  <2> QED BY <2>4, <2>5
<1>5. CASE ~(Parked(e.pid) /\ wait[e.pid].timer = e.id)
  <2>1. UNCHANGED <<wait, runnable, state, log>>
    BY <1>1, <1>5 DEF FireAfterTimer
  <2> QED BY <2>1, <1>3, RefineIdle DEF procVars, histVars
<1> QED BY <1>4, <1>5

\* Every call of the running process maps to the abstract step of its name.
LEMMA RefineQuantum ==
  ASSUME CoreInv, LifeInv, Quantum
  PROVE  LifeInv' /\ AbsStep
<1>1. PICK p \in Pids :
        \/ SpawnClosure(p) \/ YieldMidFlight(p) \/ Exit(p)
        \/ \E pats \in Matchers, t \in 0..MaxTimers : Park(p, pats, t)
  <2>1. NoTimer \in 0..MaxTimers /\ (nextTimer <= MaxTimers => nextTimer \in 0..MaxTimers)
    BY BoundsAssumption DEF CoreInv, TypeOK, NoTimer
  <2> QED BY <2>1 DEF Quantum, ParkForever, ParkAfter
<1>2. TypeOK /\ state[p] = "Running" /\ wait[p] = NoWait /\ runnable[p] = "none" /\ p < nextPid
  <2>1. cur = p
    BY <1>1 DEF SpawnClosure, YieldMidFlight, Exit, Park
  <2> QED BY <2>1, InQuantum DEF CoreInv
<1>3. CASE SpawnClosure(p)
  <2>1. /\ nextPid \in Pids /\ nextPid' = nextPid + 1
        /\ state' = [state EXCEPT ![nextPid] = "Ready"]
        /\ runnable' = [runnable EXCEPT ![nextPid] = "entry"]
        /\ UNCHANGED <<wait, mailbox, sent, log>>
    BY <1>3 DEF SpawnClosure, histVars
  <2>2. state[nextPid] = "Unborn"
    BY <2>1 DEF CoreInv, MintInv, Pids
  <2>3. LifeInv'
    <3>1. state'[nextPid] = "Ready" /\ \A q \in Pids : q # nextPid =>
            state'[q] = state[q] /\ runnable'[q] = runnable[q]
      BY <2>1, <1>2 DEF TypeOK
    <3>2. \A q \in Pids : q < nextPid' => q = nextPid \/ q < nextPid
      BY <2>1 DEF Pids
    <3> QED BY <2>1, <3>1, <3>2 DEF LifeInv, Parked
  <2>4. AbsStep
    BY <2>1, <2>2, <1>2, AbsSpawn, Zenon
  <2> QED BY <2>3, <2>4
<1>4. CASE YieldMidFlight(p)
  <2>1. /\ state' = [state EXCEPT ![p] = "Ready"] /\ runnable' = [runnable EXCEPT ![p] = "yield"]
        /\ UNCHANGED <<wait, mailbox, nextPid, sent, log>>
    BY <1>4 DEF YieldMidFlight, histVars
  <2>2. \A q \in Pids : q # p => wait'[q] = wait[q] /\ runnable'[q] = runnable[q]
    BY <2>1, <1>2 DEF TypeOK
  <2>3. LifeInv'
    BY <2>1, <2>2, <1>2, LifeKept, Zenon
  <2>4. AbsLife' = AbsLife /\ AbsWant' = AbsWant
    BY <2>1, <1>2, LifeStays, Zenon DEF AbsWant, Want, Parked
  <2> QED BY <2>1, <2>3, <2>4, AbsSame
<1>5. CASE Exit(p)
  <2>1. /\ state' = [state EXCEPT ![p] = "Exited"]
        /\ UNCHANGED <<runnable, wait, mailbox, nextPid, sent, log>>
    BY <1>5 DEF Exit
  <2>2. LifeInv'
    BY <2>1, <1>2 DEF LifeInv, Parked, TypeOK
  <2> QED BY <2>1, <2>2, <1>2, AbsExit, Zenon DEF Parked
<1>6. CASE \E pats \in Matchers, t \in 0..MaxTimers : Park(p, pats, t)
  <2>1. PICK pats \in Matchers, t \in 0..MaxTimers : Park(p, pats, t)
    BY <1>6
  <2>2. /\ wait' = [wait EXCEPT ![p] = [pats |-> pats, timer |-> t]]
        /\ state' = [state EXCEPT ![p] = "Blocked"] \/ state' = [state EXCEPT ![p] = "Ready"]
        /\ UNCHANGED <<runnable, nextPid>>
    BY <2>1 DEF Park
  <2>3. \A q \in Pids : q # p => wait'[q] = wait[q] /\ runnable'[q] = runnable[q]
    BY <2>2, <1>2 DEF TypeOK
  <2>4. LifeInv'
    BY <2>2, <2>3, <1>2, LifeKept
  <2> QED BY <2>1, <2>4, AbsPark
<1> QED BY <1>1, <1>3, <1>4, <1>5, <1>6

\* A turn of the process at the head of the queue takes a message, retires the
\* process, or is invisible; a retired process is never revived.
LEMMA RefineTurn ==
  ASSUME CoreInv, LifeInv, NEW p \in Pids, p < nextPid, UNCHANGED <<nextPid, sent>>,
         DispatchScanHit(p) \/ DispatchScanMiss(p) \/ DispatchResume(p) \/ DispatchNothing(p)
  PROVE  LifeInv' /\ AbsStep
<1>1. TypeOK /\ state[p] # "Unborn"
  BY DEF CoreInv, LifeInv
<1>2. CASE DispatchScanHit(p)
  <2>1. /\ ScanHit(p) /\ Parked(p) /\ wait' = [wait EXCEPT ![p] = NoWait]
        /\ state' = [state EXCEPT ![p] = "Running"] /\ runnable' = runnable
    BY <1>2, Zenon DEF DispatchScanHit, ScanHit, ScanApplies
  <2>2. state[p] \notin {"Unborn", "Exited"}
    BY <2>1, ParkedIsLive
  <2>3. \A q \in Pids : q # p => wait'[q] = wait[q] /\ runnable'[q] = runnable[q]
    BY <2>1, <1>1 DEF TypeOK
  <2>4. LifeInv'
    BY <2>1, <2>3, <1>1, LifeKept, Zenon
  <2> QED BY <2>1, <2>2, <2>4, <1>1, AbsTake, Zenon
<1>3. CASE DispatchScanMiss(p)
  <2>1. /\ Parked(p) /\ state' = [state EXCEPT ![p] = "Blocked"]
        /\ UNCHANGED <<wait, runnable, mailbox, log>>
    BY <1>3 DEF DispatchScanMiss, ScanMiss, ScanApplies
  <2>2. state[p] \notin {"Unborn", "Exited"}
    BY <2>1, ParkedIsLive
  <2>3. LifeInv'
    BY <2>1, <1>1, LifeKept, Zenon
  <2>4. AbsLife' = AbsLife /\ AbsWant' = AbsWant
    BY <2>1, <2>2, <1>1, LifeStays, Zenon DEF AbsWant, Want, Parked
  <2> QED BY <2>1, <2>3, <2>4, AbsSame
<1>4. CASE DispatchResume(p)
  <2>1. /\ runnable[p] # "none" /\ runnable' = [runnable EXCEPT ![p] = "none"]
        /\ state' = [state EXCEPT ![p] = "Running"] /\ UNCHANGED <<wait, mailbox, log>>
    BY <1>4 DEF DispatchResume
  <2>2. state[p] \notin {"Unborn", "Exited"}
    BY <2>1, <1>1 DEF LifeInv
  <2>3. \A q \in Pids : q # p => wait'[q] = wait[q] /\ runnable'[q] = runnable[q]
    BY <2>1, <1>1 DEF TypeOK
  <2>4. LifeInv'
    BY <2>1, <2>3, <1>1, LifeKept, Zenon
  <2>5. AbsLife' = AbsLife /\ AbsWant' = AbsWant
    BY <2>1, <2>2, <1>1, LifeStays, Zenon DEF AbsWant, Want, Parked
  <2> QED BY <2>1, <2>4, <2>5, AbsSame
<1>5. CASE DispatchNothing(p)
  <2>1. /\ ~Parked(p) /\ runnable[p] = "none" /\ state' = [state EXCEPT ![p] = "Exited"]
        /\ UNCHANGED <<runnable, wait, mailbox, log>>
    BY <1>5 DEF DispatchNothing
  <2>2. LifeInv'
    BY <2>1, <1>1 DEF LifeInv, Parked, TypeOK
  <2>3. CASE state[p] = "Exited"
    <3>1. state' = state
      BY <2>1, <2>3, <1>1 DEF TypeOK
    <3>2. AbsLife' = AbsLife /\ AbsWant' = AbsWant
      BY <3>1, <2>1 DEF AbsLife, Life, AbsWant, Want, Parked
    <3> QED BY <3>2, <2>1, <2>2, AbsSame
  <2>4. CASE state[p] # "Exited"
    BY <2>1, <2>2, <2>4, <1>1, AbsExit, Zenon
  <2> QED BY <2>3, <2>4
<1> QED BY <1>2, <1>3, <1>4, <1>5

\* A stray turn moves a parked process between two states of a live process.
LEMMA RefineStray ==
  ASSUME CoreInv, LifeInv, NEW p \in Pids, StrayTurn(p), NEW s \in {"Ready", "Running"},
         state' = [state EXCEPT ![p] = s],
         UNCHANGED <<runnable, wait, mailbox, log, nextPid, sent>>
  PROVE  LifeInv' /\ AbsStep
<1>1. TypeOK /\ state[p] \notin {"Unborn", "Exited"}
  BY ParkedIsLive DEF CoreInv, StrayTurn
<1>2. LifeInv'
  BY <1>1, LifeKept, Zenon
<1>3. AbsLife' = AbsLife /\ AbsWant' = AbsWant
  BY <1>1, LifeStays, Zenon DEF AbsWant, Want, Parked
<1> QED BY <1>2, <1>3, AbsSame

\* A send is dropped, reaches a mailbox, or is handed to a suspended receive.
LEMMA RefineSend ==
  ASSUME CoreInv, LifeInv, NEW q \in Pids, NEW t \in Tags,
         sent < MaxSends, sent' = sent + 1, nextPid' = nextPid,
         \/ state[q] \in {"Unborn", "Exited"} /\ UNCHANGED <<procVars, log>>
         \/ /\ state[q] \notin {"Unborn", "Exited"}
            /\ ProbeHit(q, [id |-> sent + 1, tag |-> t])
         \/ /\ state[q] \notin {"Unborn", "Exited"}
            /\ mailbox' = [mailbox EXCEPT ![q] = Append(@, [id |-> sent + 1, tag |-> t])]
            /\ UNCHANGED <<runnable, wait, log>>
            /\ UNCHANGED state \/ state' = [state EXCEPT ![q] = "Ready"]
  PROVE  LifeInv' /\ AbsStep
<1>1. TypeOK
  BY DEF CoreInv
<1>2. CASE state[q] \in {"Unborn", "Exited"} /\ UNCHANGED <<procVars, log>>
  <2>1. UNCHANGED <<state, runnable, wait, mailbox, log>>
    BY <1>2 DEF procVars
  <2>2. LifeInv' /\ AbsLife' = AbsLife
    BY <2>1 DEF LifeInv, Parked, AbsLife, Life
  <2> QED BY <2>1, <2>2, <1>1, <1>2, AbsSend
<1>3. CASE /\ state[q] \notin {"Unborn", "Exited"}
           /\ ProbeHit(q, [id |-> sent + 1, tag |-> t])
  <2>1. /\ wait' = [wait EXCEPT ![q] = NoWait] /\ runnable' = [runnable EXCEPT ![q] = "clause"]
        /\ state' = [state EXCEPT ![q] = "Ready"]
    BY <1>3 DEF ProbeHit
  <2>2. \A p \in Pids : p # q => wait'[p] = wait[p] /\ runnable'[p] = runnable[p]
    BY <2>1, <1>1 DEF TypeOK
  <2>3. LifeInv'
    BY <2>1, <2>2, <1>1, LifeKept, Zenon
  <2> QED BY <2>3, <1>1, <1>3, AbsHandOff
<1>4. CASE /\ state[q] \notin {"Unborn", "Exited"}
           /\ mailbox' = [mailbox EXCEPT ![q] = Append(@, [id |-> sent + 1, tag |-> t])]
           /\ UNCHANGED <<runnable, wait, log>>
           /\ UNCHANGED state \/ state' = [state EXCEPT ![q] = "Ready"]
  <2>1. CASE UNCHANGED state
    <3>1. LifeInv' /\ AbsLife' = AbsLife
      BY <2>1, <1>4 DEF LifeInv, Parked, AbsLife, Life
    <3> QED BY <3>1, <1>1, <1>4, AbsSend, Zenon
  <2>2. CASE state' = [state EXCEPT ![q] = "Ready"]
    <3>1. LifeInv'
      BY <2>2, <1>1, <1>4, LifeKept, Zenon
    <3>2. AbsLife' = AbsLife
      BY <2>2, <1>1, <1>4, LifeStays, Zenon
    <3> QED BY <3>1, <3>2, <1>1, <1>4, AbsSend, Zenon
  <2> QED BY <2>1, <2>2, <1>4
<1> QED BY <1>2, <1>3, <1>4

-----------------------------------------------------------------------------
(* Delivery.                                                               *)

\* What a step of the abstract specification does to mailboxes and histories.
Delivers == Carried(Pids, mailbox, log, mailbox', log', sent')

\* No message is anywhere before the first send.
LEMMA DeliversInit ==
  ASSUME NEW s, InitWith(s)
  PROVE  DeliveredOnce
<1>1. sent = 0 /\ \A p \in Pids : mailbox[p] = <<>> /\ log[p] = <<>>
  BY DEF InitWith
<1> QED BY <1>1, DeliveredNothing, Zenon DEF DeliveredOnce

\* A step that leaves mailboxes, histories and the number of sends alone.
LEMMA DeliversSame ==
  ASSUME DeliveredOnce, UNCHANGED <<mailbox, log, sent>>
  PROVE  Delivers
<1>1. mailbox' = mailbox /\ log' = log /\ sent' = sent
  OBVIOUS
<1> QED BY <1>1, Zenon DEF Delivers, Carried, DeliveredOnce

\* Every step that refines one of the abstract specification delivers.
LEMMA DeliversStep ==
  ASSUME TypeOK, DeliveredOnce, AbsStep
  PROVE  Delivers
<1>1. /\ sent \in Nat /\ \A p \in Pids : mailbox[p] \in Seq(Message) /\ log[p] \in Seq(Nat)
      /\ mailbox \in [Pids -> Seq(Message)] /\ log \in [Pids -> Seq(0..MaxSends)]
  <2>1. 0..MaxSends \subseteq Nat
    BY BoundsAssumption
  <2>2. \A s \in Seq(0..MaxSends) : s \in Seq(Nat)
    BY <2>1, SeqGrows, Zenon
  <2> QED BY <2>1, <2>2, Zenon DEF TypeOK
<1>2. CASE UNCHANGED Abstract!vars
  BY <1>2, DeliversSame DEF Abstract!vars
<1>3. ASSUME NEW p \in Pids, Abstract!Spawn(p) \/ Abstract!Exit(p) PROVE Delivers
  BY <1>3, DeliversSame DEF Abstract!Spawn, Abstract!Exit
<1>4. ASSUME NEW p \in Pids, NEW r, Abstract!Suspend(p, r) PROVE Delivers
  BY <1>4, DeliversSame DEF Abstract!Suspend
<1>5. ASSUME NEW p \in Pids, NEW t \in Tags, Abstract!Send(p, t) PROVE Delivers
  <2> DEFINE x == [id |-> sent + 1, tag |-> t]
  <2>1. sent < MaxSends /\ sent' = sent + 1 /\ log' = log
    BY <1>5 DEF Abstract!Send
  <2>2. CASE AbsLife[p] = "live"
    <3>1. mailbox' = [mailbox EXCEPT ![p] = Append(@, x)]
      BY <1>5, <2>2 DEF Abstract!Send
    <3>2. mailbox'[p] = Append(mailbox[p], x) /\ \A q \in Pids : q # p => mailbox'[q] = mailbox[q]
      BY <3>1, <1>1, Zenon
    <3>3. x \in Message /\ x.id = sent + 1
      BY <2>1, <1>1, BoundsAssumption DEF Message
    <3> HIDE DEF x
    <3>4. Carried(Pids, mailbox, log, mailbox', log, sent + 1)
      BY <1>1, <3>2, <3>3, DeliveredSend, Zenon DEF DeliveredOnce
    <3> QED BY <2>1, <3>4, Zenon DEF Delivers
  <2>3. CASE AbsLife[p] # "live"
    <3>1. mailbox' = mailbox
      BY <1>5, <2>3 DEF Abstract!Send
    <3>2. Carried(Pids, mailbox, log, mailbox, log, sent + 1)
      BY <1>1, DeliveredDrop, Zenon DEF DeliveredOnce
    <3> QED BY <2>1, <3>1, <3>2, Zenon DEF Delivers
  <2> QED BY <2>2, <2>3
<1>6. ASSUME NEW p \in Pids, NEW t \in Tags, Abstract!HandOff(p, t) PROVE Delivers
  <2>1. sent' = sent + 1 /\ mailbox' = mailbox /\ log' = [log EXCEPT ![p] = Append(@, sent + 1)]
    BY <1>6 DEF Abstract!HandOff
  <2>2. log'[p] = Append(log[p], sent + 1) /\ \A q \in Pids : q # p => log'[q] = log[q]
    BY <2>1, <1>1, Zenon
  <2>3. Carried(Pids, mailbox, log, mailbox, log', sent + 1)
    BY <1>1, <2>2, DeliveredHandOff, Zenon DEF DeliveredOnce
  <2> QED BY <2>1, <2>3, Zenon DEF Delivers
<1>7. ASSUME NEW p \in Pids, NEW pats, Abstract!TimeOut(p, pats) PROVE Delivers
  <2>1. sent' = sent /\ mailbox' = mailbox /\ log' = [log EXCEPT ![p] = Append(@, 0)]
    BY <1>7 DEF Abstract!TimeOut, Abstract!TimedOut
  <2>2. log'[p] = Append(log[p], 0) /\ \A q \in Pids : q # p => log'[q] = log[q]
    BY <2>1, <1>1, Zenon
  <2>3. Carried(Pids, mailbox, log, mailbox, log', sent)
    BY <1>1, <2>2, DeliveredTimeOut, Zenon DEF DeliveredOnce
  <2> QED BY <2>1, <2>3, Zenon DEF Delivers
<1>8. ASSUME NEW p \in Pids, NEW pats, NEW i \in DOMAIN mailbox[p], Abstract!Take(p, pats, i)
      PROVE  Delivers
  <2>1. /\ sent' = sent /\ mailbox' = [mailbox EXCEPT ![p] = RemoveAt(@, i)]
        /\ log' = [log EXCEPT ![p] = Append(@, mailbox[p][i].id)]
    BY <1>8 DEF Abstract!Take, Abstract!RemoveAt, RemoveAt
  <2>2. /\ mailbox'[p] = RemoveAt(mailbox[p], i) /\ log'[p] = Append(log[p], mailbox[p][i].id)
        /\ \A q \in Pids : q # p => mailbox'[q] = mailbox[q] /\ log'[q] = log[q]
    BY <2>1, <1>1, Zenon
  <2>3. Carried(Pids, mailbox, log, mailbox', log', sent)
    BY <1>1, <2>2, DeliveredTake, Zenon DEF DeliveredOnce
  <2> QED BY <2>1, <2>3, Zenon DEF Delivers
<1> QED BY <1>2, <1>3, <1>4, <1>5, <1>6, <1>7, <1>8, Zenon DEF AbsStep, Abstract!Next
=============================================================================
