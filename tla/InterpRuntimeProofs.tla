--------------------------- MODULE InterpRuntimeProofs ---------------------------
(***************************************************************************)
(* Safety of the interpreter's scheduler, for every number of processes,   *)
(* messages and polls: InterpInv is inductive, every step of the scheduler *)
(* is a step of SelectiveReceive in its strict form, and messages are      *)
(* delivered once.                                                         *)
(***************************************************************************)
EXTENDS InterpRefinement, MailboxesProofs

-----------------------------------------------------------------------------
(* Sequences, processes and park records.                                  *)

\* NoPid, the "no process" of cur, is no pid.
LEMMA PidIsNotNoPid == \A p \in Pids : p # NoPid
  BY InterpAssumption DEF Pids, NoPid

\* A queue without duplicates that gains a pid it does not have stays one.
LEMMA QueueGains ==
  ASSUME TypeOK, ResumeIsQueued, NEW p \in Pids, p \notin resume,
         runq' = Append(runq, p), resume' = resume \cup {p}
  PROVE  runq' \in Seq(Pids) /\ resume' \in SUBSET Pids /\ ResumeIsQueued'
<1>1. runq \in Seq(Pids) /\ Len(runq) \in Nat /\ DOMAIN runq = 1..Len(runq) /\ resume \in SUBSET Pids
  BY DEF TypeOK
<1>2. /\ runq' \in Seq(Pids) /\ DOMAIN runq' = 1..(Len(runq) + 1)
      /\ \A i \in 1..Len(runq) : runq'[i] = runq[i]
      /\ runq'[Len(runq) + 1] = p
  BY <1>1
<1>3. \A i \in DOMAIN runq : runq[i] # p
  BY DEF ResumeIsQueued
<1>4. \A i \in DOMAIN runq' : (i \in DOMAIN runq /\ runq'[i] = runq[i]) \/ (i = Len(runq) + 1 /\ runq'[i] = p)
  BY <1>1, <1>2
<1>5. \A i, j \in DOMAIN runq' : i # j => runq'[i] # runq'[j]
  BY <1>3, <1>4 DEF ResumeIsQueued
<1>6. resume' = {runq'[i] : i \in DOMAIN runq'}
  <2>1. ASSUME NEW q \in resume' PROVE \E i \in DOMAIN runq' : runq'[i] = q
    <3>1. CASE q = p
      BY <3>1, <1>1, <1>2
    <3>2. CASE q \in resume
      <4>1. PICK i \in DOMAIN runq : runq[i] = q
        BY <3>2 DEF ResumeIsQueued
      <4>2. i \in DOMAIN runq' /\ runq'[i] = q
        BY <4>1, <1>1, <1>2
      <4> QED BY <4>2
    <3> QED BY <3>1, <3>2
  <2>2. ASSUME NEW i \in DOMAIN runq' PROVE runq'[i] \in resume'
    BY <1>4 DEF ResumeIsQueued
  <2> QED BY <2>1, <2>2
<1> QED BY <1>1, <1>2, <1>5, <1>6 DEF ResumeIsQueued

\* Popping the front of the queue and taking its resume entry.
LEMMA QueueLoses ==
  ASSUME TypeOK, ResumeIsQueued, runq # <<>>,
         runq' = Tail(runq), resume' = resume \ {Head(runq)}
  PROVE  /\ Head(runq) \in Pids /\ Head(runq) \in resume
         /\ runq' \in Seq(Pids) /\ resume' \in SUBSET Pids /\ ResumeIsQueued'
<1>1. runq \in Seq(Pids) /\ Len(runq) \in Nat \ {0} /\ DOMAIN runq = 1..Len(runq) /\ resume \in SUBSET Pids
  BY DEF TypeOK
<1>2. /\ runq' \in Seq(Pids) /\ DOMAIN runq' = 1..(Len(runq) - 1)
      /\ \A i \in 1..(Len(runq) - 1) : runq'[i] = runq[i + 1]
      /\ Head(runq) = runq[1] /\ 1 \in DOMAIN runq /\ Head(runq) \in Pids
  BY <1>1
<1>3. Head(runq) \in resume
  BY <1>2 DEF ResumeIsQueued
<1>4. \A i \in DOMAIN runq' : i + 1 \in DOMAIN runq /\ i + 1 # 1 /\ runq'[i] = runq[i + 1]
  BY <1>1, <1>2
<1>5. \A i, j \in DOMAIN runq' : i # j => runq'[i] # runq'[j]
  <2> SUFFICES ASSUME NEW i \in DOMAIN runq', NEW j \in DOMAIN runq', i # j
               PROVE  runq'[i] # runq'[j]
    OBVIOUS
  <2>1. i + 1 # j + 1
    BY <1>2
  <2> QED BY <2>1, <1>4 DEF ResumeIsQueued
<1>6. resume' = {runq'[i] : i \in DOMAIN runq'}
  <2>1. ASSUME NEW q \in resume' PROVE \E i \in DOMAIN runq' : runq'[i] = q
    <3>1. PICK i \in DOMAIN runq : runq[i] = q
      BY DEF ResumeIsQueued
    <3>2. i # 1
      BY <3>1, <1>2
    <3>3. i - 1 \in DOMAIN runq' /\ runq'[i - 1] = q
      BY <3>1, <3>2, <1>1, <1>2
    <3> QED BY <3>3
  <2>2. ASSUME NEW i \in DOMAIN runq' PROVE runq'[i] \in resume'
    <3>1. runq'[i] \in resume
      BY <1>4 DEF ResumeIsQueued
    <3>2. runq'[i] # runq[1]
      BY <1>2, <1>4 DEF ResumeIsQueued
    <3> QED BY <3>1, <3>2, <1>2
  <2> QED BY <2>1, <2>2
<1> QED BY <1>1, <1>2, <1>3, <1>5, <1>6, Zenon DEF ResumeIsQueued

\* The process in its quantum is a minted pid, marked as running, with no resume
\* entry, no park record and no completion.
LEMMA InQuantum ==
  ASSUME InterpInv, NEW p \in Pids, cur = p
  PROVE  /\ state[p] = "Running" /\ p \notin resume /\ parked[p] = NoPark /\ p < nextPid
         /\ \A i \in DOMAIN completions : completions[i] # p
<1>1. state[p] = "Running"
  BY PidIsNotNoPid DEF InterpInv, RunInv
<1>2. p \notin resume
  BY <1>1 DEF InterpInv, RunInv
<1>3. parked[p] = NoPark
  BY <1>1 DEF InterpInv, NoMissedMatch
<1>4. p < nextPid
  BY <1>1, InterpAssumption DEF InterpInv, MintInv, TypeOK, Pids
<1>5. \A i \in DOMAIN completions : completions[i] # p
  BY <1>1 DEF InterpInv, CompletedInv
<1> QED BY <1>1, <1>2, <1>3, <1>4, <1>5

\* Changing the state of one process leaves the others'.
LEMMA StateUpdate ==
  ASSUME TypeOK, NEW q \in Pids, NEW s, state' = [state EXCEPT ![q] = s]
  PROVE  state'[q] = s /\ \A p \in Pids : p # q => state'[p] = state[p]
  BY DEF TypeOK

\* What happens to a process that has not completed is no matter for those
\* that have.
LEMMA CompletedKeeps ==
  ASSUME TypeOK, CompletedInv, NEW q \in Pids, NEW s, state' = [state EXCEPT ![q] = s],
         completions' = completions, resume' \subseteq resume \cup {q},
         \A i \in DOMAIN completions : completions[i] # q
  PROVE  CompletedInv'
<1> SUFFICES ASSUME NEW i \in DOMAIN completions
             PROVE  completions[i] \notin resume' /\ state'[completions[i]] \in {"Ready", "Exited"}
  BY DEF CompletedInv
<1>1. completions[i] \in Pids /\ completions[i] # q
  BY DEF TypeOK
<1>2. state'[completions[i]] = state[completions[i]]
  BY <1>1, StateUpdate
<1> QED BY <1>1, <1>2 DEF CompletedInv

-----------------------------------------------------------------------------
(* One lemma per action.                                                   *)

\* A turn of the driver: pop a pid and take its resume entry.
LEMMA InvPop == ASSUME InterpInv, Pop PROVE InterpInv'
<1> USE DEF InterpInv
<1> DEFINE p == Head(runq)
<1>1. /\ runq # <<>> /\ runq' = Tail(runq) /\ resume' = resume \ {p} /\ cur' = p
      /\ state' = [state EXCEPT ![p] = "Running"]
      /\ UNCHANGED <<parked, mailbox, nextPid, pc, completions, sent, log, polls, keepalive>>
  BY DEF Pop
<1>2. /\ p \in Pids /\ p \in resume /\ runq' \in Seq(Pids) /\ resume' \in SUBSET Pids /\ ResumeIsQueued'
  BY <1>1, QueueLoses
<1>3. state[p] = "Ready" /\ parked[p] = NoPark
  BY <1>2 DEF RunInv, NoMissedMatch
<1> HIDE DEF p
<1>4. TypeOK'
  BY <1>1, <1>2 DEF TypeOK
<1>5. MintInv'
  BY <1>1, <1>2, <1>3 DEF MintInv, TypeOK
<1>6. RunInv'
  BY <1>1, <1>2, <1>3 DEF RunInv, TypeOK
<1>7. CompletedInv'
  <2>1. \A i \in DOMAIN completions : completions[i] # p
    BY <1>2 DEF CompletedInv
  <2> QED BY <2>1, <1>1, <1>2, CompletedKeeps, Zenon
<1>8. NoMissedMatch'
  BY <1>1, <1>2, <1>3 DEF NoMissedMatch, TypeOK, Accepted
<1>9. CompletesOnce'
  BY <1>1 DEF CompletesOnce
<1> QED BY <1>2, <1>4, <1>5, <1>6, <1>7, <1>8, <1>9

\* A spawn queues a pid that was never used.
LEMMA InvSpawn == ASSUME InterpInv, NEW p \in Pids, SpawnBackend(p) PROVE InterpInv'
<1> USE DEF InterpInv
<1> DEFINE q == nextPid
<1>1. /\ cur = p /\ q \in Pids /\ nextPid' = q + 1
      /\ resume' = resume \cup {q} /\ runq' = Append(runq, q)
      /\ state' = [state EXCEPT ![q] = "Ready"]
      /\ UNCHANGED <<parked, mailbox, cur, pc, completions, sent, log, polls, keepalive>>
  BY DEF SpawnBackend, Enqueue
<1>2. state[q] = "Unborn" /\ q \notin resume /\ parked[q] = NoPark
  BY <1>1, InterpAssumption DEF MintInv, RunInv, NoMissedMatch, Pids
<1>3. runq' \in Seq(Pids) /\ resume' \in SUBSET Pids /\ ResumeIsQueued'
  BY <1>1, <1>2, QueueGains
<1>4. nextPid' \in 2..(MaxPid + 1)
  BY <1>1, InterpAssumption DEF TypeOK, Pids
<1>5. MintInv'
  BY <1>1, <1>2, InterpAssumption DEF MintInv, TypeOK, Pids
<1> HIDE DEF q
<1>6. TypeOK'
  BY <1>1, <1>3, <1>4 DEF TypeOK
<1>7. RunInv'
  BY <1>1, <1>2, InQuantum DEF RunInv, TypeOK
<1>8. CompletedInv'
  <2>1. \A i \in DOMAIN completions : completions[i] # q
    BY <1>2 DEF CompletedInv
  <2> QED BY <2>1, <1>1, CompletedKeeps, Zenon
<1>9. NoMissedMatch'
  BY <1>1, <1>2 DEF NoMissedMatch, TypeOK, Accepted
<1>10. CompletesOnce'
  BY <1>1 DEF CompletesOnce
<1> QED BY <1>3, <1>5, <1>6, <1>7, <1>8, <1>9, <1>10

\* A send drops the message, hands it to the suspended receive that accepts it,
\* or leaves it in the mailbox of a process that is not suspended on it.
LEMMA InvSend == ASSUME InterpInv, Send PROVE InterpInv'
<1> USE DEF InterpInv
<1>1. PICK p \in Pids, q \in Pids, t \in Tags : SendRef(p, q, [id |-> sent + 1, tag |-> t])
  BY DEF Send
<1> DEFINE m == [id |-> sent + 1, tag |-> t]
<1>2. /\ m \in Message /\ m.id = sent + 1 /\ m.id \in 0..MaxSends /\ sent + 1 \in 0..MaxSends
  BY <1>1, InterpAssumption DEF SendRef, TypeOK, Message
<1>3. /\ cur = p /\ sent' = sent + 1
      /\ UNCHANGED <<nextPid, cur, pc, completions, polls, keepalive>>
      /\ \/ UNCHANGED <<state, resume, parked, mailbox, runq, log>>
         \/ /\ parked[q] # NoPark /\ m.tag \in parked[q].pats
            /\ parked' = [parked EXCEPT ![q] = NoPark]
            /\ Enqueue(q)
            /\ log' = [log EXCEPT ![q] = Append(@, m.id)]
            /\ UNCHANGED mailbox
         \/ /\ ~(parked[q] # NoPark /\ m.tag \in parked[q].pats)
            /\ mailbox' = [mailbox EXCEPT ![q] = Append(@, m)]
            /\ UNCHANGED <<state, resume, parked, runq, log>>
  BY <1>1, Zenon DEF SendRef
<1> HIDE DEF m
<1>4. CASE UNCHANGED <<state, resume, parked, mailbox, runq, log>>
  <2>1. TypeOK'
    BY <1>2, <1>3, <1>4 DEF TypeOK
  <2> QED BY <2>1, <1>3, <1>4
          DEF MintInv, RunInv, CompletedInv, ResumeIsQueued, NoMissedMatch, CompletesOnce, Accepted
<1>5. CASE /\ parked[q] # NoPark
           /\ parked' = [parked EXCEPT ![q] = NoPark]
           /\ Enqueue(q)
           /\ log' = [log EXCEPT ![q] = Append(@, m.id)]
           /\ UNCHANGED mailbox
  <2>1. q \notin resume /\ state[q] = "Blocked"
    BY <1>5 DEF NoMissedMatch
  <2>2. /\ runq' = Append(runq, q) /\ resume' = resume \cup {q}
        /\ state' = [state EXCEPT ![q] = "Ready"]
    BY <1>5 DEF Enqueue
  <2>3. runq' \in Seq(Pids) /\ resume' \in SUBSET Pids /\ ResumeIsQueued'
    BY <2>1, <2>2, QueueGains
  <2>4. TypeOK'
    <3>1. log' \in [Pids -> Seq(0..MaxSends)]
      BY <1>2, <1>5 DEF TypeOK
    <3> QED BY <3>1, <2>2, <2>3, <1>2, <1>3, <1>5 DEF TypeOK
  <2>5. MintInv'
    BY <2>1, <2>2, <1>3 DEF MintInv, TypeOK
  <2>6. RunInv'
    BY <2>1, <2>2, <1>3 DEF RunInv, TypeOK
  <2>7. CompletedInv'
    <3>1. \A i \in DOMAIN completions : completions[i] # q
      BY <2>1 DEF CompletedInv
    <3> QED BY <3>1, <2>2, <1>3, CompletedKeeps, Zenon
  <2>8. NoMissedMatch'
    BY <2>1, <2>2, <1>3, <1>5 DEF NoMissedMatch, TypeOK, Accepted
  <2>9. CompletesOnce'
    BY <1>3 DEF CompletesOnce
  <2> QED BY <2>3, <2>4, <2>5, <2>6, <2>7, <2>8, <2>9
<1>6. CASE /\ ~(parked[q] # NoPark /\ m.tag \in parked[q].pats)
           /\ mailbox' = [mailbox EXCEPT ![q] = Append(@, m)]
           /\ UNCHANGED <<state, resume, parked, runq, log>>
  <2>1. mailbox \in [Pids -> Seq(Message)] /\ mailbox'[q] = Append(mailbox[q], m)
        /\ \A r \in Pids : r # q => mailbox'[r] = mailbox[r]
    BY <1>6 DEF TypeOK
  <2>2. mailbox' \in [Pids -> Seq(Message)]
    BY <1>2, <1>6, <2>1
  <2>3. TypeOK'
    BY <2>2, <1>2, <1>3, <1>6 DEF TypeOK
  <2>4. ASSUME NEW r \in Pids, parked[r] # NoPark PROVE Accepted(r, parked[r].pats)' = {}
    <3>1. Accepted(r, parked[r].pats) = {}
      BY <2>4 DEF NoMissedMatch
    <3>2. CASE r = q
      <4>1. \A i \in DOMAIN mailbox'[q] : mailbox'[q][i] = m \/ (i \in DOMAIN mailbox[q] /\ mailbox'[q][i] = mailbox[q][i])
        BY <1>2, <2>1
      <4>2. m.tag \notin parked[q].pats
        BY <1>6, <2>4, <3>2
      <4> QED BY <4>1, <4>2, <3>1, <3>2, <1>6 DEF Accepted
    <3>3. CASE r # q
      BY <3>1, <3>3, <2>1, <1>6 DEF Accepted
    <3> QED BY <3>2, <3>3
  <2>5. NoMissedMatch'
    BY <2>4, <1>6 DEF NoMissedMatch
  <2> QED BY <2>3, <2>5, <1>3, <1>6 DEF MintInv, RunInv, CompletedInv, ResumeIsQueued, CompletesOnce
<1> QED BY <1>3, <1>4, <1>5, <1>6

\* A receive of the running process that goes on at once, with a message or with
\* its "after" entry.
LEMMA InvReceived ==
  ASSUME InterpInv, NEW p \in Pids, NEW pats \in Matchers, ReceiveHit(p, pats) \/ ReceivePoll(p, pats)
  PROVE  InterpInv'
<1> USE DEF InterpInv
<1>1. /\ cur = p
      /\ UNCHANGED <<state, resume, parked, runq, nextPid, cur, pc, completions, sent, keepalive>>
      /\ \A r \in Pids : r # p => mailbox'[r] = mailbox[r]
  BY DEF ReceiveHit, ReceivePoll, TypeOK
<1>2. /\ mailbox' \in [Pids -> Seq(Message)]
      /\ log' \in [Pids -> Seq(0..MaxSends)]
      /\ polls' \in 0..MaxPolls
  <2>1. CASE ReceiveHit(p, pats)
    <3>1. PICK i \in DOMAIN mailbox[p] :
             /\ log' = [log EXCEPT ![p] = Append(@, mailbox[p][i].id)]
             /\ mailbox' = [mailbox EXCEPT ![p] = RemoveAt(@, i)]
             /\ UNCHANGED polls
      BY <2>1, Zenon DEF ReceiveHit, Accepted
    <3>2. mailbox[p] \in Seq(Message) /\ mailbox[p][i].id \in 0..MaxSends
      <4>1. mailbox[p] \in Seq(Message)
        BY DEF TypeOK
      <4>2. mailbox[p][i] \in Message
        BY <4>1, <3>1
      <4> QED BY <4>1, <4>2, InterpAssumption DEF Message
    <3>3. RemoveAt(mailbox[p], i) \in Seq(Message)
      BY <3>2, RemoveAtFacts
    <3> QED BY <3>1, <3>2, <3>3 DEF TypeOK
  <2>2. CASE ReceivePoll(p, pats)
    <3>1. TimedOut \in 0..MaxSends
      BY InterpAssumption DEF TimedOut
    <3>2. polls' \in 0..MaxPolls
      BY <2>2, InterpAssumption DEF ReceivePoll, TypeOK
    <3> QED BY <3>1, <3>2, <2>2 DEF ReceivePoll, TypeOK
  <2> QED BY <2>1, <2>2
<1>3. TypeOK'
  BY <1>1, <1>2 DEF TypeOK
<1>4. parked[p] = NoPark
  BY <1>1, InQuantum
<1>5. NoMissedMatch'
  BY <1>1, <1>4 DEF NoMissedMatch, Accepted
<1> QED BY <1>1, <1>3, <1>5 DEF MintInv, RunInv, CompletedInv, ResumeIsQueued, CompletesOnce

\* A receive that suspends has looked through its whole mailbox.
LEMMA InvPark ==
  ASSUME InterpInv, NEW p \in Pids, NEW pats \in Matchers, NEW timed \in BOOLEAN,
         ReceivePark(p, pats, timed)
  PROVE  InterpInv'
<1> USE DEF InterpInv
<1> DEFINE rec == [pats |-> pats, timed |-> timed]
<1>1. /\ cur = p /\ Accepted(p, pats) = {} /\ cur' = NoPid
      /\ parked' = [parked EXCEPT ![p] = rec]
      /\ state' = [state EXCEPT ![p] = "Blocked"]
      /\ UNCHANGED <<resume, mailbox, runq, nextPid, pc, completions, sent, log, polls, keepalive>>
  BY DEF ReceivePark
<1>2. rec \in ParkRecord /\ rec.pats = pats
  BY Zenon DEF ParkRecord
<1>3. rec # NoPark
  BY <1>2, NoParkAssumption DEF ParkRecord
<1>4. /\ state[p] = "Running" /\ p \notin resume /\ p < nextPid
      /\ \A i \in DOMAIN completions : completions[i] # p
  BY <1>1, InQuantum
<1> HIDE DEF rec
<1>5. TypeOK'
  BY <1>1, <1>2 DEF TypeOK
<1>6. MintInv'
  BY <1>1, <1>4 DEF MintInv, TypeOK
<1>7. RunInv'
  BY <1>1, <1>4 DEF RunInv, TypeOK
<1>8. CompletedInv'
  BY <1>1, <1>4, CompletedKeeps, Zenon
<1>9. NoMissedMatch'
  BY <1>1, <1>2, <1>3, <1>4 DEF NoMissedMatch, TypeOK, Accepted
<1>10. ResumeIsQueued' /\ CompletesOnce'
  BY <1>1 DEF ResumeIsQueued, CompletesOnce
<1> QED BY <1>5, <1>6, <1>7, <1>8, <1>9, <1>10

\* An entry that returns is recorded, and its process leaves the queue for good.
LEMMA InvDone == ASSUME InterpInv, NEW p \in Pids, Done(p) PROVE InterpInv'
<1> USE DEF InterpInv
<1>1. PICK st \in {"Ready", "Exited"} :
        /\ cur = p /\ completions' = Append(completions, p) /\ cur' = NoPid
        /\ state' = [state EXCEPT ![p] = st]
        /\ UNCHANGED <<resume, parked, mailbox, runq, nextPid, pc, sent, log, polls, keepalive>>
  BY Zenon DEF Done
<1>2. /\ state[p] = "Running" /\ p \notin resume /\ p < nextPid /\ parked[p] = NoPark
      /\ \A i \in DOMAIN completions : completions[i] # p
  BY <1>1, InQuantum
<1>3. /\ completions \in Seq(Pids) /\ completions' \in Seq(Pids)
      /\ \A i \in DOMAIN completions' :
            \/ i \in DOMAIN completions /\ completions'[i] = completions[i]
            \/ i = Len(completions) + 1 /\ completions'[i] = p
  <2>1. completions \in Seq(Pids)
    BY DEF TypeOK
  <2>2. /\ Append(completions, p) \in Seq(Pids)
        /\ \A i \in DOMAIN Append(completions, p) :
              \/ i \in DOMAIN completions /\ Append(completions, p)[i] = completions[i]
              \/ i = Len(completions) + 1 /\ Append(completions, p)[i] = p
    BY <2>1, AppendFacts
  <2> QED BY <2>1, <2>2, <1>1, Zenon
<1>4. TypeOK'
  BY <1>1, <1>3 DEF TypeOK
<1>5. MintInv'
  BY <1>1, <1>2 DEF MintInv, TypeOK
<1>6. RunInv'
  BY <1>1, <1>2 DEF RunInv, TypeOK
<1>7. CompletedInv'
  <2> SUFFICES ASSUME NEW i \in DOMAIN completions'
               PROVE  completions'[i] \notin resume /\ state'[completions'[i]] \in {"Ready", "Exited"}
    BY <1>1 DEF CompletedInv
  <2>1. CASE completions'[i] = p
    BY <2>1, <1>1, <1>2, StateUpdate, Zenon
  <2>2. CASE i \in DOMAIN completions /\ completions'[i] = completions[i]
    <3>1. completions[i] \in Pids /\ completions[i] # p
      BY <2>2, <1>2, <1>3
    <3>2. state'[completions[i]] = state[completions[i]]
      BY <3>1, <1>1, StateUpdate
    <3> QED BY <3>2, <2>2 DEF CompletedInv
  <2> QED BY <2>1, <2>2, <1>3
<1>8. NoMissedMatch'
  BY <1>1, <1>2 DEF NoMissedMatch, TypeOK, Accepted
<1>9. CompletesOnce'
  BY <1>2, <1>3 DEF CompletesOnce
<1>10. ResumeIsQueued'
  BY <1>1 DEF ResumeIsQueued
<1> QED BY <1>4, <1>5, <1>6, <1>7, <1>8, <1>9, <1>10

\* The steps that end or leave the loop touch no process.
LEMMA InvLoop ==
  ASSUME InterpInv, NEW p \in Pids, Fail(p) \/ GoIdle \/ UNCHANGED vars
  PROVE  InterpInv'
<1>1. /\ UNCHANGED <<state, resume, parked, mailbox, runq, nextPid, completions, sent, log, polls, keepalive>>
      /\ cur' \in {cur, NoPid} /\ pc' \in {"loop", "idle", "failed"}
  <2>1. pc \in {"loop", "idle", "failed"}
    BY DEF InterpInv, TypeOK
  <2> QED BY <2>1 DEF Fail, GoIdle, vars
<1>2. TypeOK'
  BY <1>1 DEF InterpInv, TypeOK
<1>3. RunInv'
  BY <1>1 DEF InterpInv, RunInv
<1>4. NoMissedMatch'
  BY <1>1 DEF InterpInv, NoMissedMatch, Accepted
<1> QED BY <1>1, <1>2, <1>3, <1>4 DEF InterpInv, MintInv, CompletedInv, ResumeIsQueued, CompletesOnce

\* The initial state: process 1 is queued.
LEMMA InvInit == Init => InterpInv
<1> SUFFICES ASSUME Init PROVE InterpInv
  OBVIOUS
<1> USE InterpAssumption
<1>1. /\ 1 \in Pids /\ <<1>> \in Seq(Pids)
  BY DEF Pids
<1>2. TypeOK
  BY <1>1 DEF Init, TypeOK, NoPid
<1>3. MintInv
  BY DEF Init, MintInv, Pids
<1>4. RunInv /\ CompletedInv /\ CompletesOnce
  BY <1>1 DEF Init, RunInv, CompletedInv, CompletesOnce, NoPid
<1>5. ResumeIsQueued
  BY DEF Init, ResumeIsQueued
<1>6. NoMissedMatch
  BY DEF Init, NoMissedMatch
<1> QED BY <1>2, <1>3, <1>4, <1>5, <1>6 DEF InterpInv

\* Every step of the interpreter's scheduler preserves the invariant.
LEMMA InvNext == ASSUME InterpInv, [Next]_vars PROVE InterpInv'
<1>1. CASE Quantum
  <2>1. PICK p \in Pids :
          \/ SpawnBackend(p) \/ Done(p) \/ Fail(p)
          \/ \E pats \in Matchers : ReceiveHit(p, pats) \/ ReceivePoll(p, pats)
          \/ \E pats \in Matchers, timed \in BOOLEAN : ReceivePark(p, pats, timed)
    BY <1>1 DEF Quantum
  <2> QED BY <2>1, InvSpawn, InvDone, InvLoop, InvReceived, InvPark
<1>2. 1 \in Pids
  BY InterpAssumption DEF Pids
<1> QED BY <1>1, <1>2, InvPop, InvSend, InvLoop DEF Next, Step, Returned

\* The inductive invariant holds in every behaviour of the interpreter.
THEOREM InterpInvariant == Spec => []InterpInv
<1>1. InterpInv /\ [Next]_vars => InterpInv'
  BY InvNext
<1> QED BY <1>1, InvInit, PTL DEF Spec

\* A queued pid has exactly one place in the queue and one resume entry, so the
\* .expect of the driver's take_backend_resume never fails, for any number of
\* processes and messages.
THEOREM InterpResumeIsQueued == Spec => []ResumeIsQueued
<1>1. InterpInv => ResumeIsQueued
  BY DEF InterpInv
<1> QED BY <1>1, InterpInvariant, PTL

\* No process is suspended on a receive that accepts mail it already has, and
\* none is both suspended and queued (the Receive tail, send_ref).
THEOREM InterpNoMissedMatch == Spec => []NoMissedMatch
<1>1. InterpInv => NoMissedMatch
  BY DEF InterpInv
<1> QED BY <1>1, InterpInvariant, PTL

\* The driver records the completion of a process at most once, also of the
\* process that a macro run keeps (run_backend_main).
THEOREM InterpCompletesOnce == Spec => []CompletesOnce
<1>1. InterpInv => CompletesOnce
  BY DEF InterpInv
<1> QED BY <1>1, InterpInvariant, PTL

-----------------------------------------------------------------------------
(* Refinement: one lemma per action that the abstract specification sees.  *)

\* A step of the abstract specification, or a stutter.
AbsStep == [Abstract!Next]_(Abstract!vars)

\* Changing the state of one process changes its life and no other's.
LEMMA LifeUpdate ==
  ASSUME TypeOK, NEW q \in Pids, NEW s, state' = [state EXCEPT ![q] = s]
  PROVE  /\ AbsLife' = [AbsLife EXCEPT ![q] = Life(q)']
         /\ state'[q] = s
<1>1. state'[q] = s /\ \A p \in Pids : p # q => state'[p] = state[p]
  BY DEF TypeOK
<1>2. \A p \in Pids : p # q => Life(p)' = Life(p)
  BY <1>1 DEF Life
<1> QED BY <1>1, <1>2, Zenon DEF AbsLife

\* Moving a process between two states of a live process is invisible.
LEMMA LifeStays ==
  ASSUME TypeOK, NEW q \in Pids, NEW s, state' = [state EXCEPT ![q] = s],
         state[q] \notin {"Unborn", "Exited"}, s \notin {"Unborn", "Exited"}
  PROVE  AbsLife' = AbsLife
<1>1. AbsLife' = [AbsLife EXCEPT ![q] = Life(q)'] /\ state'[q] = s
  BY LifeUpdate, Zenon
<1>2. Life(q)' = "live" /\ Life(q) = "live"
  BY <1>1 DEF Life
<1> QED BY <1>1, <1>2, Zenon DEF AbsLife

\* The process in its quantum is live and in no receive.
LEMMA RunningIsLive ==
  ASSUME InterpInv, NEW p \in Pids, cur = p
  PROVE  AbsLife[p] = "live" /\ parked[p] = NoPark
  BY InQuantum DEF AbsLife, Life

\* Popping a pid, failing and stopping are invisible.
LEMMA RefineLoop ==
  ASSUME InterpInv, NEW p \in Pids, Pop \/ Fail(p) \/ GoIdle \/ UNCHANGED vars
  PROVE  AbsStep
<1>1. UNCHANGED <<parked, mailbox, sent, log>>
  BY DEF Pop, Fail, GoIdle, vars
<1>2. CASE Pop
  <2>1. PICK q \in resume : q \in Pids /\ state' = [state EXCEPT ![q] = "Running"]
    BY <1>2, QueueLoses, Zenon DEF Pop, InterpInv
  <2>2. state[q] = "Ready"
    BY <2>1 DEF InterpInv, RunInv
  <2>3. AbsLife' = AbsLife
    BY <2>1, <2>2, LifeStays, Zenon DEF InterpInv
  <2> QED BY <2>3, <1>1 DEF AbsStep, Abstract!vars
<1>3. CASE UNCHANGED state
  BY <1>1, <1>3 DEF AbsStep, Abstract!vars, AbsLife, Life
<1> QED BY <1>2, <1>3 DEF Fail, GoIdle, vars

\* A spawn registers a process.
LEMMA RefineSpawn ==
  ASSUME InterpInv, NEW p \in Pids, SpawnBackend(p)
  PROVE  AbsStep
<1>1. PICK q \in Pids : /\ q = nextPid /\ state' = [state EXCEPT ![q] = "Ready"]
                        /\ UNCHANGED <<parked, mailbox, sent, log>>
  BY Zenon DEF SpawnBackend, Enqueue
<1>2. state[q] = "Unborn"
  BY <1>1, InterpAssumption DEF InterpInv, MintInv, Pids
<1>3. AbsLife[q] = "unborn" /\ AbsLife' = [AbsLife EXCEPT ![q] = "live"]
  <2>1. AbsLife' = [AbsLife EXCEPT ![q] = Life(q)'] /\ state'[q] = "Ready"
    BY <1>1, LifeUpdate, Zenon DEF InterpInv
  <2>2. Life(q)' = "live"
    BY <2>1 DEF Life
  <2> QED BY <2>1, <2>2, <1>2 DEF AbsLife, Life
<1>4. Abstract!Spawn(q)
  BY <1>1, <1>3 DEF Abstract!Spawn
<1> QED BY <1>4 DEF AbsStep, Abstract!Next

\* A finished process exits; one that is kept stays alive.
LEMMA RefineDone ==
  ASSUME InterpInv, NEW p \in Pids, Done(p)
  PROVE  AbsStep
<1>1. /\ cur = p /\ UNCHANGED <<parked, mailbox, sent, log>>
      /\ state' = [state EXCEPT ![p] = "Ready"] \/ state' = [state EXCEPT ![p] = "Exited"]
  BY Zenon DEF Done
<1>2. state[p] = "Running" /\ parked[p] = NoPark /\ AbsLife[p] = "live" /\ TypeOK
  BY <1>1, InQuantum, RunningIsLive DEF InterpInv
<1>3. CASE state' = [state EXCEPT ![p] = "Ready"]
  <2>1. AbsLife' = AbsLife
    BY <1>2, <1>3, LifeStays, Zenon
  <2> QED BY <2>1, <1>1 DEF AbsStep, Abstract!vars
<1>4. CASE state' = [state EXCEPT ![p] = "Exited"]
  <2>1. AbsLife' = [AbsLife EXCEPT ![p] = "dead"]
    BY <1>2, <1>4, LifeUpdate, Zenon DEF Life
  <2>2. Abstract!Exit(p)
    BY <2>1, <1>1, <1>2 DEF Abstract!Exit, Abstract!Running
  <2> QED BY <2>2 DEF AbsStep, Abstract!Next
<1> QED BY <1>1, <1>3, <1>4

\* A send is dropped, joins the inbox, or is handed to a suspended receive that
\* accepts nothing in its inbox: no older message is passed over.
LEMMA RefineSend == ASSUME InterpInv, Send PROVE AbsStep
<1>1. PICK p \in Pids, q \in Pids, t \in Tags : SendRef(p, q, [id |-> sent + 1, tag |-> t])
  BY DEF Send
<1> DEFINE m == [id |-> sent + 1, tag |-> t]
<1>2. m.tag = t /\ m.id = sent + 1
  OBVIOUS
<1>3. sent < MaxSends /\ sent' = sent + 1
  BY <1>1 DEF SendRef
<1>4. CASE state[q] \in {"Unborn", "Exited"} /\ UNCHANGED <<state, parked, mailbox, log>>
  <2>1. AbsLife' = AbsLife /\ AbsLife[q] # "live"
    BY <1>4 DEF AbsLife, Life
  <2>2. Abstract!Send(q, t)
    BY <2>1, <1>3, <1>4 DEF Abstract!Send
  <2> QED BY <2>2 DEF AbsStep, Abstract!Next
<1>5. CASE /\ state[q] \notin {"Unborn", "Exited"}
           /\ mailbox' = [mailbox EXCEPT ![q] = Append(@, m)]
           /\ UNCHANGED <<state, parked, log>>
  <2>1. AbsLife' = AbsLife /\ AbsLife[q] = "live"
    BY <1>5 DEF AbsLife, Life
  <2>2. Abstract!Send(q, t)
    BY <2>1, <1>3, <1>5 DEF Abstract!Send
  <2> QED BY <2>2 DEF AbsStep, Abstract!Next
<1>6. CASE /\ parked[q] # NoPark /\ m.tag \in parked[q].pats
           /\ parked' = [parked EXCEPT ![q] = NoPark]
           /\ state' = [state EXCEPT ![q] = "Ready"]
           /\ log' = [log EXCEPT ![q] = Append(@, m.id)]
           /\ UNCHANGED mailbox
  <2>1. state[q] = "Blocked" /\ Accepted(q, parked[q].pats) = {} /\ TypeOK
    BY <1>6 DEF InterpInv, NoMissedMatch
  <2>2. AbsLife' = AbsLife
    BY <2>1, <1>6, LifeStays, Zenon
  <2>3. Abstract!MayTimeOut(parked[q].pats, mailbox[q])
    BY <2>1 DEF Abstract!MayTimeOut, Abstract!Accepted, Accepted
  <2>4. Abstract!HandOff(q, t)
    BY <2>2, <2>3, <1>2, <1>3, <1>6 DEF Abstract!HandOff
  <2> QED BY <2>4 DEF AbsStep, Abstract!Next
<1> QED BY <1>1, <1>4, <1>5, <1>6, Zenon DEF SendRef, Enqueue

\* A receive of the running process takes the oldest message it accepts, or
\* nothing when it accepts none.
LEMMA RefineReceived ==
  ASSUME InterpInv, NEW p \in Pids, NEW pats \in Matchers, ReceiveHit(p, pats) \/ ReceivePoll(p, pats)
  PROVE  AbsStep
<1>1. cur = p /\ UNCHANGED <<state, parked, sent>>
  BY DEF ReceiveHit, ReceivePoll
<1>2. AbsLife[p] = "live" /\ parked[p] = NoPark /\ AbsLife' = AbsLife
  BY <1>1, RunningIsLive DEF AbsLife, Life
<1>3. parked' = [parked EXCEPT ![p] = NoPark]
  BY <1>1, <1>2 DEF InterpInv, TypeOK
<1>4. pats \in SUBSET Tags
  BY InterpAssumption
<1>5. CASE ReceiveHit(p, pats)
  <2>1. PICK i \in Accepted(p, pats) :
          /\ \A j \in Accepted(p, pats) : i <= j
          /\ log' = [log EXCEPT ![p] = Append(@, mailbox[p][i].id)]
          /\ mailbox' = [mailbox EXCEPT ![p] = RemoveAt(@, i)]
    BY <1>5, Zenon DEF ReceiveHit
  <2>2. i \in DOMAIN mailbox[p] /\ Abstract!MayTake(pats, mailbox[p], i)
    BY <2>1 DEF Abstract!MayTake, Abstract!Accepted, Accepted
  <2>3. mailbox' = [mailbox EXCEPT ![p] = Abstract!RemoveAt(@, i)]
    BY <2>1 DEF RemoveAt, Abstract!RemoveAt
  <2>4. Abstract!Take(p, pats, i)
    BY <2>1, <2>2, <2>3, <1>1, <1>2, <1>3, Zenon DEF Abstract!Take
  <2> QED BY <2>2, <2>4, <1>4 DEF AbsStep, Abstract!Next
<1>6. CASE ReceivePoll(p, pats)
  <2>1. Abstract!MayTimeOut(pats, mailbox[p])
    BY <1>6 DEF ReceivePoll, Abstract!MayTimeOut, Abstract!Accepted, Accepted
  <2>2. Abstract!TimeOut(p, pats)
    BY <2>1, <1>1, <1>2, <1>3, <1>6, Zenon DEF Abstract!TimeOut, ReceivePoll, Abstract!TimedOut, TimedOut
  <2> QED BY <2>2, <1>4 DEF AbsStep, Abstract!Next
<1> QED BY <1>5, <1>6

\* A receive that suspends.
LEMMA RefinePark ==
  ASSUME InterpInv, NEW p \in Pids, NEW pats \in Matchers, NEW timed \in BOOLEAN,
         ReceivePark(p, pats, timed)
  PROVE  AbsStep
<1> DEFINE r == [pats |-> pats, timed |-> timed]
<1>1. /\ cur = p /\ parked' = [parked EXCEPT ![p] = r]
      /\ state' = [state EXCEPT ![p] = "Blocked"]
      /\ UNCHANGED <<mailbox, sent, log>>
  BY DEF ReceivePark
<1>2. AbsLife[p] = "live" /\ parked[p] = NoPark /\ state[p] = "Running" /\ TypeOK
  BY <1>1, RunningIsLive, InQuantum DEF InterpInv
<1>3. AbsLife' = AbsLife
  BY <1>1, <1>2, LifeStays, Zenon
<1>4. r \in Abstract!Receive
  BY InterpAssumption DEF Abstract!Receive
<1>5. Abstract!Suspend(p, r)
  BY <1>1, <1>2, <1>3 DEF Abstract!Suspend, Abstract!Running
<1> QED BY <1>4, <1>5 DEF AbsStep, Abstract!Next

\* Every step of the interpreter is an abstract step or a stutter.
LEMMA RefineNext == ASSUME InterpInv, [Next]_vars PROVE AbsStep
<1>1. CASE Quantum
  <2>1. PICK p \in Pids :
          \/ SpawnBackend(p) \/ Done(p) \/ Fail(p)
          \/ \E pats \in Matchers : ReceiveHit(p, pats) \/ ReceivePoll(p, pats)
          \/ \E pats \in Matchers, timed \in BOOLEAN : ReceivePark(p, pats, timed)
    BY <1>1 DEF Quantum
  <2> QED BY <2>1, RefineSpawn, RefineDone, RefineLoop, RefineReceived, RefinePark
<1>2. 1 \in Pids
  BY InterpAssumption DEF Pids
<1> QED BY <1>1, <1>2, RefineLoop, RefineSend DEF Next, Step, Returned

\* The interpreter implements selective receive in its strict form, for any
\* number of processes and messages: the oldest accepted message is the one
\* received, "after" runs only on no match, and no message is lost, duplicated
\* or moved (send_ref, the Receive tail, the backend driver).
THEOREM InterpRefinesSelectiveReceive == Spec => RefinesSelectiveReceive
<1>1. Init => Abstract!Init
  <2> SUFFICES ASSUME Init PROVE Abstract!Init
    OBVIOUS
  <2>1. 1 \in Pids
    BY InterpAssumption DEF Pids
  <2>2. AbsLife = [p \in Pids |-> IF p = 1 THEN "live" ELSE "unborn"]
    BY DEF Init, AbsLife, Life
  <2> QED BY <2>1, <2>2 DEF Init, Abstract!Init
<1>2. InterpInv /\ [Next]_vars => [Abstract!Next]_(Abstract!vars)
  BY RefineNext DEF AbsStep
<1> QED BY <1>1, <1>2, InterpInvariant, PTL DEF Spec, RefinesSelectiveReceive, Abstract!Spec

-----------------------------------------------------------------------------
(* Delivery.                                                               *)

\* What a step of the abstract specification does to mailboxes and histories.
Delivers == Carried(Pids, mailbox, log, mailbox', log', sent')

\* A step that leaves mailboxes, histories and the number of sends alone.
LEMMA DeliversSame ==
  ASSUME DeliveredOnce, UNCHANGED <<mailbox, log, sent>>
  PROVE  Delivers
<1>1. mailbox' = mailbox /\ log' = log /\ sent' = sent
  OBVIOUS
<1> QED BY <1>1, Zenon DEF Delivers, Carried, DeliveredOnce

\* Every step that refines one of the abstract specification delivers.
LEMMA DeliversStep ==
  ASSUME TypeOK, DeliveredOnce, AbsStep
  PROVE  Delivers
<1>1. /\ sent \in Nat /\ \A p \in Pids : mailbox[p] \in Seq(Message) /\ log[p] \in Seq(Nat)
      /\ mailbox \in [Pids -> Seq(Message)] /\ log \in [Pids -> Seq(0..MaxSends)]
  <2>1. 0..MaxSends \subseteq Nat
    BY InterpAssumption
  <2>2. \A s \in Seq(0..MaxSends) : s \in Seq(Nat)
    BY <2>1, SeqGrows, Zenon
  <2> QED BY <2>1, <2>2, Zenon DEF TypeOK
<1>2. CASE UNCHANGED Abstract!vars
  BY <1>2, DeliversSame DEF Abstract!vars
<1>3. ASSUME NEW p \in Pids, Abstract!Spawn(p) \/ Abstract!Exit(p) PROVE Delivers
  BY <1>3, DeliversSame DEF Abstract!Spawn, Abstract!Exit
<1>4. ASSUME NEW p \in Pids, NEW r, Abstract!Suspend(p, r) PROVE Delivers
  BY <1>4, DeliversSame DEF Abstract!Suspend
<1>5. ASSUME NEW p \in Pids, NEW t \in Tags, Abstract!Send(p, t) PROVE Delivers
  <2> DEFINE x == [id |-> sent + 1, tag |-> t]
  <2>1. sent < MaxSends /\ sent' = sent + 1 /\ log' = log
    BY <1>5 DEF Abstract!Send
  <2>2. CASE AbsLife[p] = "live"
    <3>1. mailbox' = [mailbox EXCEPT ![p] = Append(@, x)]
      BY <1>5, <2>2 DEF Abstract!Send
    <3>2. mailbox'[p] = Append(mailbox[p], x) /\ \A q \in Pids : q # p => mailbox'[q] = mailbox[q]
      BY <3>1, <1>1, Zenon
    <3>3. x \in Message /\ x.id = sent + 1
      BY <2>1, <1>1, InterpAssumption DEF Message
    <3> HIDE DEF x
    <3>4. Carried(Pids, mailbox, log, mailbox', log, sent + 1)
      BY <1>1, <3>2, <3>3, DeliveredSend, Zenon DEF DeliveredOnce
    <3> QED BY <2>1, <3>4, Zenon DEF Delivers
  <2>3. CASE AbsLife[p] # "live"
    <3>1. mailbox' = mailbox
      BY <1>5, <2>3 DEF Abstract!Send
    <3>2. Carried(Pids, mailbox, log, mailbox, log, sent + 1)
      BY <1>1, DeliveredDrop, Zenon DEF DeliveredOnce
    <3> QED BY <2>1, <3>1, <3>2, Zenon DEF Delivers
  <2> QED BY <2>2, <2>3
<1>6. ASSUME NEW p \in Pids, NEW t \in Tags, Abstract!HandOff(p, t) PROVE Delivers
  <2>1. sent' = sent + 1 /\ mailbox' = mailbox /\ log' = [log EXCEPT ![p] = Append(@, sent + 1)]
    BY <1>6 DEF Abstract!HandOff
  <2>2. log'[p] = Append(log[p], sent + 1) /\ \A q \in Pids : q # p => log'[q] = log[q]
    BY <2>1, <1>1, Zenon
  <2>3. Carried(Pids, mailbox, log, mailbox, log', sent + 1)
    BY <1>1, <2>2, DeliveredHandOff, Zenon DEF DeliveredOnce
  <2> QED BY <2>1, <2>3, Zenon DEF Delivers
<1>7. ASSUME NEW p \in Pids, NEW pats, Abstract!TimeOut(p, pats) PROVE Delivers
  <2>1. sent' = sent /\ mailbox' = mailbox /\ log' = [log EXCEPT ![p] = Append(@, 0)]
    BY <1>7 DEF Abstract!TimeOut, Abstract!TimedOut
  <2>2. log'[p] = Append(log[p], 0) /\ \A q \in Pids : q # p => log'[q] = log[q]
    BY <2>1, <1>1, Zenon
  <2>3. Carried(Pids, mailbox, log, mailbox, log', sent)
    BY <1>1, <2>2, DeliveredTimeOut, Zenon DEF DeliveredOnce
  <2> QED BY <2>1, <2>3, Zenon DEF Delivers
<1>8. ASSUME NEW p \in Pids, NEW pats, NEW i \in DOMAIN mailbox[p], Abstract!Take(p, pats, i)
      PROVE  Delivers
  <2>1. /\ sent' = sent /\ mailbox' = [mailbox EXCEPT ![p] = RemoveAt(@, i)]
        /\ log' = [log EXCEPT ![p] = Append(@, mailbox[p][i].id)]
    BY <1>8 DEF Abstract!Take, Abstract!RemoveAt, RemoveAt
  <2>2. /\ mailbox'[p] = RemoveAt(mailbox[p], i) /\ log'[p] = Append(log[p], mailbox[p][i].id)
        /\ \A q \in Pids : q # p => mailbox'[q] = mailbox[q] /\ log'[q] = log[q]
    BY <2>1, <1>1, Zenon
  <2>3. Carried(Pids, mailbox, log, mailbox', log', sent)
    BY <1>1, <2>2, DeliveredTake, Zenon DEF DeliveredOnce
  <2> QED BY <2>1, <2>3, Zenon DEF Delivers
<1> QED BY <1>2, <1>3, <1>4, <1>5, <1>6, <1>7, <1>8, Zenon DEF AbsStep, Abstract!Next

\* For any number of processes and messages, the interpreter keeps every
\* mailbox in the order of the sends and has no message in two places
\* (send_ref, the Receive tail).
THEOREM InterpDeliveredOnce == Spec => []DeliveredOnce
<1>1. Init => DeliveredOnce
  BY DeliveredNothing DEF Init, DeliveredOnce
<1>2. InterpInv /\ DeliveredOnce /\ [Next]_vars => DeliveredOnce'
  BY RefineNext, DeliversStep DEF InterpInv, Delivers, Carried, DeliveredOnce
<1> QED BY <1>1, <1>2, InterpInvariant, PTL DEF Spec

\* No message that reached a process of the interpreter goes astray: it stays
\* in the mailbox until a receive returns it, across polls and the steps of every
\* other process.
THEOREM InterpNothingLost == Spec => NothingLost
<1>1. InterpInv /\ DeliveredOnce /\ [Next]_vars =>
        [\A p \in Pids : Seen(mailbox[p], log[p]) \subseteq Seen(mailbox[p], log[p])']_vars
  BY RefineNext, DeliversStep DEF InterpInv, Delivers, Carried
<1> QED BY <1>1, InterpInvariant, InterpDeliveredOnce, PTL DEF Spec, NothingLost
=============================================================================
