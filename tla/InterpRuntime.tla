----------------------------- MODULE InterpRuntime -----------------------------
(***************************************************************************)
(* The scheduler of the interpreter: ir_interp/mod.rs and the driver,      *)
(* send and receive of ir_interp/backend.rs.  A receive looks through its  *)
(* own mailbox before it suspends, and a quantum ends only when the        *)
(* process finishes, suspends or fails.                                    *)
(***************************************************************************)
EXTENDS Naturals, Sequences, Mailboxes

CONSTANTS MaxPid,     \* bound on processes
          Tags,       \* what a pattern can tell apart in a message
          Matchers,   \* the pattern sets of the program's receives
          MaxSends,   \* bound on sends
          MaxPolls,   \* bound on "after 0" receives that took nothing
          NoPark      \* no record in backend_parked

ASSUME InterpAssumption ==
  /\ MaxPid \in Nat \ {0} /\ MaxSends \in Nat /\ MaxPolls \in Nat
  /\ Matchers \subseteq SUBSET Tags

ASSUME NoParkAssumption == NoPark \notin [pats : Matchers, timed : BOOLEAN]

VARIABLES
  state,        \* state[p]: Process.state; "Unborn" when p has no task
  resume,       \* the pids with an entry in backend_resume
  parked,       \* parked[p]: backend_parked
  mailbox,      \* mailbox[p]: Process.mailbox
  runq,         \* run_queue
  nextPid,      \* next_pid
  cur,          \* the process of the quantum under way, or NoPid
  pc,           \* "loop", "idle" or "failed"
  keepalive,    \* a macro run keeps process 1 (keepalive_pid)
  completions,  \* the pids the driver has recorded as completed
  sent, log, polls  \* sends so far, what receives returned, polls so far

vars == <<state, resume, parked, mailbox, runq, nextPid, cur, pc, keepalive, completions, sent, log, polls>>

Pids == 1..MaxPid
NoPid == 0
TimedOut == 0
Message == [id : 1..MaxSends, tag : Tags]
ParkRecord == [pats : Matchers, timed : BOOLEAN]

TypeOK ==
  /\ state \in [Pids -> {"Unborn", "New", "Ready", "Running", "Blocked", "Exited"}]
  /\ resume \in SUBSET Pids
  /\ parked \in [Pids -> ParkRecord \cup {NoPark}]
  /\ mailbox \in [Pids -> Seq(Message)]
  /\ runq \in Seq(Pids)
  /\ nextPid \in 2..(MaxPid + 1)
  /\ cur \in Pids \cup {NoPid}
  /\ pc \in {"loop", "idle", "failed"}
  /\ keepalive \in BOOLEAN
  /\ completions \in Seq(Pids)
  /\ sent \in 0..MaxSends
  /\ log \in [Pids -> Seq(0..MaxSends)]
  /\ polls \in 0..MaxPolls

\* fresh_with_atoms (or with_process), then enqueue_backend_entry(1, ...).
Init ==
  /\ state = [p \in Pids |-> IF p = 1 THEN "Ready" ELSE "Unborn"]
  /\ resume = {1}
  /\ parked = [p \in Pids |-> NoPark]
  /\ mailbox = [p \in Pids |-> <<>>]
  /\ runq = <<1>>
  /\ nextPid = 2
  /\ cur = NoPid /\ pc = "loop"
  /\ keepalive \in BOOLEAN
  /\ completions = <<>>
  /\ sent = 0
  /\ log = [p \in Pids |-> <<>>]
  /\ polls = 0

Accepted(p, pats) == {i \in DOMAIN mailbox[p] : mailbox[p][i].tag \in pats}

\* enqueue_backend_executable and enqueue_backend_local_entry.
Enqueue(p) ==
  /\ resume' = resume \cup {p}
  /\ runq' = Append(runq, p)
  /\ state' = [state EXCEPT ![p] = "Ready"]

\* Mutant: the resume entry is read and not removed.
PopKeepsResume ==
  /\ pc = "loop" /\ cur = NoPid
  /\ runq # <<>>
  /\ Head(runq) \in resume
  /\ runq' = Tail(runq)
  /\ cur' = Head(runq)
  /\ state' = [state EXCEPT ![Head(runq)] = "Running"]
  /\ UNCHANGED <<resume, parked, mailbox, nextPid, pc, completions, sent, log, polls, keepalive>>

\* The driver pops a pid and takes its resume entry; a pid without one would
\* stop it (.expect), and the model with it.
Pop ==
  /\ pc = "loop" /\ cur = NoPid
  /\ runq # <<>>
  /\ Head(runq) \in resume
  /\ resume' = resume \ {Head(runq)}
  /\ runq' = Tail(runq)
  /\ cur' = Head(runq)
  /\ state' = [state EXCEPT ![Head(runq)] = "Running"]
  /\ UNCHANGED <<parked, mailbox, nextPid, pc, completions, sent, log, polls, keepalive>>

SpawnBackend(p) ==
  /\ cur = p
  /\ nextPid \in Pids
  /\ nextPid' = nextPid + 1
  /\ Enqueue(nextPid)
  /\ UNCHANGED <<parked, mailbox, cur, pc, completions, sent, log, polls, keepalive>>

\* send_ref: unknown and exited receivers drop the message; a suspended
\* receive that accepts it is resumed; otherwise it joins the mailbox.
SendRef(p, q, m) ==
  /\ cur = p
  /\ sent < MaxSends
  /\ m.id = sent + 1
  /\ sent' = sent + 1
  /\ \/ /\ state[q] \in {"Unborn", "Exited"}
        /\ UNCHANGED <<state, resume, parked, mailbox, runq, log>>
     \/ /\ state[q] \notin {"Unborn", "Exited"}
        /\ IF parked[q] # NoPark /\ m.tag \in parked[q].pats
             THEN /\ parked' = [parked EXCEPT ![q] = NoPark]
                  /\ Enqueue(q)
                  /\ log' = [log EXCEPT ![q] = Append(@, m.id)]
                  /\ UNCHANGED mailbox
             ELSE /\ mailbox' = [mailbox EXCEPT ![q] = Append(@, m)]
                  /\ UNCHANGED <<state, resume, parked, runq, log>>
  /\ UNCHANGED <<nextPid, cur, pc, completions, polls, keepalive>>

Send == \E p, q \in Pids, t \in Tags : SendRef(p, q, [id |-> sent + 1, tag |-> t])

\* Mutant: the scan takes the newest accepted message.
ReceiveNewest(p, pats) ==
  /\ cur = p
  /\ \E i \in Accepted(p, pats) :
       /\ \A j \in Accepted(p, pats) : i >= j
       /\ log' = [log EXCEPT ![p] = Append(@, mailbox[p][i].id)]
       /\ mailbox' = [mailbox EXCEPT ![p] = RemoveAt(@, i)]
  /\ UNCHANGED <<state, resume, parked, runq, nextPid, cur, pc, completions, sent, polls, keepalive>>

\* The receive tail finds its first accepted message and goes on with it.
ReceiveHit(p, pats) ==
  /\ cur = p
  /\ \E i \in Accepted(p, pats) :
       /\ \A j \in Accepted(p, pats) : i <= j
       /\ log' = [log EXCEPT ![p] = Append(@, mailbox[p][i].id)]
       /\ mailbox' = [mailbox EXCEPT ![p] = RemoveAt(@, i)]
  /\ UNCHANGED <<state, resume, parked, runq, nextPid, cur, pc, completions, sent, polls, keepalive>>

\* Nothing accepted and the timeout is zero: the "after" entry runs at once.
ReceivePoll(p, pats) ==
  /\ cur = p
  /\ Accepted(p, pats) = {}
  /\ polls < MaxPolls
  /\ polls' = polls + 1
  /\ log' = [log EXCEPT ![p] = Append(@, TimedOut)]
  /\ UNCHANGED <<state, resume, parked, mailbox, runq, nextPid, cur, pc, completions, sent, keepalive>>

\* Mutant: the receive suspends without looking at its mailbox.
ParkUnscanned(p, pats, timed) ==
  /\ cur = p
  /\ parked' = [parked EXCEPT ![p] = [pats |-> pats, timed |-> timed]]
  /\ state' = [state EXCEPT ![p] = "Blocked"]
  /\ cur' = NoPid
  /\ UNCHANGED <<resume, mailbox, runq, nextPid, pc, completions, sent, log, polls, keepalive>>

\* Nothing accepted and no zero timeout: suspend.  A positive timeout is
\* carried along and never looked at again.
ReceivePark(p, pats, timed) ==
  /\ cur = p
  /\ Accepted(p, pats) = {}
  /\ parked' = [parked EXCEPT ![p] = [pats |-> pats, timed |-> timed]]
  /\ state' = [state EXCEPT ![p] = "Blocked"]
  /\ cur' = NoPid
  /\ UNCHANGED <<resume, mailbox, runq, nextPid, pc, completions, sent, log, polls, keepalive>>

\* Mutant: a finished process is queued again.
DoneRequeues(p) ==
  /\ cur = p
  /\ completions' = Append(completions, p)
  /\ Enqueue(p)
  /\ cur' = NoPid
  /\ UNCHANGED <<parked, mailbox, nextPid, pc, sent, log, polls, keepalive>>

\* The entry returned.  A kept process goes back to Ready, out of the queue;
\* any other drains its destructors and is retired.
Done(p) ==
  /\ cur = p
  /\ completions' = Append(completions, p)
  /\ state' = [state EXCEPT ![p] = IF keepalive /\ p = 1 THEN "Ready" ELSE "Exited"]
  /\ cur' = NoPid
  /\ UNCHANGED <<resume, parked, mailbox, runq, nextPid, pc, sent, log, polls, keepalive>>

\* A failure in any process ends the whole drive.
Fail(p) ==
  /\ cur = p
  /\ pc' = "failed"
  /\ cur' = NoPid
  /\ UNCHANGED <<state, resume, parked, mailbox, runq, nextPid, completions, sent, log, polls, keepalive>>

\* Mutant: the driver stops after one quantum.
GoIdleEarly ==
  /\ pc = "loop" /\ cur = NoPid
  /\ pc' = "idle"
  /\ UNCHANGED <<state, resume, parked, mailbox, runq, nextPid, cur, completions, sent, log, polls, keepalive>>

\* The run queue is empty.
GoIdle ==
  /\ pc = "loop" /\ cur = NoPid
  /\ runq = <<>>
  /\ pc' = "idle"
  /\ UNCHANGED <<state, resume, parked, mailbox, runq, nextPid, cur, completions, sent, log, polls, keepalive>>

Returned == pc \in {"idle", "failed"} /\ UNCHANGED vars

Quantum ==
  \E p \in Pids :
    \/ SpawnBackend(p) \/ Done(p) \/ Fail(p)
    \/ \E pats \in Matchers :
         \/ ReceiveHit(p, pats)
         \/ ReceivePoll(p, pats)
         \/ \E timed \in BOOLEAN : ReceivePark(p, pats, timed)

Step == Pop \/ Quantum \/ Send \/ GoIdle
Next == Step \/ Returned
Spec == Init /\ [][Next]_vars

\* The driver is one loop that always goes on.
FairSpec == Spec /\ WF_vars(Step)

-----------------------------------------------------------------------------
\* A queued pid has exactly one place in the queue and one resume entry: the
\* driver's .expect("backend pid in run queue with no backend resume") holds
\* (enqueue_*, take_backend_resume, send_ref's removal of the park record).
ResumeIsQueued ==
  /\ \A i, j \in DOMAIN runq : i # j => runq[i] # runq[j]
  /\ resume = {runq[i] : i \in DOMAIN runq}

\* A suspended receive and a pending resume exclude each other, and a suspended
\* process has no mail it would accept (send_ref, the Receive tail).
NoMissedMatch ==
  \A p \in Pids :
    /\ parked[p] # NoPark => p \notin resume /\ Accepted(p, parked[p].pats) = {}
    /\ state[p] = "Blocked" <=> parked[p] # NoPark

\* A process completes at most once, so run_backend_main's search for the last
\* completion of process 1 finds its only one.
CompletesOnce ==
  \A i, j \in DOMAIN completions : completions[i] = completions[j] => i = j

-----------------------------------------------------------------------------
(* The inductive invariant behind the three (see InterpRuntimeProofs).     *)

\* Pids are minted in order, and the registry has the minted ones.
MintInv == \A p \in Pids : state[p] = "Unborn" <=> p >= nextPid

\* A resume entry belongs to a process that is ready, and the process in its
\* quantum is marked as running: neither is suspended.
RunInv ==
  /\ \A p \in resume : state[p] = "Ready"
  /\ cur # NoPid => state[cur] = "Running"

\* A completed process is never resumed: it is out of the queue, it is not
\* suspended and it is not the one in its quantum, kept alive or not.
CompletedInv ==
  \A i \in DOMAIN completions :
    /\ completions[i] \notin resume
    /\ state[completions[i]] \in {"Ready", "Exited"}

InterpInv ==
  TypeOK /\ MintInv /\ RunInv /\ CompletedInv /\ ResumeIsQueued /\ NoMissedMatch /\ CompletesOnce

-----------------------------------------------------------------------------
\* A process made ready gets its quantum, unless a failure ends the drive.
ReadyRuns == \A p \in Pids : (p \in resume) ~> (cur = p \/ pc = "failed")
=============================================================================
