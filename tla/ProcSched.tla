------------------------------- MODULE ProcSched -------------------------------
(***************************************************************************)
(* Process state and the selective-receive primitives that the two        *)
(* compiled engines share: the process table of runtime/src/process.rs,    *)
(* the park record of park.rs, the timer wheel of timer.rs, the sender     *)
(* probe, initial scan and after-timer fire of sched.rs, and the calls     *)
(* compiled code makes (ir_runtime.rs).  JitRuntime and AotRuntime add     *)
(* the send hook and the run loop of each engine.                          *)
(*                                                                         *)
(* One worker runs one process at a time; everything between two calls     *)
(* into the runtime is local to that process and is not modelled.          *)
(* Clock reads are the only outside influence: Tick lets time pass         *)
(* between any two steps.                                                  *)
(***************************************************************************)
EXTENDS Naturals, Sequences, Mailboxes

CONSTANTS MaxPid,     \* bound on processes; pids are minted 1, 2, ...
          Tags,       \* what a pattern can tell apart in a message
          Matchers,   \* the pattern sets of the program's receives
          Delays,     \* the "after" delays of the program's receives
          MaxSends,   \* bound on sends
          MaxTimers,  \* bound on receives with an "after" clause
          MaxNow,     \* bound on the clock
          NoWait      \* Process.wait = None

ASSUME BoundsAssumption ==
  /\ MaxPid \in Nat \ {0}
  /\ MaxSends \in Nat /\ MaxTimers \in Nat /\ MaxNow \in Nat
  /\ Delays \subseteq Nat
  /\ Matchers \subseteq SUBSET Tags
ASSUME NoWaitAssumption ==
  /\ NoWait \notin [pats : Matchers, timer : 0..MaxTimers]
  /\ NoWait \notin [pats : Matchers, timed : BOOLEAN]

VARIABLES
  state,     \* state[p]: Process.state; "Unborn" when p is not in the registry
  runnable,  \* runnable[p]: Process.runnable, by what the closure resumes
  wait,      \* wait[p]: Process.wait, the park record
  mailbox,   \* mailbox[p]: Process.mailbox, front first
  runq,      \* the scheduler's run_queue
  timers,    \* the entries of the timer wheel
  expiring,  \* entries drained from the wheel, still to be applied
  nextTimer, \* TimerWheel.next_id
  nextPid,   \* the scheduler's next_pid
  now,       \* Instant::now()
  pc,        \* where the run loop is: "drain", "fire", "run" or "idle"
  cur,       \* the process in its quantum, or NoPid
  sent,      \* number of sends so far; the identity of the last message
  log,       \* history: log[p] is what p's receives returned, 0 for "after"
  exits      \* history: exits[p] counts the times p was retired as Exited

procVars  == <<state, runnable, wait, mailbox>>
timerVars == <<timers, expiring, nextTimer, now>>
histVars  == <<sent, log, exits>>
vars == <<procVars, runq, timerVars, nextPid, pc, cur, histVars>>

Pids == 1..MaxPid
NoPid == 0
NoTimer == 0
TimedOut == 0
Message == [id : 1..MaxSends, tag : Tags]
ParkRecord == [pats : Matchers, timer : 0..MaxTimers]
TimerEntry == [id : 1..MaxTimers, pid : Pids, at : Nat]
ProcessState == {"Unborn", "New", "Ready", "Running", "Blocked", "Exited"}
\* What resuming the runnable closure does: enter the process, go on after a
\* yield, run the body of a receive clause, or run the body of "after".
Closure == {"none", "entry", "yield", "clause", "after"}

TypeOK ==
  /\ state \in [Pids -> ProcessState]
  /\ runnable \in [Pids -> Closure]
  /\ wait \in [Pids -> ParkRecord \cup {NoWait}]
  /\ mailbox \in [Pids -> Seq(Message)]
  /\ runq \in Seq(Pids)
  /\ timers \in SUBSET TimerEntry
  /\ expiring \in SUBSET TimerEntry
  /\ nextTimer \in 1..(MaxTimers + 1)
  /\ nextPid \in 1..(MaxPid + 1)
  /\ now \in Nat
  /\ pc \in {"drain", "fire", "run", "idle"}
  /\ cur \in Pids \cup {NoPid}
  /\ sent \in 0..MaxSends
  /\ log \in [Pids -> Seq(0..MaxSends)]
  /\ exits \in [Pids -> Nat]

Parked(p) == wait[p] # NoWait
InQueue(p) == \E i \in DOMAIN runq : runq[i] = p
\* ParkRecord.try_match: the matcher's verdict depends on the message alone.
Matches(park, m) == m.tag \in park.pats
Accepted(p) == {i \in DOMAIN mailbox[p] : Matches(wait[p], mailbox[p][i])}

\* Mutant: a match forgets to cancel its timer.
CancelForgotten(id) == UNCHANGED timers

\* TimerWheel::cancel.
Cancel(id) == timers' = {e \in timers : e.id # id}

\* The scheduler spawned the main process and has not entered its loop.
InitWith(mainState) ==
  /\ state = [p \in Pids |-> IF p = 1 THEN mainState ELSE "Unborn"]
  /\ runnable = [p \in Pids |-> IF p = 1 THEN "entry" ELSE "none"]
  /\ wait = [p \in Pids |-> NoWait]
  /\ mailbox = [p \in Pids |-> <<>>]
  /\ runq = <<1>>
  /\ timers = {} /\ expiring = {} /\ nextTimer = 1 /\ now = 0
  /\ nextPid = 2
  /\ pc = "drain" /\ cur = NoPid
  /\ sent = 0
  /\ log = [p \in Pids |-> <<>>]
  /\ exits = [p \in Pids |-> 0]

-----------------------------------------------------------------------------
(* sched.rs: probe, scan and timer fire.                                   *)

\* The matcher takes m on behalf of the parked q; m never enters the mailbox.
ProbeHit(q, m) ==
  /\ Parked(q)
  /\ Matches(wait[q], m)
  /\ wait' = [wait EXCEPT ![q] = NoWait]
  /\ Cancel(wait[q].timer)
  /\ runnable' = [runnable EXCEPT ![q] = "clause"]
  /\ state' = [state EXCEPT ![q] = "Ready"]
  /\ log' = [log EXCEPT ![q] = Append(@, m.id)]
  /\ UNCHANGED mailbox

\* The matcher rejects m: it waits in the mailbox and q is not woken.
ProbeMiss(q, m) ==
  /\ Parked(q)
  /\ ~Matches(wait[q], m)
  /\ mailbox' = [mailbox EXCEPT ![q] = Append(@, m)]
  /\ UNCHANGED <<wait, timers, runnable, state, log>>

\* A scan looks only at a parked process with mail.
ScanApplies(p) == Parked(p) /\ mailbox[p] # <<>>

\* Mutant: the rejected prefix is not put back.
ScanHitLosesPrefix(p) ==
  /\ ScanApplies(p)
  /\ \E i \in Accepted(p) :
       /\ \A j \in Accepted(p) : i <= j
       /\ log' = [log EXCEPT ![p] = Append(@, mailbox[p][i].id)]
       /\ mailbox' = [mailbox EXCEPT ![p] = SubSeq(@, i + 1, Len(@))]
  /\ wait' = [wait EXCEPT ![p] = NoWait]
  /\ Cancel(wait[p].timer)

\* The first accepted message is spliced out, the others keep their order.
\* The closure set here is resumed in the same quantum.
ScanHit(p) ==
  /\ ScanApplies(p)
  /\ \E i \in Accepted(p) :
       /\ \A j \in Accepted(p) : i <= j
       /\ log' = [log EXCEPT ![p] = Append(@, mailbox[p][i].id)]
       /\ mailbox' = [mailbox EXCEPT ![p] = RemoveAt(@, i)]
  /\ wait' = [wait EXCEPT ![p] = NoWait]
  /\ Cancel(wait[p].timer)

ScanMiss(p) ==
  /\ ScanApplies(p)
  /\ Accepted(p) = {}
  /\ state' = [state EXCEPT ![p] = "Blocked"]
  /\ UNCHANGED <<wait, timers, runnable, mailbox, log>>

\* The next drained entry, in ascending (deadline, id) order.
IsNextExpiring(e) ==
  /\ e \in expiring
  /\ \A f \in expiring : e.at < f.at \/ (e.at = f.at /\ e.id <= f.id)

\* Mutant: the woken process is not queued.
FireWithoutEnqueue(e) ==
  /\ UNCHANGED runq
  /\ IF Parked(e.pid) /\ wait[e.pid].timer = e.id
       THEN /\ wait' = [wait EXCEPT ![e.pid] = NoWait]
            /\ runnable' = [runnable EXCEPT ![e.pid] = "after"]
            /\ state' = [state EXCEPT ![e.pid] = "Ready"]
            /\ log' = [log EXCEPT ![e.pid] = Append(@, TimedOut)]
       ELSE UNCHANGED <<wait, runnable, state, log>>

\* An entry wakes its process only if the process is still parked on it.
FireAfterTimer(e) ==
  IF Parked(e.pid) /\ wait[e.pid].timer = e.id
    THEN /\ wait' = [wait EXCEPT ![e.pid] = NoWait]
         /\ runnable' = [runnable EXCEPT ![e.pid] = "after"]
         /\ state' = [state EXCEPT ![e.pid] = "Ready"]
         /\ runq' = Append(runq, e.pid)
         /\ log' = [log EXCEPT ![e.pid] = Append(@, TimedOut)]
    ELSE UNCHANGED <<wait, runnable, state, runq, log>>

-----------------------------------------------------------------------------
(* The run loop's timer drain, the same in both engines.                   *)

\* Mutant: timers are looked at only when nothing else can run.
DrainWhenIdle ==
  /\ pc = "drain"
  /\ expiring' = IF runq = <<>> THEN {e \in timers : e.at <= now} ELSE {}
  /\ timers' = timers \ expiring'
  /\ pc' = "fire"
  /\ UNCHANGED <<procVars, runq, nextTimer, now, nextPid, cur, histVars>>

\* Every entry whose deadline has passed leaves the wheel.
DrainExpired ==
  /\ pc = "drain"
  /\ expiring' = {e \in timers : e.at <= now}
  /\ timers' = timers \ expiring'
  /\ pc' = "fire"
  /\ UNCHANGED <<procVars, runq, nextTimer, now, nextPid, cur, histVars>>

FireTimer ==
  /\ pc = "fire"
  /\ \E e \in expiring :
       /\ IsNextExpiring(e)
       /\ expiring' = expiring \ {e}
       /\ FireAfterTimer(e)
  /\ UNCHANGED <<mailbox, timers, nextTimer, now, nextPid, pc, cur, sent, exits>>

Tick ==
  /\ pc # "idle"
  /\ now < MaxNow
  /\ now' = now + 1
  /\ UNCHANGED <<procVars, runq, timers, expiring, nextTimer, nextPid, pc, cur, histVars>>

\* The loop has drained the wheel and is about to pop the queue.
AtPop == pc = "fire" /\ expiring = {}

\* The run loop comes back to its head after p's quantum.
BackToLoop == pc' = "drain" /\ cur' = NoPid

-----------------------------------------------------------------------------
(* The calls of the running process, and how its quantum can end.          *)

\* fz_spawn: the child is registered and queued before the parent goes on.
SpawnClosure(p) ==
  /\ cur = p
  /\ nextPid \in Pids
  /\ nextPid' = nextPid + 1
  /\ state' = [state EXCEPT ![nextPid] = "Ready"]
  /\ runnable' = [runnable EXCEPT ![nextPid] = "entry"]
  /\ runq' = Append(runq, nextPid)
  /\ UNCHANGED <<wait, mailbox, timerVars, pc, cur, histVars>>

\* Mutant: a yielding process goes to the front of the queue.
YieldToFront(p) ==
  /\ cur = p
  /\ runnable' = [runnable EXCEPT ![p] = "yield"]
  /\ state' = [state EXCEPT ![p] = "Ready"]
  /\ runq' = <<p>> \o runq
  /\ BackToLoop
  /\ UNCHANGED <<wait, mailbox, timerVars, nextPid, histVars>>

\* fz_yield_mid_flight_report, and the boundary that requeues the process.
YieldMidFlight(p) ==
  /\ cur = p
  /\ runnable' = [runnable EXCEPT ![p] = "yield"]
  /\ state' = [state EXCEPT ![p] = "Ready"]
  /\ runq' = Append(runq, p)
  /\ BackToLoop
  /\ UNCHANGED <<wait, mailbox, timerVars, nextPid, histVars>>

\* Mutant: parking blocks without looking at the mailbox.
ParkBlocks(p, pats, timer) ==
  /\ cur = p
  /\ wait' = [wait EXCEPT ![p] = [pats |-> pats, timer |-> timer]]
  /\ state' = [state EXCEPT ![p] = "Blocked"]
  /\ BackToLoop
  /\ UNCHANGED <<runnable, mailbox, runq, expiring, now, nextPid, histVars>>

\* fz_receive_park_matched, and the boundary: with mail in the box the
\* process is requeued for an initial scan, otherwise it blocks.
Park(p, pats, timer) ==
  /\ cur = p
  /\ wait' = [wait EXCEPT ![p] = [pats |-> pats, timer |-> timer]]
  /\ IF mailbox[p] = <<>>
       THEN /\ state' = [state EXCEPT ![p] = "Blocked"]
            /\ UNCHANGED runq
       ELSE /\ state' = [state EXCEPT ![p] = "Ready"]
            /\ runq' = Append(runq, p)
  /\ BackToLoop
  /\ UNCHANGED <<runnable, mailbox, expiring, now, nextPid, histVars>>

ParkForever(p, pats) ==
  /\ Park(p, pats, NoTimer)
  /\ UNCHANGED <<timers, nextTimer>>

\* TimerWheel::schedule mints the id and enters the deadline.
ParkAfter(p, pats, delay) ==
  /\ nextTimer <= MaxTimers
  /\ now + delay <= MaxNow
  /\ Park(p, pats, nextTimer)
  /\ timers' = timers \cup {[id |-> nextTimer, pid |-> p, at |-> now + delay]}
  /\ nextTimer' = nextTimer + 1

\* The entry function returned: the process is retired.  The bodies of the
\* destructors that its retirement runs (see OffHeap) are taken to end without a
\* receive and without a yield, either of which would leave the retired process
\* with a receive or a closure.
Exit(p) ==
  /\ cur = p
  /\ state' = [state EXCEPT ![p] = "Exited"]
  /\ exits' = [exits EXCEPT ![p] = @ + 1]
  /\ BackToLoop
  /\ UNCHANGED <<runnable, wait, mailbox, runq, timerVars, nextPid, sent, log>>

Quantum ==
  \E p \in Pids :
    \/ SpawnClosure(p)
    \/ YieldMidFlight(p)
    \/ Exit(p)
    \/ \E pats \in Matchers :
         ParkForever(p, pats) \/ \E delay \in Delays : ParkAfter(p, pats, delay)

-----------------------------------------------------------------------------
(* Dispatch: what happens to the process at the head of the queue.         *)

\* The initial scan finds a message and the clause body runs.
DispatchScanHit(p) ==
  /\ ScanHit(p)
  /\ state' = [state EXCEPT ![p] = "Running"]
  /\ cur' = p
  /\ pc' = "run"
  /\ UNCHANGED <<runnable, exits>>

\* The initial scan finds nothing: the process blocks and the loop goes on.
DispatchScanMiss(p) ==
  /\ ScanMiss(p)
  /\ BackToLoop
  /\ UNCHANGED exits

\* The runnable closure is taken and resumed.
DispatchResume(p) ==
  /\ ~ScanApplies(p)
  /\ runnable[p] # "none"
  /\ runnable' = [runnable EXCEPT ![p] = "none"]
  /\ state' = [state EXCEPT ![p] = "Running"]
  /\ cur' = p
  /\ pc' = "run"
  /\ UNCHANGED <<wait, mailbox, timers, log, exits>>

\* Nothing to resume and nothing awaited: the loop takes it for an exit.
DispatchNothing(p) ==
  /\ ~Parked(p)
  /\ runnable[p] = "none"
  /\ state' = [state EXCEPT ![p] = "Exited"]
  /\ exits' = [exits EXCEPT ![p] = @ + 1]
  /\ BackToLoop
  /\ UNCHANGED <<runnable, wait, mailbox, timers, log>>

\* A parked process with an empty mailbox and nothing to resume.
StrayTurn(p) == Parked(p) /\ mailbox[p] = <<>> /\ runnable[p] = "none"

-----------------------------------------------------------------------------
(* Safety, the same for both engines.                                      *)

\* A process that is ready to run is in the run queue: the loop never forgets
\* one (run_until_idle, aot_run_queue_loop, and every waker).
ReadyIsQueued == \A p \in Pids : state[p] \in {"New", "Ready"} => InQueue(p)

\* A process the loop will not come to by itself is finished, or is parked on
\* a receive that accepts none of its mail: probe, scan and park never leave a
\* process asleep on a message it could take (sched.rs, fz_receive_park_matched).
NoMissedMatch ==
  \A p \in Pids :
    \/ cur = p \/ InQueue(p)
    \/ state[p] \in {"Unborn", "Exited"}
    \/ Parked(p) /\ runnable[p] = "none" /\ Accepted(p) = {}

\* The wheel holds a timer exactly for the processes parked with an "after":
\* a match cancels its timer, a fired timer finds its receive, and no timer
\* meets a later receive (probe_sender, initial_scan, fire_after_timer).
TimersMatchParks ==
  /\ \A e \in timers \cup expiring : Parked(e.pid) /\ wait[e.pid].timer = e.id
  /\ \A p \in Pids : Parked(p) /\ wait[p].timer # NoTimer =>
       \E e \in timers \cup expiring : e.pid = p /\ e.id = wait[p].timer

\* A process never has both a closure to resume and a receive to satisfy: the
\* loop would resume the closure past the receive (Process.runnable and wait).
OnePrimary == \A p \in Pids : Parked(p) => runnable[p] = "none"

-----------------------------------------------------------------------------
(* The inductive invariant behind the four (see ProcSchedProofs).          *)

\* The loop is in a quantum exactly when a process is running, and drained
\* timers are pending only while they are being applied.
PhaseInv ==
  /\ pc = "run" <=> cur # NoPid
  /\ expiring # {} => pc = "fire"

\* The process in its quantum has taken its closure and left its receive.
CurInv ==
  cur # NoPid => state[cur] = "Running" /\ ~Parked(cur) /\ runnable[cur] = "none"

\* Pids are minted in order, and only minted pids are queued or parked.
MintInv ==
  /\ \A p \in Pids : p >= nextPid => state[p] = "Unborn"
  /\ \A p \in Pids : state[p] = "Unborn" => ~Parked(p)
  /\ \A i \in DOMAIN runq : runq[i] < nextPid

\* A process off the queue and out of its quantum sleeps on a receive that
\* accepts none of its mail.
SleepInv ==
  \A p \in Pids : state[p] = "Blocked" \/ (state[p] = "Running" /\ cur # p) =>
    Parked(p) /\ runnable[p] = "none" /\ Accepted(p) = {}

\* Timer ids are never reused, and a drained entry has left the wheel.
TimerIdInv ==
  /\ timers \cap expiring = {}
  /\ \A e \in timers \cup expiring : e.id < nextTimer
  /\ \A e, f \in timers \cup expiring : e.id = f.id => e = f

CoreInv == TypeOK /\ PhaseInv /\ CurInv /\ MintInv /\ SleepInv /\ TimerIdInv
             /\ ReadyIsQueued /\ TimersMatchParks /\ OnePrimary

-----------------------------------------------------------------------------
(* Abstract view, for SelectiveReceive.                                    *)

Life(p) == CASE state[p] = "Unborn" -> "unborn"
             [] state[p] = "Exited" -> "dead"
             [] OTHER -> "live"
Want(p) == IF Parked(p)
             THEN [pats |-> wait[p].pats, timed |-> wait[p].timer # NoTimer]
             ELSE NoWait
=============================================================================
