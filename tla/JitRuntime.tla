------------------------------- MODULE JitRuntime -------------------------------
(***************************************************************************)
(* The scheduler of the JIT engine: exec/runtime.rs, with the quantum of   *)
(* ir_codegen/compiled.rs.                                                 *)
(***************************************************************************)
EXTENDS ProcSched

Init == InitWith("Ready")

\* send_via.  A self-send goes to the sender's own mailbox; a message to a
\* pid that is unknown or exited is dropped; a parked receiver is probed; any
\* other receiver gets the message in its mailbox.
SendVia(p, q, m) ==
  /\ cur = p
  /\ sent < MaxSends
  /\ m.id = sent + 1
  /\ sent' = sent + 1
  /\ \/ /\ q = p
        /\ mailbox' = [mailbox EXCEPT ![p] = Append(@, m)]
        /\ UNCHANGED <<state, runnable, wait, runq, timers, log>>
     \/ /\ q # p
        /\ state[q] \in {"Unborn", "Exited"}
        /\ UNCHANGED <<procVars, runq, timers, log>>
     \/ /\ q # p
        /\ state[q] \notin {"Unborn", "Exited"}
        /\ \/ ProbeHit(q, m) /\ runq' = Append(runq, q)
           \/ ProbeMiss(q, m) /\ UNCHANGED runq
           \/ /\ ~Parked(q)
              /\ mailbox' = [mailbox EXCEPT ![q] = Append(@, m)]
              /\ IF state[q] = "Blocked"
                   THEN /\ state' = [state EXCEPT ![q] = "Ready"]
                        /\ runq' = Append(runq, q)
                   ELSE UNCHANGED <<state, runq>>
              /\ UNCHANGED <<runnable, wait, timers, log>>
  /\ UNCHANGED <<expiring, nextTimer, now, nextPid, pc, cur, exits>>

Send == \E p, q \in Pids, t \in Tags : SendVia(p, q, [id |-> sent + 1, tag |-> t])

\* "Other cooperative yield": the loop requeues a process that stayed Running.
DispatchOther(p) ==
  /\ StrayTurn(p)
  /\ state' = [state EXCEPT ![p] = "Ready"]
  /\ BackToLoop
  /\ UNCHANGED <<runnable, wait, mailbox, timers, log, exits>>

\* One turn of run_until_idle's loop body after the drain.
Dispatch ==
  /\ AtPop
  /\ runq # <<>>
  /\ LET p == Head(runq)
     IN \/ /\ \/ DispatchScanHit(p)
              \/ DispatchScanMiss(p)
              \/ DispatchResume(p)
              \/ DispatchNothing(p)
           /\ runq' = Tail(runq)
        \/ /\ DispatchOther(p)
           /\ runq' = Append(Tail(runq), p)
  /\ UNCHANGED <<expiring, nextTimer, now, nextPid, sent>>

\* The queue is empty: run_until_idle returns, timers or not.
GoIdle ==
  /\ AtPop
  /\ runq = <<>>
  /\ pc' = "idle"
  /\ UNCHANGED <<procVars, runq, timerVars, nextPid, cur, histVars>>

Returned == pc = "idle" /\ UNCHANGED vars

Step == DrainExpired \/ FireTimer \/ Dispatch \/ GoIdle \/ Quantum \/ Send
Next == Step \/ Tick \/ Returned
Spec == Init /\ [][Next]_vars

\* One thread runs the loop and always goes on; each quantum is a finite run
\* of calls, because compiled loops yield when their reductions run out.  Time
\* does not stop.
FairSpec == Spec /\ WF_vars(Step) /\ WF_vars(Tick)

-----------------------------------------------------------------------------
\* run_until_idle returns only when every task has halted or blocked.
IdleMeansSettled ==
  pc = "idle" => \A p \in Pids : state[p] \in {"Unborn", "Blocked", "Exited"}

\* A process made ready gets its turn: a quantum, or a scan that blocks it, or
\* the turn of a process with nothing to do (FIFO run queue).
ReadyRuns ==
  \A p \in Pids : (state[p] = "Ready") ~> (state[p] # "Ready" \/ StrayTurn(p))

-----------------------------------------------------------------------------
(* What the documentation says and the code does not do.                   *)

\* "Walk the existing mailbox in arrival order": a receive never takes a
\* message while an older one in the mailbox matches too.
ArrivalOrder ==
  [][\A p \in Pids, i \in 1..MaxSends :
       log'[p] = Append(log[p], i) =>
         \A j \in Accepted(p) : i <= mailbox[p][j].id]_vars

\* "look at the mailbox right now, and if nothing matches, take the after
\* path": "after" never runs while a message in the mailbox matches.
AfterOnlyOnNoMatch ==
  [][\A p \in Pids : log'[p] = Append(log[p], TimedOut) => Accepted(p) = {}]_vars

\* "emits process_exited at each task exit", and Exited is final: a process is
\* retired once.
ExitsOnce == \A p \in Pids : exits[p] <= 1

\* "Drive ready tasks until every task has halted or blocked": once every
\* process is finished or in a receive that nothing can end, the loop returns.
Quiescent ==
  /\ cur = NoPid
  /\ \A p \in Pids :
       \/ state[p] \in {"Unborn", "Exited"}
       \/ Parked(p) /\ wait[p].timer = NoTimer /\ Accepted(p) = {}
ReturnsWhenQuiescent == Quiescent ~> (pc = "idle")

\* "The receive always returns within roughly the deadline."
AfterReturns == \A p \in Pids : (Parked(p) /\ wait[p].timer # NoTimer) ~> ~Parked(p)
=============================================================================
