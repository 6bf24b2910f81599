------------------------------- MODULE AotRuntime -------------------------------
(***************************************************************************)
(* The scheduler linked into ahead-of-time compiled programs:              *)
(* runtime/src/aot_shim.rs.                                                *)
(***************************************************************************)
EXTENDS ProcSched

\* fz_aot_setup registers main as New; fz_aot_run_main queues it.
Init == InitWith("New")

\* aot_send_hook.  Sender and receiver are looked up the same way, so a
\* self-send is a send to a process that is Running and not parked.
AotSend(p, q, m) ==
  /\ cur = p
  /\ sent < MaxSends
  /\ m.id = sent + 1
  /\ sent' = sent + 1
  /\ \/ /\ state[q] \in {"Unborn", "Exited"}
        /\ UNCHANGED <<procVars, runq, timers, log>>
     \/ /\ state[q] \notin {"Unborn", "Exited"}
        /\ \/ ProbeHit(q, m) /\ runq' = Append(runq, q)
           \/ ProbeMiss(q, m) /\ UNCHANGED runq
           \/ /\ ~Parked(q)
              /\ mailbox' = [mailbox EXCEPT ![q] = Append(@, m)]
              /\ IF state[q] = "Blocked"
                   THEN /\ state' = [state EXCEPT ![q] = "Ready"]
                        /\ runq' = Append(runq, q)
                   ELSE UNCHANGED <<state, runq>>
              /\ UNCHANGED <<runnable, wait, timers, log>>
  /\ UNCHANGED <<expiring, nextTimer, now, nextPid, pc, cur, exits>>

Send == \E p, q \in Pids, t \in Tags : AotSend(p, q, [id |-> sent + 1, tag |-> t])

\* No branch of the post-quantum check applies to a parked process that is
\* still Running: it stays so, out of the queue.
DispatchLeft(p) ==
  /\ StrayTurn(p)
  /\ state' = [state EXCEPT ![p] = "Running"]
  /\ BackToLoop
  /\ UNCHANGED <<runnable, wait, mailbox, timers, log, exits>>

DispatchQuantum ==
  /\ AtPop
  /\ runq # <<>>
  /\ LET p == Head(runq)
     IN \/ DispatchScanHit(p)
        \/ DispatchScanMiss(p)
        \/ DispatchResume(p)
        \/ DispatchNothing(p)
        \/ DispatchLeft(p)
  /\ runq' = Tail(runq)
  /\ UNCHANGED <<expiring, nextTimer, now, nextPid, sent>>

\* The queue is empty and a timer is pending: sleep up to its deadline.
SleepToDeadline ==
  /\ AtPop
  /\ runq = <<>>
  /\ \E e \in timers :
       /\ \A f \in timers : e.at <= f.at
       /\ now' = IF e.at > now THEN e.at ELSE now
  /\ pc' = "drain"
  /\ UNCHANGED <<procVars, runq, timers, expiring, nextTimer, nextPid, cur, histVars>>

\* Mutant: the loop returns with timers pending.
GoIdleWithTimers ==
  /\ AtPop
  /\ runq = <<>>
  /\ pc' = "idle"
  /\ UNCHANGED <<procVars, runq, timerVars, nextPid, cur, histVars>>

\* The queue is empty and no timer is pending: the program ends.
GoIdle ==
  /\ AtPop
  /\ runq = <<>>
  /\ timers = {}
  /\ pc' = "idle"
  /\ UNCHANGED <<procVars, runq, timerVars, nextPid, cur, histVars>>

Returned == pc = "idle" /\ UNCHANGED vars

Step == DrainExpired \/ FireTimer \/ DispatchQuantum \/ SleepToDeadline \/ GoIdle
          \/ Quantum \/ Send
Next == Step \/ Tick \/ Returned
Spec == Init /\ [][Next]_vars

\* One thread runs the loop and always goes on; each quantum is a finite run
\* of calls, because compiled loops yield when their reductions run out.  Time
\* does not stop.
FairSpec == Spec /\ WF_vars(Step) /\ WF_vars(Tick)

-----------------------------------------------------------------------------
\* Main returns only when nothing is left to wait for: no process is ready to
\* go on, and none is in a receive that would time out (aot_run_queue_loop).
IdleMeansSettled ==
  pc = "idle" => \A p \in Pids :
    \/ state[p] \in {"Unborn", "Exited"}
    \/ Parked(p) /\ wait[p].timer = NoTimer /\ Accepted(p) = {}

\* A receive with an "after" clause always returns: its timer fires even when
\* nothing else is left to run (the sleep of aot_run_queue_loop).
AfterReturns == \A p \in Pids : (Parked(p) /\ wait[p].timer # NoTimer) ~> ~Parked(p)

\* A process made ready is eventually run (FIFO run queue).
ReadyRuns == \A p \in Pids : (state[p] = "Ready") ~> (cur = p \/ state[p] = "Blocked")
=============================================================================
