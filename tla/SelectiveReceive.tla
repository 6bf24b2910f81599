---------------------------- MODULE SelectiveReceive ----------------------------
(***************************************************************************)
(* What processes and selective receive promise to fz code, with no        *)
(* scheduler in sight: every live process has an inbox in arrival order,   *)
(* a receive takes a message its patterns accept and leaves the others in  *)
(* place, and an "after" clause ends a receive that took nothing.          *)
(*                                                                         *)
(* Strict selects the promise in full (guides/processes.html): the oldest  *)
(* accepted message is the one taken, and "after" runs only when nothing   *)
(* in the inbox is accepted.  With Strict = FALSE a receive may take any   *)
(* accepted message and "after" may run at any time.                       *)
(***************************************************************************)
EXTENDS Naturals, Sequences, Mailboxes

CONSTANTS Pids,      \* process identities
          Tags,      \* what a pattern can tell apart in a message
          MaxSends,  \* bound on the number of sends
          Strict,    \* oldest accepted message first, "after" only on no match
          NoWant     \* "not in a receive"

VARIABLES life,   \* life[p]: "unborn", "live" or "dead"
          inbox,  \* inbox[p]: the messages p has not received, oldest first
          want,   \* want[p]: the receive p is suspended in
          sent,   \* how many messages were sent; the last one's identity
          log     \* log[p]: what p's receives returned, 0 for "after"

vars == <<life, inbox, want, sent, log>>

Message == [id : 1..MaxSends, tag : Tags]
Receive == [pats : SUBSET Tags, timed : BOOLEAN]
TimedOut == 0

Accepted(pats, box) == {i \in DOMAIN box : box[i].tag \in pats}

\* The message at i is one that a receive with these patterns may take.
MayTake(pats, box, i) ==
  /\ i \in Accepted(pats, box)
  /\ Strict => \A j \in Accepted(pats, box) : i <= j

MayTimeOut(pats, box) == Strict => Accepted(pats, box) = {}

TypeOK ==
  /\ life \in [Pids -> {"unborn", "live", "dead"}]
  /\ inbox \in [Pids -> Seq(Message)]
  /\ want \in [Pids -> Receive \cup {NoWant}]
  /\ sent \in 0..MaxSends
  /\ log \in [Pids -> Seq(0..MaxSends)]

Init ==
  /\ \E root \in Pids : life = [p \in Pids |-> IF p = root THEN "live" ELSE "unborn"]
  /\ inbox = [p \in Pids |-> <<>>]
  /\ want = [p \in Pids |-> NoWant]
  /\ sent = 0
  /\ log = [p \in Pids |-> <<>>]

Running(p) == life[p] = "live" /\ want[p] = NoWant

Spawn(p) ==
  /\ life[p] = "unborn"
  /\ life' = [life EXCEPT ![p] = "live"]
  /\ UNCHANGED <<inbox, want, sent, log>>

\* A message to a process that is not alive is dropped.
Send(q, t) ==
  /\ sent < MaxSends
  /\ sent' = sent + 1
  /\ inbox' = IF life[q] = "live"
                THEN [inbox EXCEPT ![q] = Append(@, [id |-> sent + 1, tag |-> t])]
                ELSE inbox
  /\ UNCHANGED <<life, want, log>>

\* A message handed to a suspended receive without passing through the inbox.
HandOff(q, t) ==
  /\ sent < MaxSends
  /\ want[q] # NoWant
  /\ t \in want[q].pats
  /\ MayTimeOut(want[q].pats, inbox[q])
  /\ sent' = sent + 1
  /\ want' = [want EXCEPT ![q] = NoWant]
  /\ log' = [log EXCEPT ![q] = Append(@, sent + 1)]
  /\ UNCHANGED <<life, inbox>>

Suspend(p, r) ==
  /\ Running(p)
  /\ want' = [want EXCEPT ![p] = r]
  /\ UNCHANGED <<life, inbox, sent, log>>

\* A receive takes message i of its inbox, at once or after being suspended.
Take(p, pats, i) ==
  /\ life[p] = "live"
  /\ want[p] = NoWant \/ want[p].pats = pats
  /\ MayTake(pats, inbox[p], i)
  /\ log' = [log EXCEPT ![p] = Append(@, inbox[p][i].id)]
  /\ inbox' = [inbox EXCEPT ![p] = RemoveAt(@, i)]
  /\ want' = [want EXCEPT ![p] = NoWant]
  /\ UNCHANGED <<life, sent>>

\* The "after" clause ends a receive, at once or after being suspended.
TimeOut(p, pats) ==
  /\ life[p] = "live"
  /\ want[p] = NoWant \/ want[p] = [pats |-> pats, timed |-> TRUE]
  /\ MayTimeOut(pats, inbox[p])
  /\ log' = [log EXCEPT ![p] = Append(@, TimedOut)]
  /\ want' = [want EXCEPT ![p] = NoWant]
  /\ UNCHANGED <<life, inbox, sent>>

Exit(p) ==
  /\ Running(p)
  /\ life' = [life EXCEPT ![p] = "dead"]
  /\ UNCHANGED <<inbox, want, sent, log>>

Next ==
  \/ \E p \in Pids : Spawn(p) \/ Exit(p)
  \/ \E p \in Pids, t \in Tags : Send(p, t) \/ HandOff(p, t)
  \/ \E p \in Pids, r \in Receive : Suspend(p, r)
  \/ \E p \in Pids, pats \in SUBSET Tags :
       TimeOut(p, pats) \/ \E i \in DOMAIN inbox[p] : Take(p, pats, i)

Spec == Init /\ [][Next]_vars
=============================================================================
