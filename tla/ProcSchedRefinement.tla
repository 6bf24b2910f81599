-------------------------- MODULE ProcSchedRefinement --------------------------
(***************************************************************************)
(* The compiled engines' processes seen as those of SelectiveReceive: a    *)
(* process is live from its registration to its retirement, its inbox is   *)
(* its mailbox, and it is suspended in the receive of its park record.     *)
(***************************************************************************)
EXTENDS ProcSched

AbsLife == [p \in Pids |-> Life(p)]
AbsWant == [p \in Pids |-> Want(p)]

Abstract == INSTANCE SelectiveReceive WITH
  Strict <- FALSE, NoWant <- NoWait, life <- AbsLife, inbox <- mailbox, want <- AbsWant

\* Every message to a live process is received at most once, by a receive that
\* accepts it, and none other ever leaves the mailbox or changes its place.
RefinesSelectiveReceive == Abstract!Spec

\* Mailboxes stay in the order of the sends, and no message is ever in two
\* places: in two mailboxes, received and still waiting, or received twice, by
\* one process or by two.
DeliveredOnce == Delivered(Pids, mailbox, log, sent)

\* A message that reached a process stays with it: it leaves the mailbox only
\* by being received.
NothingLost ==
  [][\A p \in Pids : Seen(mailbox[p], log[p]) \subseteq Seen(mailbox[p], log[p])']_vars

\* What the mapping needs beyond CoreInv: a process is never retired with a
\* closure to resume or a receive to satisfy, so that no later turn revives it,
\* and every minted pid is in the registry.
LifeInv ==
  \A p \in Pids :
    /\ p < nextPid => state[p] # "Unborn"
    /\ state[p] = "Exited" => ~Parked(p) /\ runnable[p] = "none"
=============================================================================
