--------------------------- MODULE InterpRefinement ---------------------------
(***************************************************************************)
(* The interpreter's processes seen as those of SelectiveReceive: a        *)
(* process is live from its registration to its retirement, a kept process *)
(* that has completed included, its inbox is its mailbox, and it is        *)
(* suspended in the receive of its park record.                            *)
(***************************************************************************)
EXTENDS InterpRuntime

Life(p) == CASE state[p] = "Unborn" -> "unborn"
             [] state[p] = "Exited" -> "dead"
             [] OTHER -> "live"

AbsLife == [p \in Pids |-> Life(p)]

Abstract == INSTANCE SelectiveReceive WITH
  Strict <- TRUE, NoWant <- NoPark, life <- AbsLife, inbox <- mailbox, want <- parked

\* The interpreter keeps the whole promise of selective receive: the oldest
\* accepted message is taken, and "after" runs only on no match.
RefinesSelectiveReceive == Abstract!Spec

\* Mailboxes stay in the order of the sends, and no message is ever in two
\* places: in two mailboxes, received and still waiting, or received twice, by
\* one process or by two.
DeliveredOnce == Delivered(Pids, mailbox, log, sent)

\* A message that reached a process stays with it: it leaves the mailbox only
\* by being received.
NothingLost ==
  [][\A p \in Pids : Seen(mailbox[p], log[p]) \subseteq Seen(mailbox[p], log[p])']_vars
=============================================================================
