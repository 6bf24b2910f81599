------------------------------- MODULE Mailboxes -------------------------------
(***************************************************************************)
(* Messages leave a mailbox from any place: a selective receive passes     *)
(* over what it does not accept.  A message carries the number of its      *)
(* send; a history lists what receives returned, 0 for an "after" clause.  *)
(***************************************************************************)
EXTENDS Naturals, Sequences

\* The sequence s without its i-th element; the others keep their order.
RemoveAt(s, i) == SubSeq(s, 1, i - 1) \o SubSeq(s, i + 1, Len(s))

\* The messages in a mailbox, those that a history says were received, and both.
Ids(box) == {box[i].id : i \in DOMAIN box}
Got(hist) == {hist[i] : i \in DOMAIN hist} \ {0}
Seen(box, hist) == Ids(box) \cup Got(hist)

InOrder(box) == \A i, j \in DOMAIN box : i < j => box[i].id < box[j].id
Once(hist) == \A i, j \in DOMAIN hist : i < j /\ hist[i] = hist[j] => hist[i] = 0

\* After n sends, with the mailbox box[p] and the history hist[p] of every p in
\* P: mailboxes are in the order of the sends, and every message sent is in one
\* place at most, waiting in one mailbox or received once by one process.
Delivered(P, box, hist, n) ==
  /\ \A p \in P : InOrder(box[p]) /\ Once(hist[p])
  /\ \A p \in P : Ids(box[p]) \cap Got(hist[p]) = {}
  /\ \A p \in P : Seen(box[p], hist[p]) \subseteq 1..n
  /\ \A p, q \in P : p # q => Seen(box[p], hist[p]) \cap Seen(box[q], hist[q]) = {}
=============================================================================
