---------------------------- MODULE MailboxesProofs ----------------------------
(***************************************************************************)
(* Facts about queues, mailboxes and histories that the proofs of the      *)
(* schedulers share.                                                       *)
(***************************************************************************)
EXTENDS Mailboxes, TLAPS

\* Popping the front of a queue loses only the front.
LEMMA TailFacts ==
  ASSUME NEW S, NEW s \in Seq(S), s # <<>>
  PROVE  /\ Tail(s) \in Seq(S)
         /\ Head(s) \in S
         /\ \A i \in DOMAIN Tail(s) : i + 1 \in DOMAIN s /\ Tail(s)[i] = s[i + 1]
         /\ \A i \in DOMAIN s : s[i] = Head(s) \/ \E j \in DOMAIN Tail(s) : Tail(s)[j] = s[i]
<1>1. /\ Tail(s) \in Seq(S) /\ Head(s) \in S
      /\ DOMAIN Tail(s) = 1..(Len(s) - 1) /\ DOMAIN s = 1..Len(s) /\ Len(s) \in Nat
      /\ \A i \in 1..(Len(s) - 1) : Tail(s)[i] = s[i + 1]
      /\ Head(s) = s[1]
  OBVIOUS
<1>2. ASSUME NEW i \in DOMAIN s
      PROVE  s[i] = Head(s) \/ \E j \in DOMAIN Tail(s) : Tail(s)[j] = s[i]
  <2>1. CASE i = 1
    BY <2>1, <1>1
  <2>2. CASE i # 1
    <3>1. i - 1 \in DOMAIN Tail(s) /\ Tail(s)[i - 1] = s[i]
      BY <2>2, <1>1
    <3> QED BY <3>1
  <2> QED BY <2>1, <2>2
<1> QED BY <1>1, <1>2

\* What Append adds to a sequence.
LEMMA AppendFacts ==
  ASSUME NEW S, NEW s \in Seq(S), NEW x \in S
  PROVE  /\ Append(s, x) \in Seq(S)
         /\ DOMAIN Append(s, x) = DOMAIN s \cup {Len(s) + 1}
         /\ \A i \in DOMAIN s : Append(s, x)[i] = s[i] /\ i < Len(s) + 1
         /\ Append(s, x)[Len(s) + 1] = x
         /\ \A i \in DOMAIN Append(s, x) :
              \/ i \in DOMAIN s /\ Append(s, x)[i] = s[i]
              \/ i = Len(s) + 1 /\ Append(s, x)[i] = x
  OBVIOUS

\* A sequence over a set is one over any larger set.
LEMMA SeqGrows ==
  ASSUME NEW S, NEW T, S \subseteq T, NEW s \in Seq(S)
  PROVE  s \in Seq(T)
<1>1. Len(s) \in Nat /\ s \in [1..Len(s) -> S]
  OBVIOUS
<1>2. s \in [1..Len(s) -> T]
  BY <1>1
<1> QED BY <1>1, <1>2

\* Two sequences end to end.
LEMMA ConcatFacts ==
  ASSUME NEW S, NEW a \in Seq(S), NEW b \in Seq(S)
  PROVE  /\ a \o b \in Seq(S) /\ Len(a \o b) = Len(a) + Len(b)
         /\ \A j \in 1..(Len(a) + Len(b)) :
               (a \o b)[j] = IF j <= Len(a) THEN a[j] ELSE b[j - Len(a)]
OBVIOUS

\* Splicing an element out keeps the others, in their order.
LEMMA RemoveAtFacts ==
  ASSUME NEW S, NEW s \in Seq(S), NEW i \in DOMAIN s
  PROVE  /\ RemoveAt(s, i) \in Seq(S)
         /\ DOMAIN RemoveAt(s, i) = 1..(Len(s) - 1)
         /\ \A j \in DOMAIN RemoveAt(s, i) :
              /\ j < i => j \in DOMAIN s /\ RemoveAt(s, i)[j] = s[j]
              /\ j >= i => j + 1 \in DOMAIN s /\ RemoveAt(s, i)[j] = s[j + 1]
<1>1. i \in 1..Len(s) /\ Len(s) \in Nat
  OBVIOUS
<1> DEFINE a == SubSeq(s, 1, i - 1)
           b == SubSeq(s, i + 1, Len(s))
<1>2. /\ a \in Seq(S) /\ Len(a) = i - 1
      /\ \A j \in 1..(i - 1) : a[j] = s[j]
  BY <1>1
<1>3. /\ b \in Seq(S) /\ Len(b) = Len(s) - i
      /\ \A j \in 1..(Len(s) - i) : b[j] = s[i + j]
  BY <1>1
<1>4. RemoveAt(s, i) = a \o b
  BY DEF RemoveAt
<1> HIDE DEF a, b
<1>5. /\ a \o b \in Seq(S) /\ Len(a \o b) = Len(s) - 1
      /\ \A j \in 1..(Len(s) - 1) : (a \o b)[j] = IF j <= i - 1 THEN a[j] ELSE b[j - (i - 1)]
  <2>1. Len(a) + Len(b) = Len(s) - 1
    BY <1>1, <1>2, <1>3
  <2>2. /\ a \o b \in Seq(S) /\ Len(a \o b) = Len(a) + Len(b)
        /\ \A j \in 1..(Len(a) + Len(b)) :
              (a \o b)[j] = IF j <= Len(a) THEN a[j] ELSE b[j - Len(a)]
    BY <1>2, <1>3, ConcatFacts, Zenon
  <2> QED BY <2>1, <2>2, <1>2, Zenon
<1>6. ASSUME NEW j \in 1..(Len(s) - 1)
      PROVE  /\ j < i => (a \o b)[j] = s[j]
             /\ j >= i => (a \o b)[j] = s[j + 1]
  <2>1. CASE j < i
    BY <2>1, <1>1, <1>2, <1>5
  <2>2. CASE j >= i
    <3>1. j - (i - 1) \in 1..(Len(s) - i) /\ i + (j - (i - 1)) = j + 1 /\ ~(j <= i - 1)
      BY <2>2, <1>1
    <3>2. (a \o b)[j] = b[j - (i - 1)]
      BY <3>1, <1>5
    <3>3. b[j - (i - 1)] = s[i + (j - (i - 1))]
      BY <3>1, <1>3
    <3>4. (a \o b)[j] = s[j + 1]
      BY <3>1, <3>2, <3>3
    <3> QED BY <2>2, <3>4, <1>1
  <2> QED BY <2>1, <2>2, <1>1, Zenon
<1>7. DOMAIN (a \o b) = 1..(Len(s) - 1) /\ DOMAIN s = 1..Len(s)
  BY <1>5, <1>1
<1>8. ASSUME NEW j \in 1..(Len(s) - 1)
      PROVE  j \in DOMAIN s /\ j + 1 \in DOMAIN s
  <2>1. j \in 1..Len(s) /\ j + 1 \in 1..Len(s)
    BY <1>1
  <2> QED BY <2>1, <1>7, Zenon
<1> QED BY <1>4, <1>5, <1>6, <1>7, <1>8, Zenon

-----------------------------------------------------------------------------
(* Delivery.                                                               *)

\* A message with a new number at the end of a mailbox.
LEMMA BoxGains ==
  ASSUME NEW S, NEW s \in Seq(S), NEW x \in S, InOrder(s), \A k \in Ids(s) : k < x.id
  PROVE  InOrder(Append(s, x)) /\ Ids(Append(s, x)) = Ids(s) \cup {x.id}
<1> DEFINE t == Append(s, x)
<1>1. /\ DOMAIN t = DOMAIN s \cup {Len(s) + 1}
      /\ \A i \in DOMAIN s : t[i] = s[i] /\ i < Len(s) + 1
      /\ t[Len(s) + 1] = x
  BY AppendFacts
<1> HIDE DEF t
<1>2. Ids(t) = Ids(s) \cup {x.id}
  BY <1>1 DEF Ids
<1>3. ASSUME NEW i \in DOMAIN t, NEW j \in DOMAIN t, i < j PROVE t[i].id < t[j].id
  <2>1. i \in DOMAIN s
    <3>1. Len(s) \in Nat /\ DOMAIN s = 1..Len(s)
      OBVIOUS
    <3> QED BY <3>1, <1>1, <1>3
  <2>2. CASE j \in DOMAIN s
    BY <2>1, <2>2, <1>1, <1>3 DEF InOrder
  <2>3. CASE j = Len(s) + 1
    BY <2>1, <2>3, <1>1 DEF Ids
  <2> QED BY <2>2, <2>3, <1>1
<1> QED BY <1>2, <1>3 DEF InOrder, t

\* A mailbox in order that loses a message.
LEMMA BoxLoses ==
  ASSUME NEW S, NEW s \in Seq(S), \A k \in DOMAIN s : s[k].id \in Nat,
         InOrder(s), NEW i \in DOMAIN s
  PROVE  InOrder(RemoveAt(s, i)) /\ Ids(RemoveAt(s, i)) = Ids(s) \ {s[i].id}
<1> DEFINE t == RemoveAt(s, i)
           Old(j) == IF j < i THEN j ELSE j + 1
<1>1. Len(s) \in Nat /\ DOMAIN s = 1..Len(s) /\ DOMAIN t = 1..(Len(s) - 1) /\ i \in 1..Len(s)
  BY RemoveAtFacts
<1>2. \A j \in DOMAIN t : Old(j) \in DOMAIN s /\ t[j] = s[Old(j)] /\ Old(j) # i
  BY <1>1, RemoveAtFacts
<1>3. \A j, k \in DOMAIN t : j < k => Old(j) < Old(k)
  BY <1>1
<1>4. \A j \in DOMAIN s \ {i} : \E k \in DOMAIN t : Old(k) = j
  <2> SUFFICES ASSUME NEW j \in DOMAIN s \ {i} PROVE \E k \in DOMAIN t : Old(k) = j
    OBVIOUS
  <2>1. CASE j < i
    <3>1. j \in DOMAIN t /\ Old(j) = j
      BY <2>1, <1>1
    <3> QED BY <3>1
  <2>2. CASE ~(j < i)
    <3>1. j - 1 \in DOMAIN t /\ Old(j - 1) = j
      BY <2>2, <1>1
    <3> QED BY <3>1
  <2> QED BY <2>1, <2>2
<1> HIDE DEF t, Old
<1>5. InOrder(t)
  BY <1>2, <1>3 DEF InOrder
<1>6. \A j \in DOMAIN s : j # i => s[j].id # s[i].id
  BY <1>1 DEF InOrder
<1>7. Ids(t) = Ids(s) \ {s[i].id}
  <2>1. ASSUME NEW k \in DOMAIN t PROVE t[k].id \in Ids(s) \ {s[i].id}
    BY <1>2, <1>6 DEF Ids
  <2>2. ASSUME NEW j \in DOMAIN s, s[j].id # s[i].id PROVE s[j].id \in Ids(t)
    <3>1. PICK k \in DOMAIN t : Old(k) = j
      BY <2>2, <1>4
    <3>2. t[k] = s[j]
      BY <3>1, <1>2
    <3> QED BY <3>2 DEF Ids
  <2> QED BY <2>1, <2>2 DEF Ids
<1> QED BY <1>5, <1>7 DEF t

\* A receive that returns a message never returned before, or times out.
LEMMA HistoryGains ==
  ASSUME NEW l \in Seq(Nat), NEW x \in Nat, Once(l), x = 0 \/ x \notin Got(l)
  PROVE  Once(Append(l, x)) /\ Got(Append(l, x)) = Got(l) \cup ({x} \ {0})
<1> DEFINE t == Append(l, x)
<1>1. /\ DOMAIN t = DOMAIN l \cup {Len(l) + 1}
      /\ \A i \in DOMAIN l : t[i] = l[i] /\ i < Len(l) + 1
      /\ t[Len(l) + 1] = x
  BY AppendFacts
<1> HIDE DEF t
<1>2. Got(t) = Got(l) \cup ({x} \ {0})
  BY <1>1 DEF Got
<1>3. ASSUME NEW i \in DOMAIN t, NEW j \in DOMAIN t, i < j, t[i] = t[j] PROVE t[i] = 0
  <2>1. i \in DOMAIN l
    <3>1. Len(l) \in Nat /\ DOMAIN l = 1..Len(l)
      OBVIOUS
    <3> QED BY <3>1, <1>1, <1>3
  <2>2. CASE j \in DOMAIN l
    BY <2>1, <2>2, <1>1, <1>3 DEF Once
  <2>3. CASE j = Len(l) + 1
    BY <2>1, <2>3, <1>1, <1>3 DEF Got
  <2> QED BY <2>2, <2>3, <1>1
<1> QED BY <1>2, <1>3 DEF Once, t

\* Before the first send.
LEMMA DeliveredNothing ==
  ASSUME NEW P, NEW box, NEW hist, \A p \in P : box[p] = <<>> /\ hist[p] = <<>>
  PROVE  Delivered(P, box, hist, 0)
<1>1. \A p \in P : DOMAIN box[p] = {} /\ DOMAIN hist[p] = {}
  OBVIOUS
<1>2. \A p \in P : Seen(box[p], hist[p]) = {} /\ Ids(box[p]) = {}
  BY <1>1, Zenon DEF Seen, Ids, Got
<1> QED BY <1>1, <1>2, Zenon DEF Delivered, InOrder, Once

\* From the mailboxes box and histories hist to box2 and hist2 after m sends:
\* delivery is in order, and no process loses a message that reached it.
Carried(P, box, hist, box2, hist2, m) ==
  /\ Delivered(P, box2, hist2, m)
  /\ \A q \in P : Seen(box[q], hist[q]) \subseteq Seen(box2[q], hist2[q])

\* A step that touches the mailbox and the history of one process, and brings in
\* none but new messages.
LEMMA DeliveredStep ==
  ASSUME NEW P, NEW p \in P, NEW box, NEW hist, NEW box2, NEW hist2,
         NEW n \in Nat, NEW m \in Nat, n <= m, Delivered(P, box, hist, n),
         \A q \in P : q # p => box2[q] = box[q] /\ hist2[q] = hist[q],
         InOrder(box2[p]), Once(hist2[p]), Ids(box2[p]) \cap Got(hist2[p]) = {},
         Seen(box2[p], hist2[p]) \subseteq Seen(box[p], hist[p]) \cup (n + 1)..m
  PROVE  Delivered(P, box2, hist2, m)
<1> DEFINE A(q) == Seen(box[q], hist[q])
           B(q) == Seen(box2[q], hist2[q])
<1>1. /\ \A q \in P : A(q) \subseteq 1..n
      /\ \A q, r \in P : q # r => A(q) \cap A(r) = {}
      /\ \A q \in P : q # p => B(q) = A(q)
      /\ B(p) \subseteq A(p) \cup (n + 1)..m
  BY Zenon DEF Delivered
<1>2. \A q \in P : InOrder(box2[q]) /\ Once(hist2[q]) /\ Ids(box2[q]) \cap Got(hist2[q]) = {}
  BY DEF Delivered
<1> HIDE DEF A, B
<1>3. 1..n \subseteq 1..m /\ (n + 1)..m \subseteq 1..m /\ 1..n \cap (n + 1)..m = {}
  OBVIOUS
<1>4. \A q \in P : B(q) \subseteq 1..m
  BY <1>1, <1>3, Zenon
<1>5. \A q \in P : q # p => B(p) \cap B(q) = {}
  BY <1>1, <1>3, ZenonT(30)
<1>6. \A q, r \in P : q # r => B(q) \cap B(r) = {}
  BY <1>1, <1>5, Zenon
<1> QED BY <1>2, <1>4, <1>6, Zenon DEF Delivered, B

\* The n-th send puts its message in the mailbox of p.
LEMMA DeliveredSend ==
  ASSUME NEW P, NEW p \in P, NEW S, NEW box, NEW hist, NEW box2, NEW n \in Nat,
         Delivered(P, box, hist, n), box[p] \in Seq(S), NEW x \in S, x.id = n + 1,
         box2[p] = Append(box[p], x), \A q \in P : q # p => box2[q] = box[q]
  PROVE  Carried(P, box, hist, box2, hist, n + 1)
<1>1. /\ InOrder(box[p]) /\ Once(hist[p]) /\ Ids(box[p]) \cap Got(hist[p]) = {}
      /\ Ids(box[p]) \subseteq 1..n /\ Got(hist[p]) \subseteq 1..n
  BY Zenon DEF Delivered, Seen
<1>2. \A k \in Ids(box[p]) : k < x.id
  BY <1>1
<1>3. InOrder(box2[p]) /\ Ids(box2[p]) = Ids(box[p]) \cup {n + 1}
  BY <1>1, <1>2, BoxGains
<1>4. Ids(box2[p]) \cap Got(hist[p]) = {} /\ n + 1 \in (n + 1)..(n + 1) /\ n + 1 \in Nat /\ n <= n + 1
  BY <1>1, <1>3
<1>5. Seen(box2[p], hist[p]) \subseteq Seen(box[p], hist[p]) \cup (n + 1)..(n + 1)
  BY <1>3, <1>4 DEF Seen
<1>6. Delivered(P, box2, hist, n + 1)
  BY <1>1, <1>3, <1>4, <1>5, DeliveredStep, Zenon
<1> QED BY <1>3, <1>6, Zenon DEF Carried, Seen

\* The n-th send hands its message to a receive of p.
LEMMA DeliveredHandOff ==
  ASSUME NEW P, NEW p \in P, NEW box, NEW hist, NEW hist2, NEW n \in Nat,
         Delivered(P, box, hist, n), hist[p] \in Seq(Nat),
         hist2[p] = Append(hist[p], n + 1), \A q \in P : q # p => hist2[q] = hist[q]
  PROVE  Carried(P, box, hist, box, hist2, n + 1)
<1>1. /\ InOrder(box[p]) /\ Once(hist[p]) /\ Ids(box[p]) \cap Got(hist[p]) = {}
      /\ Ids(box[p]) \subseteq 1..n /\ Got(hist[p]) \subseteq 1..n
  BY Zenon DEF Delivered, Seen
<1>2. n + 1 \notin Got(hist[p]) /\ n + 1 \notin Ids(box[p]) /\ n + 1 # 0 /\ n + 1 \in Nat /\ n <= n + 1
  BY <1>1
<1>3. Once(hist2[p]) /\ Got(hist2[p]) = Got(hist[p]) \cup {n + 1}
  BY <1>1, <1>2, HistoryGains
<1>4. Ids(box[p]) \cap Got(hist2[p]) = {} /\ n + 1 \in (n + 1)..(n + 1)
  BY <1>1, <1>2, <1>3
<1>5. Seen(box[p], hist2[p]) \subseteq Seen(box[p], hist[p]) \cup (n + 1)..(n + 1)
  BY <1>3, <1>4 DEF Seen
<1>6. Delivered(P, box, hist2, n + 1)
  BY <1>1, <1>2, <1>3, <1>4, <1>5, DeliveredStep, Zenon
<1> QED BY <1>3, <1>6, Zenon DEF Carried, Seen

\* A receive of p takes message i of its mailbox.
LEMMA DeliveredTake ==
  ASSUME NEW P, NEW p \in P, NEW S, NEW box, NEW hist, NEW box2, NEW hist2, NEW n \in Nat,
         Delivered(P, box, hist, n), box[p] \in Seq(S), hist[p] \in Seq(Nat),
         NEW i \in DOMAIN box[p],
         box2[p] = RemoveAt(box[p], i), hist2[p] = Append(hist[p], box[p][i].id),
         \A q \in P : q # p => box2[q] = box[q] /\ hist2[q] = hist[q]
  PROVE  Carried(P, box, hist, box2, hist2, n)
<1> DEFINE x == box[p][i].id
<1>1. /\ InOrder(box[p]) /\ Once(hist[p]) /\ Ids(box[p]) \cap Got(hist[p]) = {}
      /\ Ids(box[p]) \subseteq 1..n /\ Got(hist[p]) \subseteq 1..n
  BY Zenon DEF Delivered, Seen
<1>2. x \in Ids(box[p]) /\ \A k \in DOMAIN box[p] : box[p][k].id \in Ids(box[p])
  BY DEF Ids
<1>3. x \in Nat /\ x # 0 /\ x \notin Got(hist[p]) /\ \A k \in DOMAIN box[p] : box[p][k].id \in Nat
  BY <1>1, <1>2
<1>4. InOrder(box2[p]) /\ Ids(box2[p]) = Ids(box[p]) \ {x}
  <2>1. InOrder(RemoveAt(box[p], i)) /\ Ids(RemoveAt(box[p], i)) = Ids(box[p]) \ {box[p][i].id}
    BY <1>1, <1>3, BoxLoses, Zenon
  <2> QED BY <2>1, Zenon
<1>5. Once(hist2[p]) /\ Got(hist2[p]) = Got(hist[p]) \cup {x}
  BY <1>1, <1>3, HistoryGains
<1> HIDE DEF x
<1>6. /\ Ids(box2[p]) \cap Got(hist2[p]) = {}
      /\ Seen(box2[p], hist2[p]) = Seen(box[p], hist[p])
  BY <1>1, <1>2, <1>4, <1>5 DEF Seen
<1>7. n <= n /\ Seen(box2[p], hist2[p]) \subseteq Seen(box[p], hist[p]) \cup (n + 1)..n
  BY <1>6
<1>8. InOrder(box2[p]) /\ Once(hist2[p]) /\ Ids(box2[p]) \cap Got(hist2[p]) = {}
  BY <1>4, <1>5, <1>6, Zenon
<1>9. Delivered(P, box2, hist2, n)
  BY <1>7, <1>8, DeliveredStep, ZenonT(30)
<1> QED BY <1>6, <1>9, Zenon DEF Carried, Seen

\* The "after" clause of a receive of p runs.
LEMMA DeliveredTimeOut ==
  ASSUME NEW P, NEW p \in P, NEW box, NEW hist, NEW hist2, NEW n \in Nat,
         Delivered(P, box, hist, n), hist[p] \in Seq(Nat),
         hist2[p] = Append(hist[p], 0), \A q \in P : q # p => hist2[q] = hist[q]
  PROVE  Carried(P, box, hist, box, hist2, n)
<1>1. InOrder(box[p]) /\ Once(hist[p]) /\ Ids(box[p]) \cap Got(hist[p]) = {}
  BY Zenon DEF Delivered
<1>2. Once(hist2[p]) /\ Got(hist2[p]) = Got(hist[p])
  <2>1. Once(Append(hist[p], 0)) /\ Got(Append(hist[p], 0)) = Got(hist[p]) \cup ({0} \ {0})
    <3>1. 0 \in Nat
      OBVIOUS
    <3> QED BY <1>1, <3>1, HistoryGains, Zenon
  <2> QED BY <2>1, Zenon
<1>3. Seen(box[p], hist2[p]) = Seen(box[p], hist[p])
  BY <1>2, Zenon DEF Seen
<1>4. n <= n /\ Seen(box[p], hist2[p]) \subseteq Seen(box[p], hist[p]) \cup (n + 1)..n
  BY <1>3
<1>5. Delivered(P, box, hist2, n)
  BY <1>1, <1>2, <1>4, DeliveredStep, Zenon
<1> QED BY <1>3, <1>5, Zenon DEF Carried, Seen

\* A send to a process that is not alive leaves no message behind.
LEMMA DeliveredDrop ==
  ASSUME NEW P, NEW box, NEW hist, NEW n \in Nat, Delivered(P, box, hist, n)
  PROVE  Carried(P, box, hist, box, hist, n + 1)
<1>1. 1..n \subseteq 1..(n + 1)
  OBVIOUS
<1> QED BY <1>1, Zenon DEF Carried, Delivered
=============================================================================
