--------------------------- MODULE ListOwnership ---------------------------
(***************************************************************************)
(* Lists of one process: cons cells of the process heap that a             *)
(* construction may rewrite in place.  A list is immutable in the          *)
(* language.  Two mechanisms let [h | t] reuse the cell that h was read    *)
(* from and still keep it so:                                              *)
(*                                                                         *)
(*   - the compiler (src/compiler2/jobs/body.rs) gives a construction the  *)
(*     permission to rewrite its source only where no later use in the     *)
(*     same body may still reach that cell, and makes every call edge and  *)
(*     returned tuple Share the operands that overlap with what is kept;   *)
(*   - the runtime (runtime/src/heap) keeps an alias bit in each cell,     *)
(*     set for a whole spine when a list is shared or put in a container,  *)
(*     and rewrites no cell whose bit is set.                              *)
(*                                                                         *)
(* A behaviour is the run of an arbitrary program: each step is one        *)
(* lowered step of the body on top of the stack.  A step that depends on   *)
(* what the rest of the program uses takes that as a parameter: it is what *)
(* the compiler's use tables know.  A process may yield at a call, where   *)
(* its heap is collected, and may send a list: the behaviour then follows  *)
(* the receiver, since the sender's heap is only read.                     *)
(***************************************************************************)
EXTENDS Naturals, Sequences, SequencesExt, Functions

CONSTANTS
    Atoms,       \* the scalar list elements (model values)
    Input,       \* the elements of the list the first body is given
    Literals,    \* the atoms that the program writes in its text
    MaxCells,    \* bound: cells of the heap
    MaxNames,    \* bound: values one body binds
    MaxDepth,    \* bound: bodies on the stack
    MaxSteps     \* bound: steps of the program

VARIABLES
    cells,       \* the bump heap: the cells in allocation order
    stack,       \* the bodies in execution, the running one last
    entered,     \* the running body has executed no step yet
    steps        \* the steps taken

vars == <<cells, stack, entered, steps>>

(***************************************************************************)
(* References: a cell (its place in the heap), the empty list, an atom.    *)
(***************************************************************************)
Nil == 0
Cells == 1..MaxCells
IsCell(r) == r \in Cells
IsList(r) == r \notin Atoms

Cell(h, t) == [head |-> h, tail |-> t, aliased |-> FALSE]

(***************************************************************************)
(* What a reference stands for: an atom, or the sequence of its elements.  *)
(* A heap that a wrong rewrite made cyclic denotes no finite list.         *)
(***************************************************************************)
RECURSIVE DenoteIn(_, _, _)
DenoteIn(heap, r, fuel) ==
    IF r = Nil \/ fuel = 0 THEN <<>>
    ELSE IF ~IsCell(r) THEN r
    ELSE <<DenoteIn(heap, heap[r].head, fuel - 1)>> \o DenoteIn(heap, heap[r].tail, fuel - 1)

Denote(heap, r) == DenoteIn(heap, r, MaxCells + 1)

(***************************************************************************)
(* share_spine: mark cell after cell, and stop at the first marked one.    *)
(***************************************************************************)
RECURSIVE ShareSpine(_, _)
ShareSpine(heap, r) ==
    IF ~IsCell(r) THEN heap
    ELSE IF heap[r].aliased THEN heap
    ELSE ShareSpine([heap EXCEPT ![r].aliased = TRUE], heap[r].tail)

ShareAll(heap, refs) == FoldLeft(ShareSpine, heap, refs)

(***************************************************************************)
(* alloc_list_cons: the head is published, the cell takes the next place.  *)
(***************************************************************************)
AllocCons(heap, h, t) == Append(ShareSpine(heap, h), Cell(h, t))

(***************************************************************************)
(* reuse_or_alloc_list_cons: identical contents are the source itself;     *)
(* changed contents rewrite it only with permission and a clear alias bit. *)
(***************************************************************************)
Identical(heap, s, h, t) == heap[s].head = h /\ heap[s].tail = t

Rewritable(heap, s, may) == may /\ ~heap[s].aliased

ReuseOrAlloc(heap, s, h, t, may) ==
    IF Identical(heap, s, h, t) THEN [heap |-> heap, ref |-> s]
    ELSE IF Rewritable(ShareSpine(heap, h), s, may)
    THEN [heap |-> [ShareSpine(heap, h) EXCEPT ![s].head = h, ![s].tail = t], ref |-> s]
    ELSE [heap |-> AllocCons(heap, h, t), ref |-> Len(heap) + 1]

(***************************************************************************)
(* deep_copy_any_value on a list, into the receiver's heap.  A cell        *)
(* already copied is shared by its second reader, so its copy is marked; a *)
(* copied head is published.                                               *)
(***************************************************************************)
ForwardingHit(heap, r) == ShareSpine(heap, r)

Placed(fwd, r, at) == [x \in DOMAIN fwd \cup {r} |-> IF x = r THEN at ELSE fwd[x]]

CopyCell(c, at, h, t) == [c EXCEPT !.to = [ShareSpine(@, h) EXCEPT ![at] = Cell(h, t)], !.ref = at]

RECURSIVE DeepCopy(_, _)
DeepCopy(c, r) ==
    IF ~IsCell(r) THEN [c EXCEPT !.ref = r]
    ELSE IF r \in DOMAIN c.fwd
    THEN [c EXCEPT !.to = ForwardingHit(@, c.fwd[r]), !.ref = c.fwd[r]]
    ELSE LET at == Len(c.to) + 1
             hd == DeepCopy([c EXCEPT !.to = Append(@, Cell(Nil, Nil)), !.fwd = Placed(@, r, at)],
                            c.from[r].head)
             tl == DeepCopy(hd, c.from[r].tail)
         IN CopyCell(tl, at, hd.ref, tl.ref)

\* The values bound by a message are copied one after the other.
CopyNext(c, r) == LET d == DeepCopy(c, r) IN [d EXCEPT !.refs = Append(@, d.ref)]

Copied(heap, refs) ==
    FoldLeft(CopyNext, [from |-> heap, to |-> <<>>, fwd |-> <<>>, ref |-> Nil, refs |-> <<>>], refs)

(***************************************************************************)
(* The Cheney collection.  forward copies a cell once and remembers where; *)
(* the scan forwards the head and then the tail of each copy in turn, and  *)
(* relocates them under the copy's own alias bit.                          *)
(***************************************************************************)
Forward(gc, r) ==
    IF ~IsCell(r) \/ r \in DOMAIN gc.fwd THEN gc
    ELSE [gc EXCEPT !.to = Append(@, gc.from[r]), !.fwd = Placed(@, r, Len(gc.to) + 1)]

Moved(gc, r) == IF r \in DOMAIN gc.fwd THEN gc.fwd[r] ELSE r

\* Mutant: the header word of the copy is rebuilt without its alias bit.
RelocateUnmarked(cell, h, t) == Cell(h, t)

Relocate(cell, h, t) == [cell EXCEPT !.head = h, !.tail = t]

TraceList(gc, i, cell) ==
    [gc EXCEPT !.to[i] = Relocate(cell, Moved(gc, cell.head), Moved(gc, cell.tail))]

RECURSIVE Scan(_, _)
Scan(gc, i) ==
    IF i > Len(gc.to) THEN gc
    ELSE LET cell == gc.to[i]
         IN Scan(TraceList(Forward(Forward(gc, cell.head), cell.tail), i, cell), i + 1)

Collected(heap, roots) ==
    Scan(FoldLeft(Forward, [from |-> heap, to |-> <<>>, fwd |-> <<>>], roots), 1)

(***************************************************************************)
(* What the compiler knows of a value.  (root, path) is its source path:   *)
(* the value it was projected from, through constructions it can see       *)
(* into.  of is the value it is a projection of, items the operands of the *)
(* construction that built it, and kept the source path of the cell that   *)
(* construction may have kept.  (A projection of a value that was not      *)
(* built here adds no way to reach a cell that its path does not show.)    *)
(***************************************************************************)
At(n) == [root |-> n.root, path |-> n.path]

Rooted(name, path) == [root |-> name, path |-> path, of |-> <<>>, items |-> <<>>, kept |-> <<>>]

Built(name, h, t, kept) ==
    [root |-> name, path |-> <<>>, of |-> <<>>, items |-> <<h, t>>, kept |-> kept]

Projected(n, kind) ==
    IF n.items # <<>>
    THEN [n.items[IF kind = "head" THEN 1 ELSE 2] EXCEPT !.of = <<n>>]
    ELSE [n EXCEPT !.path = Append(@, kind)]

(***************************************************************************)
(* value_may_retain_source: may the value n still reach the cell at src?   *)
(***************************************************************************)
RECURSIVE Retains(_, _)
Retains(n, src) ==
    IF n.root = src.root THEN IsPrefix(n.path, src.path)
    ELSE \/ n.kept = <<src>>
         \/ \E m \in Range(n.of) \cup Range(n.items) : Retains(m, src)

(***************************************************************************)
(* values_overlap: may two values reach a common cell?                     *)
(***************************************************************************)
RECURSIVE Overlap(_, _)
Overlap(l, r) ==
    \/ Retains(l, At(r))
    \/ Retains(r, At(l))
    \/ \E m \in Range(l.items) : Overlap(m, r)
    \/ \E m \in Range(r.items) : Overlap(l, m)

(***************************************************************************)
(* A bound value: its reference, what the compiler knows of it, and the    *)
(* term it stood for when it was bound.  source is the cell a list head    *)
(* was read from: a later construction with that head retains the cell, so *)
(* the cell is a root as well.                                             *)
(***************************************************************************)
Val(heap, r, node) == [ref |-> r, node |-> node, source |-> <<>>, term |-> Denote(heap, r)]

ReadFrom(val, cell, at) == [val EXCEPT !.source = <<[cell |-> cell, at |-> at]>>]

HeadOf(heap, v) ==
    ReadFrom(Val(heap, heap[v.ref].head, Projected(v.node, "head")), v.ref, At(v.node))

TailOf(heap, v) == Val(heap, heap[v.ref].tail, Projected(v.node, "tail"))

Top == stack[Len(stack)]
Bound == DOMAIN Top.vals
Fresh == Top.next

\* A literal is a value of its own.
Literal == Rooted(MaxNames + Fresh, <<>>)

Body(inputs) == [next |-> Len(inputs) + 1, vals |-> inputs]

WithTop(body) == [stack EXCEPT ![Len(stack)] = body]

(***************************************************************************)
(* What is left of the running body when the rest of the program uses none *)
(* of gone; and a body with the values new bound to its next names.        *)
(***************************************************************************)
Keep(gone) == [Top EXCEPT !.vals = [x \in Bound \ gone |-> @[x]]]

Bind(body, new) ==
    [next |-> body.next + Len(new),
     vals |-> [x \in DOMAIN body.vals \cup body.next..(body.next + Len(new) - 1) |->
                  IF x < body.next THEN body.vals[x] ELSE new[x - body.next + 1]]]

(***************************************************************************)
(* The traced roots of the process, in the order in which they are         *)
(* forwarded, and what is left of a value after its roots have moved.      *)
(***************************************************************************)
RefsOf(v) == <<v.ref>> \o [i \in DOMAIN v.source |-> v.source[i].cell]

BodyRefs(b) == FlattenSeq([i \in 1..(b.next - 1) |->
                              IF i \in DOMAIN b.vals THEN RefsOf(b.vals[i]) ELSE <<>>])

Roots == FlattenSeq([d \in DOMAIN stack |-> BodyRefs(stack[d])])

MoveVal(gc, v) == [v EXCEPT !.ref = Moved(gc, @),
                            !.source = [i \in DOMAIN @ |-> [@[i] EXCEPT !.cell = Moved(gc, @)]]]

MoveBody(gc, b) == [b EXCEPT !.vals = [x \in DOMAIN @ |-> MoveVal(gc, @[x])]]

----------------------------------------------------------------------------
(***************************************************************************)
(* The first body is given a list that nothing else refers to.             *)
(***************************************************************************)
Init ==
    /\ cells = [i \in DOMAIN Input |-> Cell(Input[i], IF i = Len(Input) THEN Nil ELSE i + 1)]
    /\ stack = <<Body(<<Val(cells, 1, Rooted(1, <<>>))>>)>>
    /\ entered = TRUE
    /\ steps = 0

\* The values that may reach the cell at a source path, and the heads read from it.
ReachesCell(src) == {x \in Bound : Retains(Top.vals[x].node, src)}
RetainsCell(src) == {x \in Bound : \E i \in DOMAIN Top.vals[x].source : Top.vals[x].source[i].at = src}

Tick ==
    /\ steps < MaxSteps
    /\ steps' = steps + 1

(***************************************************************************)
(* [h | t] = s.                                                            *)
(***************************************************************************)
Split(s) ==
    /\ Fresh + 1 <= MaxNames
    /\ IsCell(Top.vals[s].ref)
    /\ stack' = WithTop(Bind(Top, <<HeadOf(cells, Top.vals[s]), TailOf(cells, Top.vals[s])>>))
    /\ entered' = FALSE
    /\ UNCHANGED <<cells, steps>>

(***************************************************************************)
(* [h | t] where h was read from no cell: there is nothing to retain.      *)
(***************************************************************************)
LiteralAt(r) == [ref |-> r, node |-> Literal]

Heads == {LiteralAt(a) : a \in Literals} \cup
         {[ref |-> Top.vals[x].ref, node |-> Top.vals[x].node] :
             x \in {y \in Bound : Top.vals[y].source = <<>>}}

Tails == {LiteralAt(Nil)} \cup
         {[ref |-> Top.vals[x].ref, node |-> Top.vals[x].node] :
             x \in {y \in Bound : IsList(Top.vals[y].ref)}}

Construct(h, t) ==
    /\ Tick
    /\ Fresh <= MaxNames
    /\ Len(cells) < MaxCells
    /\ cells' = AllocCons(cells, h.ref, t.ref)
    /\ stack' = WithTop(Bind(Top, <<Val(cells', Len(cells'), Built(Fresh, h.node, t.node, <<>>))>>))
    /\ entered' = FALSE

(***************************************************************************)
(* [h | t] where h was read from a cell, which the construction retains.   *)
(* list_can_rewrite: neither operand, nor a value used later, may reach    *)
(* that cell, and no later construction retains it.  Either none of these  *)
(* is used later, or all are: one of them is enough to forbid the rewrite, *)
(* and the others are then just more values to keep intact.                *)
(***************************************************************************)
CanRewrite(h, t, src, used) ==
    /\ ~Retains(Top.vals[h].node, src)
    /\ ~Retains(t.node, src)
    /\ used \cap (ReachesCell(src) \cup RetainsCell(src)) = {}

RebuildAs(r, h, t, src, used) ==
    /\ Len(r.heap) <= MaxCells
    /\ cells' = r.heap
    /\ stack' = WithTop(Bind(Keep(Bound \ used),
                    <<Val(r.heap, r.ref, Built(Fresh, Top.vals[h].node, t.node, <<src>>))>>))

RebuildFrom(source, h, t) ==
    \E used \in {Bound, Bound \ (ReachesCell(source.at) \cup RetainsCell(source.at))} :
        RebuildAs(ReuseOrAlloc(cells, source.cell, Top.vals[h].ref, t.ref,
                               CanRewrite(h, t, source.at, used)),
                  h, t, source.at, used)

Rebuild(h, t) ==
    /\ Tick
    /\ Fresh <= MaxNames
    /\ Top.vals[h].source # <<>>
    /\ RebuildFrom(Top.vals[h].source[1], h, t)
    /\ entered' = FALSE

(***************************************************************************)
(* A call.  construct_call_ownership: an argument that overlaps with       *)
(* another one, or with what the continuation keeps, is shared before the  *)
(* callee's body takes the arguments as roots of its own.  The arguments   *)
(* in last, and all that overlaps with them, are not used after the call.  *)
(***************************************************************************)
Overlaps(arg) ==
    {x \in Bound : \/ Overlap(arg, Top.vals[x].node)
                   \/ \E i \in DOMAIN Top.vals[x].source : Retains(arg, Top.vals[x].source[i].at)}

PeersOverlap(args, i) ==
    \E j \in DOMAIN args \ {i} : Overlap(Top.vals[args[i]].node, Top.vals[args[j]].node)

\* Mutant: what the continuation keeps is not compared with the arguments.
SharedAmongArgs(args, gone) == {i \in DOMAIN args : PeersOverlap(args, i)}

SharedArgs(args, gone) ==
    {i \in DOMAIN args : \/ PeersOverlap(args, i)
                         \/ ~(Overlaps(Top.vals[args[i]].node) \subseteq gone)}

RefsAt(args, S) == [i \in DOMAIN args |-> IF i \in S THEN Top.vals[args[i]].ref ELSE Nil]

\* A waiting body takes names again that nothing in it mentions any more.
RECURSIVE Mentions(_)
Mentions(n) ==
    {n.root} \cup {k.root : k \in Range(n.kept)}
             \cup UNION {Mentions(m) : m \in Range(n.of) \cup Range(n.items)}

Waiting(body) ==
    [body EXCEPT !.next = 1 + Max({0} \cup (1..MaxNames \cap
        UNION {{x} \cup Mentions(body.vals[x].node) : x \in DOMAIN body.vals}))]

CallWith(args, gone) ==
    /\ cells' = ShareAll(cells, RefsAt(args, SharedArgs(args, gone)))
    /\ stack' = Append(WithTop(Waiting(Keep(gone))),
                       Body([i \in DOMAIN args |->
                               Val(cells, Top.vals[args[i]].ref, Rooted(i, <<>>))]))

Call(args) ==
    /\ Tick
    /\ Len(stack) < MaxDepth
    /\ \E last \in SUBSET Range(args) :
           CallWith(args, UNION {Overlaps(Top.vals[x].node) : x \in last})
    /\ entered' = TRUE

(***************************************************************************)
(* A return of one value, or of a tuple of two in lanes of their own.      *)
(* construct_tuple_ownership shares the fields that overlap.  The caller   *)
(* takes what it is given as a root of its own.                            *)
(***************************************************************************)
SharedFields(xs) == {i \in DOMAIN xs : PeersOverlap(xs, i)}

Caller == stack[Len(stack) - 1]

Lane(xs, i) == IF Len(xs) = 1 THEN <<>> ELSE <<<<"first", "second">>[i]>>

Return(xs) ==
    /\ Tick
    /\ Len(stack) > 1
    /\ Caller.next + Len(xs) - 1 <= MaxNames
    /\ stack' = Append(SubSeq(stack, 1, Len(stack) - 2),
                       Bind(Caller, [i \in DOMAIN xs |->
                               Val(cells, Top.vals[xs[i]].ref, Rooted(Caller.next, Lane(xs, i)))]))
    /\ cells' = ShareAll(cells, RefsAt(xs, SharedFields(xs)))
    /\ entered' = FALSE

(***************************************************************************)
(* A send to a waiting process, whose body the behaviour follows.  The     *)
(* receive binds the message, or the head and the tail of a list, and in   *)
(* the last case also keeps the message's cell for a construction.  A      *)
(* parked receiver is handed copies of what the clause binds; one that     *)
(* scans its mailbox reads them in the copy of the whole message.          *)
(***************************************************************************)
Patterns == {"whole", "parts", "cell"}

Matched(heap, m, pattern) ==
    CASE pattern = "whole" -> <<m>>
      [] pattern = "parts" -> <<heap[m].head, heap[m].tail>>
      [] pattern = "cell" -> <<heap[m].head, heap[m].tail, m>>

Message == Rooted(1, <<>>)

ReceiverVals(heap, refs, pattern) ==
    LET hd == Val(heap, refs[1], Projected(Message, "head"))
        tl == Val(heap, refs[2], Projected(Message, "tail"))
    IN CASE pattern = "whole" -> <<Val(heap, refs[1], Message)>>
         [] pattern = "parts" -> <<hd, tl>>
         [] pattern = "cell" -> <<ReadFrom(hd, refs[3], At(Message)), tl>>

\* The receiver's values stand for the terms that were sent.
Resume(heap, refs, pattern, sent) ==
    LET vals == ReceiverVals(heap, refs, pattern)
    IN /\ Len(heap) <= MaxCells
       /\ cells' = heap
       /\ stack' = <<Body([i \in DOMAIN vals |-> [vals[i] EXCEPT !.term = Denote(cells, sent[i])]])>>

HandOver(c, pattern, sent) == Resume(c.to, c.refs, pattern, sent)

ScanHit(c, pattern, sent) == Resume(c.to, Matched(c.to, c.refs[1], pattern), pattern, sent)

SendMatched(m, pattern, sent) ==
    \/ HandOver(Copied(cells, sent), pattern, sent)
    \/ ScanHit(Copied(cells, <<m>>), pattern, sent)

Send(x, pattern) ==
    /\ Tick
    /\ Len(stack) = 1       \* bound: only the first body sends
    /\ pattern # "whole" => IsCell(Top.vals[x].ref)
    /\ SendMatched(Top.vals[x].ref, pattern, Matched(cells, Top.vals[x].ref, pattern))
    /\ entered' = FALSE

(***************************************************************************)
(* A yield at the entry of a body: the arguments are captured by the       *)
(* continuation closure, which publishes them, and the heap is collected.  *)
(***************************************************************************)
YieldFrom(gc) ==
    /\ cells' = gc.to
    /\ stack' = [d \in DOMAIN stack |-> MoveBody(gc, stack[d])]

Yield ==
    /\ entered
    /\ YieldFrom(Collected(ShareAll(cells, BodyRefs(Top)), Roots))
    /\ entered' = FALSE
    /\ UNCHANGED steps

Args == {<<x>> : x \in Bound} \cup {<<p[1], p[2]>> : p \in {q \in Bound \X Bound : q[1] <= q[2]}}

Next ==
    \/ \E s \in Bound : Split(s)
    \/ \E h \in Heads, t \in Tails : Construct(h, t)
    \/ \E h \in Bound, t \in Tails : Rebuild(h, t)
    \/ \E args \in Args : Call(args)
    \/ \E xs \in Args : Return(xs)
    \/ \E x \in Bound, pattern \in Patterns : Send(x, pattern)
    \/ Yield

----------------------------------------------------------------------------
Refs == Atoms \cup {Nil} \cup DOMAIN cells

Vals == UNION {{b.vals[x] : x \in DOMAIN b.vals} : b \in Range(stack)}

(***************************************************************************)
(* Every reference that a body or a cell holds is a scalar, the empty list *)
(* or a cell of the current heap, a collection's relocation included.      *)
(***************************************************************************)
TypeOK ==
    /\ cells \in Seq([head : Refs, tail : {Nil} \cup DOMAIN cells, aliased : BOOLEAN])
    /\ \A v \in Vals : v.ref \in Refs /\ \A i \in DOMAIN v.source : v.source[i].cell \in DOMAIN cells
    /\ entered \in BOOLEAN

(***************************************************************************)
(* Lists are immutable: a value that the program may still use stands for  *)
(* the term that it stood for when it was bound, whatever rewrites in      *)
(* place, calls, returns, sends and collections came in between.  The      *)
(* compiler decides a rewrite with one body in view and the runtime with   *)
(* one cell in view; this is what the two have to guarantee together.      *)
(***************************************************************************)
ValuesNeverChange ==
    \A v \in Vals : Denote(cells, v.ref) = v.term

(***************************************************************************)
(* share_spine stops at the first marked cell.  That is sound only if no   *)
(* unmarked cell ever follows a marked one, through any rewrite, copy or   *)
(* collection, and if a list held in a cell's head is always marked.       *)
(***************************************************************************)
SharedSpinesAreClosed ==
    \A i \in DOMAIN cells :
        /\ cells[i].aliased => (cells[i].tail = Nil \/ cells[cells[i].tail].aliased)
        /\ IsCell(cells[i].head) => cells[cells[i].head].aliased

Spec == Init /\ [][Next]_vars
=============================================================================
