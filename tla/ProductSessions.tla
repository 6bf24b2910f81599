--------------------------- MODULE ProductSessions ---------------------------
(***************************************************************************)
(* One root's retained product session (ProductSessions of                 *)
(* src/compiler2/pull.rs) with the drive that pulls its products           *)
(* (src/compiler2/product_drive.rs) and the work graph around it           *)
(* (src/compiler2/drive.rs): facts move while the session sleeps and while *)
(* a drive waits for facts, source jobs start and stop consuming products, *)
(* requests queue, drives fail and are retried, and the root is retired.   *)
(***************************************************************************)
EXTENDS ProductMemo

CONSTANTS
    MaxRev,      \* bound on a fact's revision
    MaxMoves,    \* bound on the number of fact movements
    Observable,  \* products source jobs consume
    FrontDoors,  \* products requested from outside
    Overtakes,   \* whether an outside request may reach a retired root before
                 \* the jobs its retirement reopened
    Budget,      \* product_stack_budget: the turns a drive may take
    MaxParked    \* bound on the requests parked while the root is active

VARIABLES
    world,     \* fact -> FactState
    moves,     \* fact movements so far
    memo,      \* the session's ProductMemo
    delayed,   \* pending_fact_states: movements the memo has not reconciled
    inbox,     \* ActiveRootProduct.movements
    subs,      \* the facts whose movements are routed to this root
    agenda,    \* [queue, requested]: pending_requests and requested
    parked,    \* ActiveRootProduct.parked_requests
    drive,     \* the drive in progress
    consumers, \* products some job of the work graph depends on
    told,      \* what the work graph was last told of each product
    late       \* history: a state that its fact has left waited for the session

vars == <<world, moves, memo, delayed, inbox, subs, agenda, parked, drive, consumers, told, late>>

Idle == [pc |-> "idle", root |-> 0, current |-> 0, stack |-> <<>>, facts |-> <<>>, turns |-> 0, front |-> FALSE]

Init ==
    /\ world \in [Facts -> {Absent, [rev |-> 1, settled |-> TRUE]}]
    /\ moves = 0
    /\ memo = NewMemo
    /\ delayed = <<>> /\ inbox = <<>> /\ subs = {}
    /\ agenda = [queue |-> <<>>, requested |-> {}]
    /\ parked = <<>>
    /\ drive = Idle
    /\ consumers = {}
    /\ told = [k \in Observable |-> Absent]
    /\ late = FALSE

\* Agenda::enqueue and ProductSessions::request
Enqueue(queue, k) == IF k \in ToSet(queue) THEN queue ELSE Append(queue, k)
Request(a, k) ==
    IF k \in a.requested THEN a
    ELSE [queue |-> Enqueue(a.queue, k), requested |-> a.requested \cup {k}]

\* The first old and the last new state of a product among the recorded changes.
Coalesced(changes, k) ==
    LET of == SelectSeq(changes, LAMBDA c : c.key = k)
    IN  [old |-> Head(of).old, new |-> of[Len(of)].new]
Moved(changes) ==
    {k \in {changes[i].key : i \in DOMAIN changes} :
        Coalesced(changes, k).old # Coalesced(changes, k).new}

\* Mutant: a delivered product stays requested, so it is never queued again.
AgendaKeepsRequested(a, changes) ==
    FoldSet(LAMBDA k, acc : IF Coalesced(changes, k).new.settled THEN acc ELSE Request(acc, k),
            a, Moved(changes))
\* take_product_changes, and their arrival in the work graph.
AgendaAfter(a, changes) ==
    FoldSet(LAMBDA k, acc : IF Coalesced(changes, k).new.settled
                            THEN [acc EXCEPT !.requested = @ \ {k}] ELSE Request(acc, k),
            a, Moved(changes))
ToldAfter(t, changes) ==
    [k \in Observable |->
        IF k \notin Moved(changes) THEN t[k]
        ELSE [rev |-> Coalesced(changes, k).new.rev,
              settled |-> IF Coalesced(changes, k).old.settled # Coalesced(changes, k).new.settled
                          THEN Coalesced(changes, k).new.settled ELSE t[k].settled]]
Deliver(m) ==
    /\ memo' = [m EXCEPT !.changes = <<>>]
    /\ agenda' = AgendaAfter(agenda, m.changes)
    /\ told' = ToldAfter(told, m.changes)

\* sync_subscriptions: the log of first and last readers, replayed.
Subscribed(m) == {e[1] : e \in m.freaders}

-----------------------------------------------------------------------------
(* The work graph moves a fact and publishes the movement.  Its jobs run    *)
(* between drives, while a drive waits for facts, and before and after the  *)
(* drive of an outside request.                                             *)
JobsRun == drive.pc \in {"idle", "reconcile", "facts", "drain"}
Active == drive.pc # "idle"

Drained == [f \in DOMAIN delayed \cup DOMAIN inbox |-> IF f \in DOMAIN inbox THEN inbox[f] ELSE delayed[f]]

\* Movements waiting for the session are those of the facts as they now stand:
\* repeated movements coalesce to the final state (fact-engine.md, "Repeated
\* movements of one fact coalesce to the final `FactState` before the next pull").
MovementsAreFinal == \A f \in DOMAIN Drained : Drained[f] = world[f]

Handed(movements, f, state) ==
    [g \in DOMAIN movements \cup {f} |-> IF g = f THEN state ELSE movements[g]]
FactMoves(f, state) ==
    /\ JobsRun /\ moves < MaxMoves /\ state # world[f]
    /\ state.rev \in {world[f].rev, world[f].rev + 1} /\ (state.settled => state.rev # 0)
    /\ moves' = moves + 1
    /\ world' = [world EXCEPT ![f] = state]
    /\ IF f \in subs /\ memo.observed # {}
       THEN /\ \E m \in {Reconcile(memo, Handed(delayed, f, state))} : Deliver(m)
            /\ delayed' = <<>> /\ inbox' = inbox
       ELSE /\ UNCHANGED <<memo, agenda, told>>
            /\ inbox' = IF f \in subs /\ Active THEN Handed(inbox, f, state) ELSE inbox
            /\ delayed' = IF f \in subs /\ ~Active THEN Handed(delayed, f, state) ELSE delayed
    /\ late' = (late \/ ~MovementsAreFinal')
    /\ UNCHANGED <<subs, parked, drive, consumers>>

\* A job that reads or waits for a product completes: ProductSessions::observe.
Consume(k) ==
    /\ JobsRun /\ (k \notin consumers \/ k \notin memo.observed) /\ Len(parked) < MaxParked
    /\ consumers' = consumers \cup {k}
    /\ memo' = [memo EXCEPT !.observed = @ \cup {k}]
    /\ agenda' = IF ExternalState(memo, k).settled THEN agenda ELSE Request(agenda, k)
    /\ told' = [told EXCEPT ![k] = ExternalState(memo, k)]
    /\ UNCHANGED <<world, moves, delayed, inbox, subs, parked, drive, late>>

\* The last such job drops the product: ProductSessions::unobserve.
Drop(k) ==
    /\ JobsRun /\ k \in consumers
    /\ consumers' = consumers \ {k}
    /\ memo' = [memo EXCEPT !.observed = @ \ {k}]
    /\ agenda' = [agenda EXCEPT !.requested = @ \ {k}]
    /\ UNCHANGED <<world, moves, delayed, inbox, subs, parked, drive, told, late>>

\* Compiler2::retire_root_products
Retire ==
    /\ drive.pc = "idle" /\ memo # NewMemo
    /\ told' = [k \in Observable |-> IF k \in memo.observed THEN Absent ELSE told[k]]
    /\ agenda' = FoldSet(LAMBDA k, acc : Request(acc, k), agenda, memo.observed)
    /\ memo' = NewMemo
    /\ delayed' = <<>> /\ subs' = {}
    /\ late' = FALSE
    /\ UNCHANGED <<world, moves, inbox, parked, drive, consumers>>

-----------------------------------------------------------------------------
(* Drives.                                                                  *)

\* No job is queued: one that a retirement reopened has run and observes its
\* product again.
JobsDrained == consumers \subseteq memo.observed

Start(root, pc, front) ==
    drive' = [Idle EXCEPT !.pc = pc, !.root = root, !.current = root, !.front = front]

\* A request from outside, such as a backend or a native program: the root is
\* active from here on, and if its session was retained the jobs that are due
\* run first (reconcile_request).
FrontDoor(root) ==
    /\ drive.pc = "idle" /\ (Overtakes \/ JobsDrained)
    /\ Start(root, IF memo = NewMemo THEN "pull" ELSE "reconcile", TRUE)
    /\ UNCHANGED <<world, moves, memo, delayed, inbox, subs, agenda, parked, consumers, told, late>>
Reconciled ==
    /\ drive.pc = "reconcile"
    /\ drive' = [drive EXCEPT !.pc = "pull"]
    /\ UNCHANGED <<world, moves, memo, delayed, inbox, subs, agenda, parked, consumers, told, late>>

\* drive_product_requests takes the next address some job still wants.
NextRequest ==
    /\ drive.pc = "idle" /\ agenda.queue # <<>> /\ JobsDrained
    /\ agenda' = [agenda EXCEPT !.queue = Tail(@)]
    /\ IF Head(agenda.queue) \in agenda.requested
       THEN /\ memo' = [memo EXCEPT !.observed = @ \cup {Head(agenda.queue)}]
            /\ Start(Head(agenda.queue), "pull", FALSE)
       ELSE UNCHANGED <<memo, drive>>
    /\ UNCHANGED <<world, moves, delayed, inbox, subs, parked, consumers, told, late>>

\* restore: what was parked while the root was active is queued again, and a
\* request whose drive failed is retried.
RECURSIVE EnqueueAll(_, _)
EnqueueAll(queue, ks) == IF ks = <<>> THEN queue ELSE EnqueueAll(Enqueue(queue, Head(ks)), Tail(ks))
Restored(a, ok) ==
    [a EXCEPT !.queue =
        EnqueueAll(@, parked \o (IF ok \/ drive.front THEN <<>> ELSE <<drive.root>>))]

\* next_waiting_product: the smallest wait of the top frame that is not current,
\* or, when none is left, the frame's owner.
Select(m, d, stack) ==
    IF stack = <<>> THEN [d EXCEPT !.pc = "pull", !.stack = <<>>, !.facts = <<>>, !.current = d.root]
    ELSE LET top == stack[Len(stack)]
             left == {k \in top.products : ~ProductIsCurrent(m, k)}
         IN  IF left = {}
             THEN [d EXCEPT !.pc = "pull", !.facts = <<>>, !.stack = Front(stack), !.current = top.owner]
             ELSE [d EXCEPT !.pc = "pull", !.facts = <<>>, !.current = Min(left),
                            !.stack = [stack EXCEPT ![Len(stack)].products = {k \in @ : k > Min(left)}]]

\* An outside request ends, with the answer after the jobs it made due have run
\* (drain_request_context), or with the error of a job.
Leave ==
    /\ drive.pc \in {"reconcile", "drain"}
    /\ drive' = Idle /\ parked' = <<>> /\ agenda' = Restored(agenda, TRUE)
    /\ delayed' = Drained /\ inbox' = <<>> /\ subs' = Subscribed(memo)
    /\ UNCHANGED <<world, moves, memo, consumers, told, late>>

\* A failed drive leaves the changes it recorded.
EndFailed(a, end) ==
    /\ drive' = end /\ parked' = <<>>
    /\ agenda' = Restored(a, FALSE)

\* The facts of one evaluation are driven in descending order.
FactOrder(uses) ==
    SetToSortSeq(uses, LAMBDA u, v : u.fact > v.fact \/ (u.fact = v.fact /\ u.settled /\ ~v.settled))

Counted == [drive EXCEPT !.turns = @ + 1]
Waits(r) ==
    LET stack == Append(drive.stack, [owner |-> drive.current, products |-> r.products])
    IN  drive' = IF r.facts = {} THEN Select(r.memo, Counted, stack)
                 ELSE [Counted EXCEPT !.pc = "facts", !.stack = stack, !.facts = FactOrder(r.facts)]

\* One turn of the drive loop.
TurnEnds(r) ==
    /\ memo' = [r.memo EXCEPT !.changes = <<>>]
    /\ told' = ToldAfter(told, r.memo.changes)
    /\ delayed' = <<>> /\ inbox' = <<>>
    /\ subs' = Subscribed(r.memo)
    /\ UNCHANGED <<world, moves, consumers, late>>
TurnProduced(r) ==
    /\ r.outcome = "produced"
    /\ IF drive.current = drive.root /\ ~drive.front
       THEN drive' = Idle /\ parked' = <<>> /\ agenda' = Restored(AgendaAfter(agenda, r.memo.changes), TRUE)
       ELSE /\ drive' = IF drive.current = drive.root THEN [Idle EXCEPT !.pc = "drain", !.front = TRUE]
                        ELSE Select(r.memo, Counted, drive.stack)
            /\ agenda' = AgendaAfter(agenda, r.memo.changes) /\ UNCHANGED parked
TurnWaits(r) ==
    /\ r.outcome = "waiting" /\ Waits(r)
    /\ agenda' = AgendaAfter(agenda, r.memo.changes) /\ UNCHANGED parked
\* A producer that panics takes the process with it: nothing happens any more.
TurnFails(r) ==
    /\ r.outcome \in {"failed", "panicked"}
    /\ EndFailed(AgendaAfter(agenda, r.memo.changes),
                 IF r.outcome = "panicked" THEN [drive EXCEPT !.pc = "panicked"] ELSE Idle)
TurnWith(r) == TurnEnds(r) /\ (TurnProduced(r) \/ TurnWaits(r) \/ TurnFails(r))
Turn ==
    /\ drive.pc = "pull" /\ drive.turns < Budget
    /\ \E r \in {Pull(Reconcile(memo, Drained), drive.current, world)} : TurnWith(r)

\* drive_product_fact_waits: hand over what arrived, and go on once the fact is there.
Satisfied == Ready(Head(drive.facts), world[Head(drive.facts).fact])
FactCheckWith(m) ==
    /\ memo' = m
    /\ drive' = IF ~Satisfied THEN drive
                ELSE IF Len(drive.facts) > 1 THEN [drive EXCEPT !.facts = Tail(@)]
                ELSE Select(m, drive, drive.stack)
FactCheck ==
    /\ drive.pc = "facts" /\ (Satisfied \/ Drained # <<>>)
    /\ \E m \in {Reconcile(memo, Drained)} : FactCheckWith(m)
    /\ delayed' = <<>> /\ inbox' = <<>>
    /\ UNCHANGED <<world, moves, subs, agenda, parked, consumers, told, late>>

\* Requests for products of the active root are parked.
Park ==
    /\ drive.pc \in {"reconcile", "drain"} \/ (drive.pc = "facts" /\ ~Satisfied)
    /\ agenda.queue # <<>> /\ JobsDrained
    /\ parked' = parked \o SelectSeq(agenda.queue, LAMBDA k : k \in agenda.requested)
    /\ agenda' = [agenda EXCEPT !.queue = <<>>]
    /\ UNCHANGED <<world, moves, memo, delayed, inbox, subs, drive, consumers, told, late>>

\* The job that should derive the fact fails, or no job can.  The session
\* reconciles what it has; what is still in the inbox waits for the next drive.
FactFails ==
    /\ drive.pc = "facts" /\ ~Satisfied
    /\ memo' = Reconcile(memo, delayed) /\ delayed' = inbox /\ inbox' = <<>>
    /\ subs' = Subscribed(memo')
    /\ EndFailed(agenda, Idle)
    /\ UNCHANGED <<world, moves, consumers, told, late>>

Next ==
    \/ \E f \in Facts, state \in [rev : 0..MaxRev, settled : BOOLEAN] : FactMoves(f, state)
    \/ \E k \in Observable : Consume(k) \/ Drop(k)
    \/ \E k \in FrontDoors : FrontDoor(k)
    \/ Retire \/ NextRequest \/ Reconciled \/ Turn \/ FactCheck \/ Park \/ FactFails \/ Leave

Spec == Init /\ [][Next]_vars

-----------------------------------------------------------------------------
(* From scratch: what each product is worth for the facts as they stand.    *)
NoAnswer == 2

RECURSIVE FromScratch(_)
RECURSIVE JoinOf(_, _)
FactsReady(k) == \A u \in Uses[k] : Ready(u, world[u.fact])
ContentOf(k) == Content([u \in Uses[k] |-> Projected(world[u.fact], u)])
\* The answer before callees are joined in.
LocalOf(k, content, values) == IF NoAnswer \in ToSet(values) THEN NoAnswer ELSE Join(k, content, values)
Local(k) ==
    IF FactsReady(k)
    THEN LocalOf(k, ContentOf(k), [i \in DOMAIN Inputs[k][ContentOf(k)] |-> FromScratch(Inputs[k][ContentOf(k)][i])])
    ELSE NoAnswer
\* The union over everything that calls reach: todo are the functions to visit.
JoinLocal(seen, todo, k, local) ==
    IF local = NoAnswer THEN NoAnswer
    ELSE Max({local, JoinOf(seen \cup {k}, (todo \cup ToSet(Callees[k][local])) \ (seen \cup {k}))})
JoinOf(seen, todo) ==
    IF todo = {} THEN 0 ELSE JoinLocal(seen, todo, Min(todo), Local(Min(todo)))
FromScratch(k) == IF Kind[k] = "effects" THEN JoinOf({}, {k}) ELSE Local(k)

HandedOver == delayed = <<>> /\ inbox = <<>>

\* The shape of a session between two steps: a product has an answer, a
\* displaced one or a waiting formula, and none is in progress.
TypeOK ==
    /\ world \in [Facts -> FactState] /\ moves \in 0..MaxMoves
    /\ \A k \in Products : ~(IsProduced(memo, k) /\ (IsDisplaced(memo, k) \/ IsPending(memo, k)))
    /\ drive.pc # "panicked" => memo.current = 0 /\ ~memo.spoiled
    /\ memo.dirty \subseteq Products /\ memo.stale \subseteq Products \X Facts
    /\ memo.observed \subseteq Observable /\ consumers \subseteq Observable
    /\ subs \subseteq Facts
    /\ drive.pc \in {"idle", "reconcile", "pull", "facts", "drain", "panicked"}

\* Incremental answers are right: whenever the session has reconciled every
\* movement it was handed, a product it calls settled (external_state) has the
\* value a compilation from nothing would give it for the facts as they stand,
\* recursive effect summaries included.  It is claimed as long as the session was
\* handed no state that its fact had already left (see MovementsAreFinal).
SettledIsFromScratch ==
    HandedOver /\ ~late => \A k \in Products :
        ProductIsCurrent(memo, k) => memo.produced[k].value = FromScratch(k)

\* Readiness is transitive: a settled product was computed from products that
\* are all settled.  The waves of mutate_product_wave and the clearing in
\* finish_validation keep it so product by product, without looking further
\* than one edge.
SettledOnSettled ==
    \A k \in Products : ProductIsCurrent(memo, k) =>
        \A d \in Read(memo.produced[k].deps) : ProductIsCurrent(memo, d)

ObservationsOf(k) ==
    CASE IsProduced(memo, k) -> memo.produced[k].deps
      [] IsPending(memo, k) -> memo.pending[k]
      [] OTHER -> NoDeps
\* The reverse indexes that waves and movements follow hold exactly the reads of
\* the answers and the waiting formulas (install_dependencies and
\* uninstall_dependencies balance on every path), and every fact some formula
\* read has its movements routed to the root (sync_subscriptions).
ReadersAreExact ==
    /\ memo.readers = UNION {{<<d, k>> : d \in Read(ObservationsOf(k)) \ {k}} : k \in Products}
    /\ memo.freaders = UNION {{<<u.fact, k>> : u \in DOMAIN ObservationsOf(k).facts} : k \in Products}
    /\ Subscribed(memo) \subseteq subs

\* A recursive group is staged only from formulas that still wait and whose local
\* products are there, and a further callee never shrinks the group a formula
\* closes: the expects of stage_recursive_group, and the panics and the assert of
\* the effect summary producer, never fire, whatever moved since the members were
\* read.
NeverPanics == drive.pc # "panicked"

\* The work graph's finality is built on true product states: after every step,
\* what it was last told of a product it observes is what the session would
\* answer.  A memo changes in waves, the changes are coalesced before they are
\* told (take_product_changes), and jobs start and stop observing before, in the
\* middle of and after a drive (complete_job).  It is claimed of one observed
\* product: jobs observe no other of a root than its program (quoted_expander.rs).
ToldIsTrue == \A k \in memo.observed : told[k] = ExternalState(memo, k)

\* No demand is lost: between drives, a product that some job consumes and that
\* is not settled is requested and queued, through failed drives, requests parked
\* while the root was driven, and retirement (unless an outside request derives
\* the product before the jobs that its retirement reopened: see Overtakes).
DemandIsQueued ==
    \A k \in consumers :
        (drive.pc = "idle" /\ ~ExternalState(memo, k).settled) =>
            k \in agenda.requested /\ k \in ToSet(agenda.queue)

\* A drive never runs out of turns: the for loop of drive_root_product_with ends
\* before product_stack_budget although facts move while it waits and every such
\* movement sends it back; its did_not_settle error is not reached.
WithinBudget == drive.pc = "pull" => drive.turns < Budget

\* A drive that ends with an answer leaves the answer settled: it does not hand
\* out a value whose inputs it knows to have moved.  (The jobs that an outside
\* request still runs after its drive may move them again.)
ServedIsCurrent ==
    [][\A k \in Products :
          (drive.pc = "pull" /\ drive.root = k /\ drive'.pc \in {"idle", "drain"} /\ IsProduced(memo', k))
            => ProductIsCurrent(memo', k)]_vars

=============================================================================
