------------------------------ MODULE OffHeap ------------------------------
(***************************************************************************)
(* Off-heap resources and shared binaries: their reference counts, the     *)
(* stubs each process heap chains on its MSO list, and the destructors     *)
(* (runtime/src/resource.rs, procbin.rs, heap/deep_copy.rs), under the     *)
(* three schedulers that collect heaps, retire processes and tear the      *)
(* runtime down.                                                           *)
(*                                                                         *)
(* A heap is reduced to its MSO chain and to the stubs its scheduler roots *)
(* reach: those of the program's own values (the continuation or the       *)
(* clause bodies of a wait) and those of each message.  Whether a heap is  *)
(* under pressure at a boundary is chosen freely.                          *)
(***************************************************************************)
EXTENDS Integers, Sequences, FiniteSets, Mailboxes

CONSTANTS
  Procs, Main,   \* processes, and the one the program starts with
  Handles,       \* resources made by make_resource
  Bins,          \* shared binaries
  Legs,          \* engines modelled: subset of "jit", "aot", "interp"
  MaxStubs,      \* bound: stubs on one heap
  MaxMail,       \* bound: messages in one mailbox
  MaxMade        \* bound: off-heap objects made

ASSUME OffHeapAssumption == Main \in Procs /\ MaxStubs \in Nat

Things == Handles \cup Bins
StubIds == 1..MaxStubs
Stub == [heap : Procs, id : StubIds, thing : Things]

VARIABLES
  leg,      \* the engine
  status,   \* process |-> "absent", "ready", "running", "waiting", "halted",
            \*             "draining", "dtor", "exited"
  stubs,    \* the stubs of all MSO chains, each with the heap it is on
  held,     \* process |-> stubs its own values reach
  mailbox,  \* process |-> messages, each the stubs it reaches
  things,   \* thing |-> [state, count, claimed]
  pending,  \* process |-> pending_dtors, the handles to destroy
  ran,      \* handle |-> times its destructor closure was run (history)
  torn      \* the runtime was dropped

vars == <<leg, status, stubs, held, mailbox, things, pending, ran, torn>>

-----------------------------------------------------------------------------
Chain(p) == {e \in stubs : e.heap = p}
StubsOf(p) == {e.id : e \in Chain(p)}
ThingOf(p, s) == (CHOOSE e \in Chain(p) : e.id = s).thing

Edges(es, x) == Cardinality({e \in es : e.thing = x})

MailStubs(p) == UNION {mailbox[p][i] : i \in DOMAIN mailbox[p]}

\* Mutant: a copy retains each object once, however many stubs it makes.
RetainedOnce(ts, new) ==
  [x \in Things |-> [ts[x] EXCEPT !.count = @ + IF Edges(new, x) > 0 THEN 1 ELSE 0]]

\* fz_resource_retain / shared_bin_retain, once for every stub in `new`.
Retained(ts, new) == [x \in Things |-> [ts[x] EXCEPT !.count = @ + Edges(new, x)]]

\* fz_resource_release / shared_bin_release, once for every stub in `gone`:
\* the wrapper is freed by the release that takes the count to zero.
Released(ts, gone) ==
  [x \in Things |->
     [ts[x] EXCEPT !.count = @ - Edges(gone, x),
                   !.state = IF Edges(gone, x) > 0 /\ Edges(gone, x) = ts[x].count THEN "freed" ELSE @]]

\* Mutant: the sweep does not see what only the mailbox reaches.
SurvivingHeld(p, live) == {e \in Chain(p) : e.id \in held[p]}

\* mso_sweep: survivors stay chained, dead stubs release at once, with the C
\* destructor fz_make_resource gave the resource, which does nothing.
Surviving(p, live) == {e \in Chain(p) : e.id \in live}

\* Mutants: the claim is not looked at; only a single stub counts as last.
OrphanedClaimed(p) ==
  {x \in Handles : Edges(Chain(p), x) > 0 /\ Edges(Chain(p), x) = things[x].count}

OrphanedSingle(p) ==
  {x \in Handles : /\ Edges(Chain(p), x) = 1
                   /\ things[x].count = 1
                   /\ ~things[x].claimed}

\* mso_drop_all_deferred: the handles whose last reference this chain holds
\* and nobody claimed.
Orphaned(p) ==
  {x \in Handles : /\ Edges(Chain(p), x) > 0
                   /\ Edges(Chain(p), x) = things[x].count
                   /\ ~things[x].claimed}

\* deep_copy: one stub on q's heap for every stub in S of p's heap, at a place
\* of its own and owning a reference of its own.
FreeIds(q) == StubIds \ StubsOf(q)
Places(q, S) == {at \in [S -> FreeIds(q)] : \A s, t \in S : at[s] = at[t] => s = t}
RoomFor(q, S) == Places(q, S) # {}
Place(q, S) == CHOOSE at \in Places(q, S) : TRUE
CopyIds(q, S) == {Place(q, S)[s] : s \in S}
Copies(p, q, S) == {[heap |-> q, id |-> Place(q, S)[s], thing |-> ThingOf(p, s)] : s \in S}

-----------------------------------------------------------------------------
Init ==
  /\ leg \in Legs
  /\ status = [p \in Procs |-> IF p = Main THEN "ready" ELSE "absent"]
  /\ stubs = {}
  /\ held = [p \in Procs |-> {}]
  /\ mailbox = [p \in Procs |-> <<>>]
  /\ things = [x \in Things |-> [state |-> "unmade", count |-> 0, claimed |-> FALSE]]
  /\ pending = [p \in Procs |-> {}]
  /\ ran = [x \in Handles |-> 0]
  /\ torn = FALSE

InQuantum(p) == status[p] \in {"running", "dtor"}
Idle == \A p \in Procs : status[p] \notin {"running", "halted", "draining", "dtor"}

\* fz_make_resource, and alloc_bitstring above the sharing threshold.
Make(p, x) ==
  /\ InQuantum(p)
  /\ things[x].state = "unmade"
  /\ Cardinality({y \in Things : things[y].state # "unmade"}) < MaxMade
  /\ RoomFor(p, {x})
  /\ stubs' = stubs \cup {[heap |-> p, id |-> Place(p, {x})[x], thing |-> x]}
  /\ held' = [held EXCEPT ![p] = @ \cup CopyIds(p, {x})]
  /\ things' = [things EXCEPT ![x] = [state |-> "live", count |-> 1, claimed |-> FALSE]]
  /\ UNCHANGED <<leg, status, mailbox, pending, ran, torn>>

\* alloc_bitstring_suffix above the threshold: a second stub on one heap.
Suffix(p, s) ==
  /\ InQuantum(p)
  /\ s \in held[p]
  /\ ThingOf(p, s) \in Bins
  /\ RoomFor(p, {s})
  /\ stubs' = stubs \cup Copies(p, p, {s})
  /\ held' = [held EXCEPT ![p] = @ \cup CopyIds(p, {s})]
  /\ things' = Retained(things, Copies(p, p, {s}))
  /\ UNCHANGED <<leg, status, mailbox, pending, ran, torn>>

\* fz_resource_claim, the caller that wins the exchange.
Claim(p, s) ==
  /\ InQuantum(p)
  /\ s \in held[p]
  /\ ThingOf(p, s) \in Handles
  /\ ~things[ThingOf(p, s)].claimed
  /\ things' = [things EXCEPT ![ThingOf(p, s)].claimed = TRUE]
  /\ UNCHANGED <<leg, status, stubs, held, mailbox, pending, ran, torn>>

\* spawn_closure: the closure and what it captures are copied to a new heap.
Spawn(p, q, S) ==
  /\ InQuantum(p)
  /\ status[q] = "absent"
  /\ RoomFor(q, S)
  /\ status' = [status EXCEPT ![q] = "ready"]
  /\ stubs' = stubs \cup Copies(p, q, S)
  /\ held' = [held EXCEPT ![q] = CopyIds(q, S)]
  /\ things' = Retained(things, Copies(p, q, S))
  /\ UNCHANGED <<leg, mailbox, pending, ran, torn>>

\* send: a copy for the mailbox of the receiver, itself included.
Post(p, q, S) ==
  /\ InQuantum(p)
  /\ p = q \/ status[q] \in {"ready", "waiting"}
  /\ Len(mailbox[q]) < MaxMail
  /\ RoomFor(q, S)
  /\ mailbox' = [mailbox EXCEPT ![q] = Append(@, CopyIds(q, S))]
  /\ stubs' = stubs \cup Copies(p, q, S)
  /\ things' = Retained(things, Copies(p, q, S))
  /\ UNCHANGED <<leg, status, held, pending, ran, torn>>

\* send to a parked receiver whose matcher takes the message: the bound
\* values are copied into the continuation that makes it ready.
Hand(p, q, S) ==
  /\ InQuantum(p)
  /\ p # q
  /\ status[q] = "waiting"
  /\ RoomFor(q, S)
  /\ status' = [status EXCEPT ![q] = "ready"]
  /\ held' = [held EXCEPT ![q] = @ \cup CopyIds(q, S)]
  /\ stubs' = stubs \cup Copies(p, q, S)
  /\ things' = Retained(things, Copies(p, q, S))
  /\ UNCHANGED <<leg, mailbox, pending, ran, torn>>

-----------------------------------------------------------------------------
\* A ready process is resumed.
Dispatch(p) ==
  /\ Idle /\ ~torn
  /\ status[p] = "ready"
  /\ status' = [status EXCEPT ![p] = "running"]
  /\ UNCHANGED <<leg, stubs, held, mailbox, things, pending, ran, torn>>

\* initial_scan finds a queued message: what the clause binds joins the
\* values of the continuation, the rest of the message is dropped.
ScanHit(p, i) ==
  /\ Idle /\ ~torn
  /\ status[p] = "waiting"
  /\ status' = [status EXCEPT ![p] = "running"]
  /\ held' = [held EXCEPT ![p] = @ \cup mailbox[p][i]]
  /\ mailbox' = [mailbox EXCEPT ![p] = RemoveAt(@, i)]
  /\ UNCHANGED <<leg, stubs, things, pending, ran, torn>>

\* fire_after_timer: the wait ends without a message.
AfterFires(p) ==
  /\ Idle /\ ~torn
  /\ leg # "interp"
  /\ status[p] = "waiting"
  /\ status' = [status EXCEPT ![p] = "ready"]
  /\ UNCHANGED <<leg, stubs, held, mailbox, things, pending, ran, torn>>

\* A collection with `roots` as the stubs reached, or none if the heap is not
\* under pressure.
Collect(p, roots) ==
  /\ stubs' = stubs \ (Chain(p) \ Surviving(p, roots))
  /\ things' = Released(things, Chain(p) \ Surviving(p, roots))

MayCollect(p, roots) == Collect(p, roots) \/ UNCHANGED <<stubs, things>>

\* The legs whose quantum ends with a collection: the mid-flight yield of
\* compiled code, and the park of the JIT (park_time_gc).  The continuation, or
\* the clause bodies, capture only the values still needed: `kept`.
Yield(p, kept) ==
  /\ status[p] = "running"
  /\ leg # "interp"
  /\ status' = [status EXCEPT ![p] = "ready"]
  /\ held' = [held EXCEPT ![p] = kept]
  /\ MayCollect(p, kept \cup MailStubs(p))
  /\ UNCHANGED <<leg, mailbox, pending, ran, torn>>

Park(p, kept) ==
  /\ status[p] = "running"
  /\ status' = [status EXCEPT ![p] = "waiting"]
  /\ held' = [held EXCEPT ![p] = kept]
  /\ IF leg = "jit" THEN MayCollect(p, kept \cup MailStubs(p)) ELSE UNCHANGED <<stubs, things>>
  /\ UNCHANGED <<leg, mailbox, pending, ran, torn>>

\* A process under pressure halts on the JIT: run_quantum's park_time_gc finds
\* no closure to root and collects all but the mailbox, before the scheduler
\* sees that the task is done.
HaltCollect(p) ==
  /\ status[p] = "running"
  /\ leg = "jit"
  /\ status' = [status EXCEPT ![p] = "halted"]
  /\ held' = [held EXCEPT ![p] = {}]
  /\ Collect(p, MailStubs(p))
  /\ UNCHANGED <<leg, mailbox, pending, ran, torn>>

\* A process halts: the scheduler releases its whole chain and queues the
\* destructors this makes due.  Its values and its mailbox are never read again.
Exit(p) ==
  /\ status[p] \in {"running", "halted"}
  /\ status' = [status EXCEPT ![p] = IF Orphaned(p) = {} THEN "exited" ELSE "draining"]
  /\ things' = Released(things, Chain(p))
  /\ stubs' = stubs \ Chain(p)
  /\ pending' = [pending EXCEPT ![p] = Orphaned(p)]
  /\ held' = [held EXCEPT ![p] = {}]
  /\ mailbox' = [mailbox EXCEPT ![p] = <<>>]
  /\ UNCHANGED <<leg, ran, torn>>

\* The scheduler runs the next queued destructor closure; its body is program
\* code of the exiting process, which may do what a program does except receive
\* and yield.
NextDtor(p, x) ==
  /\ status[p] \in {"draining", "dtor"}
  /\ status' = [status EXCEPT ![p] = "dtor"]
  /\ ran' = [ran EXCEPT ![x] = @ + 1]
  /\ pending' = [pending EXCEPT ![p] = @ \ {x}]
  /\ UNCHANGED <<leg, stubs, held, mailbox, things, torn>>

Drained(p) ==
  /\ status[p] = "dtor"
  /\ pending[p] = {}
  /\ status' = [status EXCEPT ![p] = "exited"]
  /\ held' = [held EXCEPT ![p] = {}]
  /\ UNCHANGED <<leg, stubs, mailbox, things, pending, ran, torn>>

\* The run loop returned because no process can run, or, in the interpreter,
\* because program code failed.
RunIsOver ==
  \/ \A p \in Procs : status[p] \in {"absent", "waiting", "exited"}
  \/ leg = "interp" /\ ~Idle

Emptied ==
  /\ held' = [p \in Procs |-> {}]
  /\ mailbox' = [p \in Procs |-> <<>>]
  /\ pending' = [p \in Procs |-> {}]
  /\ status' = [p \in Procs |-> "exited"]
  /\ UNCHANGED <<leg, ran>>

\* Every heap is dropped, with mso_drop_all.
Teardown ==
  /\ ~torn
  /\ RunIsOver
  /\ torn' = TRUE
  /\ things' = Released(things, stubs)
  /\ stubs' = {}
  /\ Emptied

Done == torn /\ UNCHANGED vars

Mutate(p) ==
  \/ \E x \in Things : Make(p, x)
  \/ \E s \in held[p] : Suffix(p, s) \/ Claim(p, s)
  \/ \E q \in Procs, S \in SUBSET held[p] : Spawn(p, q, S) \/ Post(p, q, S) \/ Hand(p, q, S)

Schedule(p) ==
  \/ Dispatch(p) \/ AfterFires(p)
  \/ \E kept \in SUBSET held[p] : Yield(p, kept) \/ Park(p, kept)
  \/ HaltCollect(p) \/ Exit(p) \/ Drained(p)
  \/ \E x \in pending[p] : NextDtor(p, x)
  \/ \E i \in DOMAIN mailbox[p] : ScanHit(p, i)

Next == (\E p \in Procs : Mutate(p) \/ Schedule(p)) \/ Teardown \/ Done

Spec == Init /\ [][Next]_vars

-----------------------------------------------------------------------------
\* Every variable has its type; no count runs below zero.
TypeOK ==
  /\ leg \in Legs
  /\ status \in [Procs -> {"absent", "ready", "running", "waiting", "halted", "draining", "dtor", "exited"}]
  /\ stubs \in SUBSET Stub
  /\ held \in [Procs -> SUBSET StubIds]
  /\ mailbox \in [Procs -> Seq(SUBSET StubIds)]
  /\ things \in [Things -> [state : {"unmade", "live", "freed"}, count : Nat, claimed : BOOLEAN]]
  /\ pending \in [Procs -> SUBSET Handles]
  /\ ran \in [Handles -> Nat]
  /\ torn \in BOOLEAN

\* The count of an off-heap object is the number of stubs all the heaps chain
\* for it, through copies, sweeps, exits and drops; it is freed exactly when
\* the last of them goes.
CountsAreExact ==
  \A x \in Things :
    /\ things[x].count = Edges(stubs, x)
    /\ things[x].state = "live" <=> things[x].count > 0

\* No value of a process, and no message it has not read, reaches a stub its
\* heap has released: the stub is chained once and its object is not freed.
ReachedIsAlive ==
  \A p \in Procs : \A s \in held[p] \cup MailStubs(p) :
    /\ s \in StubsOf(p)
    /\ \A e, f \in Chain(p) : e.id = s /\ f.id = s => e = f
    /\ things[ThingOf(p, s)].state = "live"

Due(x) == ran[x] + Cardinality({p \in Procs : x \in pending[p]})

\* A destructor is queued or run at most once, only after the resource is
\* released by everyone, and never for a resource somebody claimed.
DtorAtMostOnce ==
  \A x \in Handles : Due(x) > 0 => Due(x) = 1 /\ things[x].state = "freed" /\ ~things[x].claimed

\* In the interpreter, which never collects a live heap, every unclaimed
\* resource released before the teardown has its destructor queued or run.
InterpDtorFires ==
  leg = "interp" /\ ~torn =>
    \A x \in Handles : things[x].state = "freed" /\ ~things[x].claimed => Due(x) = 1

\* What resource.rs promises: the destructor of a released, unclaimed resource
\* fires exactly once, at the owner's exit or when a sweep finds it dead.
DtorFires ==
  \A x \in Handles : things[x].state = "freed" /\ ~things[x].claimed /\ ~torn => Due(x) = 1

\* Nothing retains or remakes a released object, and a claim stands: the count
\* of a freed wrapper is never touched again.
ReleasedForGood ==
  [][\A x \in Things :
       /\ things[x].state = "freed" => things'[x] = things[x]
       /\ things[x].claimed => things'[x].claimed]_vars

-----------------------------------------------------------------------------
(* The inductive invariant behind these (see OffHeapProofs).               *)

\* A place of a heap holds one stub.
PlacesAreSingle == \A e, f \in stubs : e.heap = f.heap /\ e.id = f.id => e = f

\* Only what was made can be claimed.
ClaimedIsMade == \A x \in Things : things[x].claimed => things[x].state # "unmade"

\* What the roots of a process reach is on its chain.
RootsAreChained == \A p \in Procs : held[p] \cup MailStubs(p) \subseteq StubsOf(p)

Queued(x) == \E p \in Procs : x \in pending[p]

\* Destructors are queued by an exiting process only, each by one process, and
\* never again once run; what is queued or run was freed and not claimed; and
\* the interpreter queues every one.
DtorInv ==
  /\ \A p \in Procs : pending[p] # {} => status[p] \in {"draining", "dtor"}
  /\ \A p, q \in Procs : pending[p] \cap pending[q] # {} => p = q
  /\ \A x \in Handles :
       /\ ran[x] \in {0, 1}
       /\ ran[x] = 1 => ~Queued(x)
       /\ ran[x] = 1 \/ Queued(x) => things[x].state = "freed" /\ ~things[x].claimed
       /\ leg = "interp" /\ ~torn /\ things[x].state = "freed" /\ ~things[x].claimed
            => ran[x] = 1 \/ Queued(x)

\* A runtime that was dropped has no process that can go on, and no stub.
TornInv == torn => stubs = {} /\ \A p \in Procs : status[p] = "exited"

OffHeapInv ==
  /\ TypeOK /\ IsFiniteSet(stubs) /\ PlacesAreSingle /\ ClaimedIsMade /\ RootsAreChained
  /\ CountsAreExact /\ DtorInv /\ TornInv
=============================================================================
