# Verification of the fz runtime and of the compiler's incremental engine

fz is an Elixir-like language: a compiler (`src/compiler2`), three engines that
run its output (an interpreter, a JIT, and a runtime linked into ahead-of-time
compiled programs), and a runtime library (`runtime/`). This directory holds
TLA+ models of the parts of it where the order of steps matters, the TLC
configurations that check them on small instances, and TLAPS proofs of their
main safety properties for every instance.

Paths below are relative to the repository root.

## 1. The system

| Part | State | Operations | What is hard about it |
|---|---|---|---|
| Process table and selective receive (`runtime/src/{process,park,timer,sched,ir_runtime}.rs`) | per process: state, runnable closure, park record, mailbox; the timer wheel | spawn, send, park, yield, exit; sender probe, initial scan, timer fire | three ways to end one receive race each other |
| JIT scheduler (`src/exec/runtime.rs`, `src/ir_codegen/compiled.rs`) | registry, run queue | `send_via`, `run_until_idle`, timer drain | a process can be queued twice; the loop infers what a quantum did from what it left behind |
| AOT scheduler (`runtime/src/aot_shim.rs`) | the same, thread-local | `aot_send_hook`, `dispatch_quantum`, `aot_run_queue_loop` | the loop sleeps while timers are pending |
| Interpreter scheduler (`src/ir_interp/{mod,backend}.rs`) | resume table, park table, run queue | `drive_backend_until_idle`, `send_ref`, the receive tail | a queued pid without a resume entry is a panic; an error ends the drive |
| Fact engine (`src/compiler2/{scheduler,facts,deps,agenda,drive}.rs`) | agenda, fact slots, dependency index, finality counts | completion of a job, two finality waves, drain arbitration, external movements | cyclic derivations; counts kept edge by edge; answers of one run that depend on each other |
| Product sessions (`src/compiler2/{pull,product_drive}.rs`) | memo of answers, waiting formulas, reverse indexes, marks; requests, inbox, wait stack | pull, commit, waves, reconciliation, change delivery, drives, retirement | incremental answers over a graph with cycles; a change exists before the work graph hears of it; facts move while a drive waits |
| World, front door, jobs (`src/compiler2/{world,frontdoor}.rs`, `jobs/`) | stores of modules, functions, types | submit code or a root; many kinds of job | sequential; the graph sees their reads, claims and waits |
| Parser, quoted source, macros | none | text to syntax | pure |
| Dispatch matrix (`src/dispatch_matrix`) and its walk (`src/ir_interp/{dispatch_exec,backend}.rs`) | a decision graph with the demand on each input; per run, one slot per subject and a journal | clauses to questions to a graph; tests, guards, outcomes | clauses share tests, parts are read lazily and forgotten on a miss, and inputs may be left out |
| Types, call-site dispatch, transport planning | interned types | decision procedures | pure algorithms |
| Native code generation, linking | none | emit code | generated code, I/O |
| Heap sizes (`runtime/src/heap/{imp,block_pool}.rs`) | current and abandoned blocks, fragments, threshold, pressure flag | allocate, collect at a boundary | the to-space is sized before the survivors are known |
| Off-heap binaries and resources (`procbin.rs`, `resource.rs`) | reference counts, stub chains, pending destructors | make, copy, claim, sweep, drop, destroy | counts are kept stub by stub; a destructor body is program code that runs after exit |
| Lists (`runtime/src/heap`, `any_value.rs`, `src/compiler2/jobs/body.rs`) | cons cells with an alias bit | construct, reuse in place, share, copy, collect | immutable values over cells that are rewritten; the compiler and the runtime each see half of it |
| Telemetry, diagnostics, command line | handlers | events, rendering | I/O |

The engines share `sched.rs`; compiled code calls into `ir_runtime.rs`, which
reaches the scheduler of the engine through hooks (`exec_ctx.rs`). There is one
worker thread in each engine. The only things that interleave are the processes'
quanta, the turns of the run loop between them, and the clock. The compiler's
work graph is driven by one thread too; what varies is the order of jobs and
what each of them finds.

## 2. Modules

| Module | Models | Lines of its code |
|---|---|---|
| `SelectiveReceive` | the abstract promise: an inbox in arrival order, a receive takes an accepted message, `after` ends a receive that took nothing; `Strict` adds "the oldest one, and `after` only if there is none" | `guides/processes.html` (an abstract specification) |
| `ProcSched` | what JIT and AOT share | `sched.rs`, `timer.rs`, `park.rs`, `process.rs`, `ir_runtime.rs` |
| `JitRuntime` | send hook and loop of the JIT | `src/exec/runtime.rs`, `compiled.rs` |
| `AotRuntime` | send hook and loop of the AOT shim | `aot_shim.rs` |
| `InterpRuntime` | the interpreter's scheduler | `src/ir_interp/backend.rs`, `mod.rs` |
| `Mailboxes` | taking a message out of the middle of a mailbox; what it means that messages are delivered once and in order | `Vec::remove` in `backend.rs`, `sched.rs` |
| `ProcSchedRefinement`, `JitRefinement`, `AotRefinement`, `InterpRefinement` | the mapping to `SelectiveReceive` (`AbsLife`, `AbsWant`), and the engines as its implementations | |
| `FactEngine`, `MCFactEngine` | the work graph; its instances | `src/compiler2/scheduler.rs` and its tables |
| `ProductMemo` | the memo of one root as operators: reads, waves, reconciliation, validation, recursive groups, commit, `pull` | `src/compiler2/pull.rs`, `jobs/artifact.rs` |
| `ProductSessions`, `MCProductSessions` | the session around the memo, its drives, and the work graph as its environment; the instance | `pull.rs`, `product_drive.rs`, `drive.rs`, `agenda.rs` |
| `HeapSizing`, `MCHeapSizing` | the sizes of one heap | `heap/imp.rs`, `heap/block_pool.rs`, `process.rs` |
| `OffHeap`, `MCOffHeap` | off-heap objects of all heaps under the three schedulers | `procbin.rs`, `resource.rs`, `heap/deep_copy.rs`, the exit paths of the schedulers |
| `ListOwnership`, `MCListOwnership` | one process's lists: what the compiler permits and the runtime does | `jobs/body.rs`, `heap/imp.rs`, `heap/gc/*.rs`, `heap/deep_copy.rs` |
| `DispatchMatrix` | clauses to a dispatch plan, as operators: questions, pins, the graph, the demand | `dispatch_matrix/{mod,pattern,demand}.rs`, `pattern/source.rs` |
| `DispatchRun`, `MCDispatch` | the walk of a plan, its doors, and what a match means without a plan; four sites with their pools of clauses | `ir_interp/{dispatch_exec,backend}.rs` |
| `MailboxesProofs`, `ProcSchedProofs`, `ProcSchedRefinementProofs`, `JitRuntimeProofs`, `AotRuntimeProofs`, `InterpRuntimeProofs`, `HeapSizingProofs`, `OffHeapProofs` | the proofs | |

A definition whose comment begins with "Mutant:" is not part of any specification.
It is the definition that follows it with a plausible bug in it, and one of the
properties is known to fail with it.

### State and actions of the compiled engines

`state`, `runnable`, `wait` and `mailbox` are the fields of `Process`; `runq`,
`nextPid` and the registry (a pid is in it when its state is not `"Unborn"`)
belong to the scheduler; `timers`, `nextTimer` to the wheel. `runnable` keeps of
the closure only what resuming it does. `wait` keeps the set of tags the
receive's matcher accepts, and its timer. A message is an identity, the number
of its send, and a tag, what patterns can tell apart. `log` and `exits` are
histories that no guard reads.

`pc` says where the loop is: about to drain the wheel (`drain`), applying the
drained timers one by one and then popping the queue (`fire`), inside a quantum
(`run`), or returned (`idle`). Within a quantum each call of the running process
into the runtime is one action: `SpawnClosure`, `Send`, and the ones that end
it, `YieldMidFlight`, `ParkForever`, `ParkAfter`, `Exit`, each of which includes
what the loop does with the process afterwards (requeue, block, retire). The
dispatch of a popped process has one action for each thing the code can find:
a scan that hits or misses, a closure to resume, nothing at all, or a parked
process with no mail, which the two loops treat differently (`DispatchOther`
requeues it, `DispatchLeft` leaves it Running out of the queue).

`Tick` lets the clock advance between any two steps, so a timer can expire
before, between or after any of them.

### State and actions of the interpreter

`resume` and `parked` are the tables `backend_resume` and `backend_parked`. A
receive scans the mailbox inside its quantum and suspends only on no match.
`Fail` is the `?` of the drive loop: an error of any process ends it.
`keepalive` is the mode in which a macro run keeps process 1.

### State and actions of the fact engine

One record `eng` holds the tables, because one call of the engine works on all
of them in turn, and later steps of a call read what earlier ones wrote. The
inverse indexes of `deps.rs` are computed. A revision is kept as bottom or
content. `RunNext` pops a job and completes it with any derivation that
`MayRead`, `MayClaim` and `MayWait` allow: `Complete` follows
`complete_ordered_with_external` step by step, through the noting of each
answer, publication, the marking of the answers a blocked run did not reach and
the retraction of those a finished run did not give again, the two finality
waves and the dispatch of changes. `RunFails` is the job that ends in an error: it
has left the queue, and what it derived before stands. `SettleWaits` is the drain, `DemandBlockedWaits`
its demand for producers, `ExternalChanges` the delivery of product movements.

### State and actions of product sessions

A product is a numbered key with a kind; `Inputs`, `Callees`, `Uses` and
`Refused` say what its producer reads, from the content of its facts, and which
values make it fail. `memo` is the record `ProductMemo`: `produced`, `displaced`
and `pending` entries with their generations and observations, the reverse
indexes `readers` and `freaders`, the marks `dirty` and `stale`, and the changes
recorded for the work graph. Every function of `pull.rs` that changes the memo is
an operator from memo to memo; `Pull` strings them together as
`ProductDriver::pull` does.

`ProductSessions` adds `delayed` (`pending_fact_states`), `inbox` (the movements
of an active root), the agenda with its `requested` set, `parked` requests, the
`drive` with its wait stack, and, on the side of the work graph, which products
jobs consume and what it was last `told`. `Turn` is one turn of the loop of
`drive_root_product_with`: drain, reconcile, pull, sync subscriptions, deliver
changes, select the next product. `FactCheck`, `Park` and `FactFails` are the
wait for facts. `FrontDoor` is an outside request: the root is active from then on,
the jobs that are due run before the drive (`Reconciled`) and after it (`Leave`).
Wherever jobs run (`JobsRun`: between drives, before and after the drive of an
outside request, and while a drive waits for facts), facts move (`FactMoves`) and
jobs start and stop consuming products (`Consume`, `Drop`). `Retire` throws the
memo away.

### State and actions of the heap modules

`HeapSizing` keeps bytes: the bump offset and class of the block, the abandoned
blocks, fragments, the threshold, the survivors of the last collection and the
flag. `Alloc` has the three paths of `alloc_kind`. `Boundary` collects with any
number of surviving bytes and follows the bands of `gc_with_extra_roots`.
`exhausted` records the assertion of `copy_object_to_space`.

`OffHeap` keeps one set `stubs` of records, the stubs of all MSO chains, each with
the heap it is on, its place there and the object it refers to; `Chain(p)` is the
chain of one heap. `held` and `mailbox` say which stubs the values and the unread
messages of a process reach. Copies make stubs of their own, at free places of the
receiving heap. A collection keeps
what is reached and releases the rest; where and whether a scheduler collects
differs by `leg`. `Exit` drops the chain and queues destructors; `NextDtor` runs
one, and its body may do what a program does except receive and yield.

`ListOwnership` runs an arbitrary program: every step is a split, a construction,
a construction that retains the cell its head came from, a call, a return, a
send or a yield, of the body on top of the stack. A value carries what the
compiler's origin tables know of it; permission to rewrite (`CanRewrite`) and
sharing at calls and returns (`SharedArgs`, `SharedFields`) are computed from
that alone, as in `body.rs`. The cells are rewritten by the runtime's rule
(`ReuseOrAlloc`). A history field holds the term each value stood for.

### State and actions of dispatch

`AddRow` and `Finish` are the producer of a plan: any sequence of clauses from
the pool of a site, compiled by `Plan`. A subject is the path from an input to
a part of it; the numbers and tables of the producer stand for the same identity.
`Plan` has the nodes of the graph in the order in which they are added,
the guards, the bindings of each row, the names it reaches for (`pins`), and what
it asks of each input.

`Enter` is `select_clause` at an entry, where any input may be missing or come
in lanes, with or without the positions that the plan does not demand, and captured
names are inputs, or the `Dispatch` tail of an interpreted
body, where every input is a word and pins are looked up in scope. `VisitTest`,
`VisitOutcome` and `VisitFail` are one call of `node` each. `run` is
`DispatchExecState`: the slots that are filled, and the journal of the writes.
`AndThen` is the `?` of the code; a step that ends in `no_match` fails the test it
belongs to, one that is `broken` ends the run with an error. A helper that a guard
calls is a whole walk within one test (`Walk`).

`RefMatch`, `RefRow` and `RefGuard` say what a clause means in terms of values
alone; a bitstring, for one, matches if it can be cut into pieces of the right
lengths.

## 3. What the runs check

Passing runs (deadlock is checked in all of them but `lists`, where a program of
bounded length simply ends, and `dispatch`, where a function that pins an unbound
name is refused; the models of the schedulers stutter explicitly once
their loop has returned, and `products` can always retire its root or be
requested again):

| Run | Instance | Shows |
|---|---|---|
| `jit` | 2 processes, 2 tags, matchers `{a}` and `{a,b}`, delays 0 and 1, 2 sends, 2 timers | the JIT's table, queue and wheel stay consistent; every step is one of `SelectiveReceive` with `Strict = FALSE`; a ready process gets its turn |
| `aot` | the same | the AOT loop returns only when nothing is left to wait for, no process sleeps on a message it accepts, every receive with an `after` returns, every ready process runs; its refinement of `SelectiveReceive` is proved |
| `interp` | 3 processes, 2 sends, 1 zero timeout | the driver's `.expect`s hold, no process completes twice, and every step is one of `SelectiveReceive` with `Strict = TRUE` |
| `facts` | two programs: two jobs that read each other's facts, with a third that waits for one to settle and claims a fact with the other; a job with two answers over a product, with a job waiting on them. One job of each may fail | counts never drift; the drain certifies exactly the cycles that can be final; kept, withdrawn and retracted answers leave the two halves of finality, the waiters and the readers in agreement |
| `sizing` | the first 4 classes of `SIZE_TABLE` in units of 256 bytes, objects of 1, 3, 8 and (oversize) 17 units, a scheduler that lowers the flag | to-space always holds the survivors, every collection makes room |
| `offheap` | 2 processes, 2 objects out of two resources and a binary, 2 stubs per heap, 1 message per mailbox, the three engines | counts, reachability and destructors through every interleaving of copies, collections, exits and teardown |
| `lists` | a two-element list over two atoms, 4 cells, 3 counted steps, two bodies | lists are immutable although cells are rewritten in place |
| `products` | two mutually recursive functions with their local and effect products, a program and a native program, two facts, 3 movements, one product that jobs consume | incremental answers are those of a compilation from nothing, and the work graph is told the truth about them |
| `dispatch` | up to 3 clauses out of 5 to 9, at an entry with one capture and at three match sites; 8 to 16 calls each | the graph decides like the clauses read in order, and asks for what it reads |

The properties, by what they guard:

- `ReadyIsQueued`, `ResumeIsQueued`: no process is forgotten, none has a place
  in the queue without something to do there (interpreter).
- `NoMissedMatch`: a process off the queue is finished, or sleeps on a receive
  that accepts nothing in its mailbox. It relates the decision of `park` to
  every later probe, miss and scan.
- `TimersMatchParks`: the wheel and the park records are in bijection. A timer
  never ends a receive other than its own, and a cancelled one never lingers.
- `IdleMeansSettled`: what the loop's return means.
- `RefinesSelectiveReceive`: no message is lost, duplicated, reordered in a
  mailbox, or taken by a receive that does not accept it.
- `ReadyRuns`, `AfterReturns`: progress. In the interpreter an error ends the drive
  and the other processes with it; `ReadyRuns` does not speak of what comes after.
- `CountsAreExact`, `FinalityAgrees`: the incremental bookkeeping of finality
  equals a recount, in both places that hold it.
- `SettledIsFinal`: settled means final at every depth below the fact: no claim
  beneath it is dirty and no product beneath it unsettled. A job that the front door
  starts again without anything having moved is not counted as a reason to move.
- `NoSleepingWaiter`, `DirtyRunsAgain`, `MovedReadersRun`: whoever has to run
  again is queued, by the end of the step that made it so. A job whose run failed is
  exempt from the first two until something queues it again.
- `DrainAnswers`: a drain that wakes nobody has answered every question that
  can be answered.

- `FitsWithoutFragments`, `GcMakesRoom`: the sizing bands against the sizes they
  cannot know. A fragment raises the
  flag without counting in the sizing, hence the exception for heaps that have one.
- `CountsAreExact` (of `OffHeap`): a reference count equals the stubs of all
  heaps. `ReachedIsAlive`: no value or unread message reaches a released stub.
  `DtorAtMostOnce`, `InterpDtorFires`: destructors run for the right resources.
- `ValuesNeverChange`: a value still in use stands for the term it stood for when
  it was bound. `SharedSpinesAreClosed`: behind a marked cell every cell is
  marked, which is what lets sharing stop early.
- `SettledIsFromScratch`: a product the session calls settled has the value a
  compilation from nothing gives for the facts as they are, unless the session was
  handed a state that its fact had left (run `products_late`). `SettledOnSettled`:
  and so have its inputs. `ServedIsCurrent`: and a drive hands out no other.
- `ReadersAreExact`: the reverse indexes are the transpose of the recorded reads.
- `ToldIsTrue`, `DemandIsQueued`: the two obligations of a session to the work
  graph. The first is claimed of one observed product, which is what a root has
  today: the only job that reads a product is the expander's
  (`quoted_expander.rs`), and it reads the root's program. The table of
  counterexamples has the case of two.
- `NeverPanics`, `WithinBudget`: the `expect`s and the assertion of group staging and
  the turn budget of a drive are never hit. `WithinBudget` is how the end of a drive is
  stated: a bound on its turns rather than a liveness property.
- `DecidesFirstMatch`: the walk takes the first clause that accepts the arguments
  and binds its names rightly, however prefixes are shared and whatever form the
  arguments come in; what was left out, arguments or positions of a tuple in lanes,
  is not read and does not matter to the answer.
- `ProjectedBeforeRead`: on every path of the graph a part is read only after a
  test proved that it is there. The interpreter could produce most parts again,
  but not a bitstring field, and compiled code takes the graph at its word.
- `DemandedPartsDecide`: calls that agree on the demanded parts of their inputs
  go to the same clause. Callers use the demand to leave inputs out.

`TypeOK` of a module documents its variables. For the three engines, the heap
sizes and the off-heap objects it is proved; it also holds in the instances when it is added to
their configuration, as do `OnePrimary` in `jit`, `ReadyIsQueued`,
`TimersMatchParks` and `RefinesSelectiveReceive` in `aot`, `NeverShrinks` in
`sizing`, and `ReleasedForGood` and the inductive invariants `InterpInv` and
`OffHeapInv` in `interp` and `offheap`, which section 4 proves for every instance.

### Bounds

Two processes are enough for every race of one receive: a receiver, and one
process that sends while the receiver is parked, queued for its scan, or
running. The loop and the clock are the other actors. Two sends give a mailbox
an accepted and a rejected message in either order; two timers let a stale one
meet a later receive; a clock that goes from 0 to 1 with delays 0 and 1 has
timers that are due at once, due later and due together. `ParkAfter` is bounded
by `now + delay <= MaxNow` so that every timer can become due. The interpreter
has no timers and gets a third process. The proofs remove these bounds for the
safety invariants.

The instances of the fact engine are the smallest with a cycle (two jobs and an
observer that waits), and with an answer that a run may or may not reach over an
external product. They are two programs of one run: the front door is given the
jobs of one or of the other (`Programs`). A program with both exceeds what TLC
enumerates in minutes. One job of each program may fail (`Fallible`), in the cycle
the second; the run also passes with every job fallible, in four minutes.
`RunNext` lets a run reach at most one answer besides its own.

The instance of `offheap` makes two objects (`MaxMade`), two resources or a
resource and a binary, with two stubs on a heap, so that a heap can hold the last
two references to one object. The two resources are symmetric. `lists` needs three counted steps: share or
call, rewrite, and observe; splits and yields are not counted. `products` has
the smallest recursive group with a reader above it and a fact below each
member. Three movements let a fact move, move back, and move while a drive waits.
One request is parked at a time (`MaxParked`); with two the run passes as well.
The instances are near the size that TLC enumerates in a minute or two.

Three clauses are what a shared prefix needs to go wrong: two that share, and one
before, between or after them. The pools have every kind of pattern, clauses that
begin with the same question and part later, the same clause twice, guards that
read bindings, pins and helpers, sizes from an earlier field and from a pin, and
a clause that asks nothing, after which the others are dead. Names are not bound
twice in a clause and keys are not repeated in a map pattern.

### What the models leave out

- `ProcSched`, `OffHeap`: a destructor body that receives or yields. It runs after
  its process was marked Exited, and the wait or the closure it leaves makes the
  process runnable again (`src/exec/runtime.rs:433-469`, `aot_shim.rs:760`). What is
  said of retired processes is said of programs without such bodies.
- `OffHeap`: destructor closures capture no handle; queued destructors run in any
  order; whether a heap is under pressure is free. Counters such as
  `quiet_quanta`, which nothing reads, are left out.
- `ListOwnership`: no joins, closures, structs or maps; tuples only as the lanes of a
  return, so the half of `construct_tuple_ownership` about the old owner of a field
  (`body.rs:4385-4393`) is left out; a head that was read is
  used again only as a head; of the values that could forbid a rewrite either all
  or none are used later; only the first body sends.
- `ProductSessions`: one root; an outside request does not overtake the jobs that a
  retirement reopened (`Overtakes = FALSE`); no fact that a root reads moves because
  a job hears of that root's product within the same turn (`drive.rs:128-141`),
  which assumes that no job derives such a fact from the program of the root that
  reads it; the timeout of a request; the wait frames of `pull/rooted.rs` and the
  budget of the fact wait are left out. `reject_group` is modelled, but no behaviour
  of the instance reaches it.
- `HeapSizing`: sizes are already rounded to 16 bytes; the pool always has a block.
- `Dispatch*`: fields of bitstrings are whole bytes; of the operators of a guard
  there are `and`, `or`, `not`, `==` and `+`, on integers without a limit; a type is
  the set of its values; prepared map keys are values like any other; a function
  without inputs, whose guard rides a subject of its own, is left out.

### Fairness

`WF_vars(Step)`: the loop is one thread that goes on while it has something to
do. It makes the quanta finite too, since `Step` includes the calls within one.
Compiled loops count reductions and yield; a quantum with sends only is bounded
by `MaxSends`. `WF_vars(Tick)`: time passes. The interpreter has no yield inside
a quantum, so `ReadyRuns` there is about programs whose quanta end. The other
models are checked for safety only.

### Where the code departs from its documentation

Runs in which TLC finds the counterexample:

| Run | What happens |
|---|---|
| `jit_order` | A process parks with mail it rejects or has not looked at, and is queued for its scan. Before the scan `probe_sender` hands it a newer message, although an older one in the mailbox matches. |
| `products_late` | While the drive of an outside request waits for facts and no product of its root is observed, a movement goes to the inbox (`pull.rs:1813`); a job then starts to consume a product, and the next movement of the same fact goes to the session directly. The drive drains the inbox afterwards and reinstates the older state, although `.agent/docs/fact-engine.md:955` says that repeated movements "coalesce to the final `FactState` before the next pull". `SettledIsFromScratch` without its exception for such states fails: an outdated answer is called settled. |
| `dtor_fires` | A resource that dies while its process lives is released by the sweep, with the empty C destructor of `fz_make_resource`; its closure never runs. So does one that is held to the end by a process that halts under pressure: `park_time_gc` collects with nothing to root before the exit is seen. |

Counterexamples without a run of their own. Each is found by TLC within seconds
from the configuration named, with the change named:

| From | Change | What happens |
|---|---|---|
| `JitOrder.cfg` | check `AfterOnlyOnNoMatch` | The loop drains timers before it pops the queue, so `after 0` runs although a matching message was in the mailbox when the receive began. |
| `JitOrder.cfg` | check `ExitsOnce` | A process queued twice is retired twice. |
| `Jit.cfg`, module `JitRuntime` | check `ReturnsWhenQuiescent` | A process that is queued twice and has parked again with an empty mailbox by its second turn is requeued as a cooperative yield, forever. |
| `Jit.cfg`, module `JitRuntime` | check `AfterReturns` | `run_until_idle` returns with timers pending. |
| `Facts.cfg` | the definitions `SiblingRunOf` (also as `Producer`), `SiblingRead`, `SiblingClaim`, `SiblingWait`; jobs 1, 2, answers and facts 1, 2, 3, one program of both jobs; nothing cumulative or fallible; check `FinalityAgrees` | A completion notes per answer whether it is unfinal, and publishes after all answers were noted. An answer that turns unfinal can raise the count of another answer of the same run, through another job, after that one's note was taken; the other one's fact is published as settled. That a job of today's compiler completes this way was not established: the interface of the engine allows it. |
| `Sizing.cfg` | `Leg = "aot"`, check `ToSpaceFits` | The AOT boundary never lowers the flag. A later collection starts without pressure, is sized from the last survivors, and the live data does not fit. |
| `Products.cfg` | `Overtakes = TRUE` | An outside request that reaches a retired root before the jobs which its retirement reopened drives it unobserved: `DemandIsQueued` fails, as the product stays requested without being queued, until such a job runs. The other properties hold. |
| `Products.cfg` | `Observable = {1, 5}` | A product that is reproduced while it is observed reports a change relative to a state that its preparation had already altered: `ToldIsTrue` fails. No job of today's compiler consumes a product other than a root's program. |
| `Dispatch.cfg` | check that no call with every required input is answered `refused` | A clause after one that asks nothing is dead and charges nothing, but the name it pins is fetched for every run: a call that leaves the captured input out is refused, although the comment on `refuse_omitted_required_inputs` says that a caller is free to omit any input the plan does not read. |

`jit_order` and the first of these are why the JIT and AOT engines are shown to implement
`SelectiveReceive` only with `Strict = FALSE`; the AOT engine shares the code at
fault. The interpreter implements it with `Strict = TRUE`.

## 4. What is proved

### The compiled engines

For every number of processes, messages, timers and clock values, and any tags,
matchers and delays (`BoundsAssumption`, `NoWaitAssumption` in `ProcSched`):

| Theorem (JIT / AOT) | Statement |
|---|---|
| `JitTypeOK`, `AotTypeOK` | `Spec => []TypeOK` |
| `JitReadyIsQueued`, `AotReadyIsQueued` | `Spec => []ReadyIsQueued` |
| `JitNoMissedMatch`, `AotNoMissedMatch` | `Spec => []NoMissedMatch` |
| `JitTimersMatchParks`, `AotTimersMatchParks` | `Spec => []TimersMatchParks` |
| `JitIdleMeansSettled`, `AotIdleMeansSettled` | `Spec => []IdleMeansSettled` |
| `JitRefinesSelectiveReceive`, `AotRefinesSelectiveReceive` | `Spec => RefinesSelectiveReceive` |
| `JitDeliveredOnce`, `AotDeliveredOnce` | `Spec => []DeliveredOnce` |
| `JitNothingLost`, `AotNothingLost` | `Spec => NothingLost` |

The theorems on the engines rest on one inductive invariant, `CoreInv` (`JitCoreInv`, `AotCoreInv`).
None of the properties is inductive alone:

- `NoMissedMatch` speaks of a process off the queue; when its last queue entry
  is popped, what it leaves behind must already be known. `SleepInv` says it by
  state: a process that is Blocked, or Running outside its quantum (the AOT
  loop leaves such ones), is parked, has nothing to resume and rejects its mail.
  With `ReadyIsQueued` for the other states, `NoMissedMatch` follows.
- `TimersMatchParks` survives a fired timer only because identities are unique
  and never reused: `TimerIdInv`.
- A call of the running process must not find it parked: `CurInv` and
  `OnePrimary`. `PhaseInv` ties `cur` to the loop's position and says that
  drained timers exist only while they are applied, so a probe never races one.
- A spawn must not hit a pid in use: `MintInv`.

`MailboxesProofs` has the facts on sequences; `ProcSchedProofs` has the lemmas on
the queue and one lemma per action of the loop and of the quantum;
`ProcSchedRefinementProofs` begins with those of the dispatch branches and of the
three outcomes of a send. Each shows that its
action preserves `CoreInv`, conjunct by conjunct where the action disturbs it.
The two engine modules add what differs and combine the lemmas. The idle
theorems strengthen `CoreInv` by what holds once the loop has returned.

The refinement needs one fact more, `LifeInv`: every minted pid is registered,
and a retired process has neither a closure to resume nor a receive to satisfy.
Without it a stale queue entry or a late timer could revive a process that the
abstract specification has buried. `ProcSchedRefinementProofs` maps each outcome
to the abstract step it stands for (`AbsSpawn`, `AbsExit`, `AbsPark`, `AbsTake`,
`AbsTimeOut`, `AbsSend`, `AbsHandOff`; anything else is a stutter) and carries
`LifeInv` along; the second half of `JitRuntimeProofs` and of `AotRuntimeProofs`
adds the send hook and the dispatch of each engine. The second half of `NoWaitAssumption` keeps "not
in a receive" apart from every receive the mapping can show.

`DeliveredOnce` says that mailboxes are in the order of the sends and that a message
is in one place at most: in one mailbox, or once in one history. `NothingLost` says
that a message that reached a process leaves its mailbox only by being received.
Both follow from the refinement. `DeliversStep` takes the actions of
`SelectiveReceive` one by one: `DeliveredSend`, `DeliveredHandOff`, `DeliveredTake`,
`DeliveredTimeOut` and `DeliveredDrop` of `MailboxesProofs` say what each does to a
mailbox and a history. The invariant they carry is that everything seen so far is
numbered `1..sent` and belongs to one process, so that the number of the next send is
new everywhere. TLC checks both properties on the instances of the runs `jit`, `aot`
and `interp` when they are added to their configurations. What an exited process
never received stays in its mailbox in the model; the code frees it with the heap.

### The interpreter

For any number of processes and messages and any matchers (`InterpAssumption`,
`NoParkAssumption` in `InterpRuntime`):

| Theorem | Statement |
|---|---|
| `InterpResumeIsQueued` | `Spec => []ResumeIsQueued` |
| `InterpNoMissedMatch` | `Spec => []NoMissedMatch` |
| `InterpCompletesOnce` | `Spec => []CompletesOnce` |
| `InterpRefinesSelectiveReceive` | `Spec => RefinesSelectiveReceive`, with `Strict = TRUE` |
| `InterpDeliveredOnce` | `Spec => []DeliveredOnce` |
| `InterpNothingLost` | `Spec => NothingLost` |

Their invariant is `InterpInv` (theorem `InterpInvariant`). `MintInv` keeps a spawn
off pids in use. `RunInv` says that a process with a resume entry is ready and the
one in its quantum is marked running, so neither is taken for a suspended one by a
send. `CompletedInv` says that a completed process is neither queued nor suspended,
also when it is kept alive and still gets mail; without it a send could resume it and
it would complete again. In the refinement every action is one abstract step: a
receive inside a quantum scans from the oldest message, so what it takes is the
first accepted one, and a send that finds a suspended receiver finds one whose mailbox
has nothing it accepts (`NoMissedMatch`), so handing over the new message skips none.
The two delivery theorems follow from the refinement as they do for the compiled
engines, from the same lemmas of `MailboxesProofs`.

### Heap sizes

For every table of strictly growing size classes and every set of object sizes
(`SizeTableAssumption`, `BoundsAssumption` in `HeapSizing`), and a scheduler that
lowers the flag:

| Theorem | Statement |
|---|---|
| `JitCollectionFits` | `Spec => [](TypeOK /\ FitsWithoutFragments /\ FlagIsEarned)` |
| `JitNeverShrinks` | `Spec => NeverShrinks` |
| `JitGcMakesRoom` | `Spec => GcMakesRoom` |

Their invariant `SizeInv` says that the objects lie within the bytes the blocks
occupy, and that the flag is up only while the heap holds the threshold. The
latter (`FlagIsEarned`) is what the AOT boundary breaks; it makes a collection
without fragments take the GROW band, which doubles the footprint and so holds
every survivor.

### Off-heap objects

For every set of processes, resources and binaries, any engine, and any bounds on
stubs, messages and objects made (`OffHeapAssumption`: the first process is one of
them, and the places of a heap are numbered):

| Theorem | Statement |
|---|---|
| `OffHeapCountsAreExact` | `Spec => []CountsAreExact` |
| `OffHeapReachedIsAlive` | `Spec => []ReachedIsAlive` |
| `OffHeapDtorAtMostOnce` | `Spec => []DtorAtMostOnce` |
| `OffHeapInterpDtorFires` | `Spec => []InterpDtorFires` |
| `OffHeapReleasedForGood` | `Spec => ReleasedForGood`, an action property |
| `OffHeapTornIsReleased` | after the teardown no object is live |

Their invariant is `OffHeapInv` (theorem `OffHeapInvariant`). Why each part is needed:

- A count can be compared with a number of stubs only while the stubs are finitely
  many and a copy adds exactly as many as it retains. `PlacesAreSingle` says that a
  place holds one stub, so the copies of a send are new ones.
- `ReachedIsAlive` is about objects; what the steps preserve is that the roots of a
  process are on its own chain (`RootsAreChained`). With exact counts, an object that
  a chained stub refers to is live. A collection keeps what is rooted, and the
  stubs that another heap drops are not on this chain.
- `DtorInv` relates the pending lists to each other and to the objects. A queued
  destructor belongs to one process, which is exiting; its object is freed and
  unclaimed and stays so; a destructor that was run is not queued again. The exit
  of a process can queue no handle that is already due, because a freed object has
  no stub.
- The interpreter never sweeps a live heap, so the exit of a process is the only
  step that frees an object before the teardown, and it queues the destructor.
- `TornInv`: nothing runs after the teardown, so no object is made again.

`OffHeapProofs` first treats the store, the stubs and the counts, alone: stubs are
added with a reference each (`StoreGrows`, `CopyStep`, `MakeStep`), or dropped with
theirs (`StoreShrinks`). Every action is then one of these with a change of roots
(`RootsMove`, `RootsSurvive`), and `Assembled` puts the parts together for those that
leave the destructors alone. `Lasting`, proved beside the invariant for each action,
is `ReleasedForGood` for one step.

### What is only model-checked

- Liveness (`ReadyRuns`, `AfterReturns`): the prover has no `ENABLED`.
- The fact engine, the product memo and its sessions, the lists, and the dispatch
  plans: their waves, walks, copies and patterns are recursive operators over data,
  and what such an operator computes for every input needs an induction that the
  installed provers cannot do.

## 5. What is not modelled

- The layout of objects other than lists, and with it the tracing of maps,
  structs, closures and bitstrings; the free lists of the block pool.
- The values a park record pins for its matcher, which collection at park time
  does not root: what codegen pins is not modelled.
- Reduction and allocation counters: a quantum may end at any call.
- A second `run_until_idle` on the same runtime.
- Evaluation, compilation jobs, types, call-site dispatch, code generation (that
  of dispatch graphs included), parsing and rendering: sequential computation on data. `PROJECT.json` has the
  reason for each part.
- Product sessions of several roots, the wait frames of `pull/rooted.rs`, and the
  composition of `ProductSessions` with `FactEngine`: each models the other as an
  environment that may do anything the interface allows.
- A positive timeout of an interpreted receive, which no code looks at again, and
  starvation inside an interpreted quantum, which has no yield.

## 6. Plan

1. Drive (`drive.rs`): `drive_until` with its questions, barriers and stalls, and
   the composition of `FactEngine` with `ProductSessions`.
2. Rooted reads and the cancellation of wait frames (`pull/rooted.rs`); two roots.
3. Reductions: budget arithmetic and yield reports.
4. Dispatch: the native lowering of a graph, the exhaustiveness warning, and what
   call-site dispatch removes from a plan.
5. Telemetry bus: registration and removal of handlers during dispatch.
6. Proofs: the parts of the fact engine and of the list model that can be stated
   without recursive operators.
